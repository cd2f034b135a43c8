-------------------------------- MODULE Muninn --------------------------------
(***************************************************************************)
(* The receiver firmware (firmware/muninn/main/main.c): the callback that  *)
(* the Wi-Fi driver calls for a frame of Huginn, the task that sends what  *)
(* it captured to Geri, the task that waits for Geri's ACKs, the watchdog  *)
(* that replaces the socket when ACKs stay out, and the Wi-Fi events.  The *)
(* tasks share variables without a lock and run on two cores.              *)
(*                                                                         *)
(* The state of the ACK clock is kept as ages in units of time, Never for  *)
(* a stamp of 0.  A restart of the board sets everything back.             *)
(***************************************************************************)
EXTENDS Naturals

CONSTANTS
  Pool,             \* CSI_QUEUE_LEN, buffers and queue slots alike
  Sockets,          \* numbers of the sockets of the network stack
  MaxRetry,         \* WIFI_MAX_RETRY
  AckTimeout,       \* RECEIVER_WATCHDOG_ACK_TIMEOUT_S
  CsiGrace,         \* RECEIVER_WATCHDOG_CSI_GRACE_S
  Never,
  NoSocket          \* s_sock is -1

ASSUME MuninnAssumption ==
  /\ Pool \in Nat \ {0} /\ Sockets \subseteq Nat /\ Sockets # {}
  /\ MaxRetry \in Nat /\ AckTimeout \in Nat /\ CsiGrace \in Nat
  /\ Never \notin Nat /\ NoSocket \notin Nat

VARIABLES
  phase,            \* boot: app_main has not started the tasks; run
  wifi,             \* connected, connecting, or off: no attempt is under way
  retries,          \* s_retry_count
  cached,           \* the resolver knows the address of Geri
  free, queued,     \* entries in s_csi_free_queue and in s_csi_queue
  sock, open,       \* s_sock, and the sockets that are open
  resetting,        \* s_transport_reset_in_progress
  pc,               \* where the send task and the watchdog are
  mine,             \* their local copies of s_sock
  ackAt, ackSock,   \* the ACK task: where it is, and its copy of s_sock
  csiAge, unackedAge, ackAge, armed

radio == <<phase, wifi, retries>>
buffers == <<free, queued>>
sockets == <<sock, open, cached>>
tasks == <<resetting, pc, mine>>
ackTask == <<ackAt, ackSock>>
clock == <<unackedAge, ackAge, armed>>
muninnVars == <<radio, buffers, sockets, tasks, ackTask, csiAge, clock>>

Tasks == {"sender", "watchdog"}

MuninnInit ==
  /\ phase = "boot" /\ wifi = "connecting" /\ retries = 0 /\ cached = FALSE
  /\ free = Pool /\ queued = 0
  /\ sock = NoSocket /\ open = {}
  /\ resetting = FALSE
  /\ pc = [t \in Tasks |-> "wait"] /\ mine = [t \in Tasks |-> NoSocket]
  /\ ackAt = "load" /\ ackSock = NoSocket
  /\ csiAge = Never /\ unackedAge = Never /\ ackAge = Never /\ armed = FALSE

\* esp_restart
Restart ==
  /\ phase' = "boot" /\ wifi' = "connecting" /\ retries' = 0 /\ cached' = FALSE
  /\ free' = Pool /\ queued' = 0
  /\ sock' = NoSocket /\ open' = {}
  /\ resetting' = FALSE
  /\ pc' = [t \in Tasks |-> "wait"] /\ mine' = [t \in Tasks |-> NoSocket]
  /\ ackAt' = "load" /\ ackSock' = NoSocket
  /\ csiAge' = Never /\ unackedAge' = Never /\ ackAge' = Never /\ armed' = FALSE

\* clear_ack_watchdog_state
ClearClock == armed' = FALSE /\ ackAge' = Never /\ unackedAge' = Never

-------------------------------------------------------------------------------
(* Wi-Fi, and the start of the board.                                      *)

\* The connection, or an attempt at one, is lost.
LoseWifi ==
  /\ wifi # "off"
  /\ IF retries < MaxRetry THEN wifi' = "connecting" /\ retries' = retries + 1
                           ELSE wifi' = "off" /\ UNCHANGED retries
  /\ ClearClock /\ csiAge' = Never
  /\ UNCHANGED <<phase, buffers, sockets, tasks, ackTask>>

GotIp ==
  /\ wifi = "connecting"
  /\ wifi' = "connected" /\ retries' = 0
  /\ UNCHANGED <<phase, buffers, sockets, tasks, ackTask, csiAge, clock>>

Unused == Sockets \ open
Opened == CHOOSE s \in Unused : \A o \in Unused : s <= o

\* getaddrinfo: answered from the cache of the resolver or by a server.
LookedUp == cached' = (cached \/ wifi = "connected") /\ cached'

\* app_main once the station is connected: socket, lookup, tasks.
StartTasks ==
  /\ phase = "boot" /\ wifi = "connected"
  /\ phase' = "run"
  /\ sock' = Opened /\ open' = {Opened}
  /\ LookedUp
  /\ UNCHANGED <<wifi, retries, buffers, tasks, ackTask, csiAge, clock>>

\* The first connection fails for good, or the lookup does.
GiveUpBoot == phase = "boot" /\ wifi # "connecting" /\ Restart

\* The time to live of the resolver's answer is over.
Forget ==
  /\ cached /\ cached' = FALSE
  /\ UNCHANGED <<radio, buffers, sock, open, tasks, ackTask, csiAge, clock>>

-------------------------------------------------------------------------------
(* Capture and send.                                                       *)

\* csi_callback for a frame of Huginn: without a free entry it is dropped.
Frame ==
  /\ phase = "run"
  /\ csiAge' = 0
  /\ unackedAge' = IF unackedAge = Never THEN 0 ELSE unackedAge
  /\ IF free > 0 THEN free' = free - 1 /\ queued' = queued + 1 ELSE UNCHANGED buffers
  /\ UNCHANGED <<radio, sockets, tasks, ackTask, ackAge, armed>>

Goto(t, where) == pc' = [pc EXCEPT ![t] = where]

\* A local copy of s_sock that is not read again.
Used(t) == mine' = [mine EXCEPT ![t] = NoSocket]

PutBack == free' = free + 1

\* The send task takes an entry.
TakeEntry ==
  /\ pc["sender"] = "wait" /\ queued > 0 /\ sock # NoSocket
  /\ queued' = queued - 1
  /\ Goto("sender", "copy")
  /\ UNCHANGED <<radio, free, sockets, resetting, mine, ackTask, csiAge, clock>>

\* Mutant: the early exit of the loop keeps the entry.
SkipAndKeep ==
  /\ pc["sender"] = "wait" /\ queued > 0 /\ sock = NoSocket
  /\ queued' = queued - 1
  /\ UNCHANGED <<radio, free, sockets, tasks, ackTask, csiAge, clock>>

\* While there is no socket it returns the entry unsent.
SkipEntry ==
  /\ pc["sender"] = "wait" /\ queued > 0 /\ sock = NoSocket
  /\ queued' = queued - 1 /\ PutBack
  /\ UNCHANGED <<radio, sockets, tasks, ackTask, csiAge, clock>>

\* int sock = s_sock
CopySocket ==
  /\ pc["sender"] = "copy"
  /\ mine' = [mine EXCEPT !["sender"] = sock]
  /\ Goto("sender", "send")
  /\ UNCHANGED <<radio, buffers, sockets, resetting, ackTask, csiAge, clock>>

\* sendto.  Geri may answer with an ACK, now or much later: see StampAck.
SendSucceeds ==
  /\ pc["sender"] = "send"
  /\ wifi = "connected" /\ mine["sender"] \in open
  /\ Goto("sender", "wait") /\ Used("sender") /\ PutBack
  /\ UNCHANGED <<radio, queued, sockets, resetting, ackTask, csiAge, clock>>

\* sendto fails, always if there is no network or the socket is closed: the
\* transport is reset, unless another task has replaced the socket.
SendFails ==
  /\ pc["sender"] = "send"
  /\ IF mine["sender"] = sock THEN Goto("sender", "check") /\ UNCHANGED free
                              ELSE Goto("sender", "wait") /\ PutBack
  /\ Used("sender")
  /\ UNCHANGED <<radio, queued, sockets, resetting, ackTask, csiAge, clock>>

\* EINTR.
SendInterrupted ==
  /\ pc["sender"] = "send"
  /\ Goto("sender", "wait") /\ Used("sender") /\ PutBack
  /\ UNCHANGED <<radio, queued, sockets, resetting, ackTask, csiAge, clock>>

-------------------------------------------------------------------------------
(* reset_udp_transport, called by the send task and by the watchdog.       *)

\* The task that called reset_udp_transport goes on.
Return(t) ==
  /\ Goto(t, "wait")
  /\ IF t = "sender" THEN PutBack ELSE UNCHANGED free

\* The check and the setting of the flag are two steps: both tasks may pass.
CheckFlag(t) ==
  /\ pc[t] = "check"
  /\ IF resetting THEN Return(t) ELSE Goto(t, "take") /\ UNCHANGED free
  /\ UNCHANGED <<radio, queued, sockets, resetting, mine, ackTask, csiAge, clock>>

\* The flag is set, the clock cleared, old_sock read.
TakeSocket(t) ==
  /\ pc[t] = "take"
  /\ resetting' = TRUE
  /\ ClearClock
  /\ mine' = [mine EXCEPT ![t] = sock]
  /\ Goto(t, "drop")
  /\ UNCHANGED <<radio, buffers, sockets, ackTask, csiAge>>

DropSocket(t) ==
  /\ pc[t] = "drop"
  /\ sock' = NoSocket
  /\ Goto(t, "close")
  /\ UNCHANGED <<radio, buffers, open, cached, resetting, mine, ackTask,
                 csiAge, clock>>

StopReceiving == ackAt' = "load" /\ ackSock' = NoSocket

\* close(old_sock) wakes the ACK task if it waits on that socket.
CloseSocket(t) ==
  /\ pc[t] = "close"
  /\ open' = open \ {mine[t]}
  /\ IF mine[t] # NoSocket /\ ackSock = mine[t] THEN StopReceiving ELSE UNCHANGED ackTask
  /\ Goto(t, "socket") /\ Used(t)
  /\ UNCHANGED <<radio, buffers, sock, cached, resetting, csiAge, clock>>

\* Mutant: a socket that another task has set meanwhile is kept.
OpenUnlessThere(t) ==
  /\ pc[t] = "socket"
  /\ IF sock = NoSocket /\ Unused # {}
       THEN sock' = Opened /\ open' = open \union {Opened}
       ELSE UNCHANGED <<sock, open>>
  /\ Goto(t, "lookup")
  /\ UNCHANGED <<radio, buffers, cached, resetting, mine, ackTask, csiAge, clock>>

\* s_sock = socket(...); the board restarts if there is none left.
OpenSocket(t) ==
  /\ pc[t] = "socket"
  /\ \/ Unused = {} /\ Restart
     \/ /\ Unused # {}
        /\ sock' = Opened /\ open' = open \union {Opened}
        /\ Goto(t, "lookup")
        /\ UNCHANGED <<radio, buffers, cached, resetting, mine, ackTask,
                       csiAge, clock>>

LookupDone(t) ==
  /\ resetting' = FALSE
  /\ Return(t)
  /\ UNCHANGED <<radio, queued, sock, open, mine, ackTask, csiAge, clock>>

\* Mutant: a lookup that fails leaves the address as it was.
LookupOrNot(t) == pc[t] = "lookup" /\ LookupDone(t) /\ UNCHANGED cached

\* bind and getaddrinfo; the board restarts if either fails, as a bind does when
\* another task has closed the socket or bound it.
Lookup(t) ==
  /\ pc[t] = "lookup"
  /\ \/ Restart
     \/ LookedUp /\ LookupDone(t)

Reset(t) ==
  \/ CheckFlag(t) \/ TakeSocket(t) \/ DropSocket(t) \/ CloseSocket(t)
  \/ OpenSocket(t) \/ Lookup(t)

-------------------------------------------------------------------------------
(* ACKs and the watchdog.                                                  *)

LoadSocket ==
  /\ phase = "run" /\ ackAt = "load" /\ sock # NoSocket
  /\ ackSock' = sock /\ ackAt' = "recv"
  /\ UNCHANGED <<radio, buffers, sockets, tasks, csiAge, clock>>

\* recvfrom fails on a socket that is not open.
RecvFails ==
  /\ ackAt = "recv" /\ ackSock \notin open
  /\ StopReceiving
  /\ UNCHANGED <<radio, buffers, sockets, tasks, csiAge, clock>>

\* An ACK, to any datagram this socket ever sent: its time is stamped first ...
StampAck ==
  /\ ackAt = "recv" /\ ackSock \in open /\ wifi = "connected"
  /\ ackAge' = 0 /\ ackAt' = "arm" /\ ackSock' = NoSocket
  /\ UNCHANGED <<radio, buffers, sockets, tasks, csiAge, unackedAge, armed>>

\* ... and then the watchdog is armed; a clear may have come between.
ArmWatchdog ==
  /\ ackAt = "arm"
  /\ armed' = TRUE /\ unackedAge' = Never /\ ackAt' = "load"
  /\ UNCHANGED <<radio, buffers, sockets, tasks, ackSock, csiAge, ackAge>>

Older(age, limit) == age # Never /\ age > limit

\* A stamp of 0 is older than any limit.
Overdue(age) == age = Never \/ Older(age, AckTimeout)

\* Mutant: an ACK that never came does not count as overdue.
WatchOnceAcked ==
  /\ phase = "run" /\ pc["watchdog"] = "wait"
  /\ wifi = "connected" /\ csiAge # Never
  /\ \/ Older(csiAge, CsiGrace) /\ Goto("watchdog", "clear")
     \/ /\ ~Older(csiAge, CsiGrace)
        /\ \/ armed /\ ackAge # Never /\ Goto("watchdog", "acked")
           \/ ~armed /\ unackedAge # Never /\ Goto("watchdog", "unacked")
  /\ UNCHANGED <<radio, buffers, sockets, resetting, mine, ackTask, csiAge, clock>>

\* A round of the watchdog: it looks whether it is armed and has a stamp to go by ...
Watch ==
  /\ phase = "run" /\ pc["watchdog"] = "wait"
  /\ wifi = "connected" /\ csiAge # Never
  /\ \/ Older(csiAge, CsiGrace) /\ Goto("watchdog", "clear")
     \/ /\ ~Older(csiAge, CsiGrace)
        /\ \/ armed /\ Goto("watchdog", IF ackAge = Never THEN "check" ELSE "acked")
           \/ ~armed /\ unackedAge # Never /\ Goto("watchdog", "unacked")
  /\ UNCHANGED <<radio, buffers, sockets, resetting, mine, ackTask, csiAge, clock>>

\* ... and reads it again to compare it, cleared or renewed meanwhile or not.
JudgeStamp ==
  /\ \/ /\ pc["watchdog"] = "unacked"
        /\ Goto("watchdog", IF Overdue(unackedAge) THEN "check" ELSE "wait")
     \/ /\ pc["watchdog"] = "acked"
        /\ Goto("watchdog", IF Overdue(ackAge) THEN "check" ELSE "wait")
  /\ UNCHANGED <<radio, buffers, sockets, resetting, mine, ackTask, csiAge, clock>>

ClearIdle ==
  /\ pc["watchdog"] = "clear"
  /\ ClearClock
  /\ Goto("watchdog", "wait")
  /\ UNCHANGED <<radio, buffers, sockets, resetting, mine, ackTask, csiAge>>

Aged(age, limit) == IF age = Never \/ age > limit THEN age ELSE age + 1

\* A unit of time passes.
Tick ==
  /\ csiAge' = Aged(csiAge, CsiGrace)
  /\ unackedAge' = Aged(unackedAge, AckTimeout)
  /\ ackAge' = Aged(ackAge, AckTimeout)
  /\ UNCHANGED <<radio, buffers, sockets, tasks, ackTask, armed>>

Send == TakeEntry \/ SkipEntry \/ CopySocket \/ SendSucceeds \/ SendFails \/ SendInterrupted
TakeAck == LoadSocket \/ RecvFails \/ StampAck \/ ArmWatchdog
Supervise == Watch \/ JudgeStamp \/ ClearIdle

MuninnNext ==
  \/ LoseWifi \/ GotIp \/ StartTasks \/ GiveUpBoot \/ Forget
  \/ Frame \/ Send \/ TakeAck \/ Supervise \/ Tick
  \/ \E t \in Tasks : Reset(t)

MuninnSpec == MuninnInit /\ [][MuninnNext]_muninnVars

\* Tasks are scheduled (ACKs need not come), time passes, the resolver's answers expire, Huginn is
\* heard again and again, a send without a network is not interrupted for ever,
\* and an access point that is tried again and again lets the station in.
FairMuninn ==
  /\ MuninnSpec
  /\ WF_muninnVars(Send) /\ WF_muninnVars(LoadSocket \/ RecvFails \/ ArmWatchdog)
  /\ WF_muninnVars(Supervise)
  /\ \A t \in Tasks : WF_muninnVars(Reset(t))
  /\ WF_muninnVars(StartTasks \/ GiveUpBoot)
  /\ WF_muninnVars(Tick) /\ WF_muninnVars(Frame) /\ WF_muninnVars(Forget)
  /\ SF_muninnVars(GotIp) /\ SF_muninnVars(wifi # "connected" /\ SendFails)

-------------------------------------------------------------------------------
(* Properties.                                                             *)

InHand == IF pc["sender"] = "wait" THEN 0 ELSE 1

\* The buffers are conserved: whatever fails, each is free, queued, or in the
\* hand of the send task, so capture never runs dry (main.c:457-507).
BuffersConserved == free + queued + InHand = Pool

Quiet ==
  \A t \in Tasks : pc[t] \in {"wait", "copy", "send", "check", "clear", "acked", "unacked"}

\* Two tasks may reset the transport at once, yet when they are done the
\* socket the board sends with is open (main.c:318-338).
SocketIsOpen == phase = "run" /\ Quiet => sock \in open /\ ~resetting

\* A board that hears Huginn comes back to the Wi-Fi, although nothing connects
\* again once the retries are used up (main.c:133-138): sending fails, the
\* transport is reset, the lookup fails, and the board restarts.
HeardReceiverReconnects == []<>(wifi = "connected")

Watching == phase = "run" /\ wifi = "connected" /\ csiAge # Never /\ csiAge <= CsiGrace

\* While Huginn is heard, ACKs that stay out are noticed, however the clearing
\* and the arming of the watchdog meet (main.c:532-536, 544-633).
SilenceIsNoticed == Watching ~> (ackAge = 0 \/ resetting \/ ~Watching)
===============================================================================
