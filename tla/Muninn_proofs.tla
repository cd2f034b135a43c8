--------------------------- MODULE Muninn_proofs ---------------------------
(***************************************************************************)
(* Proofs about the receiver, for a pool of any size, any number of        *)
(* sockets and any time limits: no buffer is lost or made up, and when two *)
(* tasks have reset the transport at once the socket in use is open.       *)
(***************************************************************************)
EXTENDS Muninn, WellFoundedInduction, TLAPS

\* The steps of a task in reset_udp_transport, and those of them at which it
\* owes the board a socket.
Resetting == {"check", "take", "drop", "close", "socket", "lookup"}
Owing == {"close", "socket"}

Ages == Nat \union {Never}
Handles == Sockets \union {NoSocket}

MuninnTypeOK ==
  /\ phase \in {"boot", "run"} /\ wifi \in {"connected", "connecting", "off"}
  /\ retries \in 0..MaxRetry /\ cached \in BOOLEAN
  /\ free \in Nat /\ queued \in Nat
  /\ sock \in Handles /\ open \subseteq Sockets
  /\ resetting \in BOOLEAN
  /\ pc \in [Tasks -> {"wait", "copy", "send", "clear", "acked", "unacked"} \union Resetting]
  /\ mine \in [Tasks -> Handles]
  /\ ackAt \in {"load", "recv", "arm"} /\ ackSock \in Handles
  /\ csiAge \in Ages /\ unackedAge \in Ages /\ ackAge \in Ages /\ armed \in BOOLEAN

\* Before app_main has started the tasks they are at rest: there is nothing to
\* send, no socket, and no watchdog yet.
BootIsQuiet ==
  phase = "boot" => queued = 0 /\ open = {} /\ \A t \in Tasks : pc[t] = "wait"

\* A running board whose socket is closed has a task that will open one.  The
\* socket may be closed under a task that has opened it: then the other one is
\* between its close and its socket().
OpenOrOwed ==
  phase = "run" => sock \in open \/ \E t \in Tasks : pc[t] \in Owing

\* The flag is up only while a task resets the transport.  It may be down
\* meanwhile: the first task to be done lowers it for both.
FlagHasOwner ==
  resetting => \E t \in Tasks : pc[t] \in {"drop", "close", "socket", "lookup"}

\* The inductive invariant.
IInv ==
  /\ MuninnTypeOK
  /\ BuffersConserved
  /\ BootIsQuiet
  /\ OpenOrOwed
  /\ FlagHasOwner

\* What the invariant says beyond the types.
Rest == BuffersConserved /\ BootIsQuiet /\ OpenOrOwed /\ FlagHasOwner

-------------------------------------------------------------------------------
\* socket() returns the lowest number that is not in use.
LEMMA OpenedIsUnused ==
  ASSUME Unused # {}
  PROVE  Opened \in Unused
<1>1. Unused \subseteq Nat
  BY MuninnAssumption DEF Unused
<1>2. PICK s \in Unused : \A o \in Unused : <<o, s>> \notin OpToRel(<, Nat)
  BY <1>1, NatLessThanWellFounded, WFMin
<1>3. ASSUME NEW o \in Unused PROVE s <= o
  <2>1. <<o, s>> \in Nat \X Nat /\ s \in Nat /\ o \in Nat
    BY <1>1
  <2>2. ~(o < s)
    BY <1>2, <2>1 DEF OpToRel
  <2> QED BY <2>1, <2>2
<1> QED BY <1>3 DEF Opened

\* A restart of the board sets everything back.
LEMMA RestartIInv == Restart => IInv'
<1> SUFFICES ASSUME Restart PROVE IInv'
  OBVIOUS
<1>1. MuninnTypeOK'
  <2>1. 0 \in 0..MaxRetry
    BY MuninnAssumption
  <2>2. mine' \in [Tasks -> Handles] /\ ackSock' \in Handles
    BY DEF Restart, Handles
  <2>3. pc' \in [Tasks -> {"wait", "copy", "send", "clear", "acked", "unacked"} \union Resetting]
    BY DEF Restart
  <2> QED BY <2>1, <2>2, <2>3, MuninnAssumption DEF Restart, MuninnTypeOK, Ages, Handles
<1>2. Rest'
  BY MuninnAssumption DEF Restart, Rest, BuffersConserved, InHand, BootIsQuiet, OpenOrOwed,
     FlagHasOwner, Tasks
<1> QED BY <1>1, <1>2 DEF IInv, Rest

LEMMA InitIInv == MuninnInit => IInv
<1> SUFFICES ASSUME MuninnInit PROVE IInv
  OBVIOUS
<1>1. MuninnTypeOK
  <2>1. 0 \in 0..MaxRetry
    BY MuninnAssumption
  <2>2. mine \in [Tasks -> Handles] /\ ackSock \in Handles
    BY DEF MuninnInit, Handles
  <2>3. pc \in [Tasks -> {"wait", "copy", "send", "clear", "acked", "unacked"} \union Resetting]
    BY DEF MuninnInit
  <2> QED BY <2>1, <2>2, <2>3, MuninnAssumption DEF MuninnInit, MuninnTypeOK, Ages, Handles
<1>2. Rest
  BY MuninnAssumption DEF MuninnInit, Rest, BuffersConserved, InHand, BootIsQuiet, OpenOrOwed,
     FlagHasOwner, Tasks
<1> QED BY <1>1, <1>2 DEF IInv, Rest

LEMMA LookedUpType == LookedUp => cached' \in BOOLEAN
BY Zenon DEF LookedUp

\* A step that leaves alone what the tasks share about buffers and sockets.
Aside == UNCHANGED <<phase, buffers, sock, open, resetting, pc>>

LEMMA AsideRest == Rest /\ Aside => Rest'
BY DEF Aside, buffers, Rest, BuffersConserved, InHand, BootIsQuiet, OpenOrOwed, FlagHasOwner

\* Wi-Fi, the resolver, the ACK task and time do.
LEMMA AsideIInv ==
  ASSUME IInv, LoseWifi \/ GotIp \/ Forget \/ TakeAck \/ Tick
  PROVE  IInv'
<1> MuninnTypeOK /\ Rest
  BY DEF IInv, Rest
<1>1. CASE LoseWifi
  <2>1. MuninnTypeOK'
    <3>1. retries' \in 0..MaxRetry
      BY <1>1, MuninnAssumption DEF LoseWifi, MuninnTypeOK
    <3> QED BY <1>1, <3>1 DEF LoseWifi, ClearClock, MuninnTypeOK, Ages,
          buffers, sockets, tasks, ackTask, clock
  <2>2. Aside
    BY <1>1 DEF LoseWifi, Aside, radio, buffers, sockets, tasks, ackTask, clock
  <2> QED BY <2>1, <2>2, AsideRest DEF IInv, Rest
<1>2. CASE GotIp
  <2>1. MuninnTypeOK'
    BY <1>2, MuninnAssumption DEF GotIp, MuninnTypeOK, Ages, Handles,
       radio, buffers, sockets, tasks, ackTask, clock
  <2>2. Aside
    BY <1>2 DEF GotIp, Aside, radio, buffers, sockets, tasks, ackTask, clock
  <2> QED BY <2>1, <2>2, AsideRest DEF IInv, Rest
<1>3. CASE Forget
  <2>1. MuninnTypeOK'
    <3>1. cached' \in BOOLEAN
      BY <1>3, Zenon DEF Forget
    <3> QED BY <1>3, <3>1 DEF Forget, MuninnTypeOK, radio, buffers, tasks, ackTask, clock
  <2>2. Aside
    BY <1>3 DEF Forget, Aside, radio, buffers, sockets, tasks, ackTask, clock
  <2> QED BY <2>1, <2>2, AsideRest DEF IInv, Rest
<1>4. CASE LoadSocket
  <2>1. MuninnTypeOK'
    BY <1>4, MuninnAssumption DEF LoadSocket, MuninnTypeOK, Ages, Handles,
       radio, buffers, sockets, tasks, ackTask, clock
  <2>2. Aside
    BY <1>4 DEF LoadSocket, Aside, radio, buffers, sockets, tasks, ackTask, clock
  <2> QED BY <2>1, <2>2, AsideRest DEF IInv, Rest
<1>5. CASE RecvFails
  <2>1. MuninnTypeOK'
    BY <1>5, MuninnAssumption DEF RecvFails, StopReceiving, MuninnTypeOK, Ages, Handles,
       radio, buffers, sockets, tasks, ackTask, clock
  <2>2. Aside
    BY <1>5 DEF RecvFails, Aside, radio, buffers, sockets, tasks, ackTask, clock
  <2> QED BY <2>1, <2>2, AsideRest DEF IInv, Rest
<1>6. CASE StampAck
  <2>1. MuninnTypeOK'
    BY <1>6, MuninnAssumption DEF StampAck, MuninnTypeOK, Ages, Handles,
       radio, buffers, sockets, tasks, ackTask, clock
  <2>2. Aside
    BY <1>6 DEF StampAck, Aside, radio, buffers, sockets, tasks, ackTask, clock
  <2> QED BY <2>1, <2>2, AsideRest DEF IInv, Rest
<1>7. CASE ArmWatchdog
  <2>1. MuninnTypeOK'
    BY <1>7, MuninnAssumption DEF ArmWatchdog, MuninnTypeOK, Ages, Handles,
       radio, buffers, sockets, tasks, ackTask, clock
  <2>2. Aside
    BY <1>7 DEF ArmWatchdog, Aside, radio, buffers, sockets, tasks, ackTask, clock
  <2> QED BY <2>1, <2>2, AsideRest DEF IInv, Rest
<1>8. CASE Tick
  <2>1. MuninnTypeOK'
    BY <1>8, MuninnAssumption DEF Tick, Aged, MuninnTypeOK, Ages, Handles,
       radio, buffers, sockets, tasks, ackTask, clock
  <2>2. Aside
    BY <1>8 DEF Tick, Aside, radio, buffers, sockets, tasks, ackTask, clock
  <2> QED BY <2>1, <2>2, AsideRest DEF IInv, Rest
<1> QED BY <1>1, <1>2, <1>3, <1>4, <1>5, <1>6, <1>7, <1>8 DEF TakeAck

\* A buffer is filled by a frame, taken, put back, and now and then waits for a reset.
LEMMA SendIInv ==
  ASSUME IInv, Frame \/ Send
  PROVE  IInv'
<1> MuninnTypeOK /\ Rest
  BY DEF IInv, Rest
<1>1. CASE Frame
  <2>1. MuninnTypeOK'
    BY <1>1, MuninnAssumption DEF Frame, MuninnTypeOK, Tasks, Resetting, Ages, Handles,
       radio, buffers, sockets, tasks, ackTask, clock
  <2>2. Rest'
    BY <1>1 DEF Frame, MuninnTypeOK, Tasks, Owing,
       Rest, BuffersConserved, InHand, BootIsQuiet, OpenOrOwed, FlagHasOwner,
       radio, buffers, sockets, tasks, ackTask, clock
  <2> QED BY <2>1, <2>2 DEF IInv, Rest
<1>2. CASE TakeEntry
  <2>1. MuninnTypeOK'
    BY <1>2, MuninnAssumption DEF TakeEntry, Goto, MuninnTypeOK, Tasks, Resetting, Ages, Handles,
       radio, buffers, sockets, tasks, ackTask, clock
  <2>2. Rest'
    BY <1>2 DEF TakeEntry, Goto, MuninnTypeOK, Tasks, Owing,
       Rest, BuffersConserved, InHand, BootIsQuiet, OpenOrOwed, FlagHasOwner,
       radio, buffers, sockets, tasks, ackTask, clock
  <2> QED BY <2>1, <2>2 DEF IInv, Rest
<1>3. CASE SkipEntry
  <2>1. MuninnTypeOK'
    BY <1>3, MuninnAssumption DEF SkipEntry, PutBack, MuninnTypeOK, Tasks, Resetting, Ages, Handles,
       radio, buffers, sockets, tasks, ackTask, clock
  <2>2. Rest'
    BY <1>3 DEF SkipEntry, PutBack, MuninnTypeOK, Tasks, Owing,
       Rest, BuffersConserved, InHand, BootIsQuiet, OpenOrOwed, FlagHasOwner,
       radio, buffers, sockets, tasks, ackTask, clock
  <2> QED BY <2>1, <2>2 DEF IInv, Rest
<1>4. CASE CopySocket
  <2>1. MuninnTypeOK'
    BY <1>4, MuninnAssumption DEF CopySocket, Goto, MuninnTypeOK, Tasks, Resetting, Ages, Handles,
       radio, buffers, sockets, tasks, ackTask, clock
  <2>2. Rest'
    BY <1>4 DEF CopySocket, Goto, MuninnTypeOK, Tasks, Owing,
       Rest, BuffersConserved, InHand, BootIsQuiet, OpenOrOwed, FlagHasOwner,
       radio, buffers, sockets, tasks, ackTask, clock
  <2> QED BY <2>1, <2>2 DEF IInv, Rest
<1>5. CASE SendSucceeds
  <2>1. MuninnTypeOK'
    BY <1>5, MuninnAssumption DEF SendSucceeds, Goto, Used, PutBack, MuninnTypeOK, Tasks, Resetting, Ages, Handles,
       radio, buffers, sockets, tasks, ackTask, clock
  <2>2. Rest'
    BY <1>5 DEF SendSucceeds, Goto, Used, PutBack, MuninnTypeOK, Tasks, Owing,
       Rest, BuffersConserved, InHand, BootIsQuiet, OpenOrOwed, FlagHasOwner,
       radio, buffers, sockets, tasks, ackTask, clock
  <2> QED BY <2>1, <2>2 DEF IInv, Rest
<1>6. CASE SendFails
  <2>1. MuninnTypeOK'
    BY <1>6, MuninnAssumption DEF SendFails, Goto, Used, PutBack, MuninnTypeOK, Tasks, Resetting, Ages, Handles,
       radio, buffers, sockets, tasks, ackTask, clock
  <2>2. Rest'
    BY <1>6 DEF SendFails, Goto, Used, PutBack, MuninnTypeOK, Tasks, Owing,
       Rest, BuffersConserved, InHand, BootIsQuiet, OpenOrOwed, FlagHasOwner,
       radio, buffers, sockets, tasks, ackTask, clock
  <2> QED BY <2>1, <2>2 DEF IInv, Rest
<1>7. CASE SendInterrupted
  <2>1. MuninnTypeOK'
    BY <1>7, MuninnAssumption DEF SendInterrupted, Goto, Used, PutBack, MuninnTypeOK, Tasks, Resetting, Ages, Handles,
       radio, buffers, sockets, tasks, ackTask, clock
  <2>2. Rest'
    BY <1>7 DEF SendInterrupted, Goto, Used, PutBack, MuninnTypeOK, Tasks, Owing,
       Rest, BuffersConserved, InHand, BootIsQuiet, OpenOrOwed, FlagHasOwner,
       radio, buffers, sockets, tasks, ackTask, clock
  <2> QED BY <2>1, <2>2 DEF IInv, Rest
<1> QED BY <1>1, <1>2, <1>3, <1>4, <1>5, <1>6, <1>7 DEF Send

\* A round of the watchdog.
LEMMA WatchIInv ==
  ASSUME IInv, Supervise
  PROVE  IInv'
<1> MuninnTypeOK /\ Rest
  BY DEF IInv, Rest
<1>1. CASE Watch \/ JudgeStamp
  <2>1. PICK l \in {"clear", "check", "wait", "acked", "unacked"} : Goto("watchdog", l)
    BY <1>1 DEF Watch, JudgeStamp
  <2>2. UNCHANGED <<radio, buffers, sockets, resetting, mine, ackTask, csiAge, clock>>
    BY <1>1 DEF Watch, JudgeStamp
  <2>3. phase = "run" /\ pc["watchdog"] \notin Owing
    <3>1. CASE Watch
      BY <3>1 DEF Watch, Owing
    <3>2. CASE JudgeStamp
      BY <3>2 DEF JudgeStamp, Owing, Rest, BootIsQuiet, MuninnTypeOK, Tasks
    <3> QED BY <1>1, <3>1, <3>2
  <2>4. MuninnTypeOK'
    BY <2>1, <2>2, MuninnAssumption DEF Goto, MuninnTypeOK, Tasks, Resetting, Ages, Handles,
       radio, buffers, sockets, tasks, ackTask, clock
  <2>5. Rest'
    BY <1>1, <2>1, <2>2, <2>3 DEF Watch, JudgeStamp, Goto, MuninnTypeOK, Tasks, Owing,
       Rest, BuffersConserved, InHand, BootIsQuiet, OpenOrOwed, FlagHasOwner,
       radio, buffers, sockets, tasks, ackTask, clock
  <2> QED BY <2>4, <2>5 DEF IInv, Rest
<1>2. CASE ClearIdle
  <2>1. MuninnTypeOK'
    BY <1>2, MuninnAssumption DEF ClearIdle, ClearClock, Goto, MuninnTypeOK, Tasks, Resetting, Ages, Handles,
       radio, buffers, sockets, tasks, ackTask, clock
  <2>2. Rest'
    BY <1>2 DEF ClearIdle, ClearClock, Goto, MuninnTypeOK, Tasks, Owing,
       Rest, BuffersConserved, InHand, BootIsQuiet, OpenOrOwed, FlagHasOwner,
       radio, buffers, sockets, tasks, ackTask, clock
  <2> QED BY <2>1, <2>2 DEF IInv, Rest
<1> QED BY <1>1, <1>2 DEF Supervise

\* The transport is taken down.
LEMMA DropIInv ==
  ASSUME IInv, NEW t \in Tasks, CheckFlag(t) \/ TakeSocket(t) \/ DropSocket(t) \/ CloseSocket(t)
  PROVE  IInv'
<1> MuninnTypeOK /\ Rest
  BY DEF IInv, Rest
<1>1. CASE CheckFlag(t)
  <2>1. MuninnTypeOK'
    BY <1>1, MuninnAssumption DEF CheckFlag, Return, Goto, PutBack, MuninnTypeOK, Tasks, Resetting, Ages, Handles,
       radio, buffers, sockets, tasks, ackTask, clock
  <2>2. Rest'
    BY <1>1 DEF CheckFlag, Return, Goto, PutBack, MuninnTypeOK, Tasks, Owing,
       Rest, BuffersConserved, InHand, BootIsQuiet, OpenOrOwed, FlagHasOwner,
       radio, buffers, sockets, tasks, ackTask, clock
  <2> QED BY <2>1, <2>2 DEF IInv, Rest
<1>2. CASE TakeSocket(t)
  <2>1. MuninnTypeOK'
    BY <1>2, MuninnAssumption DEF TakeSocket, ClearClock, Goto, MuninnTypeOK, Tasks, Resetting, Ages, Handles,
       radio, buffers, sockets, tasks, ackTask, clock
  <2>2. Rest'
    BY <1>2 DEF TakeSocket, ClearClock, Goto, MuninnTypeOK, Tasks, Owing,
       Rest, BuffersConserved, InHand, BootIsQuiet, OpenOrOwed, FlagHasOwner,
       radio, buffers, sockets, tasks, ackTask, clock
  <2> QED BY <2>1, <2>2 DEF IInv, Rest
<1>3. CASE DropSocket(t)
  <2>1. MuninnTypeOK'
    BY <1>3, MuninnAssumption DEF DropSocket, Goto, MuninnTypeOK, Tasks, Resetting, Ages, Handles,
       radio, buffers, sockets, tasks, ackTask, clock
  <2>2. Rest'
    BY <1>3 DEF DropSocket, Goto, MuninnTypeOK, Tasks, Owing,
       Rest, BuffersConserved, InHand, BootIsQuiet, OpenOrOwed, FlagHasOwner,
       radio, buffers, sockets, tasks, ackTask, clock
  <2> QED BY <2>1, <2>2 DEF IInv, Rest
<1>4. CASE CloseSocket(t)
  <2>1. MuninnTypeOK'
    <3>1. ackAt' \in {"load", "recv", "arm"} /\ ackSock' \in Handles
      BY <1>4 DEF CloseSocket, StopReceiving, MuninnTypeOK, Handles, ackTask
    <3>2. pc' = [pc EXCEPT ![t] = "socket"] /\ mine' = [mine EXCEPT ![t] = NoSocket]
      BY <1>4 DEF CloseSocket, Goto, Used
    <3> QED BY <1>4, <3>1, <3>2 DEF CloseSocket, MuninnTypeOK, Resetting, Handles,
          radio, buffers, clock
  <2>2. Rest'
    BY <1>4 DEF CloseSocket, StopReceiving, Goto, Used, MuninnTypeOK, Tasks, Owing,
       Rest, BuffersConserved, InHand, BootIsQuiet, OpenOrOwed, FlagHasOwner,
       radio, buffers, sockets, tasks, ackTask, clock
  <2> QED BY <2>1, <2>2 DEF IInv, Rest
<1> QED BY <1>1, <1>2, <1>3, <1>4

\* The transport is built again: whoever opens a socket settles the debt.
LEMMA OpenIInv ==
  ASSUME IInv, NEW t \in Tasks, OpenSocket(t)
  PROVE  IInv'
<1> MuninnTypeOK /\ Rest
  BY DEF IInv, Rest
<1>1. CASE Unused = {}
  BY <1>1, RestartIInv DEF OpenSocket
<1>2. CASE Unused # {}
  <2>1. Opened \in Sockets
    BY <1>2, OpenedIsUnused DEF Unused
  <2>2. MuninnTypeOK'
    BY <1>2, <2>1 DEF OpenSocket, Goto, MuninnTypeOK, Resetting, Handles,
       radio, buffers, sockets, tasks, ackTask, clock
  <2>3. Rest'
    BY <1>2 DEF OpenSocket, Goto, MuninnTypeOK, Tasks,
       Rest, BuffersConserved, InHand, BootIsQuiet, OpenOrOwed, FlagHasOwner,
       radio, buffers, sockets, tasks, ackTask, clock
  <2> QED BY <2>2, <2>3 DEF IInv, Rest
<1> QED BY <1>1, <1>2

\* The first task to be done lowers the flag, and returns its buffer.
LEMMA LookupIInv ==
  ASSUME IInv, NEW t \in Tasks, Lookup(t)
  PROVE  IInv'
<1> MuninnTypeOK /\ Rest
  BY DEF IInv, Rest
<1>1. CASE Restart
  BY <1>1, RestartIInv
<1>2. CASE LookedUp /\ LookupDone(t)
  <2>1. MuninnTypeOK'
    <3>1. cached' \in BOOLEAN
      BY <1>2, LookedUpType
    <3>2. pc' = [pc EXCEPT ![t] = "wait"] /\ resetting' = FALSE
      BY <1>2 DEF LookupDone, Return, Goto
    <3>3. free' \in Nat
      BY <1>2 DEF LookupDone, Return, PutBack, MuninnTypeOK
    <3> QED BY <1>2, <3>1, <3>2, <3>3 DEF LookupDone, MuninnTypeOK,
          radio, buffers, sockets, tasks, ackTask, clock
  <2>2. Rest'
    BY <1>2 DEF Lookup, LookupDone, Return, Goto, PutBack, MuninnTypeOK, Tasks, Owing,
       Rest, BuffersConserved, InHand, BootIsQuiet, OpenOrOwed, FlagHasOwner,
       radio, buffers, sockets, tasks, ackTask, clock
  <2> QED BY <2>1, <2>2 DEF IInv, Rest
<1> QED BY <1>1, <1>2 DEF Lookup

\* The board comes up with a socket, and without a flag.
LEMMA StartIInv ==
  ASSUME IInv, StartTasks
  PROVE  IInv'
<1> MuninnTypeOK /\ Rest
  BY DEF IInv, Rest
<1>1. MuninnTypeOK'
  <2>1. cached' \in BOOLEAN
    BY LookedUpType DEF StartTasks
  <2>2. open = {}
    BY DEF StartTasks, Rest, BootIsQuiet
  <2>3. Opened \in Sockets
    BY <2>2, MuninnAssumption, OpenedIsUnused DEF Unused
  <2> QED BY <2>1, <2>3 DEF StartTasks, MuninnTypeOK, Handles,
        radio, buffers, sockets, tasks, ackTask, clock
<1>2. Rest'
  BY DEF StartTasks, MuninnTypeOK,
     Rest, BuffersConserved, InHand, BootIsQuiet, OpenOrOwed, FlagHasOwner,
     radio, buffers, sockets, tasks, ackTask, clock
<1> QED BY <1>1, <1>2 DEF IInv, Rest

LEMMA StepIInv == IInv /\ [MuninnNext]_muninnVars => IInv'
<1> SUFFICES ASSUME IInv, [MuninnNext]_muninnVars PROVE IInv'
  OBVIOUS
<1>1. CASE UNCHANGED muninnVars
  <2>1. MuninnTypeOK'
    BY <1>1 DEF IInv, muninnVars, MuninnTypeOK,
       radio, buffers, sockets, tasks, ackTask, clock
  <2>2. Aside
    BY <1>1 DEF muninnVars, Aside,
       radio, buffers, sockets, tasks, ackTask, clock
  <2> QED BY <2>1, <2>2, AsideRest DEF IInv, Rest
<1>2. CASE GiveUpBoot
  BY <1>2, RestartIInv DEF GiveUpBoot
<1>3. ASSUME NEW t \in Tasks, Reset(t) PROVE IInv'
  BY <1>3, DropIInv, OpenIInv, LookupIInv DEF Reset
<1> QED BY <1>1, <1>2, <1>3, AsideIInv, SendIInv, WatchIInv, StartIInv DEF MuninnNext

-------------------------------------------------------------------------------
\* The invariant holds for a pool, a network stack and time limits of any size.
THEOREM MuninnInvariant == MuninnSpec => []IInv
BY InitIInv, StepIInv, PTL DEF MuninnSpec

\* Type correctness; in particular the sockets are sockets of the stack.
THEOREM MuninnTypes == MuninnSpec => []MuninnTypeOK
<1>1. IInv => MuninnTypeOK
  BY DEF IInv
<1> QED BY <1>1, MuninnInvariant, PTL

\* Every buffer of the pool is free, queued, or in the hand of the send task,
\* whatever fails and whoever resets the transport (main.c:457-507).
THEOREM MuninnBuffers == MuninnSpec => []BuffersConserved
<1>1. IInv => BuffersConserved
  BY DEF IInv
<1> QED BY <1>1, MuninnInvariant, PTL

\* When nobody is resetting the transport any more, the socket the board sends
\* with is open and the flag is down (main.c:318-338).
THEOREM MuninnSocket == MuninnSpec => []SocketIsOpen
<1>1. IInv => SocketIsOpen
  BY DEF IInv, OpenOrOwed, FlagHasOwner, SocketIsOpen, Quiet, Owing
<1> QED BY <1>1, MuninnInvariant, PTL

===============================================================================
