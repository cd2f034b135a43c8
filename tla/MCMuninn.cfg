SPECIFICATION FairMuninn
CONSTANTS
  Pool = 1
  Sockets = {1, 2}
  MaxRetry = 1
  AckTimeout = 0
  CsiGrace = 1
  Never = Never
  NoSocket = NoSocket
INVARIANTS
  BuffersConserved
  SocketIsOpen
PROPERTIES
  HeardReceiverReconnects
  SilenceIsNoticed
