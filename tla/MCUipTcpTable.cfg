\* Two entries, three peers, one port: the table, demultiplexing, reuse.
SPECIFICATION Spec
CONSTANTS
  UIP_CONNS = 2
  UIP_LISTENPORTS = 1
  UIP_RTO = 1
  UIP_MAXRTX = 1
  UIP_MAXSYNRTX = 0
  UIP_TIME_WAIT_TIMEOUT = 2
  UIP_TCP_MSS = 1
  SeqMod = 2
  RTOS <- Rtos1
  Peers = {p1, p2, p3}
  Ports = {telnet}
  NoPort = none
  Arriving <- TableArriving
  Replies <- FewReplies
SYMMETRY Symmetric
VIEW TableView
INVARIANTS
  TypeOK
  UniqueEndpoints
  Driven
  RetryBudget
