\* One entry of the table, every reply of the application, windows and MSS
\* options, under the fairness of the periodic timer.
SPECIFICATION FairSpec
CONSTANTS
  UIP_CONNS = 1
  UIP_LISTENPORTS = 1
  UIP_RTO = 1
  UIP_MAXRTX = 1
  UIP_MAXSYNRTX = 1
  UIP_TIME_WAIT_TIMEOUT = 2
  UIP_TCP_MSS = 2
  SeqMod = 3
  RTOS <- Rtos1
  Peers = {p1, p2}
  Ports = {telnet}
  NoPort = none
  Arriving <- RichArriving
  Replies <- AllReplies
INVARIANTS
  StoppedOnlyOpen
  TimerPrimed
PROPERTIES
  AcceptedIsAcked
  AppContract
  OpeningEnds
  ClosingEnds
