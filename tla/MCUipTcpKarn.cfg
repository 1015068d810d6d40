\* Is a retransmission remembered for the RTT estimator?
SPECIFICATION Spec
CONSTANTS
  UIP_CONNS = 1
  UIP_LISTENPORTS = 1
  UIP_RTO = 1
  UIP_MAXRTX = 2
  UIP_MAXSYNRTX = 1
  UIP_TIME_WAIT_TIMEOUT = 3
  UIP_TCP_MSS = 1
  SeqMod = 2
  RTOS <- Rtos1
  Peers = {p1}
  Ports = {telnet}
  NoPort = none
  Arriving <- TableArriving
  Replies <- FewReplies
INVARIANT RetransmissionRemembered

