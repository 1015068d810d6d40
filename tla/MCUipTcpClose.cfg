\* The application may close while its octets are unacknowledged.
SPECIFICATION LinkSpec
CONSTANTS
  UIP_CONNS = 1
  UIP_LISTENPORTS = 1
  UIP_RTO = 1
  UIP_MAXRTX = 1
  UIP_MAXSYNRTX = 0
  UIP_TIME_WAIT_TIMEOUT = 2
  UIP_TCP_MSS = 2
  SeqMod = 8
  RTOS <- LinkRtos
  Peers = {p1}
  Ports = {telnet}
  NoPort = none
  Arriving = {}
  Replies <- LinkReplies
  AppOctets = 2
  PeerOctets = 1
  FirstIss = 6
  ToStack = 2
  ToPeer = 1
  Windows = {2}
  CloseAnyTime = TRUE
VIEW LinkView
INVARIANT CleanClose
CHECK_DEADLOCK FALSE
