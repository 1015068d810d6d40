\* One small instance of each part.
SPECIFICATION Parts
CONSTANTS
  m = m
  n = n
  \* UipRtt
  UIP_RTO = 3
  SvActive = 16
  SvPassive = 4
  Trips = {0, 1, 4, 10, 31}
  \* UipReass
  Ids = {1, 2}
  Nobody = 0
  BUFSIZE = 5
  HEADER = 1
  PerByte = 2
  MAXAGE = 2
  Frags <- ReassFrags
  \* UipFw
  netifs <- FwNetifs
  defaultnetif = 1
  NoNetif = NoNetif
  Net <- FwNet
  Host = "h"
  AllOnes = "all"
  Packets <- FwPackets
  Exceeded <- FwExceeded
  FWCACHE_SIZE = 2
  FW_TIME = 2
  TTL = 3
  \* UipIp: two connections and four ports, so that they come round
  all_zeroes_addr = "zero"
  UIP_UDP_CONNS = 2
  all_ones_addr = "ones"
  StartPort = 2
  FirstPort = 3
  LastPort = 7
  Peers = {"p"}
  HostAddrs = {"zero", "h"}
  Servers = {10}
  BindPort = 1
  \* UipChksum: octets at the edges of the carries
  Bytes = {0, 1, 8, 247, 255}
  MaxLen = 3
  Full = 3
  \* Enc28j60
  Frames <- EthFrames
  RXSIZE = 7
  MAXLEN = 2
  MACS = {m, n}
  OWN = m
  \* OneWire: every set of devices with codes of three bits
  BITS = 3
  MaxSensors = 8
  MaxGone = 1
  \* Ds18x20: a table of two
  Sensors = {1, 2, 3}
  Family <- DsFamily
  MAXSENSORS = 2
  Temps <- DsTemps
  NoSensor = 0
  \* Usart
  Words <- EdgeWords
  Bcd = {0, 9, 89}
INVARIANTS
  RttCovered
  AnswerWhole
  Conversation
  FramesInOrder
  FoundOnce
  Readings
  CheckedIsOwn
  RepliesFound
  ChecksumsHold
  ReadsBack
PROPERTY NoCircle
