\* Two datagrams in fragments, in any order.
SPECIFICATION ReassSpec
CONSTANTS
  Ids = {d1, d2}
  Nobody = nobody
  BUFSIZE = 7
  HEADER = 1
  PerByte = 2
  MAXAGE = 2
  Frags <- ReassFrags
INVARIANT PacketIsFull
