\* One connection after another, with few blocks and a small mss.
SPECIFICATION Spec
CONSTANTS
  Conns = {1}
  num = 6
  NUMLINES = 6
  LINELEN = 3
  MSS = 4
  MaxInput = 5
  Segments <- McSegments
  Greeting <- shell_start
  Answer <- shell_input
VIEW McView
INVARIANTS
  TypeOK
  ParsedWhole
  OutputInOrder
  RetransmitsSame
  MemoryReturned
