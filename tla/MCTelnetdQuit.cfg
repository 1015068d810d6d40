\* Two connections at once, and exit typed on them.
SPECIFICATION Spec
CONSTANTS
  Conns = {1, 2}
  num = 6
  NUMLINES = 6
  LINELEN = 3
  MSS = 4
  MaxInput = 2
  Segments <- QuitSegments
  Greeting <- shell_start
  Answer <- shell_input
PROPERTY QuitCloses
