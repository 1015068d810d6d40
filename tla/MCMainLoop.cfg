\* Two servers with one address each, over many turns of the clock.
SPECIFICATION Spec
CONSTANTS
  ClockMod = 6
  A = A
  B = B
  a = a
  b = b
  Servers = {A, B}
  Pool <- Pools
  NoServer = none
  NoAddr = zero
  DISCOVER_FIRST = 1
  DISCOVER_LIMIT = 2
  REQUEST_FIRST = 1
  REQUEST_LIMIT = 1
  SECOND = 1
  PERIOD = 1
  RENEW_FIRST = 3
  RENEW = 3
  MaxLag = 1
  MaxUp = 1
  MaxDown = 2
  MaxNaks = 1
PROPERTY Leases
INVARIANTS
  ConfiguredIsGranted
  RequestsOffered
  AsksAgain
