\* Does the periodic timer flush every old entry?
SPECIFICATION Spec
CONSTANTS
  UIP_ARPTAB_SIZE = 2
  UIP_ARP_MAXAGE = 2
  TimeMod = 4
  Zero = Zero
  me = me
  ann = ann
  router = router
  far = far
  all = all
  Addrs <- ArpAddrs
  HalfZero = {far}
  HostAddr = me
  OnLink <- ArpOnLink
  Routers <- ArpRouters
  Broadcast = all
  Eths = {e1, e2}
  NoEth = none
SYMMETRY Symmetric
VIEW ArpView
INVARIANT Flushed
