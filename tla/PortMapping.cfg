SPECIFICATION PortSpec
CONSTANTS
  Details <- MCDetails
  Clients = {}
  Ptr = {p1, p2, p3}
  Blocks = {b1}
  Macs = {m1, m2}
  L3Infos = {none}
  NULL = NULL
  ByIndex = {2}
  OtherEvents <- MCOther
  MaxEvents = 4
  Atomic = TRUE
SYMMETRY Perms
INVARIANTS ListenerAgrees HelpersAgree
