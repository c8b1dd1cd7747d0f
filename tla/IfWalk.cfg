SPECIFICATION WalkSpec
CONSTANTS
  Details <- MCDetails
  Clients = {}
  Ptr = {p1, p2, p3}
  Blocks = {b1}
  Macs = {m1}
  L3Infos = {none}
  NULL = NULL
  Walkers = {w1}
  Garbage = {0, 2}
INVARIANTS WalkComplete
PROPERTY WalkTerminates
