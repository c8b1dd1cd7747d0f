SPECIFICATION MCSpec
CONSTANTS
  Details <- MCDetails
  Clients = {c1}
  Ptr = {p1, p2}
  Blocks = {b1, b2}
  Macs = {"m1", "m2"}
  L3Infos = {"none", "l3"}
  NULL = NULL
SYMMETRY Perms
INVARIANTS TypeOK IndexConsistent IfIndexesExact DescOwned
PROPERTIES ImplementsRegistry RemovesFirstFound
