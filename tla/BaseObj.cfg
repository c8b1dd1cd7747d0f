SPECIFICATION Spec
CONSTANTS
  Npus = {n1, n2, n3, n4}
  FirstNpus = {n1, n2, n3}
  SkipNpus = {n4}
  NpuLists = {{n4}, {n1, n2, n3, n4}}
  Attrs = {a1}
  Vals = {v0, v1}
  DefaultVal = v0
  NONE = NONE
  ABSENT = ABSENT
SYMMETRY Perms
INVARIANTS TypeOK CommitAtomic ChangesTracked
PROPERTY ImplementsAtomic
