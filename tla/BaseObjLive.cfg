SPECIFICATION Spec
CONSTANTS
  Npus = {n1, n2, n3}
  FirstNpus = {n1, n2}
  SkipNpus = {n3}
  NpuLists = {{n1}}
  Attrs = {a1}
  Vals = {v0, v1}
  DefaultVal = v0
  NONE = NONE
  ABSENT = ABSENT
PROPERTY CommitTerminates
