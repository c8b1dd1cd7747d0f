SPECIFICATION Spec
CONSTANTS
  Images <- BothKinds
  UftRange = {1, 2, 3, 4}
  GroupSeq <- TwoGroups
  Choices <- AclMix
  Removable = {"acl1", "acl2", "riot", "nhs"}
  DbMayFail = TRUE
  ABSENT = ABSENT
INVARIANTS NextBootTruth CurrentSupported
