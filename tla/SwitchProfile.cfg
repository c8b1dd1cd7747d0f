SPECIFICATION Spec
CONSTANTS
  Images <- TwoImages
  UftRange = {1, 2, 3, 4}
  GroupSeq <- NoGroups
  Choices <- Tables
  Removable = {"profile", "uft", "ecmp", "ipv6"}
  DbMayFail = TRUE
  ABSENT = ABSENT
INVARIANTS TypeOK NextBootTruth ConfiguredIsNext CurrentSupported
