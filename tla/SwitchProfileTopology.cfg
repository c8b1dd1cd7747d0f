SPECIFICATION Spec
CONSTANTS
  Images <- BrokenOnly
  UftRange = {1, 2, 3, 4}
  GroupSeq <- NoGroups
  Choices <- Tables
  Removable = {}
  DbMayFail = FALSE
  ABSENT = ABSENT
INVARIANT InitFailureReported
