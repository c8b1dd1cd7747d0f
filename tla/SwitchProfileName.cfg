SPECIFICATION Spec
CONSTANTS
  Images <- LongerOnly
  UftRange = {1, 2, 3, 4}
  GroupSeq <- NoGroups
  Choices <- Names
  Removable = {}
  DbMayFail = FALSE
  ABSENT = ABSENT
INVARIANT ConfiguredIsNext
