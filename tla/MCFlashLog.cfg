SPECIFICATION Spec
CONSTANTS
  Sectors = 3
  PerSector = 2
  MaxSeq = 20
  MaxOffered = 7
  Kinds = {"sms", "system"}
  KindOf <- MCKindOf
  WriteFaults = {"none", "part"}
INVARIANTS TypeOK NewestSurvives ReadsAgree
PROPERTIES EventLogSpec
