SPECIFICATION FairSpec
CONSTANTS
  MaxLines = 2
  MaxTexts = 3
  MaxNow = 3
INVARIANTS
  TypeOK
  DrawnIsWhole
  DeviceSurvives
PROPERTIES
  NeverOlder
  FreshTextDrawn
