SPECIFICATION FairSpec
CONSTANTS
  MaxLines = 2
  MaxTexts = 2
  MaxNow = 2
PROPERTIES
  TextCatchesUp
