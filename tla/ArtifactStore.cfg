SPECIFICATION Spec
CONSTANTS
  r1 = r1
  Readers <- OneReader
  MaxVersion = 2
  MaxProcess = 3
INVARIANTS LatestNamesComplete ReturnedStaysWhole LoadsAreFresh
