SPECIFICATION FairSpec
CONSTANTS
  Editor = {e1}
  Mark = {m1, m2, m3}
  Job = {j1, j2}
  Nobody = Nobody
  Kept = 1
  Callers = {"append"}
  TooLarge <- LongTexts
  MaxRare = 0
CHECK_DEADLOCK FALSE
PROPERTY KeystrokesStored
