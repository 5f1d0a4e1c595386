SPECIFICATION Spec
CONSTANTS
  Editor = {e1, e2}
  Mark = {m1, m2, m3}
  Job = {j1, j2}
  Nobody = Nobody
  Kept = 1
  Callers = {"append", "link"}
  TooLarge <- LongTexts
  MaxRare = 1
SYMMETRY Interchangeable
PROPERTY AppendsLand
PROPERTY NoSilentOverwrite
PROPERTY RestoreIsReversible
PROPERTY KeystrokesKept
CHECK_DEADLOCK FALSE
