SPECIFICATION Spec
CONSTANTS
  Editor = {e1}
  Mark = {m1, m2, m3}
  Job = {j1, j2}
  Nobody = Nobody
  Kept = 1
  Callers = {"link"}
  TooLarge = {}
  MaxRare = 0
SYMMETRY Interchangeable
CHECK_DEADLOCK FALSE
PROPERTY LinksLand
