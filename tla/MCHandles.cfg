SPECIFICATION Spec
CONSTANTS
  t1 = t1
  t2 = t2
  m1 = m1
  m2 = m2
  m3 = m3
  m4 = m4
  Titles = {t1, t2}
  Addresses = {m1, m2, m3, m4}
  MaxFrames = 2
  MaxRefs = 3
  MaxLent = 2
SYMMETRY Interchangeable
INVARIANTS TypeOK NoUseAfterFree HandlesExact LastTitleStands
CHECK_DEADLOCK FALSE
