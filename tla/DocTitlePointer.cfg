SPECIFICATION Spec
CONSTANTS
  t1 = t1
  t2 = t2
  m1 = m1
  m2 = m2
  m3 = m3
  m4 = m4
  Titles = {t1, t2}
  Addresses = {m1, m2, m3, m4}
  MaxFrames = 1
  MaxRefs = 1
  MaxLent = 2
INVARIANTS TitleUntilChange
CHECK_DEADLOCK FALSE
