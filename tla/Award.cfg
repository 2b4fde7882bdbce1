SPECIFICATION Spec
CONSTANTS
  Proc = {p1, p2}
  Bid = {b1, b2}
  amount <- Amounts
  Award = {a1, a2}
  Ref = {r1, r2}
  Objection = {o1}
  OBJECTION_DAYS = 1
  MaxDay = 2
SYMMETRY Symmetry
CHECK_DEADLOCK FALSE
INVARIANTS TypeOK SignedMeansPublished ObjectionsInWindow RegistersAgree
