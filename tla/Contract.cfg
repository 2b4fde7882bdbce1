SPECIFICATION Spec
CONSTANTS
  Proc = {p1, p2, p3}
  Ref = {r1, r2}
  v1 = v1
  v2 = v2
  v3 = v3
  Variation = {v1, v2, v3}
  amount_change <- Amounts
SYMMETRY Symmetry
CHECK_DEADLOCK FALSE
INVARIANTS TypeOK StatusBacked RatedAfterAcceptance RatedAtClose GrowthPublished
