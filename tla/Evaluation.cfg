SPECIFICATION Spec
CONSTANTS
  Bid = {b1, b2}
  Supplier = {s1}
  Criterion = {c1, c2}
  User = {u1}
  DG = dg
  Raw = {1}
  Weight = {1}
  HasLot = FALSE
  Examined = {b1}
  Marks = {"EVALUATED", "RECOMMENDED"}
  MaxDissent = 1
SYMMETRY Symmetry
CHECK_DEADLOCK FALSE
INVARIANTS TypeOK UnsealedTogether RejectedMeansCorrected RecommendedFullyScored ReportBacked
PROPERTY ScoresStand
