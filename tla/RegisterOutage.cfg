SPECIFICATION RegisterSpec
CONSTANTS
  Proc = {p1}
  Supplier = {s1, s2}
  Dates = {2}
  BackDates = {0}
  min_advert_days = 2
  QA_LEAD = 1
  EXTENSION_DAYS = 2
  LATE_WINDOW_DAYS = 2
  OBJECTION_DAYS = 1
  Examined = {EVALUATED}
  MaxDay = 3
  Branded = TRUE
SYMMETRY Symmetry
CHECK_DEADLOCK FALSE
INVARIANT PublicMeansShown
