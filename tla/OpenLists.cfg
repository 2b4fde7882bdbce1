SPECIFICATION RegisterSpec
CONSTANTS
  Proc = {p1}
  Supplier = {s1}
  Dates = {2}
  BackDates = {}
  min_advert_days = 1
  QA_LEAD = 1
  EXTENSION_DAYS = 1
  LATE_WINDOW_DAYS = 2
  OBJECTION_DAYS = 0
  Examined = {EVALUATED}
  MaxDay = 2
  Branded = FALSE
CHECK_DEADLOCK FALSE
INVARIANT OpenListsAgree
