SPECIFICATION RegisterSpec
CONSTANTS
  Proc = {p1, p2}
  Supplier = {s1}
  Dates = {1}
  BackDates = {}
  min_advert_days = 1
  QA_LEAD = 1
  EXTENSION_DAYS = 1
  LATE_WINDOW_DAYS = 2
  OBJECTION_DAYS = 0
  Examined = {EVALUATED}
  MaxDay = 2
  Branded = FALSE
SYMMETRY Symmetry
CHECK_DEADLOCK FALSE
INVARIANTS TypeOK AdvertPeriodKept QuestionsCloseFirst AwardsFollowOpening
INVARIANTS NoLateBid OpenedMeansUnsealed PricesAfterOpening FoundEverywhere
