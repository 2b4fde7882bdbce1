SPECIFICATION FairSpec
CONSTANTS
  Proc = {p1, p2}
  Draft = {d1, d2}
  d1 = d1
  d2 = d2
  cac1 = cac1
  cac2 = cac2
  pencom1 = pencom1
  Small = {d1, d2}
  File = {cac1, cac2}
  cert_kind <- Kinds
  expiry_date <- Expiry
  MaxDay = 1
  Contended = {d1}
  Rival = {p2}
CHECK_DEADLOCK FALSE
INVARIANTS TypeOK OneSupplier PassedMeansReviewed
PROPERTY LapsedGetSuspended
