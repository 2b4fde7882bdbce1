SPECIFICATION Spec
CONSTANTS
  Proc = {p1}
  Draft = {d1, d2}
  d1 = d1
  d2 = d2
  cac1 = cac1
  cac2 = cac2
  pencom1 = pencom1
  Small <- SmallDrafts
  File = {cac1, cac2, pencom1}
  cert_kind <- Kinds
  expiry_date <- Expiry
  MaxDay = 1
  Contended = {d1}
  Rival = {}
CHECK_DEADLOCK FALSE
INVARIANT ApprovedWithRequired
