SPECIFICATION Spec
CONSTANTS
  Proc = {p1, p2}
  Item <- MCItem
  supplier <- MCSupplier
  sku <- MCSku
  Catalogues <- MCCatalogues
  MaxAwards = 2
  Milestone = {m1}
  Guarantee = {g1}
  Debrief = {d1}
SYMMETRY MCSymmetry
CHECK_DEADLOCK FALSE
INVARIANTS L1Wins DeliveryOnRecord
