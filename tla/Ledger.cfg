SPECIFICATION FairSpec
CONSTANTS
  Writer = {w1, w2, w3}
  AtomicFact = {a1, a2}
  SplitFact = {s1}
  LogFirstFact = {l1}
  EventsPerAtomic = 2
INVARIANTS TypeOK ChainIntact RowsAndEventsAgree
PROPERTIES LogOnlyGrows EveryRequestEnds
