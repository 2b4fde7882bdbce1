------------------------------- MODULE MCRisk --------------------------------
(***************************************************************************)
(* Inputs for Risk: tenders told apart by their bids and bidders, tenders  *)
(* told apart by their value and the threshold matrix, closed contracts.   *)
(***************************************************************************)
EXTENDS Risk

Bids == 1..4
Amounts == {NoValue, 1000, 1005, 1006, 1011}
Phone == <<"phone", "p">>
Owner == <<"owner", "o">>

Tender(amount, legal_name, details, awards, est, rules, rule) ==
  [kind |-> "tender", method |-> "NCB", est_value |-> est, amount |-> amount,
   legal_name |-> legal_name, details |-> details, awards |-> awards, rules |-> rules,
   rule |-> rule, published |-> TRUE, cycle_days |-> 20]

\* Suppliers differ on the first three bids only; the first two may be of one supplier.
MCBiddings ==
  {Tender(a, <<"s1", second, "s3", "s4">>, <<{Phone, Owner}, d, e, {}>>, <<995, 985>>, 1000, {}, NoRule) :
     a \in [Bids -> Amounts], second \in {"s1", "s2"},
     d \in SUBSET {Phone, Owner}, e \in SUBSET {Phone, Owner}}

Rule(fy, method, class, min, max, body, a) ==
  [fy |-> fy, method |-> method, goods |-> class, min_amount |-> min, max_amount |-> max,
   approval_body |-> body, is_active |-> a]

\* seed_demo's matrix for one year, in millions.
Seeded(fy) ==
  {Rule(fy, "NCB", "GENERIC", 50, 5000, "MTB", TRUE), Rule(fy, "ICB", "GENERIC", 5000, OpenEnded, "FEC", TRUE),
   Rule(fy, "RFQ", "GOODS", 0, 30, "ACCOUNTING_OFFICER", TRUE), Rule(fy, "RFQ", "WORKS", 30, 50, "ACCOUNTING_OFFICER", TRUE),
   Rule(fy, "SHOP", "GOODS", 0, 10, "ACCOUNTING_OFFICER", TRUE), Rule(fy, "DIRECT", "GENERIC", 0, 5, "DG_JUSTIFIED", TRUE)}

\* A low band, one from 200 and a third, which may start where the second does (by another
\* method), be of another class or of the year before, overlap, leave a gap or be retired.
Low == {Rule("2026", "DIRECT", "GENERIC", 0, m, "ACCOUNTING_OFFICER", a) : m \in {OpenEnded, 100, 400}, a \in BOOLEAN}
Middle == {Rule("2026", "NCB", "GENERIC", 200, m, "MTB", a) : m \in {OpenEnded, 200, 202, 400}, a \in BOOLEAN}
Third ==
  {Rule(y[1], "ICB", y[2], min, m, body, a) :
     y \in {<<"2026", "GENERIC">>, <<"2026", "WORKS">>, <<"2025", "GENERIC">>},
     min \in {200, 202}, m \in {OpenEnded, 400}, body \in {"ACCOUNTING_OFFICER", "FEC"}, a \in BOOLEAN}
Matrices == {{x, y, z} : x \in Low, y \in Middle, z \in Third}
Works == Rule("2026", "RFQ", "WORKS", 0, 400, "MTB", TRUE)

MCValues ==
  {Tender(<<NoValue>>, <<"s1">>, <<{}>>, awards, est, m, r) :
     r \in {NoRule, Works}, awards \in {<<>>, <<99, 100>>},
     est \in {NoValue, 98, 197, 198, 199, 200, 202}, m \in Matrices}
  \cup
  {Tender(<<NoValue>>, <<"s1">>, <<{}>>, <<>>, est, m, r) :
     r \in {NoRule, Works}, est \in {4, 5, 9, 29, 30, 49, 50, 4949, 4950, 4951, 5000},
     m \in {Seeded("2026"), Seeded("2026") \cup Seeded("2025")}}

MCRecords == [kind : {"record"}, missed : 0..11, snags : 0..11, growth : -30..30]
=============================================================================
