-------------------------------- MODULE Rules --------------------------------
(***************************************************************************)
(* The published arithmetic: the threshold matrix and the body it routes   *)
(* an approval to, and the grade of a closed contract                      *)
(* (apps/procurement/models_party.py, apps/workflow/models_phases.py).     *)
(*                                                                         *)
(* Amounts are whole; percentages of growth are whole points.  A matrix is *)
(* a set of rules.                                                         *)
(***************************************************************************)
EXTENDS Integers, FiniteSets, FiniteSetsExt

OpenEnded == -1     \* max_amount is NULL
\* Of a tender that was published without a rule, and of no class but the catch-all.
NoRule == [fy |-> "none", method |-> "none", goods |-> "GENERIC", min_amount |-> 0,
           max_amount |-> 0, approval_body |-> "none", is_active |-> FALSE]

covers(rule, value) ==
  /\ value >= rule.min_amount
  /\ rule.max_amount = OpenEnded \/ value < rule.max_amount

_match_body(approval_body) ==
  CASE approval_body = "MTB" -> "MTB"
    [] approval_body = "BPP_NO_OBJECTION" -> "BPP"
    [] approval_body = "SEC" -> "SEC"
    [] approval_body = "FEC" -> "FEC"
    [] OTHER -> "AO"

\* Fault: the bands are tried from the lowest floor.
Highest_Lowest(rules) == {r \in rules : \A s \in rules : r.min_amount <= s.min_amount}
Highest(rules) == {r \in rules : \A s \in rules : s.min_amount <= r.min_amount}

\* ApprovalRouting.determine_body: the tender's rule, or else the active matrix, of which
\* year, method and class do not count.  Rules that share a floor come in no order: these
\* are the bodies the database may give.
determine_body(rules, value, rule) ==
  LET covering == {r \in rules : r.is_active /\ covers(r, value)}
  IN IF rule # NoRule THEN {_match_body(rule.approval_body)}
     ELSE IF covering = {} THEN {"AO"}
     ELSE {_match_body(r.approval_body) : r \in Highest(covering)}

\* approve_routing records whose approval it is without asking the approver.
approved_by_body(rule) == IF rule # NoRule THEN _match_body(rule.approval_body) ELSE "AO"

-----------------------------------------------------------------------------
AtLeastZero(n) == IF n < 0 THEN 0 ELSE n

\* Fault: the deduction for growth is halved.
variation_Halved(growth) == AtLeastZero(100 - growth * 2)
\* Scores of SupplierPerformanceRating.compute: floored at 0, not capped at 100.
variation(growth) == AtLeastZero(100 - growth * 5)
timeliness(missed) == AtLeastZero(100 - missed * 10)
quality(snags) == AtLeastZero(100 - snags * 10)

\* In hundredths.
composite(c) == 35 * timeliness(c.missed) + 40 * quality(c.snags) + 25 * variation(c.growth)

grade(c) ==
  CASE composite(c) >= 8500 -> "A"
    [] composite(c) >= 7000 -> "B"
    [] composite(c) >= 5000 -> "C"
    [] composite(c) >= 3000 -> "D"
    [] OTHER -> "F"
=============================================================================
