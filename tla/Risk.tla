-------------------------------- MODULE Risk ---------------------------------
(***************************************************************************)
(* The red-flag indicators of one tender (apps/procurement/risk.py), each  *)
(* next to the definition the site publishes for it in INDICATORS, and     *)
(* what they read of the threshold matrix and of a contract's record.      *)
(*                                                                         *)
(* The program runs on one input at a time; a behaviour is one input and   *)
(* what is computed from it.  Criteria hold none of the words T09 looks    *)
(* for (Register has what happens otherwise).  T05, T08 and T12 are        *)
(* computed by functions nothing calls; nothing computes T07 and T10.      *)
(***************************************************************************)
EXTENDS Rules, Sequences, SequencesExt

CONSTANT
  Biddings, \* the tenders considered for their bids and bidders
  Values,   \* the tenders considered for their value and the threshold matrix
  Records   \* the contracts considered: milestones missed, snags, growth in percent

\* Bids come in some order, each of a supplier with a legal name and registered details;
\* amounts are whole and not negative.  Of two bands of one year, method and class the
\* database asks no more than that their floors differ (uniq_threshold_band).
WellFormed(t) ==
  /\ t.kind = "tender"
  /\ t.amount \in Seq(Nat) /\ t.awards \in Seq(Nat) /\ t.est_value \in Nat
  /\ \A b \in DOMAIN t.amount : IsFiniteSet(t.details[b])
  /\ \A r \in t.rules :
       /\ r.min_amount \in Nat /\ r.max_amount \in Int
       /\ \A s \in t.rules :
            r.fy = s.fy /\ r.method = s.method /\ r.goods = s.goods /\ r.min_amount = s.min_amount
              => r = s

ASSUME MatrixAssumption ==
  /\ \A t \in Biddings : WellFormed(t)
  /\ \A t \in Values : WellFormed(t)
ASSUME RecordAssumption == Records \subseteq [kind : {"record"}, missed : Nat, snags : Nat, growth : Int]

NoValue == 0  \* an amount that is not set

VARIABLE input  \* one of them, of kind "tender" or "record"

Init == input \in Biddings \/ input \in Values \/ input \in Records

Next == UNCHANGED input

Spec == Init /\ [][Next]_input

-----------------------------------------------------------------------------
Hit(code, severity) == [code |-> code, severity |-> severity]
When(condition, hit) == IF condition THEN <<hit>> ELSE <<>>

\* The members of S from the lowest value to the highest.
InOrder(S, value) ==
  CHOOSE p \in Bijection(1..Cardinality(S), S) :
    \A i, j \in DOMAIN p : i < j => value[p[i]] <= value[p[j]]
disclosed(t) == {b \in DOMAIN t.amount : t.amount[b] # NoValue}

\* Fault: the window is slid over the bids as they came in.
amounts_Unsorted(t) ==
  LET p == InOrder(disclosed(t), [b \in DOMAIN t.amount |-> b])
  IN [i \in DOMAIN p |-> t.amount[p[i]]]
\* The amounts that are disclosed, from the lowest.
amounts(t) ==
  LET p == InOrder(disclosed(t), t.amount)
  IN [i \in DOMAIN p |-> t.amount[p[i]]]

\* Within 0.5% of the lowest of them.
Clustered(values) == (Max(values) - Min(values)) * 200 <= Min(values)

\* T01: a window of three in a row.
t01(t) ==
  LET s == amounts(t)
  IN \E i \in 1..(Len(s) - 2) : Clustered({s[i], s[i + 1], s[i + 2]})

\* T02, once for each award from 98% of the estimate to just under all of it.
t02(t) ==
  {i \in DOMAIN t.awards :
     /\ t.est_value # NoValue /\ t.awards[i] # NoValue
     /\ t.awards[i] * 100 >= 98 * t.est_value /\ t.awards[i] < t.est_value}

\* The value that T03 and the routing look at, and the class of the rule.
value_checked(t) ==
  LET award_value == FoldSeq(LAMBDA a, sum : a + sum, 0, t.awards)
  IN IF award_value # NoValue THEN award_value ELSE t.est_value
goods(t) == t.rule.goods

\* T03: the active floor of the same class next above the value.
next_higher(t) ==
  LET above == {r \in t.rules : r.is_active /\ r.goods = goods(t) /\ r.min_amount > value_checked(t)}
  IN {r \in above : \A s \in above : r.min_amount <= s.min_amount}
t03(t) ==
  /\ value_checked(t) > 0
  /\ \E r \in next_higher(t) : (r.min_amount - value_checked(t)) * 100 <= r.min_amount

t04(t) ==
  /\ t.method \in {"NCB", "ICB", "RFQ", "TWO_STAGE", "RESTRICTED"}
  /\ Cardinality(DOMAIN t.amount) = 1

\* T06: the registered details (phone, email, RC number, TIN, owner) that bidders of two
\* or more different legal names have in common.
registered(t) == UNION {t.details[b] : b \in DOMAIN t.amount}
names_with(t, d) == {t.legal_name[b] : b \in {c \in DOMAIN t.amount : d \in t.details[c]}}
t06(t) == {d \in registered(t) : Cardinality(names_with(t, d)) >= 2}

\* T11, with its own table of minimum days, in which the method SHOP is spelled SHOPPING.
min_days(method) ==
  CASE method = "NCB" -> 21 [] method = "ICB" -> 30 [] method = "RFQ" -> 7
    [] method = "DIRECT" -> 0 [] OTHER -> 14
t11(t) ==
  /\ t.published /\ t.awards # <<>>
  /\ min_days(t.method) > 0 /\ t.cycle_days < min_days(t.method)

hits(t) ==
  When(t01(t), Hit("T01", "HIGH"))
  \o [i \in 1..Cardinality(t02(t)) |-> Hit("T02", "MEDIUM")]
  \o When(t03(t), Hit("T03", "HIGH"))
  \o When(t04(t), Hit("T04", "LOW"))
  \o [i \in 1..Cardinality(t06(t)) |-> Hit("T06", "HIGH")]
  \o When(t11(t), Hit("T11", "HIGH"))

SEVERITY_ORDER == [LOW |-> 1, MEDIUM |-> 2, HIGH |-> 3]

\* One hit taken into the findings so far.
Merged(findings, hit) ==
  IF \E i \in DOMAIN findings : findings[i].code = hit.code
  THEN [i \in DOMAIN findings |->
          IF findings[i].code # hit.code THEN findings[i]
          ELSE [findings[i] EXCEPT
                  !.occurrences = @ + 1,
                  !.severity = IF SEVERITY_ORDER[hit.severity] > SEVERITY_ORDER[@]
                               THEN hit.severity ELSE @]]
  ELSE Append(findings, [code |-> hit.code, severity |-> hit.severity, occurrences |-> 1])

_dedupe(hs) == FoldLeft(Merged, <<>>, hs)

evaluate_tender(t) == _dedupe(hits(t))

-----------------------------------------------------------------------------
\* What the first routing of the tender's approval may ask for, and whether the approval
\* may be published as correct.
route_approval(t) == determine_body(t.rules, value_checked(t), t.rule)
is_correct(t) == approved_by_body(t.rule) \in route_approval(t)

active(t) == {r \in t.rules : r.is_active}
\* The page that publishes the matrix, one year at a time.
rules_page(t, fy) == {r \in active(t) : r.fy = fy}

-----------------------------------------------------------------------------
\* INDICATORS, T01: "Three or more bids lie within 0.5% of each other".
SomeCluster(t) ==
  \E bs \in SUBSET DOMAIN t.amount :
    /\ Cardinality(bs) >= 3 /\ \A b \in bs : t.amount[b] # NoValue
    /\ Clustered({t.amount[b] : b \in bs})

\* INDICATORS, T03: "Award within 1% below a threshold boundary avoids a higher approving
\* authority or a no-objection certificate".  Read as risk.py:158-160 narrows it: the
\* boundaries are the floors of the class of the tender's own rule, of any active year,
\* and before an award the estimate is what is looked at.
SomeBoundaryShaved(t) ==
  \E r \in active(t) :
    /\ r.goods = goods(t)
    /\ 0 < value_checked(t) /\ value_checked(t) < r.min_amount
    /\ value_checked(t) * 100 >= 99 * r.min_amount

\* INDICATORS, T06: "Two or more bidders on one tender share a registered owner, contact
\* number, address or bank account".  No code compares an address or a bank account, so
\* neither is among the details; an e-mail, RC number and tax number are compared though
\* the definition does not name them.  Bidders are told apart by their legal names.
SomeSharedDetail(t) ==
  \E b, c \in DOMAIN t.amount :
    t.legal_name[b] # t.legal_name[c] /\ t.details[b] \cap t.details[c] # {}

\* Looking only at neighbours in the sorted bids and at the nearest boundary, and merging
\* hits, evaluate_tender() finds exactly what the definitions of T01, T03 and T06 say, the
\* last two as restricted above, each indicator once, and counts every detail shared.
FlagsAsDefined ==
  input.kind = "tender" =>
    LET findings == evaluate_tender(input)
        found == {findings[i].code : i \in DOMAIN findings}
    IN /\ "T01" \in found <=> SomeCluster(input)
       /\ "T03" \in found <=> SomeBoundaryShaved(input)
       /\ "T06" \in found <=> SomeSharedDetail(input)
       /\ Cardinality(found) = Len(findings)
       /\ FoldLeft(LAMBDA n, f : n + f.occurrences, 0, findings) = Len(hits(input))

\* Three readers of one matrix.  The authority a T03 flag says was avoided is one that the
\* routing of the boundary's own amount may ask for, and if it may ask for another, then
\* an active band of another class, method or year starts at that boundary: no band from
\* below is asked.  And in a matrix of one active year, where the tender has no rule of
\* its own, an approval published as correct (models_phases.py:205, "Approval matches
\* threshold rules") is asked for on that year's page by a band that no other band of the
\* page covering the value starts above.  (With an older year left active the last may
\* fail: the routing does not look at the year, the page does.)
FlagNamesEscapedBody ==
  input.kind = "tender" =>
    /\ t03(input) =>
         \A r \in next_higher(input) :
           covers(r, r.min_amount) =>
             LET starting == {s \in active(input) : s.min_amount = r.min_amount /\ covers(s, s.min_amount)}
             IN determine_body(input.rules, r.min_amount, NoRule)
                  = {_match_body(s.approval_body) : s \in starting}
    /\ input.rule = NoRule /\ is_correct(input) =>
         \A fy \in {r.fy : r \in active(input)} :
           LET covering == {r \in rules_page(input, fy) : covers(r, value_checked(input))}
           IN active(input) = rules_page(input, fy) /\ covering # {} =>
                \E r \in covering : /\ _match_body(r.approval_body) = "AO"
                                    /\ \A s \in covering : s.min_amount <= r.min_amount

\* Unless its price fell, a contract that grew by more than 12%, had four snags or missed
\* five milestones is never graded A, and no composite leaves the scale of 100.
GradesEarned ==
  input.kind = "record" /\ input.growth >= 0 =>
    /\ composite(input) \in 0..10000
    /\ grade(input) = "A" => input.growth <= 12 /\ input.snags <= 3 /\ input.missed <= 4
=============================================================================
