----------------------------- MODULE Evaluation -----------------------------
(***************************************************************************)
(* Scores, dissent, the evaluation report and the recommendation, over the *)
(* sealed bids of SealedBids: a second unsealing may come at any time      *)
(* (apps/workflow/services_phases.py, services.py).                        *)
(*                                                                         *)
(* enter_score is what the API calls, score_bid what the service layer     *)
(* offers beside it.  Narratives are never empty and raw marks are         *)
(* few; of dissents only their number counts.  Staff mark bids and edit     *)
(* criteria in the admin panel.                                            *)
(***************************************************************************)
EXTENDS SealedBids, FiniteSetsExt

CONSTANTS
  Criterion,   \* of the tender
  User, DG,    \* committee candidates and the Director-General, who needs no seat
  Raw,         \* marks
  Weight,      \* weights a criterion may be given
  Examined,    \* bound: the bids that are scored and marked
  Marks,       \* bound: the statuses they are marked with
  MaxDissent   \* bound on the dissents

ASSUME MarksAssumption == Raw \subseteq Nat /\ Weight \subseteq Nat /\ Weight # {}
ASSUME BoundsAssumption == Examined \subseteq Bid /\ Marks \subseteq Opened \ {"UNSEALED"} /\ MaxDissent \in Nat
ASSUME UsersAssumption ==
  DG \notin User /\ "nobody" \notin User \cup {DG} /\ IsFiniteSet(User) /\ IsFiniteSet(Criterion)

VARIABLES
  weight,       \* of each criterion
  committee,    \* users with a row in proc_evaluation_committee
  score,        \* the row of proc_score for each bid and criterion, if any
  dissent,      \* how many rows proc_dissent has
  totals,       \* what a publication in progress has computed, or Nothing
  report,       \* the row of proc_evaluation_report, or Nothing
  recommended   \* bids with a row in proc_recommendation

evalVars == <<weight, committee, score, dissent, totals, report, recommended>>
vars == <<sealVars, evalVars>>

Nothing == [made |-> FALSE]
NoScore == [by |-> "nobody", raw |-> 0]
Evaluator == User \cup {DG}
Scores == [by : Evaluator, raw : Raw]

Init ==
  /\ SealInit
  /\ weight \in [Criterion -> Weight]
  /\ committee = {}
  /\ score = [b \in Bid |-> [c \in Criterion |-> NoScore]]
  /\ dissent = 0
  /\ totals = Nothing /\ report = Nothing
  /\ recommended = {}

-----------------------------------------------------------------------------
Scored(b) == {c \in Criterion : score[b][c] # NoScore}

\* Fault: the committee is replaced by the new list.
Seated_Replaced(members) == members
\* Fault: whoever forms the committee gets a seat on it.
Seated_Chair(members) == committee \cup members \cup {DG}
\* get_or_create: members are added and keep their seats.
Seated(members) == committee \cup members

\* form_evaluation_committee.
FormCommittee(members) ==
  /\ tender \in {"OPENED", "EVALUATING"}
  /\ committee' = Seated(members)
  /\ tender' = "EVALUATING"
  /\ UNCHANGED <<key, ceremony, identity, bid, beside, weight, score, dissent, totals, report, recommended>>

MayScore(u) == u = DG \/ u \in committee
\* What score_bid and enter_score ask; a tender FROZEN before its opening passes.
AfterOpening == tender \notin {"DRAFT", "PUBLISHED", "CLOSED"}

Written(u, b, c, raw) ==
  /\ score' = [score EXCEPT ![b][c] = [by |-> u, raw |-> raw]]
  /\ UNCHANGED <<sealVars, weight, committee, dissent, totals, report, recommended>>

\* enter_score: full_clean() and uniq_score_per_criterion refuse a second row.
EnterScore(u, b, c, raw) ==
  /\ b \in Made
  /\ AfterOpening
  /\ MayScore(u)
  /\ score[b][c] = NoScore
  /\ Written(u, b, c, raw)

\* Fault: the row is looked up by bid and criterion alone.
OwnRow_Any(u, b, c) == TRUE
\* update_or_create looks for the evaluator's own row; another's collides.
OwnRow(u, b, c) == score[b][c] = NoScore \/ score[b][c].by = u

\* score_bid.
ScoreBid(u, b, c, raw) ==
  /\ b \in Made
  /\ AfterOpening
  /\ MayScore(u)
  /\ OwnRow(u, b, c)
  /\ Written(u, b, c, raw)

\* record_dissent, open to any user who is logged in.
RecordDissent(b, c) ==
  /\ score[b][c] # NoScore
  /\ dissent < MaxDissent
  /\ dissent' = dissent + 1
  /\ UNCHANGED <<sealVars, weight, committee, score, totals, report, recommended>>

\* compute_bid_totals: a bid staff have RECOMMENDED is left out.
compute_bid_totals ==
  [b \in {d \in Made : bid[d].status \in {"UNSEALED", "RESPONSIVE", "EVALUATED"}} |->
     [total |-> MapThenSumSet(LAMBDA c : score[b][c].raw * weight[c], Scored(b)),
      count |-> Cardinality(Scored(b))]]

\* publish_evaluation_report, from any status: the totals, ...
ComputeTotals ==
  /\ ~totals.made /\ ~report.made
  /\ totals' = [made |-> TRUE, rows |-> compute_bid_totals]
  /\ UNCHANGED <<sealVars, weight, committee, score, dissent, report, recommended>>

\* ... then the counts and the row; a tender has one, and a second call fails.
PublishReport ==
  /\ totals.made
  /\ report' = [made |-> TRUE, rows |-> totals.rows, signed_by_count |-> Cardinality(committee),
                dissents_count |-> dissent]
  /\ totals' = Nothing
  /\ UNCHANGED <<sealVars, weight, committee, score, dissent, recommended>>

\* Fault: one score is enough.
FullyScored_Some(b) == Scored(b) # {}
FullyScored(b) == Scored(b) = Criterion

\* recommend_award; it adds a row at every call and leaves the bid's status alone.
RecommendAward(b) ==
  /\ tender = "EVALUATING"
  /\ b \in Made
  /\ bid[b].status = "UNSEALED"
  /\ FullyScored(b)
  /\ recommended' = recommended \cup {b}
  /\ UNCHANGED <<sealVars, weight, committee, score, dissent, totals, report>>

\* Staff move an opened bid on, which no service does.
MarkBid(b, s) ==
  /\ b \in Made
  /\ bid[b].status \in Opened
  /\ bid' = [bid EXCEPT ![b].status = s]
  /\ UNCHANGED <<tender, key, ceremony, identity, beside, evalVars>>

\* Criterion.save sets the flag "locked" and refuses nothing.
SaveCriterion(c, w) ==
  /\ weight' = [weight EXCEPT ![c] = w]
  /\ UNCHANGED <<sealVars, committee, score, dissent, totals, report, recommended>>

EvalNext ==
  \/ \E members \in SUBSET User : FormCommittee(members)
  \/ \E b \in Examined, c \in Criterion :
       \/ \E u \in Evaluator, raw \in Raw : EnterScore(u, b, c, raw) \/ ScoreBid(u, b, c, raw)
       \/ RecordDissent(b, c)
  \/ ComputeTotals \/ PublishReport
  \/ \E b \in Examined : RecommendAward(b) \/ \E s \in Marks : MarkBid(b, s)
  \/ \E c \in Criterion, w \in Weight : SaveCriterion(c, w)

Next == (SealNext /\ UNCHANGED evalVars) \/ EvalNext

Spec == Init /\ [][Next]_vars

-----------------------------------------------------------------------------
(* The pages (apps/workflow/views.py).  They list a bid that staff have RECOMMENDED, which
   compute_bid_totals leaves out. *)

Listed == {b \in Made : bid[b].status \in {"UNSEALED", "RESPONSIVE", "EVALUATED", "RECOMMENDED"}}

\* Open to anyone while the tender is OPENED or EVALUATING (or AWARDED); on each bid
\* the scores and whose they are.
served == tender \in {"OPENED", "EVALUATING"}
evaluation_workspace ==
  [scorecard |-> [b \in Listed |-> score[b]], committee |-> committee, report |-> report]

evaluation_report_page == [report |-> report, bids |-> Listed, committee |-> committee]

-----------------------------------------------------------------------------
TypeOK ==
  /\ SealTypeOK
  /\ weight \in [Criterion -> Weight]
  /\ committee \subseteq User
  /\ score \in [Bid -> [Criterion -> Scores \cup {NoScore}]]
  /\ dissent \in 0..MaxDissent
  /\ recommended \subseteq Made

\* A bid on record as recommended was opened in public and keeps a score on every
\* criterion, also after freezes, a second unsealing or later marks, and the scorecard
\* shows them whenever it is served, unless the bid was rejected since (recommend_award).
RecommendedFullyScored ==
  \A b \in recommended :
    /\ bid[b].unsealed /\ bid[b].shown
    /\ Scored(b) = Criterion
    /\ served /\ bid[b].status # "REJECTED" =>
         \A c \in Criterion : evaluation_workspace.scorecard[b][c] # NoScore

\* A published report never claims more than the record holds: opened bids, scores,
\* dissents and signatures it counts are there and stay there, whatever happened
\* between its totals and its publication, and its page goes on listing its bids and
\* signatories, except bids rejected since (publish_evaluation_report).
ReportBacked ==
  report.made =>
    /\ evaluation_report_page.report.signed_by_count <= Cardinality(evaluation_report_page.committee)
    /\ report.dissents_count <= dissent
    /\ \A b \in DOMAIN report.rows :
         /\ bid[b].unsealed /\ report.rows[b].count <= Cardinality(Scored(b))
         /\ b \in evaluation_report_page.bids \/ bid[b].status = "REJECTED"

\* A score, once entered, stays and stays its evaluator's: no second evaluator takes
\* it over, no unsealing, report or mark removes it (enter_score, score_bid).
ScoresStand ==
  [][\A b \in Bid, c \in Criterion :
       score[b][c] # NoScore => score'[b][c].by = score[b][c].by]_vars
=============================================================================
