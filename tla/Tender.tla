------------------------------- MODULE Tender -------------------------------
(***************************************************************************)
(* One tender from draft to award (apps/procurement, apps/workflow).       *)
(*                                                                         *)
(* A request loads the tender row into an instance, checks its guards on   *)
(* that instance and saves the columns it names; nothing locks the row, so *)
(* the instance may be stale by then.  Dates are whole days counted from   *)
(* the start; NULL is a column that is not set.  Every save also runs the  *)
(* post_save receivers of workflow/signals.py, on the instance's status.   *)
(*                                                                         *)
(* The commitment root of open_bids() and frozen_until, which no handler   *)
(* reads back, are left out.                                               *)
(*                                                                         *)
(* Assumed of the environment: dates are not edited in the admin panel     *)
(* after the draft is loaded for the first time, every tender has a rule   *)
(* and a lot, bidders seal with the tender's key, questions are asked of   *)
(* tenders that are no longer drafts, and staff mark a bid RESPONSIVE,     *)
(* EVALUATED or RECOMMENDED only once it is UNSEALED.                      *)
(***************************************************************************)
EXTENDS Integers, FiniteSets

CONSTANTS
  Proc,            \* concurrent requests
  Supplier,
  Dates,           \* dates a draft may carry
  BackDates,       \* publication dates already on a draft, as seed_demo enters them
  min_advert_days,
  QA_LEAD, EXTENSION_DAYS, LATE_WINDOW_DAYS,  \* 3, 7 and 7 in the code
  OBJECTION_DAYS,                             \* 10 in the code
  Examined,        \* the statuses of a bid that Award.clean() accepts: RESPONSIVE,
                   \* EVALUATED and RECOMMENDED in the code
  MaxDay           \* bound on the clock

NULL == -1

ASSUME DatesAssumption == Dates \subseteq Nat /\ BackDates \subseteq Nat
ASSUME DaysAssumption ==
  /\ min_advert_days \in Nat /\ QA_LEAD \in Nat
  /\ EXTENSION_DAYS \in Nat /\ LATE_WINDOW_DAYS \in Nat
  /\ OBJECTION_DAYS \in Nat /\ MaxDay \in Nat
ASSUME ExaminedAssumption == Examined \cap {"none", "RECEIVED", "UNSEALED"} = {}

VARIABLES
  now,        \* the clock
  tender,     \* the row of proc_tender
  key,        \* its TenderKey: "none", "held" or "released"
  bid,        \* the row of proc_bid of each supplier
  award,      \* the objection_until of each supplier's last award
  opened,     \* history: the row has been saved OPENED, "Public bid opening done"
  instance,   \* the tender as each request has loaded it
  submitting  \* the requests in submit_bid that have found the tender open

vars == <<now, tender, key, bid, award, opened, instance, submitting>>

Status == {"DRAFT", "PUBLISHED", "CLARIFYING", "CLOSED", "OPENED", "EVALUATING",
           "AWARDED", "CONTRACTED", "FROZEN", "TERMINATED", "CANCELLED"}

Moment == Int  \* NULL or a day

Tenders == [status : Status, est_value : BOOLEAN, published_at : Moment,
            qa_close_at : Moment, submission_close_at : Moment, opening_at : Moment]
NoInstance == [status |-> "none"]

Bids == [status : {"RECEIVED", "UNSEALED"} \cup Examined, submitted_at : Nat,
         priced : BOOLEAN]
NoBid == [status |-> "none", submitted_at |-> NULL, priced |-> FALSE]

Draft == [status : {"DRAFT"}, est_value : BOOLEAN, published_at : {NULL} \cup BackDates,
          qa_close_at : {NULL} \cup Dates, submission_close_at : {NULL} \cup Dates,
          opening_at : {NULL} \cup Dates]

Init ==
  /\ now = 0
  /\ tender \in Draft
  /\ key = "none"
  /\ bid = [s \in Supplier |-> NoBid]
  /\ award = [s \in Supplier |-> NULL]
  /\ opened = FALSE
  /\ instance = [p \in Proc |-> NoInstance]
  /\ submitting = {}

-----------------------------------------------------------------------------
\* Fault: a published tender may still be cancelled.
ALLOWED_Cancel(s) ==
  CASE s = "DRAFT" -> {"PUBLISHED", "CANCELLED"}
    [] s = "PUBLISHED" -> {"CLARIFYING", "CLOSED", "TERMINATED", "FROZEN", "CANCELLED"}
    [] OTHER -> {}
ALLOWED_TRANSITIONS(s) ==
  CASE s = "DRAFT" -> {"PUBLISHED", "CANCELLED"}
    [] s = "PUBLISHED" -> {"CLARIFYING", "CLOSED", "TERMINATED", "FROZEN"}
    [] s = "CLARIFYING" -> {"CLOSED", "TERMINATED", "FROZEN"}
    [] s = "CLOSED" -> {"OPENED", "TERMINATED", "FROZEN"}
    [] s = "OPENED" -> {"EVALUATING", "TERMINATED"}
    [] s = "EVALUATING" -> {"AWARDED", "TERMINATED", "FROZEN"}
    [] s = "AWARDED" -> {"CONTRACTED", "EVALUATING", "TERMINATED"}
    [] s = "FROZEN" -> {"PUBLISHED", "EVALUATING", "AWARDED", "TERMINATED"}
    [] OTHER -> {}

\* The CHECK constraints of proc_tender.
Constraints(t) ==
  /\ t.status \notin {"DRAFT", "CANCELLED"} => t.est_value
  /\ t.status # "DRAFT" => t.published_at # NULL
  /\ t.status = "AWARDED" => t.submission_close_at # NULL

\* Fault: the advert period is not measured.
AdvertLongEnough_Never(t) == TRUE
AdvertLongEnough(t) ==
  t.published_at # NULL /\ t.submission_close_at # NULL =>
    /\ t.submission_close_at - t.published_at >= min_advert_days
    /\ t.submission_close_at > t.published_at

QaInTime(t) ==
  t.qa_close_at # NULL /\ t.submission_close_at # NULL =>
    t.qa_close_at <= t.submission_close_at

OpeningInTime(t) ==
  t.opening_at # NULL /\ t.submission_close_at # NULL =>
    t.opening_at >= t.submission_close_at

\* full_clean(): clean() and the constraints.
Clean(t) ==
  /\ Constraints(t)
  /\ t.status # "DRAFT" => AdvertLongEnough(t) /\ OpeningInTime(t) /\ QaInTime(t)
  /\ t.status \in {"OPENED", "EVALUATING", "AWARDED", "CONTRACTED"} => t.opening_at # NULL

-----------------------------------------------------------------------------
Sealed(s) == bid[s].status = "RECEIVED"

\* Fault: every supplier is taken to have a bid.
Unsealed_All(b) == [b EXCEPT !.status = "UNSEALED", !.priced = TRUE]
\* What unseal_bids makes of a bid: an honest envelope verifies, whatever the
\* bid had become since it was opened before.
Unsealed(b) == IF b = NoBid THEN b ELSE [b EXCEPT !.status = "UNSEALED", !.priced = TRUE]

\* Fault: the receiver that unseals on opening is not connected.
AutoUnseals_Never(status) == FALSE
\* The receiver that unseals what is still sealed when a tender is saved OPENED.
AutoUnseals(status) == status = "OPENED" /\ key # "none" /\ \E s \in Supplier : Sealed(s)

\* A save: the row becomes t, saved from an instance with this status.
Save(t, status) ==
  /\ Constraints(t)
  /\ IF AutoUnseals(status)
     THEN /\ key' = "released"
          /\ bid' = [s \in Supplier |-> Unsealed(bid[s])]
          /\ tender' = [t EXCEPT !.status = "OPENED"]
     ELSE /\ key' = IF status = "PUBLISHED" /\ key = "none" THEN "held" ELSE key
          /\ tender' = t
          /\ UNCHANGED bid
  /\ opened' = (opened \/ tender'.status = "OPENED")

\* A request reads the row ...
Load(p) ==
  /\ instance[p] = NoInstance
  /\ instance' = [instance EXCEPT ![p] = tender]
  /\ UNCHANGED <<now, tender, key, bid, award, opened, submitting>>

End(p) ==
  /\ instance' = [instance EXCEPT ![p] = NoInstance]
  /\ submitting' = submitting \ {p}
  /\ UNCHANGED now

\* ... and ends with the handler it calls.
Request(p) ==
  /\ instance[p] # NoInstance
  /\ p \notin submitting
  /\ End(p)

Published(t) ==
  [t EXCEPT !.status = "PUBLISHED",
            !.published_at = IF @ = NULL THEN now ELSE @,
            !.qa_close_at = IF @ = NULL /\ t.submission_close_at # NULL
                            THEN t.submission_close_at - QA_LEAD ELSE @]

\* Tender.publish: the one handler that saves every column.
Publish(p) ==
  /\ Request(p)
  /\ instance[p].status = "DRAFT"
  /\ Clean(Published(instance[p]))
  /\ Save(Published(instance[p]), "PUBLISHED")
  /\ UNCHANGED award

\* Tender.transition, and close(), whose check on the commitments never fails.
Transition(p, s) ==
  /\ Request(p)
  /\ s \in ALLOWED_TRANSITIONS(instance[p].status)
  /\ Clean([instance[p] EXCEPT !.status = s])
  /\ Save([tender EXCEPT !.status = s], s)
  /\ UNCHANGED award

\* Tender.open_bids: from any status, at any time.
OpenBids(p) ==
  /\ Request(p)
  /\ Save([tender EXCEPT !.status = "OPENED"], "OPENED")
  /\ UNCHANGED award

\* unseal_bids, called by the DG or the auditor: from any status, at any time.
Unseal(p) ==
  /\ Request(p)
  /\ key # "none"
  /\ key' = "released"
  /\ bid' = [s \in Supplier |-> Unsealed(bid[s])]
  /\ tender' = [tender EXCEPT !.status = "OPENED"]
  /\ opened' = TRUE
  /\ UNCHANGED award

NewClose(close) == close + EXTENSION_DAYS

Smaller(a, b) == IF a < b THEN a ELSE b

\* Fault: the Q&A window moves past the new deadline, not to before it.
NewQa_After(qa, close) == close + QA_LEAD
NewQa(qa, close) == Smaller(IF qa = NULL THEN close ELSE qa, close - QA_LEAD)

\* answer_now inside the final week: deadline and Q&A window move, opening_at
\* does not.  An earlier answer leaves the tender as it is.
AnswerLate(p) ==
  LET close == instance[p].submission_close_at
      new == NewClose(close)
  IN /\ Request(p)
     /\ instance[p].status # "DRAFT"
     /\ close # NULL
     /\ now > close - LATE_WINDOW_DAYS
     /\ Save([tender EXCEPT !.submission_close_at = new,
                            !.qa_close_at = NewQa(instance[p].qa_close_at, new)],
             instance[p].status)
     /\ UNCHANGED award

is_open(t) ==
  t.status = "PUBLISHED" /\ t.submission_close_at # NULL /\ now < t.submission_close_at

\* Fault: the amount is stored with the submission.
NewBid_Priced(day) == [status |-> "RECEIVED", submitted_at |-> day, priced |-> TRUE]
NewBid(day) == [status |-> "RECEIVED", submitted_at |-> day, priced |-> FALSE]

\* submit_bid finds the tender open, ...
FindOpen(p) ==
  /\ instance[p] # NoInstance
  /\ is_open(instance[p])
  /\ submitting' = submitting \cup {p}
  /\ UNCHANGED <<now, tender, key, bid, award, opened, instance>>

\* Fault: the second look at the clock is not compared with the deadline.
InTime_Always(close) == TRUE
InTime(close) == now <= close

\* ... looks at the clock again and stamps the bid, with one_bid_per_bidder_per_lot, ...
SubmitBid(p, s) ==
  /\ p \in submitting
  /\ End(p)
  /\ key # "none"
  /\ InTime(instance[p].submission_close_at)
  /\ bid[s] = NoBid
  /\ bid' = [bid EXCEPT ![s] = NewBid(now)]
  /\ UNCHANGED <<tender, key, award, opened>>

\* ... or refuses it.
RefuseBid(p) ==
  /\ p \in submitting
  /\ End(p)
  /\ UNCHANGED <<tender, key, bid, award, opened>>

\* form_evaluation_committee, for the tender: Evaluation.tla has the committee.
FormCommittee(p) ==
  /\ Request(p)
  /\ instance[p].status \in {"OPENED", "EVALUATING"}
  /\ IF instance[p].status = "OPENED"
     THEN Save([tender EXCEPT !.status = "EVALUATING"], "EVALUATING")
     ELSE UNCHANGED <<tender, key, bid, opened>>
  /\ UNCHANGED award

\* Staff mark a bid as they examine it; no service does.
MarkBid(s, status) ==
  /\ bid[s].status = "UNSEALED"
  /\ bid' = [bid EXCEPT ![s].status = status]
  /\ UNCHANGED <<now, tender, key, award, opened, instance, submitting>>

\* Fault: any bid can be awarded.
Awardable_Any(b) == b # NoBid
Awardable(b) == b.status \in Examined

\* award_contract up to the end of Award.publish.  The tender becomes AWARDED
\* whatever it was, the status rule of Award.clean aside.
AwardContract(p, s) ==
  /\ Request(p)
  /\ Awardable(bid[s])
  /\ instance[p].status \notin {"DRAFT", "PUBLISHED", "CLARIFYING", "CLOSED"}
  /\ award' = [award EXCEPT ![s] = now + OBJECTION_DAYS]
  /\ Save([tender EXCEPT !.status = "AWARDED"], "AWARDED")

\* file_objection; freeze() refuses what is not live and the objection is rolled
\* back with it.
FileObjection(p, s) ==
  /\ Request(p)
  /\ award[s] # NULL
  /\ now <= award[s]
  /\ instance[p].status \in {"PUBLISHED", "CLARIFYING", "EVALUATING", "AWARDED"}
  /\ Save([tender EXCEPT !.status = "FROZEN"], "FROZEN")
  /\ UNCHANGED award

Tick ==
  /\ now < MaxDay
  /\ now' = now + 1
  /\ UNCHANGED <<tender, key, bid, award, opened, instance, submitting>>

\* Every step but publish().
Others ==
  \/ \E p \in Proc :
       \/ Load(p) \/ OpenBids(p) \/ Unseal(p) \/ AnswerLate(p) \/ FormCommittee(p)
       \/ FindOpen(p) \/ RefuseBid(p)
       \/ \E s \in ALLOWED_TRANSITIONS(instance[p].status) : Transition(p, s)
       \/ \E s \in Supplier : SubmitBid(p, s) \/ AwardContract(p, s) \/ FileObjection(p, s)
  \/ \E s \in Supplier, status \in Examined : MarkBid(s, status)
  \/ Tick

Next == Others \/ \E p \in Proc : Publish(p)

Spec == Init /\ [][Next]_vars

-----------------------------------------------------------------------------
TypeOK ==
  /\ now \in Nat
  /\ tender \in Tenders
  /\ key \in {"none", "held", "released"}
  /\ bid \in [Supplier -> Bids \cup {NoBid}]
  /\ award \in [Supplier -> Moment]
  /\ opened \in BOOLEAN
  /\ instance \in [Proc -> Tenders \cup {NoInstance}]
  /\ submitting \subseteq {p \in Proc : instance[p] # NoInstance}

\* The tender has been public: its sealing key was made when it was saved
\* PUBLISHED.
WentPublic == key # "none"

\* However publications, transitions and extensions by concurrent requests
\* interleave, a tender that went public was advertised for the legal minimum.
AdvertPeriodKept ==
  WentPublic => /\ tender.published_at # NULL
                /\ tender.submission_close_at # NULL =>
                     tender.submission_close_at - tender.published_at >= min_advert_days

\* Nor do they leave the Q&A window open after submissions close.
QuestionsCloseFirst ==
  WentPublic /\ tender.submission_close_at # NULL =>
    tender.qa_close_at <= tender.submission_close_at

\* An award is only ever made to a bid that was opened in public: its price is
\* disclosed, the key released, whatever was frozen, reopened or unsealed twice.
AwardsFollowOpening ==
  \A s \in Supplier : award[s] # NULL =>
    bid[s].priced /\ key = "released" /\ opened
=============================================================================
