--------------------------- MODULE Tender_proofs ---------------------------
(***************************************************************************)
(* Tender and what the public sees of it, for any dates, any number of     *)
(* bidders and any number of concurrent requests, each as slow as it       *)
(* likes.                                                                  *)
(*                                                                         *)
(* AwardsFollowOpening is strengthened by what a bid's status says of its  *)
(* price.  AdvertPeriodKept and QuestionsCloseFirst are about columns that *)
(* stale instances write, so their invariant speaks of the row and of all  *)
(* instances at once: there is a deadline, the draft's, that none of them  *)
(* undercuts and that was far enough off on the day of publication.  It    *)
(* needs BackDates = {}: a back-dated draft can be opened unpublished.     *)
(* Register follows, since its steps are Tender's; where stale instances   *)
(* undo a property, its invariants, like the property, hold until the      *)
(* history says that they have.                                            *)
(***************************************************************************)
EXTENDS Register, TLAPS

Loaded(p) == instance[p] # NoInstance

\* What a save leaves alone, and what it may add.
SaveFacts(t) ==
  /\ \E s \in {t.status, "OPENED"} : tender' = [t EXCEPT !.status = s]
  /\ key' \in {"held", "released", key}
  /\ key = "released" => key' = "released"
  /\ key # "none" => key' # "none"
  /\ opened' \in BOOLEAN /\ (opened => opened')
  /\ \A s \in Supplier :
       bid'[s] = bid[s] \/ (bid'[s] = Unsealed(bid[s]) /\ key' = "released" /\ opened')

LEMMA NoInstanceApart == \A t \in Tenders : t # NoInstance
  BY DEF Tenders, NoInstance, Status

\* A request that ends leaves the others' instances alone.
LEMMA Ended ==
  ASSUME TypeOK, NEW p \in Proc, End(p)
  PROVE  /\ now' = now
         /\ instance' = [instance EXCEPT ![p] = NoInstance]
         /\ instance' \in [Proc -> Tenders \cup {NoInstance}]
         /\ submitting' \subseteq {q \in Proc : instance'[q] # NoInstance}
         /\ \A q \in Proc : Loaded(q)' => Loaded(q) /\ instance'[q] = instance[q]
  BY DEF TypeOK, End, Loaded

LEMMA UnsealedType ==
  ASSUME NEW b \in Bids \cup {NoBid}
  PROVE  /\ Unsealed(b) \in Bids \cup {NoBid}
         /\ b.priced => Unsealed(b).priced
         /\ b # NoBid => Unsealed(b) \in Bids /\ Unsealed(b).priced
  BY DEF Unsealed, Bids, NoBid

LEMMA SaveEffect ==
  ASSUME TypeOK, NEW t \in Tenders, NEW status, Save(t, status)
  PROVE  /\ SaveFacts(t)
         /\ tender' \in Tenders
         /\ bid' \in [Supplier -> Bids \cup {NoBid}]
         /\ key' \in {"none", "held", "released"}
         /\ status = "PUBLISHED" => key' # "none"
PROOF
<1>1. CASE AutoUnseals(status)
  <2>1. /\ key' = "released" /\ tender' = [t EXCEPT !.status = "OPENED"]
        /\ bid' = [s \in Supplier |-> Unsealed(bid[s])]
        /\ opened' = (opened \/ tender'.status = "OPENED")
    BY <1>1 DEF Save
  <2>2. tender'.status = "OPENED" /\ tender' \in Tenders
    BY <2>1 DEF Tenders, Status
  <2>3. opened' = TRUE
    BY <2>1, <2>2
  <2>4. bid' \in [Supplier -> Bids \cup {NoBid}]
    BY <2>1, UnsealedType DEF TypeOK
  <2> QED BY <2>1, <2>2, <2>3, <2>4 DEF SaveFacts
<1>2. CASE ~AutoUnseals(status)
  <2>1. /\ key' = (IF status = "PUBLISHED" /\ key = "none" THEN "held" ELSE key)
        /\ tender' = t /\ bid' = bid
        /\ opened' = (opened \/ tender'.status = "OPENED")
    BY <1>2 DEF Save
  <2>2. tender' = [t EXCEPT !.status = t.status]
    BY <2>1 DEF Tenders
  <2>3. opened' \in BOOLEAN /\ (opened => opened')
    BY <2>1
  <2> QED BY <2>1, <2>2, <2>3 DEF SaveFacts, TypeOK
<1> QED BY <1>1, <1>2

LEMMA PublishedType ==
  ASSUME TypeOK, NEW t \in Tenders
  PROVE  Published(t) \in Tenders
PROOF
<1>1. t.submission_close_at - QA_LEAD \in Moment
  BY DaysAssumption DEF Tenders, Moment
<1>2. now \in Moment
  BY DEF TypeOK, Moment
<1> QED BY <1>1, <1>2 DEF Published, Tenders, Status

LEMMA AnswerType ==
  ASSUME TypeOK, NEW i \in Tenders
  PROVE  /\ NewClose(i.submission_close_at) \in Moment
         /\ NewQa(i.qa_close_at, NewClose(i.submission_close_at)) \in Moment
  BY DaysAssumption DEF Tenders, Moment, NewClose, NewQa, Smaller

-----------------------------------------------------------------------------
\* The handlers that save a few columns, seen as the save of some row.
Handler(p) ==
  \/ OpenBids(p) \/ AnswerLate(p)
  \/ \E s \in ALLOWED_TRANSITIONS(instance[p].status) : Transition(p, s)
  \/ FormCommittee(p) \/ \E s \in Supplier : AwardContract(p, s) \/ FileObjection(p, s)

\* The rows a handler may save: another status, or a late answer's dates.
StatusRow(p, t) ==
  \E s \in Status \ {"DRAFT"} : /\ t = [tender EXCEPT !.status = s]
                                /\ s = "CANCELLED" => instance[p].status = "DRAFT"

LateRow(p, t) ==
  LET new == NewClose(instance[p].submission_close_at)
  IN /\ instance[p].status # "DRAFT" /\ instance[p].submission_close_at # NULL
     /\ t = [tender EXCEPT !.submission_close_at = new,
                           !.qa_close_at = NewQa(instance[p].qa_close_at, new)]

SavedRow(p, t) == t = tender \/ StatusRow(p, t) \/ LateRow(p, t)

LEMMA SavedRowType ==
  ASSUME TypeOK, NEW p \in Proc, Loaded(p), NEW t, SavedRow(p, t)
  PROVE  t \in Tenders
PROOF
<1>1. instance[p] \in Tenders
  BY DEF TypeOK, Loaded
<1>2. CASE t = tender
  BY <1>2 DEF TypeOK
<1>3. CASE StatusRow(p, t)
  <2>1. PICK s \in Status : t = [tender EXCEPT !.status = s]
    BY <1>3 DEF StatusRow
  <2>2. tender \in Tenders
    BY DEF TypeOK
  <2> QED BY <2>1, <2>2 DEF Tenders
<1>6. CASE LateRow(p, t)
  BY <1>1, <1>6, AnswerType DEF LateRow, TypeOK, Tenders
<1> QED BY <1>2, <1>3, <1>6 DEF SavedRow

\* An opening unseals what is on record; other saves leave an opened tender's bids alone.
OpensAll ==
  tender'.status = "OPENED" =>
    \/ \A s \in Supplier : bid'[s].status # "RECEIVED"
    \/ bid' = bid /\ (key = "none" \/ tender.status = "OPENED")

\* A handler saves a row the table accepts, or leaves the row as it is.
Saves(t) ==
  /\ t \in Tenders
  /\ Constraints(t) \/ t = tender
  /\ SaveFacts(t) /\ OpensAll
  /\ tender' \in Tenders /\ bid' \in [Supplier -> Bids \cup {NoBid}]
  /\ key' \in {"none", "held", "released"}

LEMMA AllUnsealed ==
  ASSUME TypeOK, bid' = [s \in Supplier |-> Unsealed(bid[s])]
  PROVE  \A s \in Supplier : bid'[s].status # "RECEIVED"
PROOF
<1> SUFFICES ASSUME NEW s \in Supplier PROVE Unsealed(bid[s]).status # "RECEIVED"
  OBVIOUS
<1>1. bid[s] \in Bids \cup {NoBid}
  BY DEF TypeOK
<1>2. ASSUME NEW b \in Bids \cup {NoBid} PROVE Unsealed(b).status # "RECEIVED"
  <2>1. CASE b = NoBid
    BY <2>1 DEF Unsealed, NoBid
  <2>2. CASE b \in Bids /\ b # NoBid
    BY <2>2 DEF Unsealed, Bids
  <2> QED BY <2>1, <2>2
<1> QED BY <1>1, <1>2

LEMMA SaveSaves ==
  ASSUME TypeOK, NEW t \in Tenders, NEW status, Save(t, status),
         t.status \in {status, tender.status}
  PROVE  Saves(t)
PROOF
<1>1. ASSUME AutoUnseals(status) PROVE OpensAll
  <2>1. bid' = [s \in Supplier |-> Unsealed(bid[s])]
    BY <1>1 DEF Save
  <2> QED BY <2>1, AllUnsealed DEF OpensAll
<1>2. ASSUME ~AutoUnseals(status) PROVE OpensAll
  <2>1. tender' = t /\ bid' = bid
    BY <1>2 DEF Save
  <2>2. status = "OPENED" => key = "none" \/ \A s \in Supplier : bid[s].status # "RECEIVED"
    BY <1>2 DEF AutoUnseals, Sealed
  <2> QED BY <2>1, <2>2 DEF OpensAll
<1>3. OpensAll
  BY <1>1, <1>2
<1> QED BY <1>3, SaveEffect DEF Saves, Save

LEMMA NeverBackToDraft ==
  ASSUME NEW r, NEW s \in ALLOWED_TRANSITIONS(r)
  PROVE  s \in Status \ {"DRAFT"} /\ (s = "CANCELLED" => r = "DRAFT")
  BY DEF ALLOWED_TRANSITIONS, Status

LEMMA HandlerSaves ==
  ASSUME TypeOK, NEW p \in Proc, Handler(p)
  PROVE  /\ Loaded(p) /\ p \notin submitting /\ End(p)
         /\ \E t : SavedRow(p, t) /\ Saves(t)
PROOF
<1>1. Request(p)
  BY DEF Handler, OpenBids, AnswerLate, Transition, FormCommittee, AwardContract, FileObjection
<1>2. Loaded(p) /\ p \notin submitting /\ End(p)
  BY <1>1 DEF Request, Loaded
<1> SUFFICES \E t : SavedRow(p, t) /\ Saves(t)
  BY <1>2
<1>3. ASSUME NEW t, SavedRow(p, t), NEW status, Save(t, status), t.status \in {status, tender.status}
      PROVE  \E u : SavedRow(p, u) /\ Saves(u)
  BY <1>2, <1>3, SaveSaves, SavedRowType
<1>a. ASSUME NEW s \in Status \ {"DRAFT"}, s = "CANCELLED" => instance[p].status = "DRAFT",
             Save([tender EXCEPT !.status = s], s)
      PROVE  \E u : SavedRow(p, u) /\ Saves(u)
  <2> DEFINE t == [tender EXCEPT !.status = s]
  <2>1. SavedRow(p, t)
    BY <1>a DEF SavedRow, StatusRow
  <2>2. t.status = s
    BY DEF TypeOK, Tenders
  <2> HIDE DEF t
  <2>3. Save(t, s)
    BY <1>a DEF t
  <2> QED BY <1>3, <2>1, <2>2, <2>3
<1>4. CASE OpenBids(p)
  BY <1>a, <1>4 DEF OpenBids, Status
<1>5. CASE AnswerLate(p)
  <2> DEFINE new == NewClose(instance[p].submission_close_at)
             t == [tender EXCEPT !.submission_close_at = new,
                                 !.qa_close_at = NewQa(instance[p].qa_close_at, new)]
  <2>1. SavedRow(p, t) /\ Save(t, instance[p].status)
    BY <1>5 DEF AnswerLate, SavedRow, LateRow
  <2>2. t.status = tender.status
    BY DEF TypeOK, Tenders
  <2> HIDE DEF t
  <2> QED BY <1>3, <2>1, <2>2
<1>6. CASE \E s \in ALLOWED_TRANSITIONS(instance[p].status) : Transition(p, s)
  BY <1>a, <1>6, NeverBackToDraft DEF Transition
<1>7. CASE FormCommittee(p)
  <2>1. CASE instance[p].status = "OPENED"
    BY <1>a, <1>7, <2>1 DEF FormCommittee, Status
  <2>2. CASE instance[p].status # "OPENED"
    <3>1. UNCHANGED <<tender, key, bid, opened>>
      BY <1>7, <2>2 DEF FormCommittee
    <3>2. /\ tender \in Tenders
          /\ tender = [tender EXCEPT !.status = tender.status]
      BY DEF TypeOK, Tenders
    <3>3. SavedRow(p, tender)
      BY DEF SavedRow
    <3>4. Saves(tender)
      BY <3>1, <3>2 DEF Saves, SaveFacts, OpensAll, TypeOK
    <3> QED BY <3>3, <3>4
  <2> QED BY <2>1, <2>2
<1>8. ASSUME NEW s \in Supplier, AwardContract(p, s) PROVE \E u : SavedRow(p, u) /\ Saves(u)
  BY <1>a, <1>8 DEF AwardContract, Status
<1>9. ASSUME NEW s \in Supplier, FileObjection(p, s) PROVE \E u : SavedRow(p, u) /\ Saves(u)
  BY <1>a, <1>9 DEF FileObjection, Status
<1> QED BY <1>4, <1>5, <1>6, <1>7, <1>8, <1>9 DEF Handler

LEMMA PublishSaves ==
  ASSUME TypeOK, NEW p \in Proc, Publish(p)
  PROVE  /\ Loaded(p) /\ p \notin submitting /\ End(p)
         /\ Saves(Published(instance[p])) /\ Clean(Published(instance[p]))
         /\ instance[p].status = "DRAFT" /\ key' # "none"
PROOF
<1>1. Published(instance[p]) \in Tenders /\ instance[p] \in Tenders
  BY PublishedType DEF TypeOK, Publish, Request
<1>2. Published(instance[p]).status = "PUBLISHED"
  BY <1>1 DEF Published, Tenders
<1>3. Save(Published(instance[p]), "PUBLISHED")
  BY DEF Publish
<1>4. Saves(Published(instance[p])) /\ key' # "none"
  BY <1>1, <1>2, <1>3, SaveSaves, SaveEffect
<1> QED BY <1>4 DEF Publish, Request, Loaded

\* Unsealing saves no columns but the status.
LEMMA UnsealSaves ==
  ASSUME TypeOK, NEW p \in Proc, Unseal(p)
  PROVE  /\ Loaded(p) /\ p \notin submitting /\ End(p)
         /\ key # "none" /\ SaveFacts(tender) /\ OpensAll
         /\ tender' \in Tenders /\ bid' \in [Supplier -> Bids \cup {NoBid}]
         /\ key' \in {"none", "held", "released"}
PROOF
<1>1. tender' \in Tenders /\ bid' \in [Supplier -> Bids \cup {NoBid}]
  BY UnsealedType DEF TypeOK, Unseal, Tenders, Status
<1>2. SaveFacts(tender)
  BY DEF SaveFacts, Unseal, TypeOK
<1>3. OpensAll
  BY AllUnsealed DEF Unseal, OpensAll
<1> QED BY <1>1, <1>2, <1>3 DEF Unseal, Request, Loaded

-----------------------------------------------------------------------------
\* A bid that has been opened shows its price, and only an opening shows prices.
BidInv ==
  \A s \in Supplier :
    /\ bid[s].status \in {"UNSEALED"} \cup Examined => bid[s].priced
    /\ bid[s].priced => key = "released" /\ opened
    /\ award[s] # NULL => bid[s].priced

LEMMA InitType == Init => TypeOK /\ BidInv
PROOF
<1> SUFFICES ASSUME Init PROVE TypeOK /\ BidInv
  OBVIOUS
<1>1. tender \in Tenders
  <2>1. Dates \subseteq Moment /\ BackDates \subseteq Moment /\ NULL \in Moment
    BY DatesAssumption DEF Moment, NULL
  <2> QED BY <2>1 DEF Init, Draft, Tenders, Status
<1>2. TypeOK
  <2>1. bid \in [Supplier -> Bids \cup {NoBid}]
    BY DEF Init
  <2>2. award \in [Supplier -> Moment]
    BY DEF Init, Moment, NULL
  <2>3. instance \in [Proc -> Tenders \cup {NoInstance}]
    BY DEF Init
  <2> QED BY <1>1, <2>1, <2>2, <2>3 DEF Init, TypeOK
<1> QED BY <1>2, ExaminedAssumption DEF Init, BidInv, NoBid

\* What the columns' types need of the other actions.
LEMMA KeepBids ==
  ASSUME TypeOK, BidInv, NEW t, SaveFacts(t), UNCHANGED award
  PROVE  BidInv'
PROOF
<1> SUFFICES ASSUME NEW s \in Supplier
             PROVE  /\ bid'[s].status \in {"UNSEALED"} \cup Examined => bid'[s].priced
                    /\ bid'[s].priced => key' = "released" /\ opened'
                    /\ award[s] # NULL => bid'[s].priced
  BY DEF BidInv
<1>1. CASE bid'[s] = bid[s]
  BY <1>1 DEF SaveFacts, BidInv
<1>2. CASE bid'[s] = Unsealed(bid[s]) /\ key' = "released" /\ opened'
  <2>1. bid[s] \in Bids \cup {NoBid}
    BY DEF TypeOK
  <2>2. CASE bid[s] = NoBid
    BY <1>2, <2>2, ExaminedAssumption DEF Unsealed, BidInv, NoBid
  <2>3. CASE bid[s] # NoBid
    BY <1>2, <2>1, <2>3, UnsealedType
  <2> QED BY <2>2, <2>3
<1> QED BY <1>1, <1>2 DEF SaveFacts

LEMMA TypeStep == TypeOK /\ BidInv /\ [Next]_vars => TypeOK' /\ BidInv'
PROOF
<1> SUFFICES ASSUME TypeOK, BidInv, [Next]_vars PROVE TypeOK' /\ BidInv'
  OBVIOUS
<1> DEFINE Requests ==
             /\ now' = now /\ instance' \in [Proc -> Tenders \cup {NoInstance}]
             /\ submitting' \subseteq {q \in Proc : instance'[q] # NoInstance}
<1>1. ASSUME NEW p \in Proc, End(p) PROVE Requests
  BY <1>1, Ended
<1> HIDE DEF Requests
<1>2. ASSUME NEW p \in Proc, Load(p) \/ FindOpen(p) \/ RefuseBid(p) PROVE TypeOK' /\ BidInv'
  <2>1. UNCHANGED <<now, tender, key, bid, award, opened>>
    BY <1>2 DEF Load, FindOpen, RefuseBid, End
  <2>2. BidInv'
    BY <2>1 DEF BidInv
  <2>3. Requests
    <3>1. CASE Load(p)
      BY <3>1, NoInstanceApart DEF Load, TypeOK, Requests
    <3>2. CASE FindOpen(p)
      BY <3>2 DEF FindOpen, TypeOK, Requests
    <3>3. CASE RefuseBid(p)
      BY <3>3, <1>1 DEF RefuseBid
    <3> QED BY <1>2, <3>1, <3>2, <3>3
  <2> QED BY <2>1, <2>2, <2>3 DEF TypeOK, Requests
<1>3. ASSUME NEW p \in Proc, Publish(p) PROVE TypeOK' /\ BidInv'
  <2>1. Saves(Published(instance[p])) /\ UNCHANGED award
    BY <1>3, PublishSaves DEF Publish
  <2>2. Requests
    BY <1>1, <1>3, PublishSaves
  <2>3. BidInv'
    BY <2>1, KeepBids DEF Saves
  <2> QED BY <2>1, <2>2, <2>3 DEF TypeOK, Saves, SaveFacts, Requests
<1>4. ASSUME NEW p \in Proc, Unseal(p) PROVE TypeOK' /\ BidInv'
  <2>1. SaveFacts(tender) /\ UNCHANGED award
    BY <1>4, UnsealSaves DEF Unseal
  <2>2. Requests
    BY <1>1, <1>4, UnsealSaves
  <2>3. BidInv'
    BY <2>1, KeepBids
  <2> QED BY <1>4, <2>1, <2>2, <2>3, UnsealSaves DEF TypeOK, SaveFacts, Requests
<1>5. ASSUME NEW p \in Proc, Handler(p) PROVE TypeOK' /\ BidInv'
  <2>1. PICK t : Saves(t)
    BY <1>5, HandlerSaves
  <2>2. Requests
    BY <1>1, <1>5, HandlerSaves
  <2>4. CASE UNCHANGED award
    BY <2>1, <2>2, <2>4, KeepBids DEF TypeOK, Saves, SaveFacts, Requests
  <2>5. ASSUME NEW s \in Supplier, AwardContract(p, s) PROVE TypeOK' /\ BidInv'
    <3>1. award' = [award EXCEPT ![s] = now + OBJECTION_DAYS]
      BY <2>5 DEF AwardContract
    <3>2. now + OBJECTION_DAYS \in Moment
      BY DaysAssumption DEF TypeOK, Moment
    <3>3. award' \in [Supplier -> Moment]
      BY <3>1, <3>2 DEF TypeOK
    <3>4. bid[s].priced
      BY <2>5 DEF AwardContract, Awardable, BidInv
    <3>5. \A q \in Supplier :
            /\ bid'[q].status \in {"UNSEALED"} \cup Examined => bid'[q].priced
            /\ bid'[q].priced => key' = "released" /\ opened'
            /\ bid[q].priced => bid'[q].priced
      <4> SUFFICES ASSUME NEW q \in Supplier
                   PROVE  /\ bid'[q].status \in {"UNSEALED"} \cup Examined => bid'[q].priced
                          /\ bid'[q].priced => key' = "released" /\ opened'
                          /\ bid[q].priced => bid'[q].priced
        OBVIOUS
      <4>1. CASE bid'[q] = bid[q]
        BY <2>1, <4>1 DEF Saves, SaveFacts, BidInv
      <4>2. CASE bid'[q] = Unsealed(bid[q]) /\ key' = "released" /\ opened'
        <5>1. bid[q] \in Bids \cup {NoBid}
          BY DEF TypeOK
        <5>2. CASE bid[q] = NoBid
          BY <4>2, <5>2, ExaminedAssumption DEF Unsealed, NoBid
        <5>3. CASE bid[q] # NoBid
          BY <4>2, <5>1, <5>3, UnsealedType
        <5> QED BY <5>2, <5>3
      <4> QED BY <2>1, <4>1, <4>2 DEF Saves, SaveFacts
    <3>6. BidInv'
      BY <3>1, <3>4, <3>5 DEF BidInv, TypeOK
    <3> QED BY <2>1, <2>2, <3>3, <3>6 DEF TypeOK, Saves, SaveFacts, Requests
  <2> QED BY <1>5, <2>4, <2>5 DEF Handler, OpenBids, AnswerLate, Transition, FormCommittee,
                                  FileObjection
<1>6. ASSUME NEW p \in Proc, NEW s \in Supplier, SubmitBid(p, s) PROVE TypeOK' /\ BidInv'
  <2> DEFINE b == [status |-> "RECEIVED", submitted_at |-> now, priced |-> FALSE]
  <2>1. b \in Bids
    BY DEF TypeOK, Bids
  <2>2. bid' = [bid EXCEPT ![s] = b] /\ bid[s] = NoBid /\ UNCHANGED <<tender, key, award, opened>>
    BY <1>6 DEF SubmitBid, NewBid
  <2>3. Requests
    BY <1>1, <1>6 DEF SubmitBid
  <2>4. award[s] = NULL
    BY <2>2 DEF BidInv, NoBid
  <2>5. bid' \in [Supplier -> Bids \cup {NoBid}]
    BY <2>1, <2>2 DEF TypeOK
  <2>6. BidInv'
    BY <2>2, <2>4, ExaminedAssumption DEF BidInv, TypeOK
  <2> QED BY <2>2, <2>3, <2>5, <2>6 DEF TypeOK, Requests
<1>7. ASSUME NEW s \in Supplier, NEW m \in Examined, MarkBid(s, m) PROVE TypeOK' /\ BidInv'
  <2>1. bid[s] \in Bids /\ bid[s].priced
    BY <1>7 DEF TypeOK, MarkBid, NoBid, BidInv
  <2> DEFINE b == [bid[s] EXCEPT !.status = m]
  <2>2. b \in Bids /\ b.priced
    BY <2>1 DEF Bids
  <2>3. bid' = [bid EXCEPT ![s] = b] /\ UNCHANGED <<now, tender, key, award, opened, instance, submitting>>
    BY <1>7 DEF MarkBid
  <2> HIDE DEF b
  <2>4. bid' \in [Supplier -> Bids \cup {NoBid}]
    BY <2>2, <2>3 DEF TypeOK
  <2>5. \A q \in Supplier : bid'[q] = IF q = s THEN b ELSE bid[q]
    BY <2>3 DEF TypeOK
  <2>6. BidInv'
    BY <2>1, <2>2, <2>3, <2>5 DEF BidInv
  <2> QED BY <2>3, <2>4, <2>6 DEF TypeOK
<1>8. CASE Tick \/ UNCHANGED vars
  BY <1>8 DEF TypeOK, BidInv, Tick, vars
<1> QED BY <1>2, <1>3, <1>4, <1>5, <1>6, <1>7, <1>8 DEF Next, Others, Handler

-----------------------------------------------------------------------------
\* t against c, the deadline the draft carried (NULL if it had none).
Fits(t, c) ==
  /\ t.submission_close_at = NULL <=> c = NULL
  /\ t.submission_close_at >= c
  /\ t.status = "DRAFT" => t.submission_close_at = c /\ t.published_at = NULL
  /\ t.status # "DRAFT" =>
       /\ t.published_at # NULL
       /\ c # NULL => c - t.published_at >= min_advert_days
       /\ c # NULL => t.qa_close_at <= t.submission_close_at

DatesFit(c) ==
  /\ Fits(tender, c)
  /\ \A p \in Proc : Loaded(p) => Fits(instance[p], c)

Drafted ==
  /\ key = "none" <=> tender.status = "DRAFT"
  /\ key = "none" => \A p \in Proc : Loaded(p) => instance[p].status = "DRAFT"

DateInv == Drafted /\ \E c \in Nat \cup {NULL} : DatesFit(c)

LEMMA InitDates == ASSUME BackDates = {}, Init PROVE DateInv
PROOF
<1> DEFINE c == tender.submission_close_at
<1>1. c \in Nat \cup {NULL}
  BY DatesAssumption DEF Init, Draft
<1>2. Fits(tender, c)
  BY <1>1 DEF Init, Draft, Fits, NULL
<1>3. \A p \in Proc : ~Loaded(p)
  BY DEF Init, Loaded
<1> QED BY <1>1, <1>2, <1>3 DEF Init, Draft, DateInv, DatesFit, Drafted

\* A save of a row that fits the draft's deadline keeps everything in place.
LEMMA KeepDates ==
  ASSUME TypeOK, Drafted, NEW c \in Nat \cup {NULL}, DatesFit(c),
         NEW p \in Proc, End(p), NEW t \in Tenders, SaveFacts(t), Fits(t, c), t.status # "DRAFT", key' # "none"
  PROVE  DateInv'
PROOF
<1>1. PICK s \in {t.status, "OPENED"} : tender' = [t EXCEPT !.status = s]
  BY DEF SaveFacts
<1>2. /\ tender'.status # "DRAFT"
      /\ tender'.submission_close_at = t.submission_close_at
      /\ tender'.published_at = t.published_at
      /\ tender'.qa_close_at = t.qa_close_at
  BY <1>1 DEF Tenders
<1>3. Fits(tender', c)
  BY <1>2 DEF Fits
<1>4. \A q \in Proc : Loaded(q)' => Loaded(q) /\ instance'[q] = instance[q]
  BY Ended
<1>5. Drafted'
  BY <1>2 DEF Drafted
<1>6. \A q \in Proc : Loaded(q)' => Fits(instance'[q], c)
  BY <1>4 DEF DatesFit
<1>7. DatesFit(c)'
  BY <1>3, <1>6 DEF DatesFit, Fits, Loaded
<1> QED BY <1>5, <1>7 DEF DateInv

\* Only publication takes a tender out of DRAFT: the other handlers refuse it, or
\* the table refuses a row without a publication date.
LEMMA HandlerNeedsKey ==
  ASSUME TypeOK, DateInv, NEW p \in Proc, Handler(p)
  PROVE  key # "none"
PROOF
<1> SUFFICES ASSUME key = "none" PROVE FALSE
  OBVIOUS
<1>1. Loaded(p) /\ instance[p] \in Tenders /\ tender \in Tenders
  BY HandlerSaves DEF Loaded, TypeOK
<1>2. tender.status = "DRAFT" /\ instance[p].status = "DRAFT"
  BY <1>1 DEF DateInv, Drafted
<1>3. tender.published_at = NULL /\ instance[p].published_at = NULL
  BY <1>1, <1>2 DEF DateInv, DatesFit, Fits
<1>4. ~AnswerLate(p) /\ ~FormCommittee(p)
  BY <1>2 DEF AnswerLate, FormCommittee
<1>5. \A s \in Supplier : ~AwardContract(p, s) /\ ~FileObjection(p, s)
  BY <1>2 DEF AwardContract, FileObjection
<1>6. ~OpenBids(p)
  BY <1>1, <1>3 DEF OpenBids, Save, Constraints, Tenders
<1>7. ASSUME NEW s \in ALLOWED_TRANSITIONS(instance[p].status), Transition(p, s) PROVE FALSE
  <2>1. s # "DRAFT"
    BY <1>7, NeverBackToDraft
  <2>2. Constraints([instance[p] EXCEPT !.status = s])
    BY <1>7 DEF Transition, Clean
  <2> QED BY <1>1, <1>3, <2>1, <2>2 DEF Constraints, Tenders
<1> QED BY <1>4, <1>5, <1>6, <1>7 DEF Handler

LEMMA DateStep == TypeOK /\ DateInv /\ [Next]_vars => DateInv'
PROOF
<1> SUFFICES ASSUME TypeOK, DateInv, [Next]_vars PROVE DateInv'
  OBVIOUS
<1>0. PICK c \in Nat \cup {NULL} : DatesFit(c)
  BY DEF DateInv
<1>a. Drafted
  BY DEF DateInv
<1>1. ASSUME NEW p \in Proc, Load(p) PROVE DateInv'
  <2>1. tender' = tender /\ key' = key /\ instance' = [instance EXCEPT ![p] = tender]
    BY <1>1 DEF Load
  <2>2. \A q \in Proc : instance'[q] = tender \/ instance'[q] = instance[q]
    BY <2>1 DEF TypeOK
  <2>3. \A q \in Proc : Loaded(q)' => Fits(instance'[q], c)
    BY <1>0, <2>2 DEF DatesFit, Loaded
  <2>4. DatesFit(c)'
    BY <1>0, <2>1, <2>3 DEF DatesFit, Fits, Loaded
  <2>5. Drafted'
    BY <1>a, <2>1, <2>2 DEF Drafted, Loaded
  <2> QED BY <2>4, <2>5 DEF DateInv
<1>2. ASSUME NEW p \in Proc, Publish(p) PROVE DateInv'
  <2> DEFINE i == instance[p]
             t == Published(i)
  <2>1. /\ Loaded(p) /\ End(p) /\ t \in Tenders /\ SaveFacts(t) /\ Clean(t) /\ i.status = "DRAFT" /\ key' # "none"
    BY <1>2, PublishSaves DEF Saves
  <2>2. i \in Tenders /\ Fits(i, c)
    BY <2>1, <1>0 DEF TypeOK, Loaded, DatesFit
  <2>3. /\ t.status = "PUBLISHED" /\ t.submission_close_at = i.submission_close_at
        /\ t.published_at = now
        /\ t.qa_close_at = IF i.qa_close_at = NULL /\ i.submission_close_at # NULL
                           THEN i.submission_close_at - QA_LEAD ELSE i.qa_close_at
    BY <2>1, <2>2 DEF Published, Tenders, Fits
  <2>4. t.submission_close_at = c /\ now # NULL
    BY <2>1, <2>2, <2>3 DEF Fits, TypeOK, NULL
  <2>5. c # NULL => c - now >= min_advert_days
    BY <2>1, <2>3, <2>4 DEF Clean, AdvertLongEnough
  <2>6. c # NULL => t.qa_close_at <= c
    <3>1. CASE t.qa_close_at # NULL
      BY <2>1, <2>3, <2>4, <3>1 DEF Clean, QaInTime
    <3>2. CASE t.qa_close_at = NULL
      BY <3>2 DEF NULL
    <3> QED BY <3>1, <3>2
  <2>7. Fits(t, c)
    <3>1. c >= c
      BY DEF NULL
    <3> QED BY <2>3, <2>4, <2>5, <2>6, <3>1 DEF Fits
  <2> HIDE DEF t
  <2> QED BY <1>0, <1>a, <2>1, <2>3, <2>7, KeepDates
<1>3. ASSUME NEW p \in Proc, Unseal(p) PROVE DateInv'
  <2>1. tender \in Tenders /\ tender.status # "DRAFT" /\ Fits(tender, c)
    BY <1>0, <1>a, <1>3, UnsealSaves DEF TypeOK, Drafted, DatesFit
  <2>2. key' # "none"
    BY <1>3 DEF Unseal
  <2> QED BY <1>0, <1>a, <1>3, <2>1, <2>2, UnsealSaves, KeepDates
<1>4. ASSUME NEW p \in Proc, Handler(p) PROVE DateInv'
  <2> DEFINE i == instance[p]
  <2>1. key # "none" /\ tender \in Tenders /\ tender.status # "DRAFT" /\ Fits(tender, c)
    BY <1>0, <1>a, <1>4, HandlerNeedsKey DEF TypeOK, Drafted, DatesFit
  <2>2. PICK t : SavedRow(p, t) /\ Saves(t)
    BY <1>4, HandlerSaves
  <2>3. i \in Tenders /\ Fits(i, c)
    BY <1>0, <1>4, HandlerSaves DEF TypeOK, Loaded, DatesFit
  <2>4. Fits(t, c) /\ t.status # "DRAFT"
    <3>1. CASE t = tender \/ StatusRow(p, t)
      <4>1. /\ t.submission_close_at = tender.submission_close_at
            /\ t.published_at = tender.published_at
            /\ t.qa_close_at = tender.qa_close_at
            /\ t.status # "DRAFT"
        <5>1. CASE StatusRow(p, t)
          <6>1. PICK s \in Status \ {"DRAFT"} : t = [tender EXCEPT !.status = s]
            BY <5>1 DEF StatusRow
          <6> QED BY <2>1, <6>1 DEF Tenders
        <5> QED BY <2>1, <3>1, <5>1
      <4> QED BY <2>1, <4>1 DEF Fits
    <3>2. CASE LateRow(p, t)
      <4> DEFINE new == NewClose(i.submission_close_at)
      <4>1. /\ t.status = tender.status /\ t.published_at = tender.published_at
            /\ t.submission_close_at = new /\ t.qa_close_at = NewQa(i.qa_close_at, new)
            /\ i.status # "DRAFT" /\ i.submission_close_at # NULL
        BY <2>1, <3>2 DEF LateRow, Tenders
      <4>2. c # NULL /\ c \in Nat /\ i.submission_close_at \in Int /\ i.submission_close_at >= c
        BY <2>3, <4>1 DEF Fits, Tenders, Moment
      <4>3. new \in Int /\ new >= c /\ new # NULL
        BY <4>2, DaysAssumption DEF NewClose, NULL
      <4>4. NewQa(i.qa_close_at, new) <= new
        BY <2>3, <4>3, DaysAssumption DEF NewQa, Smaller, Tenders, Moment
      <4> HIDE DEF new
      <4> QED BY <2>1, <4>1, <4>2, <4>3, <4>4 DEF Fits
    <3> QED BY <2>2, <3>1, <3>2 DEF SavedRow
  <2>5. key' # "none"
    BY <2>1, <2>2 DEF Saves, SaveFacts
  <2> QED BY <1>0, <1>a, <1>4, <2>2, <2>4, <2>5, HandlerSaves, KeepDates DEF Saves
<1>5. ASSUME NEW p \in Proc, UNCHANGED <<tender, key>>, End(p) PROVE DateInv'
  <2>1. UNCHANGED <<tender, key>>
    BY <1>5
  <2>2. \A q \in Proc : Loaded(q)' => Loaded(q) /\ instance'[q] = instance[q]
    BY <1>5, Ended
  <2>3. \A q \in Proc : Loaded(q)' => Fits(instance'[q], c)
    BY <1>0, <2>2 DEF DatesFit
  <2> QED BY <1>0, <1>a, <2>1, <2>2, <2>3 DEF DateInv, DatesFit, Drafted, Fits, Loaded
<1>6. CASE UNCHANGED <<tender, key, instance>>
  BY <1>0, <1>a, <1>6 DEF DateInv, DatesFit, Drafted, Fits, Loaded
<1> QED BY <1>1, <1>2, <1>3, <1>4, <1>5, <1>6 DEF Next, Others, Handler, FindOpen, SubmitBid,
             RefuseBid, MarkBid, Tick, vars

LEMMA AwardInvariant == Spec => [](TypeOK /\ BidInv)
PROOF
<1>1. Init => TypeOK /\ BidInv
  BY InitType
<1>2. (TypeOK /\ BidInv) /\ [Next]_vars => (TypeOK /\ BidInv)'
  BY TypeStep
<1> QED BY <1>1, <1>2, PTL DEF Spec

LEMMA DateInvariant == ASSUME BackDates = {} PROVE Spec => [](TypeOK /\ DateInv)
PROOF
<1>1. Init => DateInv
  BY InitDates
<1>2. TypeOK /\ DateInv /\ [Next]_vars => DateInv'
  BY DateStep
<1> QED BY <1>1, <1>2, AwardInvariant, PTL DEF Spec

LEMMA DatesKept ==
  ASSUME TypeOK, DateInv
  PROVE  AdvertPeriodKept /\ QuestionsCloseFirst
PROOF
<1> SUFFICES ASSUME WentPublic PROVE AdvertPeriodKept /\ QuestionsCloseFirst
  BY DEF AdvertPeriodKept, QuestionsCloseFirst
<1>1. PICK c \in Nat \cup {NULL} : Fits(tender, c)
  BY DEF DateInv, DatesFit
<1>2. tender.status # "DRAFT"
  BY DEF DateInv, Drafted, WentPublic
<1>3. tender.published_at # NULL
  BY <1>1, <1>2 DEF Fits
<1>4. ASSUME tender.submission_close_at # NULL
      PROVE  /\ tender.submission_close_at - tender.published_at >= min_advert_days
             /\ tender.qa_close_at <= tender.submission_close_at
  <2>1. /\ c # NULL /\ c \in Int /\ tender.submission_close_at >= c
        /\ c - tender.published_at >= min_advert_days
        /\ tender.qa_close_at <= tender.submission_close_at
    BY <1>1, <1>2, <1>4 DEF Fits
  <2>2. tender.submission_close_at \in Int /\ tender.published_at \in Int
    BY DEF TypeOK, Tenders, Moment
  <2> QED BY <2>1, <2>2, DaysAssumption
<1> QED BY <1>3, <1>4 DEF AdvertPeriodKept, QuestionsCloseFirst

-----------------------------------------------------------------------------
\* The tender's columns, its bids, its awards and every request's instance keep
\* their types, however stale the instances that are saved.
THEOREM TenderType == Spec => []TypeOK
  BY AwardInvariant, PTL

\* For any number of concurrent requests and bidders, award_contract never makes
\* an award to a bid whose price was not disclosed at an opening with a released
\* key.
THEOREM NoAwardBeforeOpening == Spec => []AwardsFollowOpening
PROOF
<1>1. TypeOK /\ BidInv => AwardsFollowOpening
  BY DEF BidInv, AwardsFollowOpening
<1> QED BY <1>1, AwardInvariant, PTL

\* Without back-dated drafts, whatever requests save from whatever stale
\* instances, publish() and answer_now() leave every tender that went public
\* advertised for the legal minimum.
THEOREM AdvertisedLongEnough == ASSUME BackDates = {} PROVE Spec => []AdvertPeriodKept
PROOF
<1>1. TypeOK /\ DateInv => AdvertPeriodKept
  BY DatesKept
<1> QED BY <1>1, DateInvariant, PTL

\* Nor is the Q&A window of such a tender ever open after its deadline.
THEOREM QuestionsInTime == ASSUME BackDates = {} PROVE Spec => []QuestionsCloseFirst
PROOF
<1>1. TypeOK /\ DateInv => QuestionsCloseFirst
  BY DatesKept
<1> QED BY <1>1, DateInvariant, PTL

-----------------------------------------------------------------------------
(***************************************************************************)
(* The register.  What it adds to the tender is the history, which only    *)
(* grows; each invariant holds until the history names what breaks it.     *)
(***************************************************************************)
LEMMA RegisterStep == [RegisterNext]_registerVars => [Next]_vars
  BY DEF RegisterNext, registerVars, Next

LEMMA RegisterRefinesTender == RegisterSpec => Spec
PROOF
<1>1. RegisterInit => Init
  BY DEF RegisterInit
<1>2. [RegisterNext]_registerVars => [Next]_vars
  BY RegisterStep
<1> QED BY <1>1, <1>2, PTL DEF RegisterSpec, Spec

LEMMA HistoryGrows == [RegisterNext]_registerVars => overtaken \subseteq overtaken'
  BY DEF RegisterNext, registerVars, Overtaken

\* What the history says of a request that ends.
LEMMA HistoryTells ==
  ASSUME TypeOK, [RegisterNext]_registerVars, NEW p \in Proc, Loaded(p), End(p)
  PROVE  /\ SetsDates(p) => "dates" \in overtaken'
         /\ ActsOnDraft(p) => "draft" \in overtaken'
         /\ FilesBid => "bid" \in overtaken'
PROOF
<1>1. instance'[p] = NoInstance /\ \A q \in Proc \ {p} : instance'[q] = instance[q]
  BY DEF End, TypeOK
<1>2. Ends(p) /\ \A q \in Proc : Ends(q) => q = p
  BY <1>1 DEF Ends, Loaded
<1>3. instance' # instance
  BY <1>1 DEF Loaded
<1>4. Overtaken
  BY <1>2, <1>3 DEF RegisterNext, registerVars, vars
<1> QED BY <1>2, <1>4 DEF Overtaken

\* The bid of s was and is on record, or neither, and as of the same day.
SameBid(s) == (bid'[s] = NoBid <=> bid[s] = NoBid) /\ bid'[s].submitted_at = bid[s].submitted_at

LEMMA SaveKeepsBids ==
  ASSUME TypeOK, NEW t, SaveFacts(t), NEW s \in Supplier
  PROVE  SameBid(s)
PROOF
<1>1. bid[s] \in Bids \cup {NoBid}
  BY DEF TypeOK
<1>2. CASE bid'[s] = bid[s]
  BY <1>2 DEF SameBid
<1>3. CASE bid'[s] = Unsealed(bid[s])
  <2>1. CASE bid[s] = NoBid
    BY <1>3, <2>1 DEF SameBid, Unsealed
  <2>2. CASE bid[s] # NoBid
    <3>1. bid'[s] = [bid[s] EXCEPT !.status = "UNSEALED", !.priced = TRUE] /\ bid[s] \in Bids
      BY <1>1, <1>3, <2>2 DEF Unsealed
    <3>2. bid'[s].status = "UNSEALED" /\ bid'[s].submitted_at = bid[s].submitted_at
      BY <3>1 DEF Bids
    <3>3. bid'[s] # NoBid
      BY <3>2 DEF NoBid
    <3> QED BY <2>2, <3>2, <3>3 DEF SameBid
  <2> QED BY <2>1, <2>2
<1> QED BY <1>2, <1>3 DEF SaveFacts

-----------------------------------------------------------------------------
(* The steps, as the invariants tell them apart. *)

\* The row and the bids stay, marks aside.
Quiet ==
  /\ UNCHANGED <<tender, key>> /\ now' >= now
  /\ \A s \in Supplier : SameBid(s) /\ (bid'[s].status = "RECEIVED" => bid[s].status = "RECEIVED")
  /\ \A p \in Proc : Loaded(p)' => Loaded(p) /\ instance'[p] = instance[p]
  /\ \A p \in submitting' : p \in submitting \/ is_open(instance[p])

\* A handler other than publish() saves a row.
Changes(p) ==
  /\ Loaded(p) /\ End(p)
  /\ DateInv => key # "none"
  /\ \E t \in Tenders : SavedRow(p, t) /\ SaveFacts(t) /\ OpensAll

LEMMA QuietSteps ==
  ASSUME TypeOK,
         \/ \E p \in Proc : FindOpen(p) \/ RefuseBid(p)
         \/ \E s \in Supplier, m \in Examined : MarkBid(s, m)
         \/ Tick \/ UNCHANGED vars
  PROVE  Quiet
PROOF
<1>1. UNCHANGED <<tender, key>> /\ now' >= now
  BY DEF FindOpen, RefuseBid, End, MarkBid, Tick, vars, TypeOK
<1>2. \A s \in Supplier : SameBid(s) /\ (bid'[s].status = "RECEIVED" => bid[s].status = "RECEIVED")
  <2>1. CASE UNCHANGED bid
    BY <2>1 DEF SameBid
  <2>2. ASSUME NEW s \in Supplier, NEW m \in Examined, MarkBid(s, m),
               NEW q \in Supplier
        PROVE  SameBid(q) /\ (bid'[q].status = "RECEIVED" => bid[q].status = "RECEIVED")
    <3>1. bid[s] \in Bids /\ bid' = [bid EXCEPT ![s].status = m]
      BY <2>2 DEF MarkBid, TypeOK, NoBid
    <3>2. CASE q = s
      <4>1. bid'[s] = [bid[s] EXCEPT !.status = m]
        BY <3>1 DEF TypeOK
      <4>2. bid'[s].status = m /\ bid'[s].submitted_at = bid[s].submitted_at
        BY <3>1, <4>1 DEF Bids
      <4>3. m \notin {"none", "RECEIVED"} /\ bid[s].status # "none"
        BY <2>2, ExaminedAssumption DEF MarkBid
      <4>4. bid'[s] # NoBid /\ bid[s] # NoBid
        BY <4>2, <4>3 DEF NoBid
      <4> QED BY <3>2, <4>2, <4>3, <4>4 DEF SameBid
    <3>3. CASE q # s
      BY <3>1, <3>3 DEF SameBid, TypeOK
    <3> QED BY <3>2, <3>3
  <2> QED BY <2>1, <2>2 DEF FindOpen, RefuseBid, Tick, vars
<1>3. /\ \A p \in Proc : Loaded(p)' => Loaded(p) /\ instance'[p] = instance[p]
      /\ \A p \in submitting' : p \in submitting \/ is_open(instance[p])
  <2>1. ASSUME NEW p \in Proc, RefuseBid(p)
        PROVE  /\ \A q \in Proc : Loaded(q)' => Loaded(q) /\ instance'[q] = instance[q]
               /\ submitting' \subseteq submitting
    BY <2>1, Ended DEF RefuseBid, End
  <2>2. CASE ~\E p \in Proc : RefuseBid(p)
    BY <2>2 DEF FindOpen, MarkBid, Tick, vars, Loaded
  <2> QED BY <2>1, <2>2
<1> QED BY <1>1, <1>2, <1>3 DEF Quiet

LEMMA Kinds ==
  ASSUME TypeOK, [RegisterNext]_registerVars
  PROVE  \/ Quiet
         \/ \E p \in Proc : Load(p) \/ Publish(p) \/ Changes(p)
         \/ \E p \in Proc, s \in Supplier : SubmitBid(p, s)
PROOF
<1>1. ASSUME NEW p \in Proc, Unseal(p) PROVE Changes(p)
  <2>1. tender \in Tenders /\ SavedRow(p, tender)
    BY DEF TypeOK, SavedRow
  <2> QED BY <1>1, <2>1, UnsealSaves DEF Changes
<1>2. ASSUME NEW p \in Proc, Handler(p) PROVE Changes(p)
  BY <1>2, HandlerSaves, HandlerNeedsKey DEF Changes, Saves
<1>3. [Next]_vars
  BY RegisterStep
<1> QED BY <1>1, <1>2, <1>3, QuietSteps DEF Next, Others, Handler

-----------------------------------------------------------------------------
\* Nothing is sealed on an opened tender, and nothing is submitted without a key.
SealInv == OpenedMeansUnsealed /\ (key = "none" => \A s \in Supplier : bid[s] = NoBid)

LEMMA SealStep == TypeOK /\ SealInv /\ [RegisterNext]_registerVars => SealInv'
PROOF
<1> SUFFICES ASSUME TypeOK, SealInv, [RegisterNext]_registerVars PROVE SealInv'
  OBVIOUS
<1>0. "bid" \notin overtaken' => "bid" \notin overtaken
  BY HistoryGrows
<1>1. CASE Quiet
  BY <1>0, <1>1 DEF Quiet, SealInv, OpenedMeansUnsealed, Sealed, SameBid
<1>2. ASSUME NEW p \in Proc, Load(p) PROVE SealInv'
  BY <1>0, <1>2 DEF Load, SealInv, OpenedMeansUnsealed, Sealed
<1>3. ASSUME NEW t, SaveFacts(t), OpensAll PROVE SealInv'
  <2>1. key' = "none" => \A s \in Supplier : bid'[s] = NoBid
    BY <1>3, SaveKeepsBids DEF SaveFacts, SealInv, SameBid
  <2>2. ASSUME tender'.status = "OPENED", "bid" \notin overtaken', NEW s \in Supplier
        PROVE  bid'[s].status # "RECEIVED"
    <3>1. CASE bid' = bid /\ key = "none"
      BY <3>1 DEF SealInv, NoBid
    <3>2. CASE bid' = bid /\ tender.status = "OPENED"
      BY <1>0, <2>2, <3>2 DEF SealInv, OpenedMeansUnsealed, Sealed
    <3> QED BY <1>3, <2>2, <3>1, <3>2 DEF OpensAll
  <2> QED BY <2>1, <2>2 DEF SealInv, OpenedMeansUnsealed, Sealed
<1>4. ASSUME NEW p \in Proc, Publish(p) \/ Changes(p) PROVE SealInv'
  BY <1>3, <1>4, PublishSaves DEF Changes, Saves
<1>5. ASSUME NEW p \in Proc, NEW s \in Supplier, SubmitBid(p, s) PROVE SealInv'
  <2>1. /\ UNCHANGED <<tender, key>> /\ key # "none" /\ bid[s] = NoBid
        /\ bid' = [bid EXCEPT ![s] = NewBid(now)] /\ Loaded(p) /\ End(p)
    BY <1>5 DEF SubmitBid, TypeOK, Loaded
  <2>2. bid'[s] # NoBid /\ \A q \in Supplier \ {s} : bid'[q] = bid[q]
    BY <2>1 DEF TypeOK, NewBid, NoBid
  <2>3. "bid" \notin overtaken' => tender.status = "PUBLISHED"
    BY <2>1, <2>2, HistoryTells DEF FilesBid
  <2> QED BY <1>0, <2>1, <2>3 DEF SealInv, OpenedMeansUnsealed
<1> QED BY <1>1, <1>2, <1>4, <1>5, Kinds

LEMMA SealInvariant == RegisterSpec => [](TypeOK /\ BidInv /\ SealInv)
PROOF
<1>1. RegisterInit => SealInv
  BY DEF RegisterInit, Init, Draft, SealInv, OpenedMeansUnsealed
<1>2. TypeOK /\ SealInv /\ [RegisterNext]_registerVars => SealInv'
  BY SealStep
<1> QED BY <1>1, <1>2, RegisterRefinesTender, AwardInvariant, PTL DEF RegisterSpec

-----------------------------------------------------------------------------
\* t's deadline comes after the day that the tender was published.
Ahead(t) == t.submission_close_at # NULL => t.submission_close_at > tender.published_at

\* What went public is complete and not cancelled, and so are its dates in order, in the
\* row and in what requests have loaded of it.
PublicInv ==
  "draft" \notin overtaken =>
    /\ key # "none" => public /\ tender.est_value
    /\ tender.status # "DRAFT" => Ahead(tender)
    /\ \A p \in Proc : Loaded(p) /\ instance[p].status # "DRAFT" => Ahead(instance[p])

LEMMA PublicStep ==
  TypeOK /\ DateInv /\ PublicInv /\ [RegisterNext]_registerVars => PublicInv'
PROOF
<1> SUFFICES ASSUME TypeOK, DateInv, PublicInv, [RegisterNext]_registerVars,
                    "draft" \notin overtaken'
             PROVE  /\ key' # "none" => public' /\ tender'.est_value
                    /\ tender'.status # "DRAFT" => Ahead(tender)'
                    /\ \A p \in Proc : Loaded(p)' /\ instance'[p].status # "DRAFT" =>
                                         Ahead(instance[p])'
  BY DEF PublicInv
<1> DEFINE Goal == /\ key' # "none" => public' /\ tender'.est_value
                   /\ tender'.status # "DRAFT" => Ahead(tender)'
                   /\ \A p \in Proc : Loaded(p)' /\ instance'[p].status # "DRAFT" =>
                                        Ahead(instance[p])'
<1>0. /\ key # "none" => public /\ tender.est_value
      /\ tender.status # "DRAFT" => Ahead(tender)
      /\ \A p \in Proc : Loaded(p) /\ instance[p].status # "DRAFT" => Ahead(instance[p])
  BY HistoryGrows DEF PublicInv
<1>a. tender \in Tenders /\ Drafted
  BY DEF TypeOK, DateInv
<1>1. ASSUME UNCHANGED <<tender, key>>,
             \A p \in Proc : Loaded(p)' => Loaded(p) /\ instance'[p] = instance[p]
      PROVE  Goal
  BY <1>0, <1>1 DEF public, Ahead
<1>2. ASSUME NEW p \in Proc, Load(p) PROVE Goal
  <2>1. UNCHANGED <<tender, key>> /\ instance' = [instance EXCEPT ![p] = tender]
    BY <1>2 DEF Load
  <2>2. \A q \in Proc : instance'[q] = tender \/ instance'[q] = instance[q]
    BY <2>1 DEF TypeOK
  <2> QED BY <1>0, <2>1, <2>2 DEF public, Ahead, Loaded
<1>3. ASSUME NEW p \in Proc, Publish(p) PROVE Goal
  <2> DEFINE t == Published(instance[p])
  <2>1. /\ Loaded(p) /\ End(p) /\ t \in Tenders /\ SaveFacts(t) /\ Clean(t)
        /\ instance[p] \in Tenders /\ instance[p].status = "DRAFT"
    BY <1>3, PublishSaves DEF Saves, TypeOK, Loaded
  <2>2. t.status = "PUBLISHED"
    BY <2>1 DEF Published, Tenders
  <2> HIDE DEF t
  <2>3. PICK s \in {t.status, "OPENED"} : tender' = [t EXCEPT !.status = s]
    BY <2>1 DEF SaveFacts
  <2>4. /\ tender'.status \in {"PUBLISHED", "OPENED"} /\ tender'.est_value = t.est_value
        /\ tender'.published_at = t.published_at
        /\ tender'.submission_close_at = t.submission_close_at
    BY <2>1, <2>2, <2>3 DEF Tenders
  <2>5. /\ t.est_value /\ t.published_at # NULL
        /\ t.submission_close_at # NULL => t.submission_close_at > t.published_at
    BY <2>1, <2>2 DEF Clean, Constraints, AdvertLongEnough
  <2>6. public' /\ tender'.est_value /\ Ahead(tender)'
    BY <2>4, <2>5 DEF public, Ahead
  <2>7. \A q \in Proc : Loaded(q)' => Loaded(q) /\ instance'[q] = instance[q]
    BY <2>1, Ended
  <2>8. tender.status = "DRAFT" \/ tender' = tender
    BY <2>1, HistoryTells DEF ActsOnDraft
  <2>9. \A q \in Proc : Loaded(q)' /\ instance'[q].status # "DRAFT" => Ahead(instance[q])'
    <3>1. CASE tender.status = "DRAFT"
      BY <1>a, <2>7, <3>1 DEF Drafted
    <3>2. CASE tender' = tender
      BY <1>0, <2>7, <3>2 DEF Ahead
    <3> QED BY <2>8, <3>1, <3>2
  <2> QED BY <2>6, <2>9
<1>4. ASSUME NEW p \in Proc, Changes(p) PROVE Goal
  <2>1. PICK t \in Tenders : SavedRow(p, t) /\ SaveFacts(t)
    BY <1>4 DEF Changes
  <2>2. /\ Loaded(p) /\ End(p) /\ key # "none" /\ tender.status # "DRAFT"
        /\ public /\ tender.est_value /\ Ahead(tender)
        /\ instance[p] \in Tenders
    BY <1>0, <1>4, <1>a DEF Changes, Drafted, Loaded, TypeOK
  <2>3. \A q \in Proc : Loaded(q)' => Loaded(q) /\ instance'[q] = instance[q]
    BY <2>2, Ended
  <2>4. instance[p].status = "DRAFT" => tender' = tender
    BY <2>2, HistoryTells DEF ActsOnDraft
  <2>5. PICK o \in {t.status, "OPENED"} : tender' = [t EXCEPT !.status = o]
    BY <2>1 DEF SaveFacts
  <2>6. /\ tender'.status \in {t.status, "OPENED"} /\ tender'.est_value = t.est_value
        /\ tender'.published_at = t.published_at
        /\ tender'.submission_close_at = t.submission_close_at
    BY <2>1, <2>5 DEF Tenders
  <2>7. tender' = tender \/ (t.status \notin {"DRAFT", "CANCELLED"} /\ t.est_value
                             /\ t.published_at = tender.published_at
                             /\ (t.submission_close_at # NULL =>
                                   t.submission_close_at > tender.published_at))
    <3>1. CASE t = tender
      BY <2>2, <3>1 DEF public, Ahead
    <3>2. CASE StatusRow(p, t)
      <4>1. PICK s \in Status \ {"DRAFT"} : /\ t = [tender EXCEPT !.status = s]
                                            /\ s = "CANCELLED" => instance[p].status = "DRAFT"
        BY <3>2 DEF StatusRow
      <4>2. /\ t.status = s /\ t.est_value = tender.est_value
            /\ t.published_at = tender.published_at
            /\ t.submission_close_at = tender.submission_close_at
        BY <1>a, <4>1 DEF Tenders
      <4> QED BY <2>2, <2>4, <4>1, <4>2 DEF Ahead
    <3>3. CASE LateRow(p, t)
      <4> DEFINE new == NewClose(instance[p].submission_close_at)
      <4>1. /\ t.status = tender.status /\ t.est_value = tender.est_value
            /\ t.published_at = tender.published_at /\ t.submission_close_at = new
            /\ instance[p].status # "DRAFT" /\ instance[p].submission_close_at # NULL
        BY <1>a, <3>3 DEF LateRow, Tenders
      <4>2. instance[p].submission_close_at > tender.published_at
        BY <1>0, <2>2, <4>1 DEF Ahead
      <4>3. new > tender.published_at
        BY <1>a, <2>2, <4>2, DaysAssumption DEF NewClose, Tenders, Moment
      <4> QED BY <2>2, <4>1, <4>3 DEF public
    <3> QED BY <2>1, <3>1, <3>2, <3>3 DEF SavedRow
  <2>8. public' /\ tender'.est_value /\ Ahead(tender)' /\ tender'.published_at = tender.published_at
    BY <2>2, <2>6, <2>7 DEF public, Ahead
  <2> QED BY <1>0, <2>3, <2>8 DEF Ahead
<1>5. ASSUME NEW p \in Proc, NEW s \in Supplier, SubmitBid(p, s) PROVE Goal
  BY <1>1, <1>5, Ended DEF SubmitBid
<1> QED BY <1>1, <1>2, <1>3, <1>4, <1>5, Kinds DEF Quiet

LEMMA PublicInvariant ==
  ASSUME BackDates = {} PROVE RegisterSpec => [](TypeOK /\ DateInv /\ PublicInv)
PROOF
<1>1. RegisterInit => PublicInv
  BY DEF RegisterInit, Init, Draft, PublicInv, Loaded
<1>2. TypeOK /\ DateInv /\ PublicInv /\ [RegisterNext]_registerVars => PublicInv'
  BY PublicStep
<1> QED BY <1>1, <1>2, RegisterRefinesTender, DateInvariant, PTL DEF RegisterSpec

-----------------------------------------------------------------------------
\* Nothing is published in the future, and submit_bid has no draft before it.
NowInv == tender.published_at <= now /\ \A p \in submitting : instance[p].status # "DRAFT"

\* No request has loaded a later deadline than the tender's.
LateInv ==
  "dates" \notin overtaken =>
    /\ NoLateBid
    /\ \A p \in Proc : Loaded(p) /\ instance[p].status # "DRAFT" =>
         instance[p].submission_close_at <= tender.submission_close_at

\* Only publish() sets the date of publication, to the present day.
LEMMA PublishDates ==
  ASSUME TypeOK, DateInv, NEW p \in Proc, Publish(p)
  PROVE  /\ Loaded(p) /\ End(p) /\ SaveFacts(Published(instance[p]))
         /\ tender'.published_at = now /\ instance[p].published_at = NULL
PROOF
<1> DEFINE t == Published(instance[p])
<1>1. /\ Loaded(p) /\ End(p) /\ t \in Tenders /\ SaveFacts(t)
      /\ instance[p] \in Tenders /\ instance[p].status = "DRAFT"
  BY PublishSaves DEF Saves, TypeOK, Loaded
<1>2. instance[p].published_at = NULL
  BY <1>1 DEF DateInv, DatesFit, Fits
<1>3. t.published_at = now
  BY <1>1, <1>2 DEF Published, Tenders
<1> HIDE DEF t
<1>4. PICK s \in {t.status, "OPENED"} : tender' = [t EXCEPT !.status = s]
  BY <1>1 DEF SaveFacts
<1>5. tender'.published_at = now
  BY <1>1, <1>3, <1>4 DEF Tenders
<1> QED BY <1>1, <1>2, <1>5 DEF t

\* The other handlers leave it, and move the deadline from what they have loaded.
LEMMA ChangesDates ==
  ASSUME TypeOK, NEW p \in Proc, Changes(p)
  PROVE  /\ tender'.published_at = tender.published_at
         /\ \/ tender'.submission_close_at = tender.submission_close_at
            \/ tender'.submission_close_at = NewClose(instance[p].submission_close_at)
         /\ \A s \in Supplier : SameBid(s)
PROOF
<1>1. PICK t \in Tenders : SavedRow(p, t) /\ SaveFacts(t)
  BY DEF Changes
<1>2. PICK o \in {t.status, "OPENED"} : tender' = [t EXCEPT !.status = o]
  BY <1>1 DEF SaveFacts
<1>3. /\ tender'.published_at = t.published_at
      /\ tender'.submission_close_at = t.submission_close_at
  BY <1>1, <1>2 DEF Tenders
<1>4. tender \in Tenders
  BY DEF TypeOK
<1>5. /\ t.published_at = tender.published_at
      /\ \/ t.submission_close_at = tender.submission_close_at
         \/ t.submission_close_at = NewClose(instance[p].submission_close_at)
  <2>1. CASE StatusRow(p, t)
    <3>1. PICK s \in Status \ {"DRAFT"} : t = [tender EXCEPT !.status = s]
      BY <2>1 DEF StatusRow
    <3> QED BY <1>4, <3>1 DEF Tenders
  <2>2. CASE LateRow(p, t)
    BY <1>4, <2>2 DEF LateRow, Tenders
  <2> QED BY <1>1, <2>1, <2>2 DEF SavedRow
<1> QED BY <1>1, <1>3, <1>5, SaveKeepsBids

LEMMA NowStep == TypeOK /\ DateInv /\ NowInv /\ [RegisterNext]_registerVars => NowInv'
PROOF
<1> SUFFICES ASSUME TypeOK, DateInv, NowInv, [RegisterNext]_registerVars PROVE NowInv'
  OBVIOUS
<1>0. /\ now \in Int /\ tender.published_at \in Int /\ tender.published_at <= now
      /\ \A p \in submitting : p \in Proc /\ Loaded(p) /\ instance[p].status # "DRAFT"
  BY DEF TypeOK, Tenders, Moment, NowInv, Loaded
<1>1. ASSUME NEW p \in Proc, End(p)
      PROVE  now' = now /\ \A q \in submitting' : instance'[q].status # "DRAFT"
  <2>1. now' = now /\ submitting' = submitting \ {p}
    BY <1>1 DEF End
  <2>2. \A q \in Proc \ {p} : instance'[q] = instance[q]
    BY <1>1 DEF End, TypeOK
  <2> QED BY <1>0, <2>1, <2>2
<1>2. ASSUME NEW p \in Proc, Load(p) PROVE NowInv'
  <2>1. /\ UNCHANGED <<now, tender, submitting>> /\ ~Loaded(p)
        /\ instance' = [instance EXCEPT ![p] = tender]
    BY <1>2 DEF Load, Loaded
  <2>2. \A q \in submitting : instance'[q] = instance[q]
    BY <1>0, <2>1 DEF TypeOK
  <2> QED BY <1>0, <2>1, <2>2 DEF NowInv
<1>3. ASSUME NEW p \in Proc, Publish(p) PROVE NowInv'
  <2>1. tender'.published_at <= now'
    BY <1>0, <1>1, <1>3, PublishDates
  <2> QED BY <1>1, <1>3, <2>1, PublishDates DEF NowInv
<1>4. ASSUME NEW p \in Proc, Changes(p) PROVE NowInv'
  <2>1. tender'.published_at <= now'
    BY <1>0, <1>1, <1>4, ChangesDates DEF Changes
  <2> QED BY <1>1, <1>4, <2>1 DEF NowInv, Changes
<1>5. ASSUME NEW p \in Proc, NEW s \in Supplier, SubmitBid(p, s) PROVE NowInv'
  <2>1. End(p) /\ tender' = tender
    BY <1>5 DEF SubmitBid
  <2> QED BY <1>0, <1>1, <2>1 DEF NowInv
<1>6. CASE \/ \E p \in Proc : FindOpen(p) \/ RefuseBid(p)
           \/ \E s \in Supplier, m \in Examined : MarkBid(s, m)
           \/ Tick \/ UNCHANGED vars
  <2>1. UNCHANGED tender /\ now' >= now /\ now' \in Int
    BY <1>6, <1>0 DEF FindOpen, RefuseBid, End, MarkBid, Tick, vars
  <2>2. \A p \in submitting' : instance'[p].status # "DRAFT"
    <3>1. ASSUME NEW p \in Proc, RefuseBid(p) PROVE \A q \in submitting' : instance'[q].status # "DRAFT"
      BY <1>1, <3>1 DEF RefuseBid
    <3>2. ASSUME NEW p \in Proc, FindOpen(p) PROVE \A q \in submitting' : instance'[q].status # "DRAFT"
      BY <1>0, <3>2 DEF FindOpen, is_open
    <3> QED BY <1>0, <1>6, <3>1, <3>2 DEF MarkBid, Tick, vars
  <2> QED BY <1>0, <2>1, <2>2 DEF NowInv
<1>7. [Next]_vars
  BY RegisterStep
<1>8. ASSUME NEW p \in Proc, Handler(p) \/ Unseal(p) PROVE NowInv'
  <2>1. CASE Unseal(p)
    <3>1. tender \in Tenders /\ SavedRow(p, tender)
      BY DEF TypeOK, SavedRow
    <3>2. Changes(p)
      BY <2>1, <3>1, UnsealSaves DEF Changes
    <3> QED BY <1>4, <3>2
  <2>2. CASE Handler(p)
    <3>1. Changes(p)
      BY <2>2, HandlerSaves, HandlerNeedsKey DEF Changes, Saves
    <3> QED BY <1>4, <3>1
  <2> QED BY <1>8, <2>1, <2>2
<1> QED BY <1>2, <1>3, <1>5, <1>6, <1>7, <1>8 DEF Next, Others, Handler

LEMMA LateStep ==
  TypeOK /\ DateInv /\ SealInv /\ NowInv /\ LateInv /\ [RegisterNext]_registerVars => LateInv'
PROOF
<1> SUFFICES ASSUME TypeOK, DateInv, SealInv, NowInv, LateInv, [RegisterNext]_registerVars,
                    "dates" \notin overtaken'
             PROVE  LateInv'
  BY DEF LateInv
<1> DEFINE Fit(s) == bid[s] # NoBid => /\ tender.published_at <= bid[s].submitted_at
                                       /\ bid[s].submitted_at <= tender.submission_close_at
           Known(p) == Loaded(p) /\ instance[p].status # "DRAFT" =>
                         instance[p].submission_close_at <= tender.submission_close_at
<1>0. /\ \A s \in Supplier : Fit(s)
      /\ \A p \in Proc : Known(p)
  BY HistoryGrows DEF LateInv, NoLateBid, Bidders
<1>a. /\ tender.submission_close_at \in Int /\ tender.published_at \in Int /\ now \in Int
      /\ \A s \in Supplier : bid[s] # NoBid => bid[s].submitted_at \in Int
      /\ \A p \in Proc : Loaded(p) => instance[p].submission_close_at \in Int
  BY DEF TypeOK, Tenders, Moment, Bids, Loaded
<1>b. SUFFICES /\ \A s \in Supplier : Fit(s)'
               /\ \A p \in Proc : Known(p)'
  BY DEF LateInv, NoLateBid, Bidders
<1>1. ASSUME tender'.published_at = tender.published_at,
             tender'.submission_close_at \in Int,
             tender'.submission_close_at >= tender.submission_close_at,
             \A p \in Proc : Loaded(p)' => Loaded(p) /\ instance'[p] = instance[p]
      PROVE  /\ \A s \in Supplier : SameBid(s) => Fit(s)'
             /\ \A p \in Proc : Known(p)'
  BY <1>0, <1>a, <1>1 DEF SameBid
<1>2. ASSUME NEW p \in Proc, Load(p)
      PROVE  (\A s \in Supplier : Fit(s)') /\ \A q \in Proc : Known(q)'
  <2>1. UNCHANGED <<tender, bid>> /\ instance' = [instance EXCEPT ![p] = tender]
    BY <1>2 DEF Load
  <2>2. \A q \in Proc : instance'[q] = tender \/ instance'[q] = instance[q]
    BY <2>1 DEF TypeOK
  <2> QED BY <1>0, <1>a, <2>1, <2>2 DEF Loaded
<1>3. ASSUME NEW p \in Proc, Publish(p)
      PROVE  (\A s \in Supplier : Fit(s)') /\ \A q \in Proc : Known(q)'
  <2>1. /\ Loaded(p) /\ End(p) /\ instance[p].published_at = NULL
        /\ \A s \in Supplier : SameBid(s)
        /\ \A q \in Proc : Loaded(q)' => Loaded(q) /\ instance'[q] = instance[q]
    BY <1>3, PublishDates, SaveKeepsBids, Ended
  <2>2. Period(instance[p]) = Period(tender) \/ Period(tender') = Period(tender)
    BY <2>1, HistoryTells DEF SetsDates
  <2>3. CASE Period(instance[p]) = Period(tender)
    <3>1. tender.published_at = NULL
      BY <2>1, <2>3 DEF Period
    <3>2. tender.status = "DRAFT"
      BY <3>1 DEF DateInv, DatesFit, Fits
    <3>3. key = "none" /\ \A q \in Proc : Loaded(q) => instance[q].status = "DRAFT"
      BY <3>2 DEF DateInv, Drafted
    <3> QED BY <2>1, <3>3 DEF SealInv, SameBid
  <2>4. CASE Period(tender') = Period(tender)
    BY <1>1, <1>a, <2>1, <2>4 DEF Period
  <2> QED BY <2>2, <2>3, <2>4
<1>4. ASSUME NEW p \in Proc, Changes(p)
      PROVE  (\A s \in Supplier : Fit(s)') /\ \A q \in Proc : Known(q)'
  <2>1. /\ Loaded(p) /\ End(p) /\ tender'.published_at = tender.published_at
        /\ \A s \in Supplier : SameBid(s)
        /\ \A q \in Proc : Loaded(q)' => Loaded(q) /\ instance'[q] = instance[q]
    BY <1>4, ChangesDates, Ended DEF Changes
  <2>2. Period(instance[p]) = Period(tender) \/ Period(tender') = Period(tender)
    BY <2>1, HistoryTells DEF SetsDates
  <2>3. /\ tender'.submission_close_at \in Int
        /\ tender'.submission_close_at >= tender.submission_close_at
    <3>1. CASE tender'.submission_close_at = tender.submission_close_at
      BY <1>a, <3>1
    <3>2. CASE /\ Period(instance[p]) = Period(tender)
               /\ tender'.submission_close_at = NewClose(instance[p].submission_close_at)
      BY <1>a, <3>2, DaysAssumption DEF Period, NewClose
    <3> QED BY <1>4, <2>2, <3>1, <3>2, ChangesDates DEF Period
  <2> QED BY <1>1, <2>1, <2>3
<1>5. ASSUME NEW p \in Proc, NEW s \in Supplier, SubmitBid(p, s)
      PROVE  (\A q \in Supplier : Fit(q)') /\ \A q \in Proc : Known(q)'
  <2>1. /\ UNCHANGED tender /\ End(p) /\ p \in submitting
        /\ now <= instance[p].submission_close_at
        /\ bid' = [bid EXCEPT ![s] = NewBid(now)]
    BY <1>5 DEF SubmitBid, InTime
  <2>2. Loaded(p) /\ instance[p].status # "DRAFT" /\ tender.published_at <= now
    BY <2>1 DEF NowInv, TypeOK, Loaded
  <2>3. now <= tender.submission_close_at
    BY <1>0, <1>a, <2>1, <2>2
  <2>4. bid'[s].submitted_at = now /\ \A q \in Supplier \ {s} : bid'[q] = bid[q]
    BY <2>1 DEF NewBid, TypeOK
  <2>5. \A q \in Supplier : Fit(q)'
    BY <1>0, <2>1, <2>2, <2>3, <2>4
  <2>6. \A q \in Proc : Loaded(q)' => Loaded(q) /\ instance'[q] = instance[q]
    BY <2>1, Ended
  <2> QED BY <1>1, <1>a, <2>1, <2>5, <2>6
<1>6. CASE Quiet
  BY <1>1, <1>6, <1>a DEF Quiet
<1> QED BY <1>2, <1>3, <1>4, <1>5, <1>6, Kinds

LEMMA LateInvariant ==
  ASSUME BackDates = {} PROVE RegisterSpec => [](NowInv /\ LateInv)
PROOF
<1>1. RegisterInit => NowInv /\ LateInv
  BY DEF RegisterInit, Init, Draft, NowInv, LateInv, NoLateBid, Bidders, Loaded, NULL
<1>2. TypeOK /\ DateInv /\ NowInv /\ [RegisterNext]_registerVars => NowInv'
  BY NowStep
<1>3. TypeOK /\ DateInv /\ SealInv /\ NowInv /\ LateInv /\ [RegisterNext]_registerVars => LateInv'
  BY LateStep
<1> QED BY <1>1, <1>2, <1>3, SealInvariant, PublicInvariant, PTL DEF RegisterSpec

-----------------------------------------------------------------------------
LEMMA PricesShown == ASSUME TypeOK, BidInv PROVE PricesAfterOpening
PROOF
<1>1. \A s \in Priced : opened /\ key = "released"
  BY DEF Priced, Bidders, BidInv
<1>2. page_prices \subseteq Priced /\ api_prices \subseteq Priced /\ event_prices \subseteq Priced
  BY DEF page_prices, api_prices, event_prices
<1>3. {s \in DOMAIN submissions : submissions[s].value} \subseteq Priced
  BY DEF submissions, Priced
<1> QED BY <1>1, <1>2, <1>3 DEF PricesAfterOpening

LEMMA Served == ASSUME TypeOK, DateInv, PublicInv, ~Branded PROVE FoundEverywhere
PROOF
<1> SUFFICES ASSUME WentPublic, "draft" \notin overtaken PROVE FoundEverywhere
  BY DEF FoundEverywhere
<1>1. public /\ flags_computed /\ tender.est_value /\ Ahead(tender)
  BY DEF PublicInv, WentPublic, public, flags_computed
<1>2. tender.published_at # NULL
  BY <1>1 DEF DateInv, DatesFit, Fits, public
<1>3. ASSUME immutable_from, tender.submission_close_at # NULL
      PROVE  validates(releases_for)
  <2>1. ~structural_errors(releases_for)
    BY <1>2, <1>3 DEF structural_errors, releases_for, tender_stage
  <2>2. ~(tender.submission_close_at <= tender.published_at)
    BY <1>1, <1>3 DEF Ahead, TypeOK, Tenders, Moment
  <2>3. ~semantic_errors(releases_for)
    BY <1>1, <1>3, <2>2 DEF semantic_errors, releases_for, tender_stage
  <2> QED BY <2>1, <2>3 DEF validates
<1> QED BY <1>1, <1>2, <1>3 DEF FoundEverywhere, tender_list, tender_export_csv, tender_detail,
             api_tender, api_flags, indicators_page, bulk, releases, tender_ocds

-----------------------------------------------------------------------------
\* For any number of concurrent requests, whatever is frozen, reopened or opened twice, the
\* page, the release, the API and the ledger's events show no price before the opening with
\* a released key.
THEOREM PricesStaySealed == RegisterSpec => []PricesAfterOpening
PROOF
<1>1. TypeOK /\ BidInv => PricesAfterOpening
  BY PricesShown
<1> QED BY <1>1, RegisterRefinesTender, AwardInvariant, PTL

\* For any number of concurrent requests, every way of opening a tender (open_bids,
\* unseal_bids, transition, a late answer's save) opens its bids, unless submit_bid files
\* one on a tender that has stopped taking them.
THEOREM NoneLeftSealed == RegisterSpec => []OpenedMeansUnsealed
PROOF
<1>1. SealInv => OpenedMeansUnsealed
  BY DEF SealInv
<1> QED BY <1>1, SealInvariant, PTL

\* For any number of concurrent requests, and unless drafts carry a date of publication,
\* submit_bid leaves no bid outside the tender's period, however the period is extended
\* later, until publish() or an answer sets it from dates that were no longer the tender's.
THEOREM EveryBidInTime == ASSUME BackDates = {} PROVE RegisterSpec => []NoLateBid
PROOF
<1>1. LateInv => NoLateBid
  BY DEF LateInv, NoLateBid
<1> QED BY <1>1, LateInvariant, PTL

\* For any number of concurrent requests, unless drafts carry a date of publication or
\* indicator T09 fails, what went public stays on every surface, with a release that
\* validates if it has a deadline, until a request that took it for a draft changes it.
THEOREM PublicStaysServed ==
  ASSUME BackDates = {}, ~Branded PROVE RegisterSpec => []FoundEverywhere
PROOF
<1>1. TypeOK /\ DateInv /\ PublicInv => FoundEverywhere
  BY Served
<1> QED BY <1>1, PublicInvariant, PTL
=============================================================================
