------------------------------- MODULE Award --------------------------------
(***************************************************************************)
(* From the evaluated bid to the signed contract, and the objections to    *)
(* the award (apps/workflow/services.py, apps/procurement/models.py).      *)
(*                                                                         *)
(* award_contract holds no transaction: it creates the award, publishes    *)
(* it, adds up the tender's awards, saves the tender and signs the         *)
(* contract, each with a commit of its own, and staff who are interrupted  *)
(* may call it again.  file_objection is one transaction.  The bids are    *)
(* those staff have marked EVALUATED; what the tender and its bids went    *)
(* through before is Tender's subject, and so are stale instances and what *)
(* full_clean() demands of a transition.  A tender reopened from a freeze  *)
(* stays PUBLISHED here until it is frozen again or terminated.            *)
(***************************************************************************)
EXTENDS Integers, FiniteSets, FiniteSetsExt

CONSTANTS
  Proc,            \* staff calling award_contract
  Bid, amount,     \* evaluated bids and what each is awarded for
  Award,           \* rows of proc_award
  Ref,             \* contract references
  Objection,       \* rows of proc_objection
  OBJECTION_DAYS,  \* 10 in the code
  MaxDay           \* bound on the clock

NULL == -1
NoAward == "none"

ASSUME AmountAssumption == amount \in [Bid -> Nat]
ASSUME DaysAssumption == OBJECTION_DAYS \in Nat /\ MaxDay \in Nat
ASSUME RowsAssumption == IsFiniteSet(Award) /\ IsFiniteSet(Bid) /\ NoAward \notin Award

VARIABLES
  now,          \* the clock
  tender,       \* its status
  total_value,  \* of the tender, "sum of awarded lots"
  award,        \* the rows of proc_award
  contract,     \* the award each contract reference stands for
  signed_at,    \* when
  objection,    \* the rows of proc_objection
  request,      \* where each call of award_contract is
  disturbed     \* history: two calls overlapped, or one ended half-way

vars == <<now, tender, total_value, award, contract, signed_at, objection, request, disturbed>>

Status == {"OPENED", "EVALUATING", "AWARDED", "CONTRACTED", "FROZEN", "TERMINATED", "PUBLISHED"}
Outcome == {"PENDING", "DISMISSED", "UPHELD", "REMEDIED"}

Unmade == [status |-> "none"]
Awards == [status : {"APPROVED", "PUBLISHED"}, bid : Bid, objection_until : Int]

Idle == [at |-> "idle"]

Init ==
  /\ now = 0
  /\ tender \in {"OPENED", "EVALUATING"}
  /\ total_value = NULL
  /\ award = [a \in Award |-> Unmade]
  /\ contract = [r \in Ref |-> NoAward]
  /\ signed_at = [r \in Ref |-> NULL]
  /\ objection = [o \in Objection |-> Unmade]
  /\ request = [p \in Proc |-> Idle]
  /\ disturbed = FALSE

-----------------------------------------------------------------------------
Made == {a \in Award : award[a] # Unmade}
Objections == [award : Made, filed_at : Nat, outcome : Outcome]

\* Tender.award_value(): every award of the tender, whatever its status.
award_value == MapThenSumSet(LAMBDA a : amount[award[a].bid], Made)

At(p, place) == request[p].at = place
Goto(p, r) == request' = [request EXCEPT ![p] = r]

\* award_contract begins: Award.save runs full_clean() and the row is APPROVED.
CreateAward(p, a, b) ==
  /\ At(p, "idle")
  /\ award[a] = Unmade
  /\ tender # "PUBLISHED"
  /\ award' = [award EXCEPT ![a] = [status |-> "APPROVED", bid |-> b, objection_until |-> NULL]]
  /\ Goto(p, [at |-> "created", award |-> a])
  /\ disturbed' = (disturbed \/ \E q \in Proc : ~At(q, "idle"))
  /\ UNCHANGED <<now, tender, total_value, contract, signed_at, objection>>

\* Award.publish saves the award and appends award.published, ...
PublishAward(p) ==
  /\ At(p, "created")
  /\ award' = [award EXCEPT ![request[p].award] =
       [status |-> "PUBLISHED", bid |-> @.bid, objection_until |-> now + OBJECTION_DAYS]]
  /\ Goto(p, [at |-> "published", award |-> request[p].award])
  /\ UNCHANGED <<now, tender, total_value, contract, signed_at, objection, disturbed>>

\* ... adds up the awards ...
AddUp(p) ==
  /\ At(p, "published")
  /\ Goto(p, [at |-> "added", award |-> request[p].award, total |-> award_value])
  /\ UNCHANGED <<now, tender, total_value, award, contract, signed_at, objection, disturbed>>

\* ... and saves the tender, AWARDED whatever it has become meanwhile.
SaveTender(p) ==
  /\ At(p, "added")
  /\ tender' = "AWARDED"
  /\ total_value' = request[p].total
  /\ Goto(p, [at |-> "saved", award |-> request[p].award])
  /\ UNCHANGED <<now, award, contract, signed_at, objection, disturbed>>

\* Fault: the contract is written first and the notice afterwards.
ReadyToSign_Early(p) == At(p, "created") \/ At(p, "saved")
ReadyToSign(p) == At(p, "saved")

\* award_contract ends with the contract, unless its reference is taken.
SignContract(p, r) ==
  /\ ReadyToSign(p)
  /\ contract[r] = NoAward
  /\ contract' = [contract EXCEPT ![r] = request[p].award]
  /\ signed_at' = [signed_at EXCEPT ![r] = now]
  /\ Goto(p, Idle)
  /\ UNCHANGED <<now, tender, total_value, award, objection, disturbed>>

\* Fault: the award is deleted when its publication fails, with what objects to it.
Interrupt_Deletes(p) ==
  /\ ~At(p, "idle")
  /\ Goto(p, Idle)
  /\ disturbed' = TRUE
  /\ award' = [award EXCEPT ![request[p].award] = Unmade]
  /\ UNCHANGED <<now, tender, total_value, contract, signed_at, objection>>

\* The worker dies, an append is refused, or the reference is not unique.
Interrupt(p) ==
  /\ ~At(p, "idle")
  /\ Goto(p, Idle)
  /\ disturbed' = TRUE
  /\ UNCHANGED <<now, tender, total_value, award, contract, signed_at, objection>>

-----------------------------------------------------------------------------
\* Fault: an award is open to objections for ever.
window_open_Always(a) == TRUE
\* The check that file_objection and Objection.save both make.
window_open(a) == award[a].objection_until # NULL => now <= award[a].objection_until

\* file_objection: the objection, its panel and the freeze, or nothing.
FileObjection(o, a) ==
  /\ objection[o] = Unmade
  /\ a \in Made
  /\ window_open(a)
  /\ tender \in {"PUBLISHED", "EVALUATING", "AWARDED"}
  /\ objection' = [objection EXCEPT ![o] = [award |-> a, filed_at |-> now, outcome |-> "PENDING"]]
  /\ tender' = "FROZEN"
  /\ UNCHANGED <<now, total_value, award, contract, signed_at, request, disturbed>>

\* decide_objection: any outcome over any other, with no effect on the award.
DecideObjection(o, outcome) ==
  /\ objection[o] # Unmade
  /\ objection' = [objection EXCEPT ![o].outcome = outcome]
  /\ UNCHANGED <<now, tender, total_value, award, contract, signed_at, request, disturbed>>

ALLOWED_TRANSITIONS(s) ==
  CASE s = "PUBLISHED" -> {"TERMINATED"}
    [] s = "OPENED" -> {"EVALUATING", "TERMINATED"}
    [] s = "EVALUATING" -> {"AWARDED", "TERMINATED"}
    [] s = "AWARDED" -> {"CONTRACTED", "EVALUATING", "TERMINATED"}
    [] s = "FROZEN" -> {"PUBLISHED", "EVALUATING", "AWARDED", "TERMINATED"}
    [] OTHER -> {}

\* Tender.transition, by staff; freezes are FileObjection's.
Transition(s) ==
  /\ s \in ALLOWED_TRANSITIONS(tender)
  /\ tender' = s
  /\ UNCHANGED <<now, total_value, award, contract, signed_at, objection, request, disturbed>>

Tick ==
  /\ now < MaxDay
  /\ now' = now + 1
  /\ UNCHANGED <<tender, total_value, award, contract, signed_at, objection, request, disturbed>>

Next ==
  \/ \E p \in Proc :
       \/ \E a \in Award, b \in Bid : CreateAward(p, a, b)
       \/ PublishAward(p) \/ AddUp(p) \/ SaveTender(p)
       \/ \E r \in Ref : SignContract(p, r)
       \/ Interrupt(p)
  \/ \E o \in Objection :
       \/ \E a \in Award : FileObjection(o, a)
       \/ \E outcome \in Outcome : DecideObjection(o, outcome)
  \/ \E s \in Status : Transition(s)
  \/ Tick

Spec == Init /\ [][Next]_vars

-----------------------------------------------------------------------------
TypeOK ==
  /\ now \in Nat
  /\ tender \in Status
  /\ award \in [Award -> Awards \cup {Unmade}]
  /\ contract \in [Ref -> Made \cup {NoAward}]
  /\ signed_at \in [Ref -> Int]
  /\ objection \in [Objection -> Objections \cup {Unmade}]
  /\ \A p \in Proc : At(p, "idle") \/ request[p].award \in Made
  /\ disturbed \in BOOLEAN

\* Wherever a call stops and however often it is repeated, a contract stands for
\* an award whose notice and objection window were published before the signature,
\* and no award is behind two contracts (award_contract, Award.publish).
SignedMeansPublished ==
  \A r \in Ref : contract[r] # NoAward =>
    /\ award[contract[r]].status = "PUBLISHED"
    /\ award[contract[r]].objection_until <= signed_at[r] + OBJECTION_DAYS
    /\ \A q \in Ref \ {r} : contract[q] # contract[r]

\* The objections a tender's page lists, and the page of each (apps/workflow/views.py).
objection_list == {o \in Objection : objection[o] # Unmade}
objection_detail(o) == [filed_at |-> objection[o].filed_at, award |-> award[objection[o].award]]

\* Objections come within the window that the award on their page announces, also when
\* the award is published only after the objection (file_objection).
ObjectionsInWindow ==
  \A o \in objection_list :
    LET until == objection_detail(o).award.objection_until
    IN until # NULL => objection_detail(o).filed_at <= until
=============================================================================
