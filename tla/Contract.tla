------------------------------ MODULE Contract ------------------------------
(***************************************************************************)
(* The life of one signed contract (apps/workflow): acceptance, payment,   *)
(* variations, close-out and rating, by concurrent requests.               *)
(*                                                                         *)
(* None of these handlers holds a transaction: each of its writes is       *)
(* committed by itself, requests work on the contract as they loaded it,   *)
(* and between two writes of a handler the worker may die or its append to *)
(* the ledger may fail.  Amounts of certificates and payments are left out *)
(* (a payment above the certificate is one of the ways to be refused), and *)
(* so are milestones and guarantees, which no guard reads.  Nobody edits   *)
(* the contract in the admin panel.                                        *)
(***************************************************************************)
EXTENDS Integers, FiniteSets, FiniteSetsExt

CONSTANTS
  Proc,          \* concurrent requests
  Ref,           \* references of acceptance certificates
  Variation,
  amount_change  \* of each variation

ASSUME AmountAssumption == amount_change \in [Variation -> Int]

VARIABLES
  status,      \* of the row of proc_contract
  acceptance,  \* certificates issued
  payment,     \* certificates a payment has been certified on
  variation,   \* status of each variation
  event,       \* how many VARIATION events there are for each amount
  rated,       \* the supplier's rating has been published
  request,     \* what each request has loaded and where it is
  cut          \* history: a handler has ended between two of its writes

vars == <<status, acceptance, payment, variation, event, rated, request, cut>>

Status == {"SIGNED", "ACTIVE", "ACCEPTED", "PAID", "CLOSED"}
Amount == {amount_change[v] : v \in Variation}

Idle == [at |-> "idle"]

Init ==
  /\ status \in {"SIGNED", "ACTIVE"}
  /\ acceptance = {}
  /\ payment = {}
  /\ variation = [v \in Variation |-> "none"]
  /\ event = [a \in Amount |-> 0]
  /\ rated = FALSE
  /\ request = [p \in Proc |-> Idle]
  /\ cut = FALSE

-----------------------------------------------------------------------------
At(p, place) == request[p].at = place
Goto(p, place) == request' = [request EXCEPT ![p] = [at |-> place]]
Done(p) == request' = [request EXCEPT ![p] = Idle]

\* The contract as this request has loaded it.
Loaded(p, S) == At(p, "loaded") /\ request[p].status \in S

Load(p) ==
  /\ At(p, "idle")
  /\ request' = [request EXCEPT ![p] = [at |-> "loaded", status |-> status]]
  /\ UNCHANGED <<status, acceptance, payment, variation, event, rated, cut>>

\* A guard refuses the request, or the UNIQUE index its first write.
Refuse(p) ==
  /\ At(p, "loaded")
  /\ Done(p)
  /\ UNCHANGED <<status, acceptance, payment, variation, event, rated, cut>>

\* A handler ends between two of its writes.
Interrupt(p) ==
  /\ request[p].at \in {"accepting", "paying", "closing", "publishing", "creating"}
  /\ Done(p)
  /\ cut' = TRUE
  /\ UNCHANGED <<status, acceptance, payment, variation, event, rated>>

\* certify_acceptance issues the certificate ...
CreateAcceptance(p, ref) ==
  /\ Loaded(p, {"SIGNED", "ACTIVE"})
  /\ ref \notin acceptance
  /\ acceptance' = acceptance \cup {ref}
  /\ Goto(p, "accepting")
  /\ UNCHANGED <<status, payment, variation, event, rated, cut>>

\* ... and then saves the status.
SaveAccepted(p) ==
  /\ At(p, "accepting")
  /\ status' = "ACCEPTED"
  /\ Done(p)
  /\ UNCHANGED <<acceptance, payment, variation, event, rated, cut>>

\* Fault: the certificate of another contract will do.
Certificates_Any == Ref
\* The certificates of this contract.
Certificates == acceptance

\* certify_payment: a certificate is paid on at most once, by its UNIQUE column.
CreatePayment(p, ref) ==
  /\ Loaded(p, {"ACCEPTED"})
  /\ ref \in Certificates \ payment
  /\ payment' = payment \cup {ref}
  /\ Goto(p, "paying")
  /\ UNCHANGED <<status, acceptance, variation, event, rated, cut>>

SavePaid(p) ==
  /\ At(p, "paying")
  /\ status' = "PAID"
  /\ Done(p)
  /\ UNCHANGED <<acceptance, payment, variation, event, rated, cut>>

-----------------------------------------------------------------------------
\* Fault: any contract can be closed.
Closable_Any == Status
Closable == {"ACCEPTED", "PAID"}

\* close_contract saves the status ...
Close(p) ==
  /\ Loaded(p, Closable)
  /\ status' = "CLOSED"
  /\ Goto(p, "closing")
  /\ UNCHANGED <<acceptance, payment, variation, event, rated, cut>>

\* Fault: close_contract leaves the rating to the operators.
AutoRate_Never(p) ==
  /\ At(p, "closing")
  /\ Done(p)
  /\ UNCHANGED <<status, acceptance, payment, variation, event, rated, cut>>
\* ... and then sees to the rating: there is one already, or it is made now, or
\* the UNIQUE column says that another request has been faster.
AutoRate(p) ==
  /\ At(p, "closing")
  /\ rated' = TRUE
  /\ Done(p)
  /\ UNCHANGED <<status, acceptance, payment, variation, event, cut>>

\* Fault: a rating may be published at any time.
Ratable_Any == Status
Ratable == {"PAID", "CLOSED"}

\* rate_supplier_performance, by an officer or contract_ops --rate-all.
Rate(p) ==
  /\ Loaded(p, Ratable)
  /\ ~rated
  /\ rated' = TRUE
  /\ Done(p)
  /\ UNCHANGED <<status, acceptance, payment, variation, event, cut>>

-----------------------------------------------------------------------------
Propose(v) ==
  /\ variation[v] = "none"
  /\ variation' = [variation EXCEPT ![v] = "PROPOSED"]
  /\ UNCHANGED <<status, acceptance, payment, event, rated, request, cut>>

\* approve_variation: ContractVariation.save commits the status, whatever it
\* was, ...
ApproveVariation(p, v) ==
  /\ At(p, "idle")
  /\ variation[v] # "none"
  /\ variation' = [variation EXCEPT ![v] = "APPROVED"]
  /\ request' = [request EXCEPT ![p] = [at |-> "publishing", variation |-> v]]
  /\ UNCHANGED <<status, acceptance, payment, event, rated, cut>>

AmountOf(p) == amount_change[request[p].variation]

\* ... looks for an event of this amount, failing if there are several, ...
FindEvent(p) ==
  /\ At(p, "publishing")
  /\ request' = [request EXCEPT ![p] = IF event[AmountOf(p)] = 0 THEN [@ EXCEPT !.at = "creating"]
                                       ELSE Idle]
  /\ UNCHANGED <<status, acceptance, payment, variation, event, rated, cut>>

\* Fault: the event is looked up and not created.
Created_Never(n) == n
Created(n) == n + 1

\* ... and creates one if there was none.
CreateEvent(p) ==
  /\ At(p, "creating")
  /\ event' = [event EXCEPT ![AmountOf(p)] = Created(@)]
  /\ Done(p)
  /\ UNCHANGED <<status, acceptance, payment, variation, rated, cut>>

Next ==
  \/ \E p \in Proc :
       \/ Load(p) \/ Refuse(p) \/ Interrupt(p)
       \/ SaveAccepted(p) \/ SavePaid(p)
       \/ \E ref \in Ref : CreateAcceptance(p, ref) \/ CreatePayment(p, ref)
       \/ Close(p) \/ AutoRate(p) \/ Rate(p)
       \/ FindEvent(p) \/ CreateEvent(p)
       \/ \E v \in Variation : ApproveVariation(p, v)
  \/ \E v \in Variation : Propose(v)

Spec == Init /\ [][Next]_vars

-----------------------------------------------------------------------------
(* The public pages (apps/procurement/views.py, apps/workflow/views.py). *)

contract_detail == [events |-> event, acceptances |-> acceptance]

\* Every variation, above the growth that the contract's events add up to.
contract_variations == [variations |-> {v \in Variation : variation[v] # "none"}]
variation_pct == MapThenSumSet(LAMBDA a : a * event[a], Amount)

\* The dashboard of payments: those certified, and whether the contract awaits one.
payments_dashboard == payment
awaiting == status = "ACCEPTED"

supplier_ratings == rated

-----------------------------------------------------------------------------
Requests ==
  {Idle}
  \cup [at : {"loaded"}, status : Status]
  \cup [at : {"accepting", "paying", "closing"}]
  \cup [at : {"publishing", "creating"}, variation : Variation]

\* Among the rest, nothing is paid that has not been accepted.
TypeOK ==
  /\ status \in Status
  /\ acceptance \subseteq Ref
  /\ payment \subseteq acceptance
  /\ variation \in [Variation -> {"none", "PROPOSED", "APPROVED"}]
  /\ event \in [Amount -> Nat]
  /\ rated \in BOOLEAN
  /\ request \in [Proc -> Requests]
  /\ cut \in BOOLEAN

\* However stale the requests and wherever they are interrupted, no status is ahead of
\* the certificates its pages show for it, on the dashboard of payments neither.
StatusBacked ==
  /\ awaiting \/ status \in {"PAID", "CLOSED"} => contract_detail.acceptances # {}
  /\ status = "PAID" => payments_dashboard # {}

\* Nor does a rating go on a supplier's record before the works were accepted.
RatedAfterAcceptance == supplier_ratings => contract_detail.acceptances # {}

\* A closed contract lacks its rating only while a request is closing it, or
\* because one was interrupted: no race with other raters loses it.
RatedAtClose == status = "CLOSED" /\ ~rated => cut \/ \E p \in Proc : At(p, "closing")

\* The published growth and the approved variations: every amount published was
\* approved, and every approval is published, is on its way, or was interrupted,
\* whichever requests approve at the same time.
Publishing(p, v) == request[p].at \in {"publishing", "creating"} /\ request[p].variation = v
GrowthPublished ==
  /\ \A a \in Amount : contract_detail.events[a] > 0 =>
       \E v \in contract_variations.variations : variation[v] = "APPROVED" /\ amount_change[v] = a
  /\ \A v \in contract_variations.variations : variation[v] = "APPROVED" =>
       contract_detail.events[amount_change[v]] > 0 \/ cut \/ \E p \in Proc : Publishing(p, v)

\* models_phases.py:398, "Every variation is published: the public sees the
\* contract's growth": on the page that lists the variations and their total, no
\* variation hides behind another of the same amount.
EveryVariationPublished ==
  ~cut /\ (\A p \in Proc, v \in Variation : ~Publishing(p, v)) =>
    variation_pct = MapThenSumSet(LAMBDA v : amount_change[v],
                                  {v \in contract_variations.variations : variation[v] = "APPROVED"})
=============================================================================
