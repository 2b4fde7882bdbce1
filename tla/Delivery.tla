------------------------------ MODULE Delivery -------------------------------
(***************************************************************************)
(* What follows a signature: milestones and their inspection, guarantees,  *)
(* and debriefs of losing bidders (apps/workflow/services_phases.py,       *)
(* models_phases.py), here for the contract of a catalogue order.          *)
(*                                                                         *)
(* Every handler saves its row and then appends its event; an inspection   *)
(* is also written to the contract's public events in between.  Nothing    *)
(* joins these commits, and any of them may be the last.  No handler lets  *)
(* a debrief become OVERDUE or a milestone anything but what is here.      *)
(***************************************************************************)
EXTENDS Catalogue

CONSTANTS Milestone, Guarantee, Debrief  \* rows; a debrief is an award and a supplier

Row == Milestone \cup Guarantee \cup Debrief
Verdict == {"ACCEPTED", "REJECTED"}

VARIABLES
  row,         \* the status of every row, "none" before it is created
  events,      \* ContractEvents of kind MILESTONE: milestone and verdict
  ledger,      \* events appended: row and status
  interrupted  \* history: a handler stopped half-way

deliveryVars == <<row, events, ledger>>
vars == <<catalogueVars, request, deliveryVars, interrupted>>

Init ==
  /\ CatalogueInit
  /\ row = [r \in Row |-> "none"]
  /\ events = {}
  /\ ledger = {}
  /\ interrupted = FALSE

-----------------------------------------------------------------------------
\* A row is saved with a new status; the event or the inspection is still to come.
Saved(p, r, status, next) ==
  /\ row' = [row EXCEPT ![r] = status]
  /\ Goto(p, [at |-> next, row |-> r, status |-> status])
  /\ UNCHANGED <<catalogueVars, events, ledger, interrupted>>

create_milestone(p, m) ==
  /\ At(p, "idle") /\ contract # NoPrice
  /\ row[m] = "none"
  /\ Saved(p, m, "PLANNED", "append")

\* Any verdict over any other.
complete_milestone(p, m, verdict) ==
  /\ At(p, "idle")
  /\ row[m] # "none"
  /\ Saved(p, m, verdict, "publish")

\* Fault: a milestone has one public event.
inspection_Once(m, verdict) ==
  IF \E e \in events : e[1] = m THEN events ELSE events \cup {<<m, verdict>>}
inspection(m, verdict) == events \cup {<<m, verdict>>}

PublishInspection(p) ==
  /\ At(p, "publish")
  /\ events' = inspection(request[p].row, request[p].status)
  /\ Goto(p, [request[p] EXCEPT !.at = "append"])
  /\ UNCHANGED <<catalogueVars, row, ledger, interrupted>>

add_guarantee(p, g) ==
  /\ At(p, "idle") /\ contract # NoPrice
  /\ row[g] = "none"
  /\ Saved(p, g, "valid", "append")

release_guarantee(p, g) ==
  /\ At(p, "idle")
  /\ row[g] # "none"
  /\ Saved(p, g, "released", "append")

\* The check and the insert are two steps; uniq_debrief_per_supplier_per_award has the last word.
request_debrief(p, d) ==
  /\ At(p, "idle") /\ awards # <<>>
  /\ row[d] = "none"
  /\ Goto(p, [at |-> "checked", row |-> d])
  /\ UNCHANGED <<catalogueVars, deliveryVars, interrupted>>

CreateDebrief(p) ==
  /\ At(p, "checked")
  /\ row[request[p].row] = "none"
  /\ Saved(p, request[p].row, "REQUESTED", "append")

respond_debrief(p, d) ==
  /\ At(p, "idle")
  /\ row[d] # "none"
  /\ Saved(p, d, "COMPLETED", "append")

\* append() of the handler's event ends it.
Append_(p) ==
  /\ At(p, "append")
  /\ ledger' = ledger \cup {<<request[p].row, request[p].status>>}
  /\ Goto(p, Idle)
  /\ UNCHANGED <<catalogueVars, row, events, interrupted>>

Stop(p) ==
  /\ Interrupt(p)
  /\ interrupted' = (interrupted \/ At(p, "publish") \/ At(p, "append"))
  /\ UNCHANGED deliveryVars

\* What the API calls, and release_guarantee, which it does not.
Milestones(p) ==
  \E m \in Milestone :
    create_milestone(p, m) \/ \E verdict \in Verdict : complete_milestone(p, m, verdict)
Guarantees(p) == \E g \in Guarantee : add_guarantee(p, g) \/ release_guarantee(p, g)
Debriefs(p) == \E d \in Debrief : request_debrief(p, d) \/ respond_debrief(p, d)

Handlers(p) ==
  \/ Milestones(p) \/ PublishInspection(p)
  \/ Guarantees(p)
  \/ Debriefs(p) \/ CreateDebrief(p)
  \/ Append_(p)

Next ==
  \E p \in Proc :
    \/ CatalogueNext(p) /\ UNCHANGED <<deliveryVars, interrupted>>
    \/ Handlers(p)
    \/ Stop(p)

Spec == Init /\ [][Next]_vars

-----------------------------------------------------------------------------
(* The public pages (apps/workflow/views.py). *)

contract_workspace ==
  [milestones |-> [m \in {r \in Milestone : row[r] # "none"} |-> row[m]],
   events |-> events,
   guarantees |-> {g \in Guarantee : row[g] # "none"}]

contract_milestones == contract_workspace.milestones

debrief_list == {d \in Debrief : row[d] # "none"}

\* A handler that is still going to append this.
Coming(r, status, places) ==
  \E p \in Proc : request[p].at \in places /\ request[p].row = r /\ request[p].status = status

\* Unless a handler stopped half-way, whoever else is inspecting the same milestone, every
\* verdict the pages show stands among the contract's public events and every status in the
\* ledger, or a request is about to write it; even then the ledger reports no inspection
\* the public events lack, and nothing about a row that no page shows.
DeliveryOnRecord ==
  /\ ~interrupted =>
       /\ \A m \in DOMAIN contract_milestones :
            contract_milestones[m] \in Verdict =>
              \/ <<m, contract_milestones[m]>> \in contract_workspace.events
              \/ Coming(m, contract_milestones[m], {"publish"})
       /\ \A r \in Row : row[r] # "none" =>
            <<r, row[r]>> \in ledger \/ Coming(r, row[r], {"publish", "append"})
  /\ \A e \in ledger :
       /\ e[2] \in Verdict => e \in contract_workspace.events
       /\ e[1] \in DOMAIN contract_milestones \cup contract_workspace.guarantees \cup debrief_list
=============================================================================
