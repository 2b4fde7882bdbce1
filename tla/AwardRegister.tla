---------------------------- MODULE AwardRegister ----------------------------
(***************************************************************************)
(* What the public reads of the awards and contracts of a tender: the      *)
(* award page, the API, the yearly dump, the OCDS release, the feed, the   *)
(* agencies' and suppliers' pages and the headline figures                 *)
(* (apps/procurement/views.py, views_mda.py, api, ocds, apps/workflow).    *)
(*                                                                         *)
(* Each of them selects and adds up the rows for itself at that moment.    *)
(* The tender is public and of the year and agency asked for; every bid of *)
(* Award is of a supplier of its own.  Filters and layout are left out.    *)
(***************************************************************************)
EXTENDS Award

Value(as) == MapThenSumSet(LAMBDA a : amount[award[a].bid], as)
Signed == {r \in Ref : contract[r] # NoAward}

-----------------------------------------------------------------------------
(* The awards each surface lists. *)

\* No handler writes CONTRACTED; PUBLISHED is what these two select.
awards == {a \in Made : award[a].status = "PUBLISHED"}
AwardsFeed == {a \in Made : award[a].status = "PUBLISHED"}

AwardViewSet == {a \in Made : award[a].status \in {"APPROVED", "PUBLISHED"}}
ocds_active == {a \in Made : award[a].status \in {"APPROVED", "PUBLISHED"}}

\* Without regard to the status: the dump's CSV file and the agency's page.
bulk == Made
mda_detail == Made

awards_won(b) == {a \in awards : award[a].bid = b}
supplier_detail(b) ==
  [awards |-> awards_won(b), total_awarded |-> Value(awards_won(b))]

-----------------------------------------------------------------------------
(* Contracts and sums. *)

\* The release goes from the awards to their contracts; API and dashboard list the table.
contract_stage == {r \in Ref : contract[r] \in Made}
ContractViewSet == Signed
contracts_dashboard ==
  [contracts |-> Signed, total_value |-> MapThenSumSet(LAMBDA r : amount[award[contract[r]].bid], Signed)]

live_metrics ==
  [awards_published |-> Cardinality(awards), total_award_value |-> Value(awards),
   contracts_signed |-> Cardinality(Signed)]

\* The API and the page on the service's state print these figures.
stats == live_metrics
status == [awards |-> live_metrics.awards_published]

\* An agency's row: its awards are counted by status, its contracts are not.
mda_dashboard ==
  [awards |-> Cardinality(awards), awarded |-> Value(awards),
   contracts |-> Cardinality(Signed), contracted |-> contracts_dashboard.total_value]

awarded_value_ngn == Value(Made)

-----------------------------------------------------------------------------
Quiet == ~disturbed /\ \A p \in Proc : At(p, "idle")

\* When no call of award_contract runs, overlapped another or stopped half-way, ten
\* surfaces that select the awards by four different conditions show the same awards,
\* sums and contracts, and the tender's stored total is that sum (models.py:104, "sum of
\* awarded lots; derived").  Even otherwise, no
\* surface shows a contract whose award the award page withholds.
RegistersAgree ==
  /\ Quiet =>
       /\ \A shown \in {AwardsFeed, AwardViewSet, ocds_active, bulk, mda_detail,
                        {contract[r] : r \in contract_stage},
                        UNION {supplier_detail(b).awards : b \in Bid}} : shown = awards
       /\ \A sum \in {awarded_value_ngn, mda_dashboard.awarded, mda_dashboard.contracted,
                      contracts_dashboard.total_value,
                      MapThenSumSet(LAMBDA b : supplier_detail(b).total_awarded, Bid)} :
            sum = stats.total_award_value
       /\ awards # {} => total_value = live_metrics.total_award_value
       /\ stats.contracts_signed = status.awards
  /\ \A r \in ContractViewSet \cup contract_stage : contract[r] \in awards
=============================================================================
