------------------------------ MODULE Catalogue ------------------------------
(***************************************************************************)
(* A purchase order on the catalogue's fast lane: the invitation of the    *)
(* three lowest-priced items and the award to the lowest quote             *)
(* (create_po, award_po; apps/workflow/services.py and models.py).         *)
(*                                                                         *)
(* Neither function holds a transaction: every write is a commit of its    *)
(* own, either may stop after any of them, and award_po may be called on   *)
(* an order that is still being raised, was refused or is awarded already. *)
(* The catalogue is read once, by create_po; the items are those of the    *)
(* order's category, and what changes before is another initial catalogue. *)
(* Quantities, specifications and lead times are left out.                 *)
(***************************************************************************)
EXTENDS Integers, FiniteSets, Sequences, FiniteSetsExt, Functions

CONSTANTS
  Proc,            \* staff
  Item,            \* catalogue items of the order's category
  supplier, sku,   \* whose they are and of what
  Catalogues,      \* the unit prices they may have
  MaxAwards        \* bound on the awards of the order

NoPrice == 0

ASSUME CatalogueAssumption ==
  /\ IsFiniteSet(Item) /\ Catalogues \subseteq [Item -> Nat]
  /\ \A i, j \in Item : supplier[i] = supplier[j] /\ sku[i] = sku[j] => i = j  \* uniq_sku_per_supplier

VARIABLES
  unit_price,  \* of every item; NoPrice if it is not active
  po,          \* the order: status and awarded_unit_price
  quotes,      \* the items that quote for it
  awards,      \* awards of the order: the price and whether it is published
  contract,    \* the price of the contract under the order's reference
  request      \* where each member of staff is

catalogueVars == <<unit_price, po, quotes, awards, contract>>

Idle == [at |-> "idle"]
At(p, place) == request[p].at = place
Goto(p, r) == request' = [request EXCEPT ![p] = r]

CatalogueItem == {i \in Item : unit_price[i] # NoPrice}

CatalogueInit ==
  /\ unit_price \in Catalogues
  /\ po = [status |-> "none", price |-> NoPrice]
  /\ quotes = {}
  /\ awards = <<>>
  /\ contract = NoPrice
  /\ request = [p \in Proc |-> Idle]

-----------------------------------------------------------------------------
\* Fault: any three items of the category are invited.
candidates_Any ==
  {s \in [1..Min({3, Cardinality(CatalogueItem)}) -> CatalogueItem] : IsInjective(s)}

\* The three lowest-priced active items, from the lowest; equal prices in any order.
candidates ==
  {s \in [1..Min({3, Cardinality(CatalogueItem)}) -> CatalogueItem] :
     /\ IsInjective(s)
     /\ \A i, j \in DOMAIN s : i < j => unit_price[s[i]] <= unit_price[s[j]]
     /\ \A c \in CatalogueItem : (\E i \in DOMAIN s : s[i] = c) \/ \A i \in DOMAIN s : unit_price[s[i]] <= unit_price[c]}

\* create_po: the order is committed, then the catalogue is read.
CreatePO(p) ==
  /\ At(p, "idle")
  /\ po.status = "none"
  /\ po' = [po EXCEPT !.status = "QUOTING"]
  /\ \E s \in candidates : Goto(p, [at |-> "inviting", left |-> s])
  /\ UNCHANGED <<unit_price, quotes, awards, contract>>

\* Two quotes of one supplier violate uniq_quote_per_supplier and end the call.
Invite(p) ==
  /\ At(p, "inviting")
  /\ request[p].left # <<>>
  /\ \A q \in quotes : supplier[q] # supplier[Head(request[p].left)]
  /\ quotes' = quotes \cup {Head(request[p].left)}
  /\ Goto(p, [request[p] EXCEPT !.left = Tail(@)])
  /\ UNCHANGED <<unit_price, po, awards, contract>>

\* create_po ends; with fewer than three quotes it raises, and what is committed stays.
Invited(p) ==
  /\ At(p, "inviting")
  /\ request[p].left = <<>>
  /\ Goto(p, Idle)
  /\ UNCHANGED catalogueVars

-----------------------------------------------------------------------------
\* award_po: the lowest quote; without any quote the call fails.  No look at the status.
PickL1(p) ==
  /\ At(p, "idle")
  /\ po.status # "none"
  /\ quotes # {}
  /\ Goto(p, [at |-> "picked", price |-> Min({unit_price[q] : q \in quotes})])
  /\ UNCHANGED catalogueVars

SaveAwarded(p) ==
  /\ At(p, "picked")
  /\ po' = [status |-> "AWARDED", price |-> request[p].price]
  /\ Goto(p, [request[p] EXCEPT !.at = "tender"])
  /\ UNCHANGED <<unit_price, quotes, awards, contract>>

\* A tender, a lot and a bid of its own for every call, then award_contract's award.
CreateAward(p) ==
  /\ At(p, "tender")
  /\ Len(awards) < MaxAwards
  /\ awards' = Append(awards, [price |-> request[p].price, published |-> FALSE])
  /\ Goto(p, [at |-> "created", price |-> request[p].price, award |-> Len(awards) + 1])
  /\ UNCHANGED <<unit_price, po, quotes, contract>>

PublishAward(p) ==
  /\ At(p, "created")
  /\ awards' = [awards EXCEPT ![request[p].award].published = TRUE]
  /\ Goto(p, [request[p] EXCEPT !.at = "published"])
  /\ UNCHANGED <<unit_price, po, quotes, contract>>

\* The contract takes the order's reference, which is unique.
SignContract(p) ==
  /\ At(p, "published")
  /\ contract = NoPrice
  /\ contract' = request[p].price
  /\ Goto(p, [at |-> "signed"])
  /\ UNCHANGED <<unit_price, po, quotes, awards>>

Accept(p) ==
  /\ At(p, "signed")
  /\ po' = [po EXCEPT !.status = "ACCEPTED"]
  /\ Goto(p, Idle)
  /\ UNCHANGED <<unit_price, quotes, awards, contract>>

\* The worker dies, or a constraint refuses the next write.
Interrupt(p) ==
  /\ ~At(p, "idle")
  /\ Goto(p, Idle)
  /\ UNCHANGED catalogueVars

CatalogueNext(p) ==
  \/ CreatePO(p) \/ Invite(p) \/ Invited(p)
  \/ PickL1(p) \/ SaveAwarded(p) \/ CreateAward(p) \/ PublishAward(p)
  \/ SignContract(p) \/ Accept(p)

-----------------------------------------------------------------------------
(* What the public pages show (apps/procurement/views_catalogue.py). *)

\* The catalogue and an item's page: the cheapest of the active items of each SKU.
shown == {sku[i] : i \in CatalogueItem}
best_price(k) == Min({unit_price[i] : i \in {c \in CatalogueItem : sku[c] = k}})

\* The order's page: the lowest quote first.
purchase_order_detail == [price |-> po.price, lowest |-> Min({unit_price[q] : q \in quotes})]

\* The orders listed under a status.
purchase_order_list(status) == po.status = status

\* The lowest of the best prices shown.
lowest_shown == Min({best_price(k) : k \in shown})

\* Whenever award_po is called, also while create_po still adds quotes, after it was refused
\* or once more, the price on an awarded order, on each of its awards and on its contract is
\* the lowest the catalogue shows for any SKU of the category, and an accepted order has its
\* contract.  It is not more than that: of "at least 3 comparable quotes", which every such
\* award gives as its reason (services.py:673), nothing is promised, for a refused order is
\* awarded on one quote and the three cheapest items need not be of one SKU.
L1Wins ==
  LET lowest == lowest_shown
  IN /\ po.status \in {"AWARDED", "ACCEPTED"} =>
          purchase_order_detail.price = lowest /\ purchase_order_detail.lowest = lowest
     /\ \A i \in DOMAIN awards : awards[i].price = lowest
     /\ contract # NoPrice =>
          contract = lowest /\ \E i \in DOMAIN awards : awards[i].published
     /\ purchase_order_list("ACCEPTED") => contract # NoPrice
=============================================================================
