--------------------------- MODULE Delivery_proofs ---------------------------
(***************************************************************************)
(* The fast lane and the delivery for any catalogue, any number of staff   *)
(* and any rows.                                                           *)
(*                                                                         *)
(* That every award is made at the lowest price, whoever interrupts or     *)
(* repeats what, rests on the order in which quotes are committed: the     *)
(* first one is the cheapest item's, and quotes stay (QuotesInv).  That    *)
(* the pages stand on record rests on what a request has still to write    *)
(* (RecordInv).                                                            *)
(***************************************************************************)
EXTENDS Delivery, FiniteSetTheorems, TLAPS

Statuses ==
  {"none", "PLANNED", "ACCEPTED", "REJECTED", "valid", "released", "REQUESTED", "COMPLETED"}

Calls ==
  {Idle} \cup [at : {"inviting"}, left : Seq(Item)]
    \cup [at : {"picked", "tender"}, price : Nat]
    \cup [at : {"created", "published"}, price : Nat, award : Nat]
    \cup [at : {"signed"}]
    \cup [at : {"publish", "append"}, row : Row, status : Statuses]
    \cup [at : {"checked"}, row : Debrief]

TypeOK ==
  /\ unit_price \in [Item -> Nat]
  /\ po \in [status : {"none", "QUOTING", "AWARDED", "ACCEPTED"}, price : Nat]
  /\ quotes \subseteq CatalogueItem
  /\ awards \in Seq([price : Nat, published : BOOLEAN])
  /\ contract \in Nat
  /\ row \in [Row -> Statuses]
  /\ request \in [Proc -> Calls]

Cheapest(i) == i \in CatalogueItem /\ \A c \in CatalogueItem : unit_price[i] <= unit_price[c]
Lowest == Min({unit_price[i] : i \in CatalogueItem})

\* What a call of create_po or award_po goes by.
CallInv(p) ==
  /\ At(p, "inviting") =>
       /\ po.status # "none"
       /\ request[p].left \in Seq(CatalogueItem)
       /\ request[p].left # <<>> /\ quotes = {} => Cheapest(Head(request[p].left))
  /\ request[p].at \in {"picked", "tender", "created", "published"} =>
       request[p].price = Lowest /\ quotes # {} /\ po.status # "none"
  /\ request[p].at \in {"tender", "created", "published", "signed"} =>
       po.status \in {"AWARDED", "ACCEPTED"}
  /\ request[p].at \in {"created", "published"} => request[p].award \in DOMAIN awards
  /\ At(p, "published") => awards[request[p].award].published
  /\ At(p, "signed") => contract # NoPrice

\* L1Wins in terms of it.
PriceInv ==
  /\ po.status \in {"AWARDED", "ACCEPTED"} =>
       purchase_order_detail.price = Lowest /\ purchase_order_detail.lowest = Lowest
  /\ \A i \in DOMAIN awards : awards[i].price = Lowest
  /\ contract # NoPrice =>
       contract = Lowest /\ \E i \in DOMAIN awards : awards[i].published
  /\ purchase_order_list("ACCEPTED") => contract # NoPrice

QuotesInv ==
  /\ po.status = "none" => quotes = {}
  /\ quotes # {} => \E q \in quotes : Cheapest(q)
  /\ po.status \in {"AWARDED", "ACCEPTED"} => quotes # {}
  /\ awards # <<>> => quotes # {}
  /\ \A p \in Proc : CallInv(p)

RecordInv ==
  \A p \in Proc :
    /\ request[p].at \in {"publish", "append"} => row[request[p].row] # "none"
    /\ At(p, "publish") => request[p].row \in Milestone /\ request[p].status \in Verdict
    /\ At(p, "append") /\ request[p].status \in Verdict =>
         <<request[p].row, request[p].status>> \in events

\* DeliveryOnRecord row by row.
VerdictRecorded(m) ==
  row[m] \in Verdict =>
    \/ <<m, row[m]>> \in events
    \/ \E p \in Proc : At(p, "publish") /\ request[p].row = m /\ request[p].status = row[m]

RowRecorded(r) ==
  row[r] # "none" =>
    \/ <<r, row[r]>> \in ledger
    \/ \E p \in Proc :
         request[p].at \in {"publish", "append"} /\ request[p].row = r /\ request[p].status = row[r]

Reported(e) ==
  /\ e[2] \in Verdict => e \in events
  /\ e[1] \in Row /\ row[e[1]] # "none"

Recorded ==
  /\ ~interrupted => (\A m \in Milestone : VerdictRecorded(m)) /\ \A r \in Row : RowRecorded(r)
  /\ \A e \in ledger : Reported(e)

\* What the pages show is read off the state.
USE DEF contract_workspace, contract_milestones, debrief_list, purchase_order_detail,
        purchase_order_list

-----------------------------------------------------------------------------
\* A request at a place holds what belongs to the place.
LEMMA AtPlace ==
  ASSUME TypeOK, NEW p \in Proc
  PROVE  /\ At(p, "inviting") => request[p] \in [at : {"inviting"}, left : Seq(Item)]
         /\ request[p].at \in {"picked", "tender"} =>
              request[p] \in [at : {"picked", "tender"}, price : Nat]
         /\ request[p].at \in {"created", "published"} =>
              request[p] \in [at : {"created", "published"}, price : Nat, award : Nat]
         /\ request[p].at \in {"publish", "append"} =>
              request[p] \in [at : {"publish", "append"}, row : Row, status : Statuses]
         /\ At(p, "checked") => request[p] \in [at : {"checked"}, row : Debrief]
  BY DEF TypeOK, Calls, Idle, At

\* One request moves on, the others stay.
LEMMA GotoOne ==
  ASSUME TypeOK, NEW p \in Proc, NEW r \in Calls, Goto(p, r)
  PROVE  /\ request' \in [Proc -> Calls]
         /\ request'[p] = r
         /\ \A q \in Proc \ {p} : request'[q] = request[q]
  BY DEF TypeOK, Goto

LEMMA MinIs ==
  ASSUME NEW S \in SUBSET Int, NEW x \in S, \A y \in S : x <= y
  PROVE  Min(S) = x
<1>1. Min(S) \in S /\ \A y \in S : Min(S) <= y
  BY DEF Min
<1>2. Min(S) \in Int /\ x \in Int /\ Min(S) <= x /\ x <= Min(S)
  BY <1>1
<1> DEFINE m == Min(S)
<1> HIDE DEF m
<1>3. m \in Int /\ x \in Int /\ m <= x /\ x <= m
  BY <1>2 DEF m
<1>4. m = x
  BY <1>3
<1> QED BY <1>4 DEF m

\* The cheapest item has the best price of the catalogue, and of the quotes if it is one.
LEMMA BestPrice ==
  ASSUME TypeOK, NEW i, Cheapest(i)
  PROVE  /\ Lowest = unit_price[i] /\ Lowest \in Nat /\ Lowest # NoPrice
         /\ i \in quotes => Min({unit_price[q] : q \in quotes}) = Lowest
<1>1. unit_price[i] \in Nat /\ unit_price[i] # NoPrice
  BY DEF TypeOK, Cheapest, CatalogueItem
<1>2. Lowest = unit_price[i]
  <2> DEFINE S == {unit_price[c] : c \in CatalogueItem}
  <2>1. S \subseteq Int /\ unit_price[i] \in S /\ \A y \in S : unit_price[i] <= y
    BY DEF TypeOK, Cheapest, CatalogueItem
  <2> HIDE DEF S
  <2>2. Min(S) = unit_price[i]
    BY <2>1, MinIs
  <2> QED BY <2>2 DEF S, Lowest
<1>3. ASSUME i \in quotes PROVE Min({unit_price[q] : q \in quotes}) = unit_price[i]
  <2> DEFINE S == {unit_price[q] : q \in quotes}
  <2>1. S \subseteq Int /\ unit_price[i] \in S /\ \A y \in S : unit_price[i] <= y
    BY <1>3 DEF TypeOK, Cheapest, CatalogueItem
  <2> HIDE DEF S
  <2>2. Min(S) = unit_price[i]
    BY <2>1, MinIs
  <2> QED BY <2>2 DEF S
<1> QED BY <1>1, <1>2, <1>3

\* create_po invites the cheapest item first.
LEMMA CandidatesFromCheapest ==
  ASSUME TypeOK, NEW s \in candidates
  PROVE  s \in Seq(CatalogueItem) /\ s \in Seq(Item) /\ (s # <<>> => Cheapest(Head(s)))
<1> DEFINE n == Min({3, Cardinality(CatalogueItem)})
<1>1. CatalogueItem \subseteq Item /\ IsFiniteSet(CatalogueItem)
  BY CatalogueAssumption, FS_Subset DEF CatalogueItem
<1>2. n \in Nat
  <2>1. Cardinality(CatalogueItem) \in Nat
    BY <1>1, FS_CardinalityType
  <2> DEFINE k == Cardinality(CatalogueItem)
  <2> HIDE DEF k
  <2>2. k \in Nat
    BY <2>1 DEF k
  <2>3. CASE 3 <= k
    <3>1. Min({3, k}) = 3
      BY <2>2, <2>3, MinIs
    <3> QED BY <3>1 DEF k
  <2>4. CASE k <= 3
    <3>1. Min({3, k}) = k
      BY <2>2, <2>4, MinIs
    <3> QED BY <2>2, <3>1 DEF k
  <2> QED BY <2>2, <2>3, <2>4
<1>3. /\ s \in [1..n -> CatalogueItem]
      /\ \A i, j \in DOMAIN s : i < j => unit_price[s[i]] <= unit_price[s[j]]
      /\ \A c \in CatalogueItem :
           (\E i \in DOMAIN s : s[i] = c) \/ \A i \in DOMAIN s : unit_price[s[i]] <= unit_price[c]
  BY DEF candidates
<1> HIDE DEF n
<1>4. s \in Seq(CatalogueItem) /\ s \in Seq(Item)
  BY <1>1, <1>2, <1>3
<1>5. ASSUME s # <<>> PROVE Cheapest(Head(s))
  <2>1. 1 \in DOMAIN s /\ Head(s) = s[1] /\ s[1] \in CatalogueItem
    BY <1>4, <1>5
  <2>2. ASSUME NEW c \in CatalogueItem PROVE unit_price[s[1]] <= unit_price[c]
    <3>1. CASE \E i \in DOMAIN s : s[i] = c
      <4>1. PICK i \in DOMAIN s : s[i] = c
        BY <3>1
      <4>2. i = 1 \/ 1 < i
        BY <1>2, <1>3
      <4>3. unit_price[c] \in Nat
        BY DEF TypeOK, CatalogueItem
      <4> QED BY <1>3, <2>1, <4>1, <4>2, <4>3
    <3>2. CASE \A i \in DOMAIN s : unit_price[s[i]] <= unit_price[c]
      BY <2>1, <3>2
    <3> QED BY <1>3, <3>1, <3>2
  <2> QED BY <2>1, <2>2 DEF Cheapest
<1> QED BY <1>4, <1>5
-----------------------------------------------------------------------------
LEMMA LeastExists ==
  ASSUME NEW S \in SUBSET Nat, S # {}
  PROVE  Min(S) \in S /\ \A y \in S : Min(S) <= y
<1> DEFINE L == {ss \in Nat \X Nat : ss[1] < ss[2]}
<1>1. \E x \in S : \A y \in S : ~(<<y, x>> \in L)
  <2>1. IsWellFoundedOn(L, Nat)
    BY NatLessThanWellFounded, Zenon DEF OpToRel
  <2> HIDE DEF L
  <2> QED BY <2>1, WFMin
<1>2. PICK x \in S : \A y \in S : ~(<<y, x>> \in L)
  BY <1>1
<1>3. ASSUME NEW y \in S PROVE x <= y
  <2>1. x \in Nat /\ y \in Nat /\ ~(y < x)
    BY <1>2
  <2> QED BY <2>1
<1> QED BY <1>3 DEF Min

\* No SKU is shown below the cheapest item of all, and its own is shown at its price.
LEMMA CheapestIsShown ==
  ASSUME TypeOK, NEW i, Cheapest(i)
  PROVE  lowest_shown = Lowest
<1> DEFINE Of(k) == {c \in CatalogueItem : sku[c] = k}
           S(k) == {unit_price[c] : c \in Of(k)}
<1>1. Lowest = unit_price[i] /\ i \in CatalogueItem /\ \A c \in CatalogueItem : unit_price[i] <= unit_price[c]
  BY BestPrice DEF Cheapest
<1>2. \A c \in CatalogueItem : unit_price[c] \in Nat
  BY DEF TypeOK, CatalogueItem
<1>3. best_price(sku[i]) = Lowest /\ sku[i] \in shown
  <2> DEFINE T == S(sku[i])
  <2>1. T \subseteq Int /\ unit_price[i] \in T /\ \A y \in T : unit_price[i] <= y
    BY <1>1, <1>2
  <2>2. best_price(sku[i]) = Min(T)
    BY DEF best_price
  <2>3. sku[i] \in shown
    BY <1>1 DEF shown
  <2> HIDE DEF T
  <2>4. Min(T) = unit_price[i]
    BY <2>1, MinIs
  <2> QED BY <1>1, <2>2, <2>3, <2>4
<1>4. ASSUME NEW k \in shown PROVE best_price(k) \in Int /\ Lowest <= best_price(k)
  <2> DEFINE T == S(k)
  <2>1. T \subseteq Nat /\ T # {} /\ \A y \in T : unit_price[i] <= y
    BY <1>1, <1>2 DEF shown
  <2>2. best_price(k) = Min(T)
    BY DEF best_price
  <2> HIDE DEF T
  <2>3. Min(T) \in T
    BY <2>1, LeastExists
  <2> DEFINE m == Min(T)
  <2>4. m \in T
    BY <2>3
  <2> HIDE DEF m
  <2>5. m \in Int /\ unit_price[i] <= m
    BY <2>1, <2>4
  <2> QED BY <1>1, <2>2, <2>5, Zenon DEF m
<1> DEFINE P == {best_price(k) : k \in shown}
<1>5. P \subseteq Int /\ Lowest \in P /\ \A y \in P : Lowest <= y
  BY <1>3, <1>4
<1>6. lowest_shown = Min(P)
  BY DEF lowest_shown
<1> HIDE DEF P
<1> QED BY <1>5, <1>6, MinIs

\* Once something is awarded a quote is the cheapest item's.
LEMMA PricesShown == TypeOK /\ QuotesInv /\ PriceInv => L1Wins
<1> SUFFICES ASSUME TypeOK, QuotesInv, PriceInv PROVE L1Wins
  OBVIOUS
<1>1. ASSUME quotes # {} PROVE lowest_shown = Lowest
  BY <1>1, CheapestIsShown DEF QuotesInv
<1>2. po.status \in {"AWARDED", "ACCEPTED"} => lowest_shown = Lowest
  BY <1>1 DEF QuotesInv
<1>3. awards # <<>> => lowest_shown = Lowest
  BY <1>1 DEF QuotesInv
<1>4. (\E i \in DOMAIN awards : TRUE) => awards # <<>>
  OBVIOUS
<1> QED BY <1>2, <1>3, <1>4 DEF PriceInv, L1Wins

LEMMA InitInv == Init => TypeOK /\ QuotesInv /\ PriceInv /\ RecordInv /\ Recorded
<1> SUFFICES ASSUME Init PROVE TypeOK /\ QuotesInv /\ PriceInv /\ RecordInv /\ Recorded
  OBVIOUS
<1> USE DEF Init, CatalogueInit, NoPrice
<1>1. Idle.at = "idle" /\ Idle \in Calls
  BY DEF Idle, Calls
<1>2. \A p \in Proc : request[p].at = "idle"
  BY <1>1
<1>3. TypeOK
  <2>1. unit_price \in [Item -> Nat]
    BY CatalogueAssumption
  <2>2. po \in [status : {"none", "QUOTING", "AWARDED", "ACCEPTED"}, price : Nat]
    OBVIOUS
  <2>3. quotes \subseteq CatalogueItem /\ contract \in Nat /\ awards \in Seq([price : Nat, published : BOOLEAN])
    OBVIOUS
  <2>4. row \in [Row -> Statuses]
    BY DEF Statuses
  <2>5. request \in [Proc -> Calls]
    BY <1>1
  <2> QED BY <2>1, <2>2, <2>3, <2>4, <2>5 DEF TypeOK
<1>4. QuotesInv
  BY <1>2 DEF QuotesInv, CallInv, At
<1>5. PriceInv
  <2>1. po.status = "none"
    OBVIOUS
  <2>2. DOMAIN awards = {}
    OBVIOUS
  <2> QED BY <2>1, <2>2 DEF PriceInv
<1>7. Recorded
  <2>1. \A r \in Row : row[r] = "none"
    OBVIOUS
  <2> QED BY <2>1 DEF Recorded, RowRecorded, VerdictRecorded, Row, Verdict
<1>6. RecordInv
  BY <1>2 DEF RecordInv, At
<1> QED BY <1>3, <1>4, <1>5, <1>6, <1>7

\* Statuses do not fall back, quotes and awards stay: what other calls go by remains.
LEMMA OtherCallsKeep ==
  ASSUME TypeOK, QuotesInv, NEW p \in Proc, NEW r \in Calls, Goto(p, r),
         unit_price' = unit_price, quotes \subseteq quotes',
         po.status # "none" => po'.status # "none",
         po.status \in {"AWARDED", "ACCEPTED"} => po'.status \in {"AWARDED", "ACCEPTED"},
         \A i \in DOMAIN awards :
           i \in DOMAIN awards' /\ (awards[i].published => awards'[i].published),
         contract # NoPrice => contract' # NoPrice
  PROVE  \A q \in Proc \ {p} : CallInv(q)'
<1> SUFFICES ASSUME NEW q \in Proc \ {p} PROVE CallInv(q)'
  OBVIOUS
<1>1. request'[q] = request[q] /\ CallInv(q)
  BY GotoOne DEF QuotesInv
<1>2. CatalogueItem' = CatalogueItem /\ Lowest' = Lowest /\ \A i : Cheapest(i)' = Cheapest(i)
  BY DEF CatalogueItem, Lowest, Cheapest
<1> QED BY <1>1, <1>2 DEF CallInv, At

\* A step that leaves the order alone and sends a request to no place of its calls.
LEMMA OrderAlone ==
  ASSUME TypeOK, QuotesInv, PriceInv, NEW p \in Proc, NEW r \in Calls, Goto(p, r),
         UNCHANGED catalogueVars,
         r.at \in {"idle", "checked", "publish", "append"}
  PROVE  QuotesInv' /\ PriceInv'
<1> USE DEF catalogueVars
<1>1. \A q \in Proc \ {p} : CallInv(q)'
  BY OtherCallsKeep
<1>2. CallInv(p)'
  <2>1. request'[p] = r
    BY GotoOne
  <2> QED BY <2>1 DEF CallInv, At
<1>3. CatalogueItem' = CatalogueItem /\ Lowest' = Lowest /\ \A i : Cheapest(i)' = Cheapest(i)
  BY DEF CatalogueItem, Lowest, Cheapest
<1>4. QuotesInv'
  BY <1>1, <1>2, <1>3 DEF QuotesInv
<1>5. PriceInv'
  BY <1>3 DEF PriceInv
<1> QED BY <1>4, <1>5

LEMMA CreatePOStep ==
  ASSUME TypeOK, QuotesInv, PriceInv, NEW p \in Proc, CreatePO(p)
  PROVE  /\ po' \in [status : {"none", "QUOTING", "AWARDED", "ACCEPTED"}, price : Nat]
         /\ request' \in [Proc -> Calls] /\ request'[p].at = "inviting"
         /\ QuotesInv' /\ PriceInv'
<1>1. PICK s \in candidates : Goto(p, [at |-> "inviting", left |-> s])
  BY DEF CreatePO
<1> DEFINE r == [at |-> "inviting", left |-> s]
<1>2. s \in Seq(CatalogueItem) /\ s \in Seq(Item) /\ (s # <<>> => Cheapest(Head(s)))
  BY CandidatesFromCheapest
<1>3. r \in Calls /\ r.at = "inviting" /\ r.left = s
  BY <1>2 DEF Calls
<1> HIDE DEF r
<1>4. Goto(p, r)
  BY <1>1 DEF r
<1>5. /\ po.status = "none" /\ quotes = {}
      /\ po' = [po EXCEPT !.status = "QUOTING"]
      /\ UNCHANGED <<unit_price, quotes, awards, contract>>
  BY DEF CreatePO, QuotesInv
<1>6. po' \in [status : {"none", "QUOTING", "AWARDED", "ACCEPTED"}, price : Nat]
      /\ po'.status = "QUOTING"
  BY <1>5 DEF TypeOK
<1>7. request' \in [Proc -> Calls] /\ request'[p] = r
  BY <1>3, <1>4, GotoOne
<1>8. \A q \in Proc \ {p} : CallInv(q)'
  BY <1>3, <1>4, <1>5, <1>6, OtherCallsKeep
<1>9. CatalogueItem' = CatalogueItem /\ Lowest' = Lowest /\ \A i : Cheapest(i)' = Cheapest(i)
  BY <1>5 DEF CatalogueItem, Lowest, Cheapest
<1>10. CallInv(p)'
  BY <1>2, <1>3, <1>6, <1>7, <1>9 DEF CallInv, At
<1>11. QuotesInv'
  BY <1>5, <1>6, <1>8, <1>10 DEF QuotesInv
<1>12. PriceInv'
  BY <1>5, <1>6, <1>9 DEF PriceInv
<1> QED BY <1>3, <1>6, <1>7, <1>11, <1>12

LEMMA InviteStep ==
  ASSUME TypeOK, QuotesInv, PriceInv, NEW p \in Proc, Invite(p)
  PROVE  /\ quotes' \subseteq CatalogueItem
         /\ request' \in [Proc -> Calls] /\ request'[p].at = "inviting"
         /\ QuotesInv' /\ PriceInv'
<1> DEFINE left == request[p].left
           r == [request[p] EXCEPT !.left = Tail(left)]
<1>1. /\ At(p, "inviting") /\ left # <<>>
      /\ quotes' = quotes \cup {Head(left)}
      /\ Goto(p, r)
      /\ UNCHANGED <<unit_price, po, awards, contract>>
  BY DEF Invite
<1>2. request[p] \in [at : {"inviting"}, left : Seq(Item)]
  BY <1>1, AtPlace
<1>3. left \in Seq(CatalogueItem) /\ (quotes = {} => Cheapest(Head(left))) /\ po.status # "none"
  BY <1>1 DEF QuotesInv, CallInv
<1>4. Head(left) \in CatalogueItem /\ Tail(left) \in Seq(CatalogueItem) /\ Tail(left) \in Seq(Item)
  BY <1>1, <1>2, <1>3
<1>5. r \in Calls /\ r.at = "inviting" /\ r.left = Tail(left)
  BY <1>2, <1>4 DEF Calls
<1> HIDE DEF left, r
<1>6. quotes' \subseteq CatalogueItem /\ quotes' # {}
  BY <1>1, <1>4 DEF TypeOK
<1>7. \E q \in quotes' : Cheapest(q)
  BY <1>1, <1>3 DEF QuotesInv
<1>8. request' \in [Proc -> Calls] /\ request'[p] = r
  BY <1>1, <1>5, GotoOne
<1>9. \A q \in Proc \ {p} : CallInv(q)'
  BY <1>1, <1>5, OtherCallsKeep
<1>10. CatalogueItem' = CatalogueItem /\ Lowest' = Lowest /\ \A i : Cheapest(i)' = Cheapest(i)
  BY <1>1 DEF CatalogueItem, Lowest, Cheapest
<1>11. CallInv(p)'
  BY <1>1, <1>3, <1>4, <1>5, <1>6, <1>8, <1>10 DEF CallInv, At
<1>12. QuotesInv'
  BY <1>1, <1>3, <1>6, <1>7, <1>9, <1>10, <1>11 DEF QuotesInv
<1>13. PriceInv'
  <2>1. PICK q \in quotes' : Cheapest(q)
    BY <1>7
  <2>2. unit_price[q] = Lowest
    BY <2>1, BestPrice
  <2>3. Min({unit_price[c] : c \in quotes'}) = Lowest
    <3> DEFINE S == {unit_price[c] : c \in quotes'}
    <3>1. S \subseteq Int /\ unit_price[q] \in S /\ \A y \in S : unit_price[q] <= y
      BY <1>6, <2>1 DEF TypeOK, Cheapest, CatalogueItem
    <3> HIDE DEF S
    <3>2. Min(S) = unit_price[q]
      BY <3>1, MinIs
    <3> QED BY <2>2, <3>2 DEF S
  <2> QED BY <1>1, <1>10, <2>3 DEF PriceInv
<1> QED BY <1>5, <1>6, <1>8, <1>12, <1>13

LEMMA PickL1Step ==
  ASSUME TypeOK, QuotesInv, PriceInv, NEW p \in Proc, PickL1(p)
  PROVE  /\ request' \in [Proc -> Calls] /\ request'[p].at = "picked"
         /\ QuotesInv' /\ PriceInv'
<1> DEFINE r == [at |-> "picked", price |-> Min({unit_price[q] : q \in quotes})]
<1>1. /\ po.status # "none" /\ quotes # {}
      /\ Goto(p, r)
      /\ UNCHANGED <<unit_price, po, quotes, awards, contract>>
  BY DEF PickL1, catalogueVars
<1>2. r.at = "picked" /\ r.price = Lowest /\ r \in Calls
  <2>1. PICK q \in quotes : Cheapest(q)
    BY <1>1 DEF QuotesInv
  <2>2. Min({unit_price[c] : c \in quotes}) = Lowest /\ Lowest \in Nat
    BY <2>1, BestPrice
  <2>3. r = [at |-> "picked", price |-> Lowest]
    BY <2>2
  <2> HIDE DEF r
  <2> QED BY <2>2, <2>3 DEF Calls
<1> HIDE DEF r
<1>3. request' \in [Proc -> Calls] /\ request'[p] = r
  BY <1>1, <1>2, GotoOne
<1>4. \A q \in Proc \ {p} : CallInv(q)'
  BY <1>1, <1>2, OtherCallsKeep
<1>5. CatalogueItem' = CatalogueItem /\ Lowest' = Lowest /\ \A i : Cheapest(i)' = Cheapest(i)
  BY <1>1 DEF CatalogueItem, Lowest, Cheapest
<1>6. CallInv(p)'
  BY <1>1, <1>2, <1>3, <1>5 DEF CallInv, At
<1>7. QuotesInv'
  BY <1>1, <1>4, <1>5, <1>6 DEF QuotesInv
<1>8. PriceInv'
  BY <1>1, <1>5 DEF PriceInv
<1> QED BY <1>2, <1>3, <1>7, <1>8
LEMMA SaveAwardedStep ==
  ASSUME TypeOK, QuotesInv, PriceInv, NEW p \in Proc, SaveAwarded(p)
  PROVE  /\ po' \in [status : {"none", "QUOTING", "AWARDED", "ACCEPTED"}, price : Nat]
         /\ request' \in [Proc -> Calls] /\ request'[p].at = "tender"
         /\ QuotesInv' /\ PriceInv'
<1> DEFINE r == [request[p] EXCEPT !.at = "tender"]
<1>1. /\ At(p, "picked")
      /\ po' = [status |-> "AWARDED", price |-> request[p].price]
      /\ Goto(p, r)
      /\ UNCHANGED <<unit_price, quotes, awards, contract>>
  BY DEF SaveAwarded
<1>2. request[p] \in [at : {"picked", "tender"}, price : Nat]
  BY <1>1, AtPlace DEF At
<1>3. request[p].price = Lowest /\ quotes # {}
  BY <1>1 DEF QuotesInv, CallInv, At
<1>4. r \in Calls /\ r.at = "tender" /\ r.price = Lowest
  BY <1>2, <1>3 DEF Calls
<1> HIDE DEF r
<1>5. /\ po' \in [status : {"none", "QUOTING", "AWARDED", "ACCEPTED"}, price : Nat]
      /\ po'.status = "AWARDED" /\ po'.price = Lowest
  BY <1>1, <1>2, <1>3
<1>6. request' \in [Proc -> Calls] /\ request'[p] = r
  BY <1>1, <1>4, GotoOne
<1>7. \A q \in Proc \ {p} : CallInv(q)'
  BY <1>1, <1>4, <1>5, OtherCallsKeep
<1>8. CatalogueItem' = CatalogueItem /\ Lowest' = Lowest /\ \A i : Cheapest(i)' = Cheapest(i)
  BY <1>1 DEF CatalogueItem, Lowest, Cheapest
<1>9. CallInv(p)'
  BY <1>1, <1>3, <1>4, <1>5, <1>6, <1>8 DEF CallInv, At
<1>10. QuotesInv'
  BY <1>1, <1>3, <1>5, <1>7, <1>8, <1>9 DEF QuotesInv
<1>11. Min({unit_price[q] : q \in quotes}) = Lowest
  BY <1>3, BestPrice DEF QuotesInv
<1>12. PriceInv'
  BY <1>1, <1>5, <1>8, <1>11 DEF PriceInv
<1> QED BY <1>4, <1>5, <1>6, <1>10, <1>12

LEMMA CreateAwardStep ==
  ASSUME TypeOK, QuotesInv, PriceInv, NEW p \in Proc, CreateAward(p)
  PROVE  /\ awards' \in Seq([price : Nat, published : BOOLEAN])
         /\ request' \in [Proc -> Calls] /\ request'[p].at = "created"
         /\ QuotesInv' /\ PriceInv'
<1> DEFINE r == [at |-> "created", price |-> request[p].price, award |-> Len(awards) + 1]
           a == [price |-> request[p].price, published |-> FALSE]
<1>1. /\ At(p, "tender")
      /\ awards' = Append(awards, a)
      /\ Goto(p, r)
      /\ UNCHANGED <<unit_price, po, quotes, contract>>
  BY DEF CreateAward
<1>2. request[p] \in [at : {"picked", "tender"}, price : Nat]
  BY <1>1, AtPlace DEF At
<1>3. /\ request[p].price = Lowest /\ quotes # {} /\ po.status # "none"
      /\ po.status \in {"AWARDED", "ACCEPTED"}
  BY <1>1 DEF QuotesInv, CallInv, At
<1>4. awards \in Seq([price : Nat, published : BOOLEAN]) /\ Len(awards) \in Nat
  BY DEF TypeOK
<1>5. /\ r \in Calls /\ r.at = "created" /\ r.price = Lowest /\ r.award = Len(awards) + 1
      /\ a \in [price : Nat, published : BOOLEAN] /\ a.price = Lowest
  BY <1>2, <1>3, <1>4 DEF Calls
<1> HIDE DEF r, a
<1>6. /\ awards' \in Seq([price : Nat, published : BOOLEAN])
      /\ DOMAIN awards' = DOMAIN awards \cup {Len(awards) + 1}
      /\ \A i \in DOMAIN awards : awards'[i] = awards[i]
      /\ awards'[Len(awards) + 1] = a
  BY <1>1, <1>4, <1>5
<1>7. request' \in [Proc -> Calls] /\ request'[p] = r
  BY <1>1, <1>5, GotoOne
<1>8. \A q \in Proc \ {p} : CallInv(q)'
  BY <1>1, <1>5, <1>6, OtherCallsKeep
<1>9. CatalogueItem' = CatalogueItem /\ Lowest' = Lowest /\ \A i : Cheapest(i)' = Cheapest(i)
  BY <1>1 DEF CatalogueItem, Lowest, Cheapest
<1>10. CallInv(p)'
  BY <1>1, <1>3, <1>5, <1>6, <1>7, <1>9 DEF CallInv, At
<1>11. QuotesInv'
  <2>1. \A q \in Proc : CallInv(q)'
    BY <1>8, <1>10
  <2> QED BY <1>1, <1>3, <1>9, <2>1 DEF QuotesInv
<1>12. PriceInv'
  BY <1>1, <1>5, <1>6, <1>9 DEF PriceInv
<1> QED BY <1>5, <1>6, <1>7, <1>11, <1>12

LEMMA PublishAwardStep ==
  ASSUME TypeOK, QuotesInv, PriceInv, NEW p \in Proc, PublishAward(p)
  PROVE  /\ awards' \in Seq([price : Nat, published : BOOLEAN])
         /\ request' \in [Proc -> Calls] /\ request'[p].at = "published"
         /\ QuotesInv' /\ PriceInv'
<1> DEFINE r == [request[p] EXCEPT !.at = "published"]
           n == request[p].award
<1>1. /\ At(p, "created")
      /\ awards' = [awards EXCEPT ![n] = [@ EXCEPT !.published = TRUE]]
      /\ Goto(p, r)
      /\ UNCHANGED <<unit_price, po, quotes, contract>>
  BY DEF PublishAward
<1>2. request[p] \in [at : {"created", "published"}, price : Nat, award : Nat]
  BY <1>1, AtPlace DEF At
<1>3. /\ request[p].price = Lowest /\ quotes # {} /\ po.status # "none"
      /\ po.status \in {"AWARDED", "ACCEPTED"} /\ n \in DOMAIN awards
  BY <1>1 DEF QuotesInv, CallInv, At
<1>4. r \in Calls /\ r.at = "published" /\ r.price = Lowest /\ r.award = n
  BY <1>2, <1>3 DEF Calls
<1> HIDE DEF r, n
<1> DEFINE AwardRow == [price : Nat, published : BOOLEAN]
<1>5. awards \in Seq(AwardRow)
  BY DEF TypeOK
<1>6. /\ awards' \in Seq(AwardRow)
      /\ DOMAIN awards' = DOMAIN awards
      /\ \A i \in DOMAIN awards \ {n} : awards'[i] = awards[i]
      /\ awards'[n].published /\ awards'[n].price = awards[n].price
  <2> DEFINE a == [awards[n] EXCEPT !.published = TRUE]
  <2>1. awards' = [awards EXCEPT ![n] = a]
    BY <1>1
  <2>2. awards[n] \in AwardRow
    <3> HIDE DEF AwardRow
    <3> QED BY <1>3, <1>5
  <2>3. a \in AwardRow /\ a.published /\ a.price = awards[n].price
    BY <2>2
  <2> HIDE DEF a, AwardRow
  <2> QED BY <1>3, <1>5, <2>1, <2>3
<1>7. request' \in [Proc -> Calls] /\ request'[p] = r
  BY <1>1, <1>4, GotoOne
<1>8. \A q \in Proc \ {p} : CallInv(q)'
  BY <1>1, <1>4, <1>6, OtherCallsKeep
<1>9. CatalogueItem' = CatalogueItem /\ Lowest' = Lowest /\ \A i : Cheapest(i)' = Cheapest(i)
  BY <1>1 DEF CatalogueItem, Lowest, Cheapest
<1>10. CallInv(p)'
  BY <1>1, <1>3, <1>4, <1>6, <1>7, <1>9 DEF CallInv, At
<1>11. QuotesInv'
  BY <1>1, <1>8, <1>9, <1>10 DEF QuotesInv
<1>12. \A i \in DOMAIN awards' : awards'[i].price = Lowest
  BY <1>6 DEF PriceInv
<1>13. PriceInv'
  BY <1>1, <1>6, <1>9, <1>12 DEF PriceInv
<1> QED BY <1>4, <1>6, <1>7, <1>11, <1>13

LEMMA SignContractStep ==
  ASSUME TypeOK, QuotesInv, PriceInv, NEW p \in Proc, SignContract(p)
  PROVE  /\ contract' \in Nat
         /\ request' \in [Proc -> Calls] /\ request'[p].at = "signed"
         /\ QuotesInv' /\ PriceInv'
<1> DEFINE r == [at |-> "signed"]
<1>1. /\ At(p, "published")
      /\ contract' = request[p].price
      /\ Goto(p, r)
      /\ UNCHANGED <<unit_price, po, quotes, awards>>
  BY DEF SignContract
<1>2. /\ request[p].price = Lowest /\ quotes # {}
      /\ po.status \in {"AWARDED", "ACCEPTED"}
      /\ request[p].award \in DOMAIN awards /\ awards[request[p].award].published
  BY <1>1 DEF QuotesInv, CallInv, At
<1>3. Lowest \in Nat /\ Lowest # NoPrice
  BY <1>2, BestPrice DEF QuotesInv
<1>4. r \in Calls /\ r.at = "signed"
  BY DEF Calls
<1> HIDE DEF r
<1>5. request' \in [Proc -> Calls] /\ request'[p] = r
  BY <1>1, <1>4, GotoOne
<1>6. \A q \in Proc \ {p} : CallInv(q)'
  BY <1>1, <1>2, <1>3, <1>4, OtherCallsKeep
<1>7. CatalogueItem' = CatalogueItem /\ Lowest' = Lowest /\ \A i : Cheapest(i)' = Cheapest(i)
  BY <1>1 DEF CatalogueItem, Lowest, Cheapest
<1>8. CallInv(p)'
  BY <1>1, <1>2, <1>3, <1>4, <1>5 DEF CallInv, At
<1>9. QuotesInv'
  BY <1>1, <1>6, <1>7, <1>8 DEF QuotesInv
<1>10. PriceInv'
  BY <1>1, <1>2, <1>3, <1>7 DEF PriceInv
<1> QED BY <1>1, <1>2, <1>3, <1>4, <1>5, <1>9, <1>10

LEMMA AcceptStep ==
  ASSUME TypeOK, QuotesInv, PriceInv, NEW p \in Proc, Accept(p)
  PROVE  /\ po' \in [status : {"none", "QUOTING", "AWARDED", "ACCEPTED"}, price : Nat]
         /\ request' \in [Proc -> Calls] /\ request'[p].at = "idle"
         /\ QuotesInv' /\ PriceInv'
<1>1. /\ At(p, "signed")
      /\ po' = [po EXCEPT !.status = "ACCEPTED"]
      /\ Goto(p, Idle)
      /\ UNCHANGED <<unit_price, quotes, awards, contract>>
  BY DEF Accept
<1>2. contract # NoPrice /\ po.status \in {"AWARDED", "ACCEPTED"}
  BY <1>1 DEF QuotesInv, CallInv, At
<1>3. /\ po' \in [status : {"none", "QUOTING", "AWARDED", "ACCEPTED"}, price : Nat]
      /\ po'.status = "ACCEPTED" /\ po'.price = po.price
  BY <1>1 DEF TypeOK
<1>4. Idle \in Calls /\ Idle.at = "idle"
  BY DEF Calls, Idle
<1>5. request' \in [Proc -> Calls] /\ request'[p] = Idle
  BY <1>1, <1>4, GotoOne
<1>6. \A q \in Proc \ {p} : CallInv(q)'
  BY <1>1, <1>3, <1>4, OtherCallsKeep
<1>7. CatalogueItem' = CatalogueItem /\ Lowest' = Lowest /\ \A i : Cheapest(i)' = Cheapest(i)
  BY <1>1 DEF CatalogueItem, Lowest, Cheapest
<1>8. CallInv(p)'
  BY <1>4, <1>5 DEF CallInv, At
<1>9. QuotesInv'
  BY <1>1, <1>2, <1>3, <1>6, <1>7, <1>8 DEF QuotesInv
<1>10. PriceInv'
  BY <1>1, <1>2, <1>3, <1>7 DEF PriceInv
<1> QED BY <1>3, <1>4, <1>5, <1>9, <1>10
\* The steps of the order.
LEMMA CatalogueStep ==
  ASSUME TypeOK, QuotesInv, PriceInv, NEW p \in Proc, CatalogueNext(p), UNCHANGED deliveryVars
  PROVE  /\ TypeOK' /\ QuotesInv' /\ PriceInv'
         /\ request[p].at \notin {"publish", "append"}
         /\ request'[p].at \notin {"publish", "append"}
         /\ \A q \in Proc \ {p} : request'[q] = request[q]
<1> USE DEF deliveryVars
<1>0. ASSUME NEW r, Goto(p, r) PROVE \A q \in Proc \ {p} : request'[q] = request[q]
  BY <1>0 DEF Goto, TypeOK
<1>1. CASE CreatePO(p)
  <2>1. TypeOK'
    BY <1>1, CreatePOStep DEF CreatePO, TypeOK, CatalogueItem
  <2> QED BY <1>0, <1>1, <2>1, CreatePOStep DEF CreatePO, At
<1>2. CASE Invite(p)
  <2>1. TypeOK'
    BY <1>2, InviteStep DEF Invite, TypeOK, CatalogueItem
  <2> QED BY <1>0, <1>2, <2>1, InviteStep DEF Invite, At
<1>3. CASE Invited(p)
  <2>1. Idle \in Calls /\ Idle.at = "idle"
    BY DEF Calls, Idle
  <2>2. QuotesInv' /\ PriceInv'
    BY <1>3, <2>1, OrderAlone DEF Invited
  <2>3. request' \in [Proc -> Calls] /\ request'[p] = Idle
    BY <1>3, <2>1, GotoOne DEF Invited
  <2>4. TypeOK'
    BY <1>3, <2>3 DEF Invited, TypeOK, CatalogueItem, catalogueVars
  <2> QED BY <1>0, <1>3, <2>1, <2>2, <2>3, <2>4 DEF Invited, At
<1>4. CASE PickL1(p)
  <2>1. TypeOK'
    BY <1>4, PickL1Step DEF PickL1, TypeOK, CatalogueItem, catalogueVars
  <2> QED BY <1>0, <1>4, <2>1, PickL1Step DEF PickL1, At
<1>5. CASE SaveAwarded(p)
  <2>1. TypeOK'
    BY <1>5, SaveAwardedStep DEF SaveAwarded, TypeOK, CatalogueItem
  <2> QED BY <1>0, <1>5, <2>1, SaveAwardedStep DEF SaveAwarded, At
<1>6. CASE CreateAward(p)
  <2>1. TypeOK'
    BY <1>6, CreateAwardStep DEF CreateAward, TypeOK, CatalogueItem
  <2> QED BY <1>0, <1>6, <2>1, CreateAwardStep DEF CreateAward, At
<1>7. CASE PublishAward(p)
  <2>1. TypeOK'
    BY <1>7, PublishAwardStep DEF PublishAward, TypeOK, CatalogueItem
  <2> QED BY <1>0, <1>7, <2>1, PublishAwardStep DEF PublishAward, At
<1>8. CASE SignContract(p)
  <2>1. TypeOK'
    BY <1>8, SignContractStep DEF SignContract, TypeOK, CatalogueItem
  <2> QED BY <1>0, <1>8, <2>1, SignContractStep DEF SignContract, At
<1>9. CASE Accept(p)
  <2>1. TypeOK'
    BY <1>9, AcceptStep DEF Accept, TypeOK, CatalogueItem
  <2> QED BY <1>0, <1>9, <2>1, AcceptStep DEF Accept, At
<1> QED BY <1>1, <1>2, <1>3, <1>4, <1>5, <1>6, <1>7, <1>8, <1>9 DEF CatalogueNext

-----------------------------------------------------------------------------
\* A request that has nothing to write goes somewhere else without having anything to write,
\* or stops half-way.
LEMMA RecordStays ==
  ASSUME RecordInv, Recorded, NEW p \in Proc, UNCHANGED deliveryVars,
         \A q \in Proc \ {p} : request'[q] = request[q],
         request'[p].at \notin {"publish", "append"},
         ~interrupted' => ~interrupted /\ request[p].at \notin {"publish", "append"}
  PROVE  RecordInv' /\ Recorded'
<1> USE DEF deliveryVars
<1>1. RecordInv'
  BY DEF RecordInv, At
<1>2. ASSUME ~interrupted', NEW m \in Milestone PROVE VerdictRecorded(m)'
  <2>1. VerdictRecorded(m)
    BY <1>2 DEF Recorded
  <2> QED BY <1>2, <2>1 DEF VerdictRecorded, At
<1>3. ASSUME ~interrupted', NEW r \in Row PROVE RowRecorded(r)'
  <2>1. RowRecorded(r)
    BY <1>3 DEF Recorded
  <2> QED BY <1>3, <2>1 DEF RowRecorded
<1>4. \A e \in ledger : Reported(e)'
  BY DEF Recorded, Reported
<1> QED BY <1>1, <1>2, <1>3, <1>4 DEF Recorded

LEMMA OnRecord == Recorded => DeliveryOnRecord
<1> SUFFICES ASSUME Recorded PROVE DeliveryOnRecord
  OBVIOUS
<1>1. DOMAIN contract_milestones = {m \in Milestone : row[m] # "none"}
      /\ \A m \in DOMAIN contract_milestones : contract_milestones[m] = row[m]
  OBVIOUS
<1>2. contract_workspace.events = events
      /\ contract_workspace.guarantees = {g \in Guarantee : row[g] # "none"}
  OBVIOUS
<1>3. ASSUME ~interrupted, NEW m \in DOMAIN contract_milestones, contract_milestones[m] \in Verdict
      PROVE  \/ <<m, contract_milestones[m]>> \in contract_workspace.events
             \/ Coming(m, contract_milestones[m], {"publish"})
  <2>1. VerdictRecorded(m) /\ contract_milestones[m] = row[m]
    BY <1>1, <1>3 DEF Recorded
  <2> QED BY <1>2, <1>3, <2>1 DEF VerdictRecorded, Coming, At
<1>4. ASSUME ~interrupted, NEW r \in Row, row[r] # "none"
      PROVE  <<r, row[r]>> \in ledger \/ Coming(r, row[r], {"publish", "append"})
  <2>1. RowRecorded(r)
    BY <1>4 DEF Recorded
  <2> QED BY <1>4, <2>1 DEF RowRecorded, Coming
<1>5. ASSUME NEW e \in ledger
      PROVE  /\ e[2] \in Verdict => e \in contract_workspace.events
             /\ e[1] \in DOMAIN contract_milestones \cup contract_workspace.guarantees \cup debrief_list
  <2>1. Reported(e)
    BY DEF Recorded
  <2> QED BY <1>1, <1>2, <2>1 DEF Reported, Row
<1> QED BY <1>3, <1>4, <1>5 DEF DeliveryOnRecord

\* A handler saves a row that is not blank; then its verdict or its event is to come.
LEMMA SavedStep ==
  ASSUME TypeOK, QuotesInv, PriceInv, RecordInv, Recorded,
         NEW p \in Proc, NEW x \in Row, NEW status \in Statuses \ {"none"},
         NEW next \in {"publish", "append"}, Saved(p, x, status, next),
         request[p].at \notin {"publish", "append"},
         next = "publish" => x \in Milestone /\ status \in Verdict,
         next = "append" => status \notin Verdict
  PROVE  TypeOK' /\ QuotesInv' /\ PriceInv' /\ RecordInv' /\ Recorded'
<1> DEFINE r == [at |-> next, row |-> x, status |-> status]
<1>1. /\ row' = [row EXCEPT ![x] = status]
      /\ Goto(p, r)
      /\ UNCHANGED <<catalogueVars, events, ledger, interrupted>>
  BY DEF Saved
<1>2. r \in Calls /\ r.at = next /\ r.row = x /\ r.status = status
  BY DEF Calls
<1> HIDE DEF r
<1>3. request' \in [Proc -> Calls] /\ request'[p] = r /\ \A q \in Proc \ {p} : request'[q] = request[q]
  BY <1>1, <1>2, GotoOne
<1>4. /\ row' \in [Row -> Statuses] /\ row'[x] = status /\ status # "none"
      /\ \A y \in Row \ {x} : row'[y] = row[y]
  BY <1>1 DEF TypeOK
<1>5. TypeOK'
  BY <1>1, <1>3, <1>4 DEF TypeOK, CatalogueItem, catalogueVars
<1>6. QuotesInv' /\ PriceInv'
  BY <1>1, <1>2, OrderAlone
<1>7. RecordInv'
  <2>1. \A q \in Proc \ {p} : request[q].at \in {"publish", "append"} => request[q].row \in Row
    BY AtPlace
  <2> QED BY <1>1, <1>2, <1>3, <1>4, <2>1 DEF RecordInv, At
<1>8. ASSUME ~interrupted, NEW m \in Milestone PROVE VerdictRecorded(m)'
  <2>1. CASE m = x
    BY <1>2, <1>3, <1>4, <2>1 DEF VerdictRecorded, At
  <2>2. CASE m # x
    <3>1. VerdictRecorded(m)
      BY <1>8 DEF Recorded
    <3>2. row'[m] = row[m]
      BY <1>4, <2>2 DEF Row
    <3> QED BY <1>1, <1>3, <3>1, <3>2 DEF VerdictRecorded, At
  <2> QED BY <2>1, <2>2
<1>9. ASSUME ~interrupted, NEW y \in Row PROVE RowRecorded(y)'
  <2>1. CASE y = x
    BY <1>2, <1>3, <1>4, <2>1 DEF RowRecorded
  <2>2. CASE y # x
    <3>1. RowRecorded(y) /\ row'[y] = row[y]
      BY <1>4, <1>9, <2>2 DEF Recorded
    <3> QED BY <1>1, <1>3, <3>1 DEF RowRecorded
  <2> QED BY <2>1, <2>2
<1>10. \A e \in ledger : Reported(e)'
  BY <1>1, <1>4 DEF Recorded, Reported
<1>11. Recorded'
  BY <1>1, <1>8, <1>9, <1>10 DEF Recorded
<1> QED BY <1>5, <1>6, <1>7, <1>11

LEMMA PublishInspectionStep ==
  ASSUME TypeOK, QuotesInv, PriceInv, RecordInv, Recorded, NEW p \in Proc, PublishInspection(p)
  PROVE  TypeOK' /\ QuotesInv' /\ PriceInv' /\ RecordInv' /\ Recorded'
<1> DEFINE r == [request[p] EXCEPT !.at = "append"]
<1>1. /\ At(p, "publish")
      /\ events' = events \cup {<<request[p].row, request[p].status>>}
      /\ Goto(p, r)
      /\ UNCHANGED <<catalogueVars, row, ledger, interrupted>>
  BY DEF PublishInspection, inspection
<1>2. request[p] \in [at : {"publish", "append"}, row : Row, status : Statuses]
  BY <1>1, AtPlace DEF At
<1>3. r \in Calls /\ r.at = "append" /\ r.row = request[p].row /\ r.status = request[p].status
  BY <1>2 DEF Calls
<1> HIDE DEF r
<1>4. request' \in [Proc -> Calls] /\ request'[p] = r /\ \A q \in Proc \ {p} : request'[q] = request[q]
  BY <1>1, <1>3, GotoOne
<1>5. TypeOK'
  BY <1>1, <1>4 DEF TypeOK, CatalogueItem, catalogueVars
<1>6. QuotesInv' /\ PriceInv'
  BY <1>1, <1>3, OrderAlone
<1>7. RecordInv'
  BY <1>1, <1>3, <1>4 DEF RecordInv, At
<1>8. ASSUME ~interrupted, NEW m \in Milestone PROVE VerdictRecorded(m)'
  <2>1. VerdictRecorded(m)
    BY <1>8 DEF Recorded
  <2> QED BY <1>1, <1>4, <2>1 DEF VerdictRecorded, At
<1>9. ASSUME ~interrupted, NEW y \in Row PROVE RowRecorded(y)'
  <2>1. RowRecorded(y)
    BY <1>9 DEF Recorded
  <2> QED BY <1>1, <1>3, <1>4, <2>1 DEF RowRecorded
<1>10. \A e \in ledger : Reported(e)'
  BY <1>1 DEF Recorded, Reported
<1>11. Recorded'
  BY <1>1, <1>8, <1>9, <1>10 DEF Recorded
<1> QED BY <1>5, <1>6, <1>7, <1>11

LEMMA AppendStep ==
  ASSUME TypeOK, QuotesInv, PriceInv, RecordInv, Recorded, NEW p \in Proc, Append_(p)
  PROVE  TypeOK' /\ QuotesInv' /\ PriceInv' /\ RecordInv' /\ Recorded'
<1> DEFINE e == <<request[p].row, request[p].status>>
<1>1. /\ At(p, "append")
      /\ ledger' = ledger \cup {e}
      /\ Goto(p, Idle)
      /\ UNCHANGED <<catalogueVars, row, events, interrupted>>
  BY DEF Append_
<1>2. request[p] \in [at : {"publish", "append"}, row : Row, status : Statuses]
  BY <1>1, AtPlace DEF At
<1>3. Idle \in Calls /\ Idle.at = "idle"
  BY DEF Calls, Idle
<1>4. request' \in [Proc -> Calls] /\ request'[p] = Idle /\ \A q \in Proc \ {p} : request'[q] = request[q]
  BY <1>1, <1>3, GotoOne
<1>5. TypeOK'
  BY <1>1, <1>4 DEF TypeOK, CatalogueItem, catalogueVars
<1>6. QuotesInv' /\ PriceInv'
  BY <1>1, <1>3, OrderAlone
<1>7. RecordInv'
  BY <1>1, <1>3, <1>4 DEF RecordInv, At
<1>8. ASSUME ~interrupted, NEW m \in Milestone PROVE VerdictRecorded(m)'
  <2>1. VerdictRecorded(m)
    BY <1>8 DEF Recorded
  <2> QED BY <1>1, <1>4, <2>1 DEF VerdictRecorded, At
<1>9. ASSUME ~interrupted, NEW y \in Row PROVE RowRecorded(y)'
  <2>1. RowRecorded(y)
    BY <1>9 DEF Recorded
  <2> QED BY <1>1, <1>4, <2>1 DEF RowRecorded
<1>10. Reported(e)
  <2>1. e[1] = request[p].row /\ e[2] = request[p].status
    OBVIOUS
  <2>2. /\ request[p].status \in Verdict => e \in events
        /\ row[request[p].row] # "none" /\ request[p].row \in Row
    BY <1>1, <1>2 DEF RecordInv, At
  <2> HIDE DEF e
  <2> QED BY <2>1, <2>2 DEF Reported
<1> HIDE DEF e
<1>11. \A f \in ledger' : Reported(f)'
  BY <1>1, <1>10 DEF Recorded, Reported
<1>12. Recorded'
  BY <1>1, <1>8, <1>9, <1>11 DEF Recorded
<1> QED BY <1>5, <1>6, <1>7, <1>12
LEMMA RequestDebriefStep ==
  ASSUME TypeOK, QuotesInv, PriceInv, RecordInv, Recorded,
         NEW p \in Proc, NEW d \in Debrief, request_debrief(p, d)
  PROVE  TypeOK' /\ QuotesInv' /\ PriceInv' /\ RecordInv' /\ Recorded'
<1> DEFINE r == [at |-> "checked", row |-> d]
<1>1. /\ At(p, "idle")
      /\ Goto(p, r)
      /\ UNCHANGED <<catalogueVars, deliveryVars, interrupted>>
  BY DEF request_debrief
<1>2. r \in Calls /\ r.at = "checked"
  BY DEF Calls
<1> HIDE DEF r
<1>3. request' \in [Proc -> Calls] /\ request'[p] = r /\ \A q \in Proc \ {p} : request'[q] = request[q]
  BY <1>1, <1>2, GotoOne
<1>4. TypeOK'
  BY <1>1, <1>3 DEF TypeOK, CatalogueItem, catalogueVars, deliveryVars
<1>5. QuotesInv' /\ PriceInv'
  BY <1>1, <1>2, OrderAlone
<1>6. RecordInv' /\ Recorded'
  BY <1>1, <1>2, <1>3, RecordStays DEF At
<1> QED BY <1>4, <1>5, <1>6

LEMMA HandlersStep ==
  ASSUME TypeOK, QuotesInv, PriceInv, RecordInv, Recorded, NEW p \in Proc, Handlers(p)
  PROVE  TypeOK' /\ QuotesInv' /\ PriceInv' /\ RecordInv' /\ Recorded'
<1> DEFINE Goal == TypeOK' /\ QuotesInv' /\ PriceInv' /\ RecordInv' /\ Recorded'
<1>0. Milestone \subseteq Row /\ Guarantee \subseteq Row /\ Debrief \subseteq Row
  BY DEF Row
<1> USE DEF Statuses, Verdict
<1>1. ASSUME NEW m \in Milestone, create_milestone(p, m) PROVE Goal
  BY <1>0, <1>1, SavedStep DEF create_milestone, At
<1>2. ASSUME NEW m \in Milestone, NEW verdict \in Verdict, complete_milestone(p, m, verdict) PROVE Goal
  BY <1>0, <1>2, SavedStep DEF complete_milestone, At
<1>3. ASSUME NEW g \in Guarantee, add_guarantee(p, g) PROVE Goal
  BY <1>0, <1>3, SavedStep DEF add_guarantee, At
<1>4. ASSUME NEW g \in Guarantee, release_guarantee(p, g) PROVE Goal
  BY <1>0, <1>4, SavedStep DEF release_guarantee, At
<1>5. ASSUME NEW d \in Debrief, request_debrief(p, d) PROVE Goal
  BY <1>5, RequestDebriefStep
<1>6. CASE CreateDebrief(p)
  <2>1. request[p].row \in Row
    BY <1>0, <1>6, AtPlace DEF CreateDebrief
  <2> QED BY <1>6, <2>1, SavedStep DEF CreateDebrief, At
<1>7. ASSUME NEW d \in Debrief, respond_debrief(p, d) PROVE Goal
  BY <1>0, <1>7, SavedStep DEF respond_debrief, At
<1>8. CASE PublishInspection(p)
  BY <1>8, PublishInspectionStep
<1>9. CASE Append_(p)
  BY <1>9, AppendStep
<1> QED BY <1>1, <1>2, <1>3, <1>4, <1>5, <1>6, <1>7, <1>8, <1>9
        DEF Handlers, Milestones, Guarantees, Debriefs

LEMMA StopStep ==
  ASSUME TypeOK, QuotesInv, PriceInv, RecordInv, Recorded, NEW p \in Proc, Stop(p)
  PROVE  TypeOK' /\ QuotesInv' /\ PriceInv' /\ RecordInv' /\ Recorded'
<1>1. Goto(p, Idle) /\ UNCHANGED <<catalogueVars, deliveryVars>>
  BY DEF Stop, Interrupt
<1>2. Idle \in Calls /\ Idle.at = "idle"
  BY DEF Calls, Idle
<1>3. request' \in [Proc -> Calls] /\ request'[p] = Idle /\ \A q \in Proc \ {p} : request'[q] = request[q]
  BY <1>1, <1>2, GotoOne
<1>4. TypeOK'
  BY <1>1, <1>3 DEF TypeOK, CatalogueItem, catalogueVars, deliveryVars
<1>5. QuotesInv' /\ PriceInv'
  BY <1>1, <1>2, OrderAlone
<1>6. ~interrupted' => ~interrupted /\ request[p].at \notin {"publish", "append"}
  BY DEF Stop, At
<1>7. RecordInv' /\ Recorded'
  BY <1>1, <1>2, <1>3, <1>6, RecordStays
<1> QED BY <1>4, <1>5, <1>7

Inv == TypeOK /\ QuotesInv /\ PriceInv /\ RecordInv /\ Recorded

LEMMA Inductive == Inv /\ [Next]_vars => Inv'
<1> SUFFICES ASSUME Inv, [Next]_vars PROVE Inv'
  OBVIOUS
<1> USE DEF Inv
<1>1. ASSUME NEW p \in Proc, CatalogueNext(p), UNCHANGED <<deliveryVars, interrupted>> PROVE Inv'
  <2>1. /\ TypeOK' /\ QuotesInv' /\ PriceInv'
        /\ request[p].at \notin {"publish", "append"}
        /\ request'[p].at \notin {"publish", "append"}
        /\ \A q \in Proc \ {p} : request'[q] = request[q]
    BY <1>1, CatalogueStep
  <2>2. RecordInv' /\ Recorded'
    BY <1>1, <2>1, RecordStays
  <2> QED BY <2>1, <2>2
<1>2. ASSUME NEW p \in Proc, Handlers(p) PROVE Inv'
  BY <1>2, HandlersStep
<1>3. ASSUME NEW p \in Proc, Stop(p) PROVE Inv'
  BY <1>3, StopStep
<1>4. CASE UNCHANGED vars
  <2> USE <1>4 DEF vars, catalogueVars, deliveryVars
  <2>1. TypeOK'
    BY DEF TypeOK, CatalogueItem
  <2>2. QuotesInv'
    BY DEF QuotesInv, CallInv, At, Cheapest, CatalogueItem, Lowest
  <2>3. PriceInv'
    BY DEF PriceInv, Lowest, CatalogueItem
  <2>4. RecordInv' /\ Recorded'
    BY DEF RecordInv, Recorded, VerdictRecorded, RowRecorded, Reported, At
  <2> QED BY <2>1, <2>2, <2>3, <2>4
<1> QED BY <1>1, <1>2, <1>3, <1>4 DEF Next

\* For any catalogue and any number of staff, whoever interrupts or repeats award_po while
\* create_po adds quotes: every award, order and contract is at a price that the catalogue
\* shows as the best of some SKU, and below which it shows no SKU of the category.
THEOREM LowestPriceWins == Spec => []L1Wins
<1>1. Init => Inv
  BY InitInv DEF Inv
<1>2. Inv => L1Wins
  BY PricesShown DEF Inv
<1> QED BY <1>1, <1>2, Inductive, PTL DEF Spec

\* For any rows and any number of staff: what the pages show of milestones, guarantees and
\* debriefs is on record, or about to be, unless a handler stopped half-way; the ledger
\* reports nothing the pages and events lack.
THEOREM PagesOnRecord == Spec => []DeliveryOnRecord
<1>1. Init => Inv
  BY InitInv DEF Inv
<1>2. Inv => DeliveryOnRecord
  BY OnRecord DEF Inv
<1> QED BY <1>1, <1>2, Inductive, PTL DEF Spec
=============================================================================
