--------------------------- MODULE Contract_proofs ---------------------------
(***************************************************************************)
(* Contract for any number of requests, certificates and variations.       *)
(*                                                                         *)
(* A stale request writes a status whose certificates it saw, or made, some*)
(* time ago.  Certificates and payments are never taken back, so it is     *)
(* enough to say of every request what it has seen: RequestBacked.         *)
(***************************************************************************)
EXTENDS Contract, TLAPS

\* What the pages show is read off the state.
USE DEF contract_detail, contract_variations, payments_dashboard, awaiting,
        supplier_ratings

Delivered == {"ACCEPTED", "PAID", "CLOSED"}

\* A request has seen, or made, the certificates its next write stands for.
RequestBacked(p) ==
  /\ Loaded(p, Delivered) \/ At(p, "accepting") \/ At(p, "closing") => acceptance # {}
  /\ Loaded(p, {"PAID"}) \/ At(p, "paying") => payment # {}

DeliveryInv ==
  /\ StatusBacked
  /\ RatedAfterAcceptance
  /\ \A p \in Proc : RequestBacked(p)

\* Only an approved variation is being published.
GrowthInv ==
  /\ GrowthPublished
  /\ \A p \in Proc, v \in Variation : Publishing(p, v) => variation[v] = "APPROVED"

-----------------------------------------------------------------------------
\* The steps of one request, by name.
Handler(p) ==
  \/ Load(p) \/ Refuse(p) \/ Interrupt(p)
  \/ SaveAccepted(p) \/ SavePaid(p)
  \/ \E ref \in Ref : CreateAcceptance(p, ref) \/ CreatePayment(p, ref)
  \/ Close(p) \/ AutoRate(p) \/ Rate(p)
  \/ FindEvent(p) \/ CreateEvent(p)
  \/ \E v \in Variation : ApproveVariation(p, v)

LEMMA NextSteps == Next <=> (\E p \in Proc : Handler(p)) \/ \E v \in Variation : Propose(v)
  BY Zenon DEF Next, Handler

\* What a request with a variation at hand works on.
LEMMA VariationAtHand ==
  ASSUME TypeOK, NEW p \in Proc, request[p].at \in {"publishing", "creating"}
  PROVE  /\ request[p].variation \in Variation
         /\ request[p] = [at |-> request[p].at, variation |-> request[p].variation]
         /\ AmountOf(p) \in Amount
<1>1. request[p] \in Requests
  BY DEF TypeOK
<1>2. request[p] \in [at : {"publishing", "creating"}, variation : Variation]
  BY <1>1 DEF Requests, Idle
<1> QED BY <1>2 DEF AmountOf, Amount

LEMMA InitType == Init => TypeOK
<1> SUFFICES ASSUME Init PROVE TypeOK
  OBVIOUS
<1>1. Idle \in Requests
  BY DEF Requests
<1>2. request \in [Proc -> Requests]
  BY <1>1 DEF Init
<1>3. event \in [Amount -> Nat]
  BY DEF Init
<1> QED BY <1>2, <1>3 DEF Init, TypeOK, Status

LEMMA TypeStep == TypeOK /\ [Next]_vars => TypeOK'
<1> SUFFICES ASSUME TypeOK, [Next]_vars PROVE TypeOK'
  OBVIOUS
<1>1. ASSUME NEW p \in Proc, Handler(p) PROVE TypeOK'
  <2> USE DEF TypeOK, Goto, Done
  <2>1. CASE Load(p)
    BY <2>1 DEF Load, Requests
  <2>2. CASE Refuse(p)
    BY <2>2 DEF Refuse, Requests
  <2>3. CASE Interrupt(p)
    BY <2>3 DEF Interrupt, Requests
  <2>4. CASE SaveAccepted(p)
    BY <2>4 DEF SaveAccepted, Requests, Status
  <2>5. CASE SavePaid(p)
    BY <2>5 DEF SavePaid, Requests, Status
  <2>6. ASSUME NEW ref \in Ref, CreateAcceptance(p, ref) PROVE TypeOK'
    BY <2>6 DEF CreateAcceptance, Requests
  <2>7. ASSUME NEW ref \in Ref, CreatePayment(p, ref) PROVE TypeOK'
    BY <2>7 DEF CreatePayment, Certificates, Requests
  <2>8. CASE Close(p)
    BY <2>8 DEF Close, Requests, Status
  <2>9. CASE AutoRate(p)
    BY <2>9 DEF AutoRate, Requests
  <2>10. CASE Rate(p)
    BY <2>10 DEF Rate, Requests
  <2>11. CASE FindEvent(p)
    <3>1. request[p].at \in {"publishing", "creating"}
      BY <2>11 DEF FindEvent, At
    <3>2. [request[p] EXCEPT !.at = "creating"] \in Requests
      BY <3>1, VariationAtHand DEF Requests
    <3> QED BY <2>11, <3>2 DEF FindEvent, Requests
  <2>12. CASE CreateEvent(p)
    <3>1. AmountOf(p) \in Amount
      BY <2>12, VariationAtHand DEF CreateEvent, At
    <3> QED BY <2>12, <3>1 DEF CreateEvent, Created, Requests
  <2>13. ASSUME NEW v \in Variation, ApproveVariation(p, v) PROVE TypeOK'
    BY <2>13 DEF ApproveVariation, Requests
  <2> QED BY <1>1, <2>1, <2>2, <2>3, <2>4, <2>5, <2>6, <2>7, <2>8, <2>9, <2>10, <2>11, <2>12, <2>13
          DEF Handler
<1>2. ASSUME NEW v \in Variation, Propose(v) PROVE TypeOK'
  BY <1>2 DEF TypeOK, Propose
<1>3. CASE UNCHANGED vars
  BY <1>3 DEF TypeOK, vars
<1> QED BY <1>1, <1>2, <1>3, NextSteps

\* The contract keeps its shape; a payment always has a certificate of its own.
THEOREM ContractType == Spec => []TypeOK
  BY InitType, TypeStep, PTL DEF Spec

-----------------------------------------------------------------------------
LEMMA InitDelivery == Init => DeliveryInv
  BY DEF Init, DeliveryInv, StatusBacked, RatedAfterAcceptance, RequestBacked, Loaded, At, Idle

\* A step that takes no certificate back, and gives request p nothing it has no
\* certificates for.
LEMMA KeepsBacking ==
  ASSUME TypeOK, DeliveryInv, NEW p \in Proc, NEW r, request' = [request EXCEPT ![p] = r],
         acceptance \subseteq acceptance', payment \subseteq payment',
         (r.at = "loaded" /\ r.status \in Delivered) \/ r.at \in {"accepting", "closing"}
           => acceptance' # {},
         (r.at = "loaded" /\ r.status = "PAID") \/ r.at = "paying" => payment' # {}
  PROVE  \A q \in Proc : RequestBacked(q)'
<1> SUFFICES ASSUME NEW q \in Proc PROVE RequestBacked(q)'
  OBVIOUS
<1>1. CASE q = p
  <2>1. request'[q] = r
    BY <1>1 DEF TypeOK
  <2> QED BY <2>1 DEF RequestBacked, Loaded, At
<1>2. CASE q # p
  <2>1. request'[q] = request[q]
    BY <1>2 DEF TypeOK
  <2>2. RequestBacked(q)
    BY DEF DeliveryInv
  <2> QED BY <2>1, <2>2 DEF RequestBacked, Loaded, At
<1> QED BY <1>1, <1>2

LEMMA DeliveryStep == TypeOK /\ DeliveryInv /\ [Next]_vars => DeliveryInv'
<1> SUFFICES ASSUME TypeOK, DeliveryInv, [Next]_vars PROVE DeliveryInv'
  OBVIOUS
<1>0. StatusBacked /\ RatedAfterAcceptance /\ \A q \in Proc : RequestBacked(q)
  BY DEF DeliveryInv
<1>1. ASSUME NEW p \in Proc, Handler(p) PROVE DeliveryInv'
  <2>0. RequestBacked(p)
    BY <1>0
  <2> USE DEF Done, Goto, Idle
  <2>1. CASE Load(p)
    <3>1. \A q \in Proc : RequestBacked(q)'
      BY <1>0, <2>1, KeepsBacking DEF Load, StatusBacked, Delivered
    <3> QED BY <1>0, <2>1, <3>1 DEF Load, DeliveryInv, StatusBacked, RatedAfterAcceptance
  <2>2. CASE Refuse(p) \/ Interrupt(p) \/ FindEvent(p) \/ CreateEvent(p)
    <3>1. UNCHANGED <<status, acceptance, payment, rated>>
      BY <2>2 DEF Refuse, Interrupt, FindEvent, CreateEvent
    <3>2. CASE request' = [request EXCEPT ![p] = Idle]
      <4>1. \A q \in Proc : RequestBacked(q)'
        BY <3>1, <3>2, KeepsBacking
      <4> QED BY <1>0, <3>1, <4>1 DEF DeliveryInv, StatusBacked, RatedAfterAcceptance
    <3>3. CASE FindEvent(p) /\ request' # [request EXCEPT ![p] = Idle]
      <4> DEFINE r == [at |-> "creating", variation |-> request[p].variation]
      <4>1. [request[p] EXCEPT !.at = "creating"] = r
        <5>1. request[p] = [at |-> "publishing", variation |-> request[p].variation]
          BY <3>3, VariationAtHand DEF FindEvent, At
        <5> QED BY <5>1
      <4>2. request' = [request EXCEPT ![p] = r]
        BY <3>3, <4>1 DEF FindEvent
      <4>3. \A q \in Proc : RequestBacked(q)'
        BY <3>1, <4>2, KeepsBacking
      <4> QED BY <1>0, <3>1, <4>3 DEF DeliveryInv, StatusBacked, RatedAfterAcceptance
    <3> QED BY <2>2, <3>2, <3>3 DEF Refuse, Interrupt, CreateEvent
  <2>3. CASE SaveAccepted(p)
    <3>1. \A q \in Proc : RequestBacked(q)'
      BY <2>3, KeepsBacking DEF SaveAccepted
    <3> QED BY <1>0, <2>0, <2>3, <3>1
            DEF SaveAccepted, RequestBacked, DeliveryInv, StatusBacked, RatedAfterAcceptance
  <2>4. CASE SavePaid(p)
    <3>1. \A q \in Proc : RequestBacked(q)'
      BY <2>4, KeepsBacking DEF SavePaid
    <3>2. payment # {} /\ acceptance # {}
      BY <2>0, <2>4 DEF SavePaid, RequestBacked, TypeOK
    <3> QED BY <1>0, <2>4, <3>1, <3>2
            DEF SavePaid, DeliveryInv, StatusBacked, RatedAfterAcceptance
  <2>5. ASSUME NEW ref \in Ref, CreateAcceptance(p, ref) PROVE DeliveryInv'
    <3>1. \A q \in Proc : RequestBacked(q)'
      BY <2>5, KeepsBacking DEF CreateAcceptance
    <3> QED BY <1>0, <2>5, <3>1
            DEF CreateAcceptance, DeliveryInv, StatusBacked, RatedAfterAcceptance
  <2>6. ASSUME NEW ref \in Ref, CreatePayment(p, ref) PROVE DeliveryInv'
    <3>1. \A q \in Proc : RequestBacked(q)'
      BY <2>6, KeepsBacking DEF CreatePayment
    <3> QED BY <1>0, <2>6, <3>1
            DEF CreatePayment, DeliveryInv, StatusBacked, RatedAfterAcceptance
  <2>7. CASE Close(p)
    <3>1. acceptance # {}
      BY <2>0, <2>7 DEF Close, Closable, Loaded, RequestBacked, Delivered
    <3>2. \A q \in Proc : RequestBacked(q)'
      BY <2>7, <3>1, KeepsBacking DEF Close
    <3> QED BY <1>0, <2>7, <3>1, <3>2
            DEF Close, DeliveryInv, StatusBacked, RatedAfterAcceptance
  <2>8. CASE AutoRate(p) \/ Rate(p)
    <3>1. acceptance # {}
      BY <2>0, <2>8 DEF AutoRate, Rate, Ratable, Loaded, RequestBacked, Delivered
    <3>2. \A q \in Proc : RequestBacked(q)'
      BY <2>8, KeepsBacking DEF AutoRate, Rate
    <3> QED BY <1>0, <2>8, <3>1, <3>2
            DEF AutoRate, Rate, DeliveryInv, StatusBacked, RatedAfterAcceptance
  <2>9. ASSUME NEW v \in Variation, ApproveVariation(p, v) PROVE DeliveryInv'
    <3>1. \A q \in Proc : RequestBacked(q)'
      BY <2>9, KeepsBacking DEF ApproveVariation
    <3> QED BY <1>0, <2>9, <3>1
            DEF ApproveVariation, DeliveryInv, StatusBacked, RatedAfterAcceptance
  <2> QED BY <1>1, <2>1, <2>2, <2>3, <2>4, <2>5, <2>6, <2>7, <2>8, <2>9 DEF Handler
<1>2. CASE (\E v \in Variation : Propose(v)) \/ UNCHANGED vars
  <2>1. UNCHANGED <<status, acceptance, payment, rated, request>>
    BY <1>2 DEF Propose, vars
  <2> QED BY <1>0, <2>1
          DEF DeliveryInv, StatusBacked, RatedAfterAcceptance, RequestBacked, Loaded, At
<1> QED BY <1>1, <1>2, NextSteps

LEMMA DeliveryInvariant == Spec => []DeliveryInv
  BY InitType, TypeStep, InitDelivery, DeliveryStep, PTL DEF Spec

\* No interleaving of stale requests and no interruption puts the contract's
\* status ahead of its acceptance and payment certificates.
THEOREM CertificatesBackStatus == Spec => []StatusBacked
<1>1. DeliveryInv => StatusBacked
  BY DEF DeliveryInv
<1> QED BY <1>1, DeliveryInvariant, PTL

\* Nor does it publish a rating of works nobody has accepted.
THEOREM NoRatingBeforeAcceptance == Spec => []RatedAfterAcceptance
<1>1. DeliveryInv => RatedAfterAcceptance
  BY DEF DeliveryInv
<1> QED BY <1>1, DeliveryInvariant, PTL

-----------------------------------------------------------------------------
LEMMA InitGrowth == Init => GrowthInv
  BY DEF Init, GrowthInv, GrowthPublished, Publishing, Idle, Amount

\* What another request is publishing, it goes on publishing.
LEMMA OthersPublish ==
  ASSUME TypeOK, NEW p \in Proc, NEW r, request' = [request EXCEPT ![p] = r],
         NEW q \in Proc, q # p, NEW v \in Variation
  PROVE  Publishing(q, v)' <=> Publishing(q, v)
  BY DEF TypeOK, Publishing

LEMMA GrowthStep == TypeOK /\ GrowthInv /\ [Next]_vars => GrowthInv'
<1> SUFFICES ASSUME TypeOK, GrowthInv, [Next]_vars PROVE GrowthInv'
  OBVIOUS
<1> USE AmountAssumption DEF Amount
<1>0. /\ \A a \in Amount : event[a] > 0 =>
           \E v \in Variation : variation[v] = "APPROVED" /\ amount_change[v] = a
      /\ \A v \in Variation : variation[v] = "APPROVED" =>
           event[amount_change[v]] > 0 \/ cut \/ \E p \in Proc : Publishing(p, v)
      /\ \A p \in Proc, v \in Variation : Publishing(p, v) => variation[v] = "APPROVED"
  BY DEF GrowthInv, GrowthPublished
<1>1. ASSUME NEW p \in Proc, Handler(p) PROVE GrowthInv'
  \* Handlers that have nothing to do with variations.
  <2>1. ASSUME UNCHANGED <<variation, event, cut>>, NEW r,
               request' = [request EXCEPT ![p] = r], r.at \notin {"publishing", "creating"},
               request[p].at \notin {"publishing", "creating"}
        PROVE  GrowthInv'
    <3>1. ASSUME NEW q \in Proc, NEW v \in Variation PROVE Publishing(q, v)' <=> Publishing(q, v)
      BY <2>1, OthersPublish DEF TypeOK, Publishing
    <3> QED BY <1>0, <2>1, <3>1 DEF GrowthInv, GrowthPublished
  <2>2. CASE \/ Load(p) \/ Refuse(p) \/ SaveAccepted(p) \/ SavePaid(p)
             \/ (\E ref \in Ref : CreateAcceptance(p, ref) \/ CreatePayment(p, ref))
             \/ Close(p) \/ AutoRate(p) \/ Rate(p)
    <3>1. CASE Load(p)
      BY <2>1, <3>1 DEF Load, At
    <3>2. CASE Refuse(p) \/ SaveAccepted(p) \/ SavePaid(p) \/ AutoRate(p)
      BY <2>1, <3>2 DEF Refuse, SaveAccepted, SavePaid, AutoRate, At, Done, Idle
    <3>3. CASE Rate(p)
      BY <2>1, <3>3 DEF Rate, Loaded, At, Done, Idle
    <3>4. ASSUME NEW ref \in Ref, CreateAcceptance(p, ref) PROVE GrowthInv'
      BY <2>1, <3>4 DEF CreateAcceptance, Loaded, At, Goto
    <3>5. ASSUME NEW ref \in Ref, CreatePayment(p, ref) PROVE GrowthInv'
      BY <2>1, <3>5 DEF CreatePayment, Loaded, At, Goto
    <3>6. CASE Close(p)
      BY <2>1, <3>6 DEF Close, Loaded, At, Goto
    <3> QED BY <2>2, <3>1, <3>2, <3>3, <3>4, <3>5, <3>6
  <2>3. CASE Interrupt(p)
    <3>1. ASSUME NEW q \in Proc, NEW v \in Variation, Publishing(q, v)' PROVE Publishing(q, v)
      BY <2>3, <3>1, OthersPublish DEF Interrupt, Done, Idle, TypeOK, Publishing
    <3> QED BY <1>0, <2>3, <3>1 DEF Interrupt, GrowthInv, GrowthPublished
  <2>4. ASSUME NEW v \in Variation, ApproveVariation(p, v) PROVE GrowthInv'
    <3>1. /\ UNCHANGED <<event, cut>>
          /\ variation' = [variation EXCEPT ![v] = "APPROVED"]
          /\ request' = [request EXCEPT ![p] = [at |-> "publishing", variation |-> v]]
      BY <2>4 DEF ApproveVariation
    <3>2. Publishing(p, v)'
      BY <3>1 DEF TypeOK, Publishing
    <3>3. ASSUME NEW w \in Variation
          PROVE  (variation[w])' = IF w = v THEN "APPROVED" ELSE variation[w]
      BY <3>1 DEF TypeOK
    <3>4. ASSUME NEW w \in Variation, w # v, NEW q \in Proc
          PROVE  Publishing(q, w)' <=> Publishing(q, w)
      BY <2>4, <3>1, <3>4, OthersPublish DEF TypeOK, Publishing, ApproveVariation, At
    <3> QED BY <1>0, <3>1, <3>2, <3>3, <3>4 DEF GrowthInv, GrowthPublished
  <2>5. CASE FindEvent(p)
    <3>1. UNCHANGED <<variation, event, cut>>
      BY <2>5 DEF FindEvent
    <3>2. request[p] = [at |-> "publishing", variation |-> request[p].variation]
      BY <2>5, VariationAtHand DEF FindEvent, At
    <3>3. AmountOf(p) \in Amount /\ event[AmountOf(p)] \in Nat
      BY <2>5, VariationAtHand DEF FindEvent, At, TypeOK
    <3>4. CASE event[AmountOf(p)] = 0
      <4>1. request' = [request EXCEPT ![p] = [at |-> "creating", variation |-> request[p].variation]]
        <5>1. [request[p] EXCEPT !.at = "creating"] = [at |-> "creating", variation |-> request[p].variation]
          BY <3>2
        <5> QED BY <2>5, <3>4, <5>1 DEF FindEvent
      <4>2. ASSUME NEW q \in Proc, NEW v \in Variation PROVE Publishing(q, v)' <=> Publishing(q, v)
        BY <3>2, <4>1, OthersPublish DEF TypeOK, Publishing
      <4> QED BY <1>0, <3>1, <4>2 DEF GrowthInv, GrowthPublished
    <3>5. CASE event[AmountOf(p)] > 0
      <4>1. request' = [request EXCEPT ![p] = Idle]
        <5>1. event[AmountOf(p)] # 0
          BY <3>3, <3>5
        <5> QED BY <2>5, <5>1, Zenon DEF FindEvent
      <4>2. ASSUME NEW q \in Proc, NEW v \in Variation, Publishing(q, v)' PROVE Publishing(q, v)
        BY <4>1, <4>2, OthersPublish DEF TypeOK, Publishing, Idle
      <4>3. ASSUME NEW q \in Proc, NEW v \in Variation, Publishing(q, v), event[amount_change[v]] = 0
            PROVE  Publishing(q, v)'
        BY <3>5, <4>1, <4>3, OthersPublish DEF Publishing, AmountOf
      <4> QED BY <1>0, <3>1, <4>2, <4>3 DEF GrowthInv, GrowthPublished, TypeOK
    <3> QED BY <3>3, <3>4, <3>5
  <2>6. CASE CreateEvent(p)
    <3>1. /\ UNCHANGED <<variation, cut>>
          /\ event' = [event EXCEPT ![AmountOf(p)] = @ + 1]
          /\ request' = [request EXCEPT ![p] = Idle]
      BY <2>6 DEF CreateEvent, Created, Done
    <3>2. request[p].variation \in Variation /\ AmountOf(p) = amount_change[request[p].variation]
      BY <2>6, VariationAtHand DEF CreateEvent, At, AmountOf
    <3>3. variation[request[p].variation] = "APPROVED"
      BY <1>0, <2>6, <3>2 DEF CreateEvent, At, Publishing
    <3>4. ASSUME NEW a \in Amount
          PROVE  event'[a] = IF a = AmountOf(p) THEN event[a] + 1 ELSE event[a]
      BY <3>1 DEF TypeOK
    <3>5. ASSUME NEW q \in Proc, NEW v \in Variation, Publishing(q, v)' PROVE Publishing(q, v)
      BY <3>1, <3>5, OthersPublish DEF TypeOK, Publishing, Idle
    <3>6. ASSUME NEW q \in Proc, NEW v \in Variation, Publishing(q, v),
                 amount_change[v] # AmountOf(p)
          PROVE  Publishing(q, v)'
      BY <3>1, <3>6, OthersPublish DEF Publishing, AmountOf
    <3>7. \A a \in Amount : event'[a] > 0 =>
            \E v \in Variation : variation'[v] = "APPROVED" /\ amount_change[v] = a
      BY <1>0, <3>1, <3>2, <3>3, <3>4 DEF TypeOK
    <3>8. ASSUME NEW v \in Variation, variation'[v] = "APPROVED"
          PROVE  event'[amount_change[v]] > 0 \/ cut' \/ \E q \in Proc : Publishing(q, v)'
      <4>1. amount_change[v] \in Amount /\ event[amount_change[v]] \in Nat
        BY DEF TypeOK
      <4>2. CASE amount_change[v] = AmountOf(p)
        BY <3>4, <4>1, <4>2
      <4>3. CASE amount_change[v] # AmountOf(p)
        BY <1>0, <3>1, <3>4, <3>6, <3>8, <4>1, <4>3
      <4> QED BY <4>2, <4>3
    <3> QED BY <1>0, <3>1, <3>5, <3>7, <3>8 DEF GrowthInv, GrowthPublished
  <2> QED BY <1>1, <2>2, <2>3, <2>4, <2>5, <2>6 DEF Handler
<1>2. ASSUME NEW v \in Variation, Propose(v) PROVE GrowthInv'
  <2>1. \A w \in Variation : variation'[w] = "APPROVED" <=> variation[w] = "APPROVED"
    BY <1>2 DEF Propose, TypeOK
  <2> QED BY <1>0, <1>2, <2>1 DEF Propose, GrowthInv, GrowthPublished, Publishing
<1>3. CASE UNCHANGED vars
  BY <1>0, <1>3 DEF vars, GrowthInv, GrowthPublished, Publishing
<1> QED BY <1>1, <1>2, <1>3, NextSteps

\* Unless a request is interrupted, the public sees an event for every amount by
\* which the contract was varied, and for no other.
THEOREM VariationsArePublished == Spec => []GrowthPublished
<1>1. GrowthInv => GrowthPublished
  BY DEF GrowthInv
<1> QED BY <1>1, InitType, TypeStep, InitGrowth, GrowthStep, PTL DEF Spec

-----------------------------------------------------------------------------
LEMMA CloseStep == TypeOK /\ RatedAtClose /\ [Next]_vars => RatedAtClose'
<1> SUFFICES ASSUME TypeOK, RatedAtClose, [Next]_vars, ~cut', status' = "CLOSED", ~rated'
             PROVE  \E q \in Proc : At(q, "closing")'
  BY DEF RatedAtClose
<1>1. ASSUME NEW p \in Proc, Handler(p) PROVE \E q \in Proc : At(q, "closing")'
  <2>1. CASE Close(p)
    BY <2>1 DEF Close, Goto, At, TypeOK
  \* Whoever was closing it still is.
  <2>2. ASSUME status = "CLOSED", ~rated, ~cut, ~At(p, "closing"), NEW r,
               request' = [request EXCEPT ![p] = r]
        PROVE  \E q \in Proc : At(q, "closing")'
    <3>1. PICK q \in Proc : At(q, "closing")
      BY <2>2 DEF RatedAtClose
    <3>2. request'[q] = request[q]
      BY <2>2, <3>1 DEF TypeOK
    <3> QED BY <3>1, <3>2 DEF At
  <2>3. CASE Load(p) \/ Refuse(p)
    BY <2>2, <2>3 DEF Load, Refuse, At, Done
  <2>4. CASE Interrupt(p) \/ SaveAccepted(p) \/ SavePaid(p) \/ AutoRate(p) \/ Rate(p)
    BY <2>4 DEF Interrupt, SaveAccepted, SavePaid, AutoRate, Rate
  <2>5. CASE \E ref \in Ref : CreateAcceptance(p, ref) \/ CreatePayment(p, ref)
    BY <2>2, <2>5 DEF CreateAcceptance, CreatePayment, Loaded, At, Goto
  <2>6. CASE FindEvent(p)
    <3>1. UNCHANGED <<status, rated, cut>> /\ ~At(p, "closing")
      BY <2>6 DEF FindEvent, At
    <3> DEFINE r == IF event[AmountOf(p)] = 0 THEN [request[p] EXCEPT !.at = "creating"] ELSE Idle
    <3>2. request' = [request EXCEPT ![p] = r]
      BY <2>6 DEF FindEvent
    <3> HIDE DEF r
    <3> QED BY <2>2, <3>1, <3>2
  <2>7. CASE CreateEvent(p)
    BY <2>2, <2>7 DEF CreateEvent, At, Done
  <2>8. ASSUME NEW v \in Variation, ApproveVariation(p, v)
        PROVE  \E q \in Proc : At(q, "closing")'
    BY <2>2, <2>8 DEF ApproveVariation, At
  <2> QED BY <1>1, <2>1, <2>3, <2>4, <2>5, <2>6, <2>7, <2>8 DEF Handler
<1>2. CASE (\E v \in Variation : Propose(v)) \/ UNCHANGED vars
  BY <1>2 DEF Propose, vars, RatedAtClose, At
<1> QED BY <1>1, <1>2, NextSteps

\* No interleaving of closing and rating leaves a closed contract without its
\* rating; only an interrupted request can.
THEOREM ClosingRates == Spec => []RatedAtClose
<1>1. Init => RatedAtClose
  BY DEF Init, RatedAtClose
<1> QED BY <1>1, InitType, TypeStep, CloseStep, PTL DEF Spec
=============================================================================
