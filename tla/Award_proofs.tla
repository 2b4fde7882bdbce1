---------------------------- MODULE Award_proofs ----------------------------
(***************************************************************************)
(* Award and its register for any number of calls, bids, awards,           *)
(* references and objections.                                              *)
(*                                                                         *)
(* That a signed contract stands for a published award, and an award for   *)
(* at most one contract, follows from who holds an award: a call works on  *)
(* one that no other call and no contract has (HeldAlone), and has         *)
(* published it before it signs (CallPublished).  That the surfaces agree  *)
(* needs in addition what an undisturbed call leaves (CalmInv), and that   *)
(* sums over different rows come to the same: contracts one for one with   *)
(* awards, awards grouped by supplier.                                     *)
(***************************************************************************)
EXTENDS AwardRegister, FiniteSetTheorems, FunctionTheorems, TLAPS

Places == {"idle", "created", "published", "added", "saved"}

\* Where a call may be, and that each call keeps its own place.
CallsApart ==
  /\ request = [p \in Proc |-> request[p]]
  /\ \A p \in Proc : request[p].at \in Places

\* An award being made is in the hands of one call and behind no contract.
HeldAlone ==
  \A p \in Proc : ~At(p, "idle") =>
    /\ \A q \in Proc \ {p} : At(q, "idle") \/ request[q].award # request[p].award
    /\ \A r \in Ref : contract[r] # request[p].award

CallPublished ==
  \A p \in Proc : request[p].at \in {"published", "added", "saved"} =>
    award[request[p].award].status = "PUBLISHED"

\* No window is open for longer than OBJECTION_DAYS from today.
WindowsEnd == \A a \in Made : award[a].objection_until <= now + OBJECTION_DAYS

ObjectionsFiled == \A o \in objection_list : objection[o].filed_at <= now

IInv ==
  /\ TypeOK
  /\ CallsApart
  /\ HeldAlone
  /\ CallPublished
  /\ WindowsEnd
  /\ ObjectionsFiled
  /\ SignedMeansPublished
  /\ ObjectionsInWindow

\* What the pages show is read off the state.
USE DEF objection_list, objection_detail

-----------------------------------------------------------------------------
LEMMA InitIInv == Init => IInv
<1> SUFFICES ASSUME Init PROVE IInv
  OBVIOUS
<1> USE DEF Init, Idle, At
<1>1. Made = {}
  BY DEF Made
<1>2. TypeOK
  <2>1. /\ award \in [Award -> Awards \cup {Unmade}]
        /\ contract \in [Ref -> Made \cup {NoAward}]
        /\ objection \in [Objection -> Objections \cup {Unmade}]
    OBVIOUS
  <2>2. now \in Nat /\ tender \in Status /\ disturbed \in BOOLEAN
    BY DEF Status
  <2>3. signed_at \in [Ref -> Int]
    BY DEF NULL
  <2>4. \A p \in Proc : At(p, "idle")
    OBVIOUS
  <2> QED BY <2>1, <2>2, <2>3, <2>4 DEF TypeOK
<1>3. CallsApart /\ HeldAlone /\ CallPublished
  BY DEF CallsApart, Places, HeldAlone, CallPublished
<1>4. WindowsEnd /\ ObjectionsFiled /\ ObjectionsInWindow
  BY <1>1 DEF WindowsEnd, ObjectionsFiled, ObjectionsInWindow
<1>5. SignedMeansPublished
  BY DEF SignedMeansPublished
<1> QED BY <1>2, <1>3, <1>4, <1>5 DEF IInv

\* A call that moves on leaves the others where they are.
LEMMA GotoApart ==
  ASSUME CallsApart, NEW p \in Proc, NEW r, Goto(p, r), r.at \in Places
  PROVE  /\ CallsApart'
         /\ request'[p] = r
         /\ \A q \in Proc \ {p} : request'[q] = request[q]
<1>1. request' = [q \in Proc |-> IF q = p THEN r ELSE request[q]]
  BY DEF CallsApart, Goto
<1> QED BY <1>1 DEF CallsApart

\* A row that is made is one of Awards.
LEMMA MadeRows ==
  ASSUME TypeOK, NEW a \in Made
  PROVE  a \in Award /\ award[a] \in Awards
  BY DEF TypeOK, Made

LEMMA CreateAwardStep ==
  ASSUME IInv, NEW p \in Proc, NEW a \in Award, NEW b \in Bid, CreateAward(p, a, b)
  PROVE  IInv'
<1> DEFINE row == [status |-> "APPROVED", bid |-> b, objection_until |-> NULL]
           call == [at |-> "created", award |-> a]
<1> USE DEF IInv
<1>1. row \in Awards /\ row # Unmade
  BY DEF Awards, Unmade, NULL
<1>2. /\ award' = [award EXCEPT ![a] = row]
      /\ Goto(p, call)
      /\ a \notin Made
      /\ UNCHANGED <<now, tender, contract, signed_at, objection>>
  BY DEF CreateAward, Made
<1>3. award \in [Award -> Awards \cup {Unmade}]
  BY DEF TypeOK
<1>4. Made' = Made \cup {a}
  BY <1>1, <1>2, <1>3 DEF Made
<1>5. \A c \in Made : award'[c] = award[c]
  BY <1>2, <1>3 DEF Made
<1>6. award'[a] = row
  BY <1>2, <1>3
<1>7. CallsApart' /\ request'[p] = call /\ \A q \in Proc \ {p} : request'[q] = request[q]
  <2>1. call.at \in Places
    BY DEF Places
  <2> HIDE DEF call
  <2> QED BY <1>2, <2>1, GotoApart
<1>8. At(p, "idle")
  BY DEF CreateAward
<1>9. TypeOK'
  <2>1. award' \in [Award -> Awards \cup {Unmade}]
    BY <1>1, <1>2, <1>3
  <2>2. contract' \in [Ref -> Made' \cup {NoAward}]
    BY <1>2, <1>4 DEF TypeOK
  <2>3. Objections \subseteq Objections'
    BY <1>4 DEF Objections
  <2>4. objection' \in [Objection -> Objections' \cup {Unmade}]
    BY <1>2, <2>3 DEF TypeOK
  <2>5. \A q \in Proc : At(q, "idle")' \/ request'[q].award \in Made'
    BY <1>4, <1>7 DEF TypeOK, At
  <2>6. disturbed' \in BOOLEAN
    BY DEF CreateAward, TypeOK
  <2> QED BY <1>2, <2>1, <2>2, <2>4, <2>5, <2>6 DEF TypeOK
<1>10. HeldAlone'
  <2>1. \A q \in Proc : At(q, "idle") \/ request[q].award # a
    BY <1>2 DEF TypeOK
  <2>2. \A r \in Ref : contract[r] # a
    BY <1>2, RowsAssumption DEF TypeOK
  <2> QED BY <1>2, <1>7, <2>1, <2>2 DEF HeldAlone, At
<1>11. CallPublished'
  BY <1>5, <1>7 DEF CallPublished, TypeOK, At
<1>12. WindowsEnd'
  BY <1>2, <1>4, <1>5, <1>6, DaysAssumption DEF WindowsEnd, NULL, TypeOK
<1>13. ObjectionsFiled'
  BY <1>2 DEF ObjectionsFiled
<1>14. SignedMeansPublished'
  BY <1>2, <1>5 DEF SignedMeansPublished, TypeOK
<1>15. ObjectionsInWindow'
  BY <1>2, <1>5 DEF ObjectionsInWindow, TypeOK, Objections
<1> QED BY <1>7, <1>9, <1>10, <1>11, <1>12, <1>13, <1>14, <1>15

LEMMA PublishAwardStep ==
  ASSUME IInv, NEW p \in Proc, PublishAward(p)
  PROVE  IInv'
<1> DEFINE a == request[p].award
           row == [status |-> "PUBLISHED", bid |-> award[a].bid, objection_until |-> now + OBJECTION_DAYS]
           call == [at |-> "published", award |-> a]
<1> USE DEF IInv
<1>1. a \in Made /\ a \in Award /\ award[a] \in Awards
  BY MadeRows DEF PublishAward, At, TypeOK
<1>2. row \in Awards /\ row # Unmade
  <2>1. now + OBJECTION_DAYS \in Int
    BY DaysAssumption, SMT DEF TypeOK
  <2>2. award[a].bid \in Bid
    BY <1>1 DEF Awards
  <2> QED BY <2>1, <2>2 DEF Awards, Unmade
<1>3. /\ row.status = "PUBLISHED"
      /\ row.objection_until = now + OBJECTION_DAYS
  BY <1>1 DEF Awards
<1>4. /\ award' = [award EXCEPT ![a] = row]
      /\ Goto(p, call)
      /\ UNCHANGED <<now, tender, contract, signed_at, objection, disturbed>>
  BY <1>1 DEF PublishAward, TypeOK
<1>5. award \in [Award -> Awards \cup {Unmade}]
  BY DEF TypeOK
<1>6. Made' = Made
  BY <1>1, <1>2, <1>4, <1>5 DEF Made
<1>7. award'[a] = row /\ \A c \in Made \ {a} : award'[c] = award[c]
  BY <1>1, <1>4, <1>5 DEF Made
<1>8. CallsApart' /\ request'[p] = call /\ \A q \in Proc \ {p} : request'[q] = request[q]
  <2>1. call.at \in Places
    BY DEF Places
  <2> HIDE DEF call
  <2> QED BY <1>4, <2>1, GotoApart
<1>9. ~At(p, "idle")
  BY DEF PublishAward, At
<1>10. /\ \A q \in Proc \ {p} : At(q, "idle") \/ request[q].award # a
       /\ \A r \in Ref : contract[r] # a
  BY <1>9 DEF HeldAlone
<1> HIDE DEF row, a
<1>11. TypeOK'
  <2>1. award' \in [Award -> Awards \cup {Unmade}]
    BY <1>1, <1>2, <1>4, <1>5
  <2>2. Objections' = Objections
    BY <1>6 DEF Objections
  <2>3. \A q \in Proc : At(q, "idle")' \/ request'[q].award \in Made'
    BY <1>1, <1>6, <1>8 DEF TypeOK, At
  <2> QED BY <1>4, <1>6, <2>1, <2>2, <2>3 DEF TypeOK
<1>12. HeldAlone'
  BY <1>4, <1>8, <1>9, <1>10 DEF HeldAlone, At
<1>13. CallPublished'
  BY <1>3, <1>7, <1>8, <1>10 DEF CallPublished, TypeOK, At
<1>14. WindowsEnd'
  BY <1>3, <1>4, <1>6, <1>7, DaysAssumption DEF WindowsEnd, TypeOK
<1>15. ObjectionsFiled'
  BY <1>4 DEF ObjectionsFiled
<1>16. SignedMeansPublished'
  BY <1>4, <1>7, <1>10 DEF SignedMeansPublished, TypeOK
<1>17. ObjectionsInWindow'
  <2> SUFFICES ASSUME NEW o \in objection_list, award'[objection[o].award].objection_until # NULL
               PROVE  objection[o].filed_at <= award'[objection[o].award].objection_until
    BY <1>4 DEF ObjectionsInWindow
  <2>1. objection[o] \in Objections
    BY DEF TypeOK
  <2>2. CASE objection[o].award = a
    BY <1>3, <1>7, <2>1, <2>2, DaysAssumption DEF ObjectionsFiled, Objections, TypeOK
  <2>3. CASE objection[o].award # a
    BY <1>7, <2>1, <2>3 DEF ObjectionsInWindow, Objections
  <2> QED BY <2>2, <2>3
<1> QED BY <1>8, <1>11, <1>12, <1>13, <1>14, <1>15, <1>16, <1>17

\* A call that moves on with the award it holds, to a place where it may be with that
\* award, and changes nothing else that is recorded.
LEMMA CallMoves ==
  ASSUME IInv, NEW p \in Proc, NEW r, Goto(p, r),
         r.at \in Places,
         r.at # "idle" => ~At(p, "idle") /\ r.award = request[p].award,
         r.at \in {"published", "added", "saved"} => award[request[p].award].status = "PUBLISHED",
         UNCHANGED <<now, award, contract, signed_at, objection>>,
         tender' \in Status, disturbed' \in BOOLEAN
  PROVE  IInv'
<1> USE DEF IInv
<1>1. CallsApart' /\ request'[p] = r /\ \A q \in Proc \ {p} : request'[q] = request[q]
  BY GotoApart
<1>2. Made' = Made /\ Objections' = Objections
  BY DEF Made, Objections
<1>3. TypeOK'
  <2>1. \A q \in Proc : At(q, "idle")' \/ request'[q].award \in Made'
    BY <1>1, <1>2 DEF TypeOK, At
  <2> QED BY <1>2, <2>1 DEF TypeOK
<1>4. HeldAlone'
  BY <1>1 DEF HeldAlone, At
<1>5. CallPublished'
  BY <1>1 DEF CallPublished
<1>6. WindowsEnd' /\ ObjectionsFiled' /\ SignedMeansPublished' /\ ObjectionsInWindow'
  BY <1>2 DEF WindowsEnd, ObjectionsFiled, SignedMeansPublished, ObjectionsInWindow
<1> QED BY <1>1, <1>3, <1>4, <1>5, <1>6

LEMMA SignContractStep ==
  ASSUME IInv, NEW p \in Proc, NEW r \in Ref, SignContract(p, r)
  PROVE  IInv'
<1> DEFINE a == request[p].award
<1> USE DEF IInv
<1>1. a \in Made /\ ~At(p, "idle") /\ award[a].status = "PUBLISHED"
  BY DEF SignContract, ReadyToSign, At, TypeOK, CallPublished
<1>2. /\ contract' = [contract EXCEPT ![r] = a]
      /\ signed_at' = [signed_at EXCEPT ![r] = now]
      /\ Goto(p, Idle)
      /\ UNCHANGED <<now, tender, award, objection, disturbed>>
  BY DEF SignContract
<1>3. CallsApart' /\ request'[p] = Idle /\ \A q \in Proc \ {p} : request'[q] = request[q]
  <2>1. Idle.at \in Places
    BY DEF Idle, Places
  <2> QED BY <1>2, <2>1, GotoApart
<1>4. /\ \A q \in Proc \ {p} : At(q, "idle") \/ request[q].award # a
      /\ \A q \in Ref : contract[q] # a
  BY <1>1 DEF HeldAlone
<1> HIDE DEF a
<1>5. Made' = Made /\ Objections' = Objections
  BY <1>2 DEF Made, Objections
<1>6. TypeOK'
  <2>1. \A q \in Proc : At(q, "idle")' \/ request'[q].award \in Made'
    BY <1>3, <1>5 DEF TypeOK, At, Idle
  <2>2. contract' \in [Ref -> Made' \cup {NoAward}] /\ signed_at' \in [Ref -> Int]
    BY <1>1, <1>2, <1>5 DEF TypeOK
  <2> QED BY <1>2, <1>5, <2>1, <2>2 DEF TypeOK
<1>7. contract'[r] = a /\ signed_at'[r] = now
      /\ \A q \in Ref \ {r} : contract'[q] = contract[q] /\ signed_at'[q] = signed_at[q]
  BY <1>2 DEF TypeOK
<1>8. HeldAlone'
  BY <1>3, <1>4, <1>7 DEF HeldAlone, At, Idle
<1>9. CallPublished'
  BY <1>2, <1>3 DEF CallPublished, Idle
<1>10. WindowsEnd' /\ ObjectionsFiled' /\ ObjectionsInWindow'
  BY <1>2, <1>5 DEF WindowsEnd, ObjectionsFiled, ObjectionsInWindow
<1>11. award[a].objection_until <= now + OBJECTION_DAYS
  BY <1>1 DEF WindowsEnd
<1>12. SignedMeansPublished'
  BY <1>1, <1>2, <1>4, <1>7, <1>11 DEF SignedMeansPublished
<1> QED BY <1>3, <1>6, <1>8, <1>9, <1>10, <1>12

LEMMA FileObjectionStep ==
  ASSUME IInv, NEW o \in Objection, NEW a \in Award, FileObjection(o, a)
  PROVE  IInv'
<1> DEFINE row == [award |-> a, filed_at |-> now, outcome |-> "PENDING"]
<1> USE DEF IInv
<1>1. /\ objection' = [objection EXCEPT ![o] = row]
      /\ a \in Made /\ window_open(a)
      /\ tender' \in Status
      /\ UNCHANGED <<now, award, contract, signed_at, request, disturbed>>
  BY DEF FileObjection, Status
<1>2. Made' = Made /\ Objections' = Objections
  BY <1>1 DEF Made, Objections
<1>3. row \in Objections
  BY <1>1 DEF Objections, Outcome, TypeOK
<1>4. row.award = a /\ row.filed_at = now
  OBVIOUS
<1> HIDE DEF row
<1>5. objection'[o] = row /\ \A q \in Objection \ {o} : objection'[q] = objection[q]
  BY <1>1 DEF TypeOK
<1>6. TypeOK'
  BY <1>1, <1>2, <1>3 DEF TypeOK, At
<1>7. CallsApart' /\ HeldAlone' /\ CallPublished' /\ WindowsEnd' /\ SignedMeansPublished'
  BY <1>1, <1>2 DEF CallsApart, HeldAlone, CallPublished, WindowsEnd, SignedMeansPublished, At
<1>8. ObjectionsFiled'
  BY <1>1, <1>4, <1>5 DEF ObjectionsFiled, TypeOK
<1>9. ObjectionsInWindow'
  BY <1>1, <1>4, <1>5 DEF ObjectionsInWindow, window_open
<1> QED BY <1>6, <1>7, <1>8, <1>9

LEMMA DecideObjectionStep ==
  ASSUME IInv, NEW o \in Objection, NEW outcome \in Outcome, DecideObjection(o, outcome)
  PROVE  IInv'
<1> DEFINE row == [objection[o] EXCEPT !.outcome = outcome]
<1> USE DEF IInv
<1>1. /\ objection' = [objection EXCEPT ![o] = row]
      /\ o \in objection_list
      /\ UNCHANGED <<now, tender, award, contract, signed_at, request, disturbed>>
  BY DEF DecideObjection
<1>2. Made' = Made /\ Objections' = Objections
  BY <1>1 DEF Made, Objections
<1>3. objection[o] \in Objections
  BY <1>1 DEF TypeOK
<1>4. row \in Objections /\ row.award = objection[o].award /\ row.filed_at = objection[o].filed_at
  BY <1>3 DEF Objections
<1> HIDE DEF row
<1>5. objection'[o] = row /\ \A q \in Objection \ {o} : objection'[q] = objection[q]
  BY <1>1 DEF TypeOK
<1>6. TypeOK'
  BY <1>1, <1>2, <1>4 DEF TypeOK, At
<1>7. CallsApart' /\ HeldAlone' /\ CallPublished' /\ WindowsEnd' /\ SignedMeansPublished'
  BY <1>1, <1>2 DEF CallsApart, HeldAlone, CallPublished, WindowsEnd, SignedMeansPublished, At
<1>8. ObjectionsFiled'
  BY <1>1, <1>4, <1>5 DEF ObjectionsFiled
<1>9. ObjectionsInWindow'
  BY <1>1, <1>4, <1>5 DEF ObjectionsInWindow
<1> QED BY <1>6, <1>7, <1>8, <1>9

\* Transitions and the clock.
LEMMA TenderStep ==
  ASSUME IInv, tender' \in Status, now' \in Nat, now <= now',
         UNCHANGED <<award, contract, signed_at, objection, request, disturbed>>
  PROVE  IInv'
<1> USE DEF IInv
<1>1. Made' = Made /\ Objections' = Objections
  BY DEF Made, Objections
<1>2. TypeOK'
  BY <1>1 DEF TypeOK, At
<1>3. CallsApart' /\ HeldAlone' /\ CallPublished' /\ SignedMeansPublished' /\ ObjectionsInWindow'
  BY DEF CallsApart, HeldAlone, CallPublished, SignedMeansPublished, ObjectionsInWindow, At
<1>4. WindowsEnd'
  <2> SUFFICES ASSUME NEW a \in Made PROVE award[a].objection_until <= now' + OBJECTION_DAYS
    BY <1>1 DEF WindowsEnd
  <2>1. award[a].objection_until \in Int /\ award[a].objection_until <= now + OBJECTION_DAYS
    BY MadeRows DEF WindowsEnd, Awards
  <2> QED BY <2>1, DaysAssumption DEF TypeOK
<1>5. ObjectionsFiled'
  BY DEF ObjectionsFiled, TypeOK, Objections
<1> QED BY <1>2, <1>3, <1>4, <1>5

LEMMA Inductive == IInv /\ [Next]_vars => IInv'
<1> SUFFICES ASSUME IInv, [Next]_vars PROVE IInv'
  OBVIOUS
<1>0. TypeOK /\ CallPublished
  BY DEF IInv
<1>1. ASSUME NEW p \in Proc, NEW a \in Award, NEW b \in Bid, CreateAward(p, a, b) PROVE IInv'
  BY <1>1, CreateAwardStep
<1>2. ASSUME NEW p \in Proc, PublishAward(p) PROVE IInv'
  BY <1>2, PublishAwardStep
<1>3. ASSUME NEW p \in Proc, AddUp(p) PROVE IInv'
  <2> DEFINE call == [at |-> "added", award |-> request[p].award, total |-> award_value]
  <2>1. call.at = "added" /\ call.award = request[p].award
    OBVIOUS
  <2> HIDE DEF call
  <2>2. Goto(p, call)
    BY <1>3 DEF AddUp, call
  <2> QED BY <1>0, <1>3, <2>1, <2>2, CallMoves DEF AddUp, At, Places, TypeOK, CallPublished
<1>4. ASSUME NEW p \in Proc, SaveTender(p) PROVE IInv'
  <2> DEFINE call == [at |-> "saved", award |-> request[p].award]
  <2>1. call.at = "saved" /\ call.award = request[p].award
    OBVIOUS
  <2> HIDE DEF call
  <2>2. Goto(p, call)
    BY <1>4 DEF SaveTender, call
  <2> QED BY <1>0, <1>4, <2>1, <2>2, CallMoves
          DEF SaveTender, At, Places, TypeOK, CallPublished, Status
<1>5. ASSUME NEW p \in Proc, NEW r \in Ref, SignContract(p, r) PROVE IInv'
  BY <1>5, SignContractStep
<1>6. ASSUME NEW p \in Proc, Interrupt(p) PROVE IInv'
  <2>1. Idle.at = "idle"
    BY DEF Idle
  <2> QED BY <1>0, <1>6, <2>1, CallMoves DEF Interrupt, Places, TypeOK
<1>7. ASSUME NEW o \in Objection, NEW a \in Award, FileObjection(o, a) PROVE IInv'
  BY <1>7, FileObjectionStep
<1>8. ASSUME NEW o \in Objection, NEW outcome \in Outcome, DecideObjection(o, outcome) PROVE IInv'
  BY <1>8, DecideObjectionStep
<1>9. ASSUME NEW s \in Status, Transition(s) PROVE IInv'
  BY <1>0, <1>9, TenderStep DEF Transition, TypeOK
<1>10. CASE Tick
  BY <1>0, <1>10, TenderStep DEF Tick, TypeOK
<1>11. CASE UNCHANGED vars
  BY <1>0, <1>11, TenderStep DEF vars, TypeOK
<1> QED BY <1>1, <1>2, <1>3, <1>4, <1>5, <1>6, <1>7, <1>8, <1>9, <1>10, <1>11 DEF Next

\* The rows keep their shape and refer to awards that exist.
THEOREM AwardType == Spec => []TypeOK
<1>1. IInv => TypeOK
  BY DEF IInv
<1> QED BY <1>1, InitIInv, Inductive, PTL DEF Spec

\* Calls may overlap, stop anywhere and be repeated: a contract stands for an award whose
\* notice came first, and no award is behind two contracts.
THEOREM NoContractBeforeNotice == Spec => []SignedMeansPublished
<1>1. IInv => SignedMeansPublished
  BY DEF IInv
<1> QED BY <1>1, InitIInv, Inductive, PTL DEF Spec

\* An objection that was let in is never later than the published end of its window.
THEOREM ObjectionsOnTime == Spec => []ObjectionsInWindow
<1>1. IInv => ObjectionsInWindow
  BY DEF IInv
<1> QED BY <1>1, InitIInv, Inductive, PTL DEF Spec
-----------------------------------------------------------------------------
(* Sums.  The induction principles of the library take a predicate, which  *)
(* no prover here can instantiate; these take a set.                       *)

\* Induction over the natural numbers, for a set of them in place of a predicate.
LEMMA SetOfNumbers ==
  ASSUME NEW X, 0 \in X, \A n \in Nat : n \in X => n + 1 \in X
  PROVE  Nat \subseteq X
<1> DEFINE L == {ss \in Nat \X Nat : ss[1] < ss[2]}
           T == Nat \ X
<1> SUFFICES ASSUME T # {} PROVE FALSE
  OBVIOUS
<1>1. \E x \in T : \A y \in T : ~(<<y, x>> \in L)
  <2>1. IsWellFoundedOn(L, Nat)
    BY NatLessThanWellFounded, Zenon DEF OpToRel
  <2>2. T \subseteq Nat
    OBVIOUS
  <2> HIDE DEF L, T
  <2> QED BY <2>1, <2>2, WFMin
<1>2. PICK x \in T : \A y \in T : ~(<<y, x>> \in L)
  BY <1>1
<1>3. x \in Nat /\ x # 0 /\ x - 1 \in Nat
  OBVIOUS
<1>4. <<x - 1, x>> \in L
  BY <1>3
<1>5. x - 1 \in X
  BY <1>2, <1>3, <1>4
<1> QED BY <1>3, <1>5

\* What the inductions need to know of sizes.
LEMMA Sizes ==
  ASSUME NEW D, IsFiniteSet(D), NEW S \in SUBSET D
  PROVE  /\ IsFiniteSet(S)
         /\ Cardinality(S) \in Nat
         /\ Cardinality(S) = 0 <=> S = {}
         /\ \A x \in S : Cardinality(S \ {x}) = Cardinality(S) - 1
<1>1. IsFiniteSet(S)
  BY FS_Subset
<1>2. Cardinality(S) \in Nat
  BY <1>1, FS_CardinalityType
<1>3. Cardinality(S) = 0 <=> S = {}
  BY <1>1, FS_EmptySet
<1>4. ASSUME NEW x \in S PROVE Cardinality(S \ {x}) = Cardinality(S) - 1
  <2>1. Cardinality(S \ {x}) = IF x \in S THEN Cardinality(S) - 1 ELSE Cardinality(S)
    BY <1>1, FS_RemoveElement
  <2> QED BY <2>1
<1> QED BY <1>1, <1>2, <1>3, <1>4

\* The same for the subsets of a finite set, growing by one element at a time.
LEMMA SetOfSubsets ==
  ASSUME NEW D, IsFiniteSet(D), NEW X, {} \in X,
         \A S \in SUBSET D : \A x \in D \ S : S \in X => S \cup {x} \in X
  PROVE  \A S \in SUBSET D : S \in X
<1> DEFINE Y == {n \in Nat : \A S \in SUBSET D : Cardinality(S) = n => S \in X}
<1>0. \A S \in SUBSET D : IsFiniteSet(S) /\ Cardinality(S) \in Nat
  BY Sizes
<1>1. 0 \in Y
  BY Sizes
<1>2. ASSUME NEW n \in Nat, n \in Y PROVE n + 1 \in Y
  <2> SUFFICES ASSUME NEW S \in SUBSET D, Cardinality(S) = n + 1 PROVE S \in X
    OBVIOUS
  <2>1. S # {}
    BY Sizes
  <2>2. PICK x \in S : TRUE
    BY <2>1
  <2>3. Cardinality(S \ {x}) = n
    <3>1. Cardinality(S \ {x}) = Cardinality(S) - 1
      BY Sizes
    <3> QED BY <3>1
  <2>4. S \ {x} \in X
    BY <1>2, <2>3
  <2>5. (S \ {x}) \cup {x} \in X
    BY <2>4
  <2>6. (S \ {x}) \cup {x} = S
    OBVIOUS
  <2> QED BY <2>5, <2>6
<1>3. Nat \subseteq Y
  <2> HIDE DEF Y
  <2> QED BY <1>1, <1>2, SetOfNumbers
<1> QED BY <1>0, <1>3

-----------------------------------------------------------------------------
\* What MapThenSumSet adds up for the weights w, and the recursion it does it by.
Total(w, S) == MapThenSumSet(LAMBDA x : w[x], S)

Pick(S) == CHOOSE x \in S : TRUE
AddsUp(w, D, G) ==
  G = [S \in SUBSET D |-> IF S = {} THEN 0 ELSE w[Pick(S)] + G[S \ {Pick(S)}]]

\* G is a solution for the finite set D.
Solves(w, D, G) ==
  /\ IsFiniteSet(D) /\ w \in [D -> Int] /\ G \in [SUBSET D -> Int]
  /\ AddsUp(w, D, G)

LEMMA PickIn == \A S : S # {} => Pick(S) \in S
  BY DEF Pick

\* The recursion has a solution: one for the subsets of at most n elements gives
\* one for n + 1.
LEMMA SumExists ==
  ASSUME NEW D, IsFiniteSet(D), NEW w \in [D -> Int]
  PROVE  \E G \in [SUBSET D -> Int] : AddsUp(w, D, G)
<1> DEFINE Rhs(G, S) == IF S = {} THEN 0 ELSE w[Pick(S)] + G[S \ {Pick(S)}]
           Upto(G, n) == \A S \in SUBSET D : Cardinality(S) <= n => G[S] = Rhs(G, S)
           Y == {n \in Nat : \E G \in [SUBSET D -> Int] : Upto(G, n)}
<1>0. \A S \in SUBSET D : IsFiniteSet(S) /\ Cardinality(S) \in Nat
  BY Sizes
<1>1. 0 \in Y
  <2> DEFINE G == [S \in SUBSET D |-> 0]
  <2>1. G \in [SUBSET D -> Int]
    OBVIOUS
  <2>2. \A S \in SUBSET D : Cardinality(S) <= 0 => S = {}
    BY <1>0, Sizes
  <2>3. Upto(G, 0)
    BY <2>2
  <2> HIDE DEF G, Upto
  <2> QED BY <2>1, <2>3
<1>2. ASSUME NEW n \in Nat, n \in Y PROVE n + 1 \in Y
  <2>1. PICK G \in [SUBSET D -> Int] : Upto(G, n)
    BY <1>2
  <2> DEFINE H == [S \in SUBSET D |-> Rhs(G, S)]
  <2>2. H \in [SUBSET D -> Int]
    BY PickIn
  <2>3. ASSUME NEW S \in SUBSET D, Cardinality(S) <= n + 1
        PROVE  H[S] = Rhs(H, S)
    <3>1. CASE S = {}
      BY <3>1
    <3>2. CASE S # {}
      <4>1. Pick(S) \in S
        BY <3>2, PickIn
      <4>2. Cardinality(S \ {Pick(S)}) <= n
        <5>1. Cardinality(S \ {Pick(S)}) = Cardinality(S) - 1
          BY <4>1, Sizes
        <5> QED BY <5>1, <1>0, <2>3
      <4>3. G[S \ {Pick(S)}] = H[S \ {Pick(S)}]
        BY <2>1, <4>2
      <4>4. H[S] = w[Pick(S)] + G[S \ {Pick(S)}]
        BY <3>2
      <4> QED BY <3>2, <4>3, <4>4
    <3> QED BY <3>1, <3>2
  <2> HIDE DEF H, Rhs
  <2>4. Upto(H, n + 1)
    BY <2>3
  <2> HIDE DEF Upto
  <2> QED BY <2>2, <2>4
<1>3. Nat \subseteq Y
  <2> HIDE DEF Y
  <2> QED BY <1>1, <1>2, SetOfNumbers
<1>4. Cardinality(D) \in Y
  BY <1>0, <1>3
<1>5. PICK G \in [SUBSET D -> Int] : Upto(G, Cardinality(D))
  BY <1>4
<1>6. \A S \in SUBSET D : G[S] = Rhs(G, S)
  BY <1>0, <1>5, FS_Subset
<1>7. G = [S \in SUBSET D |-> Rhs(G, S)]
  <2> HIDE DEF Rhs
  <2> QED BY <1>6
<1> QED BY <1>7 DEF AddsUp

Agree(u, w, E) == \A x \in E : u[x] = w[x]

\* Whatever solves it for a set solves it for its subsets.
LEMMA SumUnique ==
  ASSUME NEW D, IsFiniteSet(D), NEW E \in SUBSET D, NEW w, NEW u, NEW G, NEW H,
         AddsUp(w, D, G), AddsUp(u, E, H), Agree(u, w, E)
  PROVE  H[E] = G[E]
<1> DEFINE Y == {n \in Nat : \A S \in SUBSET E : Cardinality(S) = n => H[S] = G[S]}
<1>0. IsFiniteSet(E) /\ \A S \in SUBSET E : Cardinality(S) \in Nat
  BY Sizes
<1>1. ASSUME NEW S \in SUBSET E
      PROVE  /\ S = {} => H[S] = 0 /\ G[S] = 0
             /\ S # {} => /\ Pick(S) \in S
                          /\ H[S] = w[Pick(S)] + H[S \ {Pick(S)}]
                          /\ G[S] = w[Pick(S)] + G[S \ {Pick(S)}]
  BY PickIn DEF AddsUp, Agree
<1>2. 0 \in Y
  BY <1>0, <1>1, Sizes
<1>3. ASSUME NEW n \in Nat, n \in Y PROVE n + 1 \in Y
  <2> SUFFICES ASSUME NEW S \in SUBSET E, Cardinality(S) = n + 1 PROVE H[S] = G[S]
    OBVIOUS
  <2>1. S # {}
    BY <1>0, Sizes
  <2>2. Pick(S) \in S
    BY <1>1, <2>1
  <2>3. Cardinality(S \ {Pick(S)}) = n
    <3>1. Cardinality(S \ {Pick(S)}) = Cardinality(S) - 1
      BY <1>0, <2>2, Sizes
    <3> QED BY <3>1
  <2>4. H[S \ {Pick(S)}] = G[S \ {Pick(S)}]
    BY <1>3, <2>3
  <2> QED BY <1>1, <2>1, <2>2, <2>4
<1>4. Nat \subseteq Y
  <2> HIDE DEF Y
  <2> QED BY <1>2, <1>3, SetOfNumbers
<1> QED BY <1>0, <1>4

\* MapThenSumSet takes a solution.
LEMMA TotalAddsUp ==
  ASSUME NEW D, IsFiniteSet(D), NEW w \in [D -> Int]
  PROVE  \E G : Solves(w, D, G) /\ Total(w, D) = G[D]
<1>1. PICK G \in [SUBSET D -> Int] : AddsUp(w, D, G)
  BY SumExists
<1> DEFINE H == CHOOSE g : g = [S \in SUBSET D |->
                    IF S = {} THEN 0
                    ELSE w[CHOOSE x \in S : TRUE] + g[S \ {CHOOSE x \in S : TRUE}]]
<1>2. Total(w, D) = H[D]
  BY Zenon DEF Total, MapThenSumSet, MapThenFoldSet
<1>3. AddsUp(w, D, H)
  BY <1>1, Zenon DEF AddsUp, Pick
<1> HIDE DEF H
<1>4. H[D] = G[D]
  <2>1. D \in SUBSET D /\ Agree(w, w, D)
    BY DEF Agree
  <2> QED BY <1>1, <1>3, <2>1, SumUnique
<1> QED BY <1>1, <1>2, <1>4 DEF Solves

LEMMA TotalIsNumber ==
  ASSUME NEW D, IsFiniteSet(D), NEW w \in [D -> Int]
  PROVE  Total(w, D) \in Int
<1>1. PICK G : Solves(w, D, G) /\ Total(w, D) = G[D]
  BY TotalAddsUp
<1> QED BY <1>1 DEF Solves

\* The total of a part, by the solution for the whole.
LEMMA TotalPart ==
  ASSUME NEW D, NEW w, NEW G, Solves(w, D, G),
         NEW E \in SUBSET D, NEW u \in [E -> Int], \A x \in E : u[x] = w[x]
  PROVE  Total(u, E) = G[E]
<1>1. IsFiniteSet(D) /\ AddsUp(w, D, G)
  BY DEF Solves
<1>2. IsFiniteSet(E)
  BY <1>1, FS_Subset
<1>3. PICK H : Solves(u, E, H) /\ Total(u, E) = H[E]
  BY <1>2, TotalAddsUp
<1>4. AddsUp(u, E, H)
  BY <1>3 DEF Solves
<1>5. H[E] = G[E]
  BY <1>1, <1>4, SumUnique DEF Agree
<1> QED BY <1>3, <1>5

\* A solution does not depend on which element is taken out first.
AnyFirst(w, D, G) == \A S \in SUBSET D : \A x \in S : G[S] = w[x] + G[S \ {x}]

LEMMA SumRemove ==
  ASSUME NEW D, NEW w, NEW G, Solves(w, D, G)
  PROVE  AnyFirst(w, D, G)
<1> DEFINE Y == {n \in Nat : \A S \in SUBSET D : Cardinality(S) = n =>
                               \A x \in S : G[S] = w[x] + G[S \ {x}]}
<1>0. IsFiniteSet(D) /\ w \in [D -> Int] /\ G \in [SUBSET D -> Int]
  BY DEF Solves
<1>1. ASSUME NEW S \in SUBSET D, S # {}
      PROVE  Pick(S) \in S /\ G[S] = w[Pick(S)] + G[S \ {Pick(S)}]
  BY <1>1, PickIn DEF Solves, AddsUp
<1>2. 0 \in Y
  BY <1>0, Sizes
<1>3. ASSUME NEW n \in Nat, n \in Y PROVE n + 1 \in Y
  <2> SUFFICES ASSUME NEW S \in SUBSET D, Cardinality(S) = n + 1, NEW x \in S
               PROVE  G[S] = w[x] + G[S \ {x}]
    OBVIOUS
  <2> DEFINE c == Pick(S)
  <2>1. c \in S /\ G[S] = w[c] + G[S \ {c}]
    BY <1>1
  <2>2. CASE c = x
    BY <2>1, <2>2
  <2>3. CASE c # x
    <3>1. Cardinality(S \ {c}) = n /\ Cardinality(S \ {x}) = n
      <4>1. \A y \in S : Cardinality(S \ {y}) = Cardinality(S) - 1
        BY <1>0, Sizes
      <4> QED BY <2>1, <4>1
    <3> HIDE DEF c
    <3>2. G[S \ {c}] = w[x] + G[(S \ {c}) \ {x}]
      BY <1>3, <2>1, <2>3, <3>1
    <3>3. G[S \ {x}] = w[c] + G[(S \ {x}) \ {c}]
      BY <1>3, <2>1, <2>3, <3>1
    <3>4. (S \ {c}) \ {x} = (S \ {x}) \ {c}
      OBVIOUS
    <3> DEFINE r == G[(S \ {x}) \ {c}]
    <3>5. w[x] \in Int /\ w[c] \in Int /\ r \in Int
      BY <1>0, <2>1
    <3>6. G[S] = w[c] + (w[x] + r) /\ G[S \ {x}] = w[c] + r
      BY <2>1, <3>2, <3>3, <3>4
    <3> HIDE DEF r
    <3> QED BY <3>5, <3>6
  <2> QED BY <2>2, <2>3
<1>4. Nat \subseteq Y
  <2> HIDE DEF Y
  <2> QED BY <1>2, <1>3, SetOfNumbers
<1> QED BY <1>0, <1>4, Sizes DEF AnyFirst

\* It starts from nothing and grows by the weight of what is added.
Grows(w, D, G) ==
  /\ G \in [SUBSET D -> Int] /\ G[{}] = 0
  /\ \A S \in SUBSET D : \A x \in D \ S : G[S \cup {x}] = w[x] + G[S]

LEMMA SumInsert ==
  ASSUME NEW D, NEW w, NEW G, Solves(w, D, G)
  PROVE  Grows(w, D, G)
<1>0. AnyFirst(w, D, G)
  BY SumRemove
<1>1. G \in [SUBSET D -> Int] /\ G[{}] = 0
  BY DEF Solves, AddsUp
<1>2. ASSUME NEW S \in SUBSET D, NEW x \in D \ S PROVE G[S \cup {x}] = w[x] + G[S]
  <2>1. (S \cup {x}) \ {x} = S /\ S \cup {x} \in SUBSET D
    OBVIOUS
  <2>2. \A T \in SUBSET D : \A y \in T : G[T] = w[y] + G[T \ {y}]
    BY <1>0 DEF AnyFirst
  <2>3. G[S \cup {x}] = w[x] + G[(S \cup {x}) \ {x}]
    BY <2>1, <2>2
  <2> QED BY <2>1, <2>3
<1> QED BY <1>1, <1>2 DEF Grows

\* What is added up one for one comes to the same.
LEMMA TotalOneForOne ==
  ASSUME NEW D, IsFiniteSet(D), NEW w \in [D -> Int],
         NEW E, IsFiniteSet(E), NEW u \in [E -> Int],
         NEW f \in [D -> E], E = {f[x] : x \in D},
         \A x, y \in D : f[x] = f[y] => x = y,
         \A x \in D : u[f[x]] = w[x]
  PROVE  Total(w, D) = Total(u, E)
<1>1. PICK G : Solves(w, D, G) /\ Total(w, D) = G[D]
  BY TotalAddsUp
<1>2. PICK H : Solves(u, E, H) /\ Total(u, E) = H[E]
  BY TotalAddsUp
<1>G. Grows(w, D, G)
  BY <1>1, SumInsert
<1>H. Grows(u, E, H)
  BY <1>2, SumInsert
<1> DEFINE Img(S) == {f[x] : x \in S}
           X == {S \in SUBSET D : G[S] = H[Img(S)]}
<1>3. {} \in X
  <2>1. Img({}) = {}
    OBVIOUS
  <2>2. G[{}] = 0 /\ H[{}] = 0
    BY <1>G, <1>H DEF Grows
  <2> QED BY <2>1, <2>2
<1>4. ASSUME NEW S \in SUBSET D, NEW x \in D \ S, S \in X PROVE S \cup {x} \in X
  <2>1. G[S \cup {x}] = w[x] + G[S]
    BY <1>G DEF Grows
  <2>2. Img(S) \in SUBSET E /\ f[x] \in E \ Img(S) /\ Img(S \cup {x}) = Img(S) \cup {f[x]}
    OBVIOUS
  <2>3. H[Img(S) \cup {f[x]}] = u[f[x]] + H[Img(S)]
    <3> HIDE DEF Img
    <3> QED BY <1>H, <2>2 DEF Grows
  <2> QED BY <1>4, <2>1, <2>2, <2>3
<1>5. D \in X
  <2>1. \A S \in SUBSET D : S \in X
    <3> HIDE DEF X
    <3> QED BY <1>3, <1>4, SetOfSubsets
  <2> QED BY <2>1
<1> QED BY <1>1, <1>2, <1>5

\* A total is the sum of the totals of the parts that share a value of f.
LEMMA TotalByPart ==
  ASSUME NEW D, IsFiniteSet(D), NEW w \in [D -> Int],
         NEW E, IsFiniteSet(E), NEW u \in [E -> Int], NEW f \in [D -> E],
         \A e \in E : u[e] = Total([x \in {y \in D : f[y] = e} |-> w[x]], {y \in D : f[y] = e})
  PROVE  Total(u, E) = Total(w, D)
<1>1. PICK G : Solves(w, D, G) /\ Total(w, D) = G[D]
  BY TotalAddsUp
<1>2. PICK H : Solves(u, E, H) /\ Total(u, E) = H[E]
  BY TotalAddsUp
<1>G. Grows(w, D, G)
  BY <1>1, SumInsert
<1>H. Grows(u, E, H)
  BY <1>2, SumInsert
<1>3. ASSUME NEW e \in E PROVE u[e] = G[{y \in D : f[y] = e}]
  <2> DEFINE P == {y \in D : f[y] = e}
             v == [x \in P |-> w[x]]
  <2>1. P \in SUBSET D /\ v \in [P -> Int] /\ \A x \in P : v[x] = w[x]
    OBVIOUS
  <2>2. u[e] = Total(v, P)
    OBVIOUS
  <2> HIDE DEF P, v
  <2>3. Total(v, P) = G[P]
    BY <1>1, <2>1, TotalPart
  <2> QED BY <2>2, <2>3 DEF P
<1>4. ASSUME NEW S \in SUBSET D, NEW T \in SUBSET D, S \cap T = {}
      PROVE  G[S \cup T] = G[S] + G[T]
  <2> DEFINE X == {R \in SUBSET T : G[S \cup R] = G[S] + G[R]}
  <2>0. IsFiniteSet(T)
    BY Sizes
  <2>1. {} \in X
    <3>1. G[{}] = 0 /\ S \cup {} = S /\ G[S] \in Int
      BY <1>G DEF Grows
    <3> QED BY <3>1
  <2>2. ASSUME NEW R \in SUBSET T, NEW x \in T \ R, R \in X PROVE R \cup {x} \in X
    <3>1. G[R \cup {x}] = w[x] + G[R]
      BY <1>G DEF Grows
    <3>2. S \cup R \in SUBSET D /\ x \in D \ (S \cup R)
      BY <1>4
    <3>3. G[(S \cup R) \cup {x}] = w[x] + G[S \cup R]
      BY <1>G, <3>2 DEF Grows
    <3>4. (S \cup R) \cup {x} = S \cup (R \cup {x})
      OBVIOUS
    <3>5. G[S \cup R] = G[S] + G[R]
      BY <2>2
    <3>6. w[x] \in Int /\ G[R] \in Int /\ G[S] \in Int
      BY <1>G DEF Grows
    <3>7. G[S \cup (R \cup {x})] = w[x] + (G[S] + G[R])
      BY <3>3, <3>4, <3>5
    <3>8. G[S \cup (R \cup {x})] = G[S] + G[R \cup {x}]
      BY <3>1, <3>6, <3>7
    <3> QED BY <3>8
  <2>3. \A R \in SUBSET T : R \in X
    <3> HIDE DEF X
    <3> QED BY <2>0, <2>1, <2>2, SetOfSubsets
  <2> QED BY <2>3
<1> DEFINE Of(B) == {y \in D : f[y] \in B}
           X == {B \in SUBSET E : H[B] = G[Of(B)]}
<1>5. {} \in X
  <2>1. Of({}) = {}
    OBVIOUS
  <2>2. G[{}] = 0 /\ H[{}] = 0
    BY <1>G, <1>H DEF Grows
  <2> QED BY <2>1, <2>2
<1>6. ASSUME NEW B \in SUBSET E, NEW e \in E \ B, B \in X PROVE B \cup {e} \in X
  <2>1. H[B \cup {e}] = u[e] + H[B]
    BY <1>H DEF Grows
  <2> DEFINE P == {y \in D : f[y] = e}
  <2>2. /\ Of(B) \in SUBSET D /\ P \in SUBSET D /\ Of(B) \cap P = {}
        /\ Of(B \cup {e}) = Of(B) \cup P
    OBVIOUS
  <2>3. u[e] = G[P] /\ H[B] = G[Of(B)]
    BY <1>3, <1>6
  <2> HIDE DEF P, Of
  <2>4. G[Of(B) \cup P] = G[Of(B)] + G[P]
    BY <1>4, <2>2
  <2>5. G[Of(B)] \in Int /\ G[P] \in Int
    BY <1>G, <2>2 DEF Grows
  <2>6. G[Of(B \cup {e})] = G[Of(B)] + G[P]
    BY <2>2, <2>4
  <2>7. H[B \cup {e}] = G[Of(B \cup {e})]
    BY <2>1, <2>3, <2>5, <2>6
  <2> QED BY <2>7
<1>7. E \in X
  <2>1. \A B \in SUBSET E : B \in X
    <3> HIDE DEF X
    <3> QED BY <1>5, <1>6, SetOfSubsets
  <2> QED BY <2>1
<1>8. Of(E) = D
  OBVIOUS
<1> QED BY <1>1, <1>2, <1>7, <1>8

-----------------------------------------------------------------------------
(* Left alone, a call keeps the tender's sum and accounts for every award. *)

OneCall == \A p, q \in Proc : At(p, "idle") \/ At(q, "idle") \/ p = q

\* An award is being made, or it is published and has its contract.
Accounted ==
  \A a \in Made :
    \/ \E p \in Proc : ~At(p, "idle") /\ request[p].award = a
    \/ award[a].status = "PUBLISHED" /\ \E r \in Ref : contract[r] = a

\* The sum a call has added up is still that of the awards when it saves it and after.
SumKept ==
  /\ \A p \in Proc : At(p, "added") => request[p].total = award_value
  /\ \A p \in Proc : At(p, "saved") => total_value = award_value
  /\ (\A p \in Proc : At(p, "idle")) /\ Made # {} => total_value = award_value

CalmInv == ~disturbed => OneCall /\ Accounted /\ SumKept

LEMMA InitCalm == Init => CalmInv
<1> SUFFICES ASSUME Init PROVE CalmInv
  OBVIOUS
<1>1. Made = {} /\ \A p \in Proc : At(p, "idle")
  BY DEF Init, Made, At, Idle
<1> QED BY <1>1 DEF CalmInv, OneCall, Accounted, SumKept, At

\* The sum is a matter of the awards alone.
LEMMA SameAwards == award' = award => Made' = Made /\ award_value' = award_value
<1> SUFFICES ASSUME award' = award PROVE Made' = Made /\ award_value' = award_value
  OBVIOUS
<1>1. Made' = Made
  BY DEF Made
<1>2. award_value' = award_value
  BY DEF award_value, Made, MapThenSumSet, MapThenFoldSet
<1> QED BY <1>1, <1>2

\* A call that is neither interrupted nor overtaken.
LEMMA CalmCall ==
  ASSUME IInv, CalmInv, ~disturbed, NEW p \in Proc, NEW r, Goto(p, r), r.at \in Places,
         At(p, "idle") => \A q \in Proc : At(q, "idle")
  PROVE  /\ \A q \in Proc \ {p} : At(q, "idle") /\ At(q, "idle")' /\ request'[q] = request[q]
         /\ request'[p] = r
         /\ OneCall'
<1>1. CallsApart /\ OneCall
  BY DEF IInv, CalmInv
<1>2. request'[p] = r /\ \A q \in Proc \ {p} : request'[q] = request[q]
  BY <1>1, GotoApart
<1>3. \A q \in Proc \ {p} : At(q, "idle")
  BY <1>1 DEF OneCall
<1>4. \A q \in Proc \ {p} : At(q, "idle")'
  BY <1>2, <1>3 DEF At
<1> QED BY <1>2, <1>3, <1>4 DEF OneCall

LEMMA CalmCreate ==
  ASSUME IInv, CalmInv, NEW p \in Proc, NEW a \in Award, NEW b \in Bid, CreateAward(p, a, b)
  PROVE  CalmInv'
<1> SUFFICES ASSUME ~disturbed' PROVE (OneCall /\ Accounted /\ SumKept)'
  BY DEF CalmInv
<1> DEFINE call == [at |-> "created", award |-> a]
           row == [status |-> "APPROVED", bid |-> b, objection_until |-> NULL]
<1>1. /\ ~disturbed /\ \A q \in Proc : At(q, "idle")
      /\ Goto(p, call) /\ contract' = contract
      /\ award' = [award EXCEPT ![a] = row]
  BY DEF CreateAward
<1>2. call.at = "created" /\ call.award = a /\ call.at \in Places
  BY DEF Places
<1> HIDE DEF call
<1>3. /\ \A q \in Proc \ {p} : At(q, "idle") /\ At(q, "idle")' /\ request'[q] = request[q]
      /\ request'[p] = call
      /\ OneCall'
  BY <1>1, <1>2, CalmCall
<1>4. \A c \in Award \ {a} : award'[c] = award[c]
  BY <1>1 DEF IInv, TypeOK
<1>5. Made' \subseteq Made \cup {a}
  BY <1>4 DEF Made
<1>6. Accounted'
  <2> SUFFICES ASSUME NEW c \in Made', c # a
               PROVE  award'[c].status = "PUBLISHED" /\ \E r \in Ref : contract'[r] = c
    BY <1>2, <1>3 DEF Accounted, At
  <2>1. c \in Made /\ award'[c] = award[c]
    BY <1>4, <1>5 DEF Made
  <2> QED BY <1>1, <2>1 DEF CalmInv, Accounted
<1>7. SumKept'
  BY <1>2, <1>3 DEF SumKept, At
<1> QED BY <1>3, <1>6, <1>7

LEMMA CalmPublish ==
  ASSUME IInv, CalmInv, NEW p \in Proc, PublishAward(p)
  PROVE  CalmInv'
<1> SUFFICES ASSUME ~disturbed' PROVE (OneCall /\ Accounted /\ SumKept)'
  BY DEF CalmInv
<1> DEFINE a == request[p].award
           call == [at |-> "published", award |-> a]
           row == [status |-> "PUBLISHED", bid |-> award[a].bid, objection_until |-> now + OBJECTION_DAYS]
<1>1. /\ ~disturbed /\ ~At(p, "idle") /\ Goto(p, call) /\ contract' = contract
      /\ a \in Made /\ award' = [award EXCEPT ![a] = row]
  <2>1. ~At(p, "idle")
    BY DEF PublishAward, At
  <2>2. a \in Made
    BY <2>1 DEF IInv, TypeOK
  <2> QED BY <2>1, <2>2 DEF PublishAward, IInv, TypeOK, Made
<1>2. call.at = "published" /\ call.award = a /\ call.at \in Places
  BY DEF Places
<1> HIDE DEF call, row
<1>3. /\ \A q \in Proc \ {p} : At(q, "idle") /\ At(q, "idle")' /\ request'[q] = request[q]
      /\ request'[p] = call
      /\ OneCall'
  BY <1>1, <1>2, CalmCall
<1> HIDE DEF a
<1>4. \A c \in Award \ {a} : award'[c] = award[c]
  BY <1>1 DEF IInv, TypeOK
<1>5. Made' \subseteq Made
  BY <1>1, <1>4 DEF Made
<1>6. Accounted'
  <2> SUFFICES ASSUME NEW c \in Made', c # a
               PROVE  award'[c].status = "PUBLISHED" /\ \E r \in Ref : contract'[r] = c
    BY <1>2, <1>3 DEF Accounted, At
  <2>1. c \in Made /\ award'[c] = award[c]
    BY <1>4, <1>5 DEF Made
  <2>2. ~\E q \in Proc : ~At(q, "idle") /\ request[q].award = c
    BY <1>3 DEF a
  <2> QED BY <1>1, <2>1, <2>2 DEF CalmInv, Accounted
<1>7. SumKept'
  BY <1>2, <1>3 DEF SumKept, At
<1> QED BY <1>3, <1>6, <1>7

LEMMA CalmAddUp ==
  ASSUME IInv, CalmInv, NEW p \in Proc, AddUp(p)
  PROVE  CalmInv'
<1> SUFFICES ASSUME ~disturbed' PROVE (OneCall /\ Accounted /\ SumKept)'
  BY DEF CalmInv
<1> DEFINE call == [at |-> "added", award |-> request[p].award, total |-> award_value]
<1>1. /\ ~disturbed /\ ~At(p, "idle") /\ Goto(p, call)
      /\ award' = award /\ contract' = contract
  BY DEF AddUp, At
<1>2. call.at = "added" /\ call.award = request[p].award /\ call.total = award_value /\ call.at \in Places
  BY DEF Places
<1> HIDE DEF call
<1>3. /\ \A q \in Proc \ {p} : At(q, "idle") /\ At(q, "idle")' /\ request'[q] = request[q]
      /\ request'[p] = call
      /\ OneCall'
  BY <1>1, <1>2, CalmCall
<1>4. Made' = Made /\ award_value' = award_value
  BY <1>1, SameAwards
<1>5. Accounted'
  BY <1>1, <1>2, <1>3, <1>4 DEF CalmInv, Accounted, At
<1>6. SumKept'
  BY <1>2, <1>3, <1>4 DEF SumKept, At
<1> QED BY <1>3, <1>5, <1>6

LEMMA CalmSave ==
  ASSUME IInv, CalmInv, NEW p \in Proc, SaveTender(p)
  PROVE  CalmInv'
<1> SUFFICES ASSUME ~disturbed' PROVE (OneCall /\ Accounted /\ SumKept)'
  BY DEF CalmInv
<1> DEFINE call == [at |-> "saved", award |-> request[p].award]
<1>1. /\ ~disturbed /\ ~At(p, "idle") /\ At(p, "added") /\ Goto(p, call)
      /\ award' = award /\ contract' = contract /\ total_value' = request[p].total
  BY DEF SaveTender, At
<1>2. call.at = "saved" /\ call.award = request[p].award /\ call.at \in Places
  BY DEF Places
<1> HIDE DEF call
<1>3. /\ \A q \in Proc \ {p} : At(q, "idle") /\ At(q, "idle")' /\ request'[q] = request[q]
      /\ request'[p] = call
      /\ OneCall'
  BY <1>1, <1>2, CalmCall
<1>4. Made' = Made /\ award_value' = award_value
  BY <1>1, SameAwards
<1>5. Accounted'
  BY <1>1, <1>2, <1>3, <1>4 DEF CalmInv, Accounted, At
<1>6. SumKept'
  <2>1. total_value' = award_value
    BY <1>1 DEF CalmInv, SumKept
  <2> QED BY <1>2, <1>3, <1>4, <2>1 DEF SumKept, At
<1> QED BY <1>3, <1>5, <1>6

LEMMA CalmSign ==
  ASSUME IInv, CalmInv, NEW p \in Proc, NEW r \in Ref, SignContract(p, r)
  PROVE  CalmInv'
<1> SUFFICES ASSUME ~disturbed' PROVE (OneCall /\ Accounted /\ SumKept)'
  BY DEF CalmInv
<1>1. /\ ~disturbed /\ At(p, "saved") /\ ~At(p, "idle") /\ Goto(p, Idle)
      /\ award' = award /\ total_value' = total_value /\ contract[r] = NoAward
      /\ contract' = [contract EXCEPT ![r] = request[p].award]
  BY DEF SignContract, ReadyToSign, At
<1>2. Idle.at = "idle" /\ Idle.at \in Places
  BY DEF Places, Idle
<1>3. /\ \A q \in Proc \ {p} : At(q, "idle") /\ At(q, "idle")' /\ request'[q] = request[q]
      /\ request'[p] = Idle
      /\ OneCall'
  BY <1>1, <1>2, CalmCall
<1>4. Made' = Made /\ award_value' = award_value
  BY <1>1, SameAwards
<1>5. Accounted'
  <2> SUFFICES ASSUME NEW c \in Made
               PROVE  award[c].status = "PUBLISHED" /\ \E q \in Ref : contract'[q] = c
    BY <1>1, <1>4 DEF Accounted
  <2>1. /\ contract'[r] = request[p].award
        /\ \A q \in Ref \ {r} : contract'[q] = contract[q]
    BY <1>1 DEF IInv, TypeOK
  <2>2. CASE c = request[p].award
    BY <1>1, <2>1, <2>2 DEF IInv, CallPublished, At
  <2>3. CASE c # request[p].award
    <3>1. ~\E q \in Proc : ~At(q, "idle") /\ request[q].award = c
      BY <1>3, <2>3
    <3>2. award[c].status = "PUBLISHED" /\ \E q \in Ref : contract[q] = c
      BY <1>1, <3>1 DEF CalmInv, Accounted
    <3>3. c # NoAward
      BY RowsAssumption DEF Made
    <3> QED BY <1>1, <2>1, <3>2, <3>3
  <2> QED BY <2>2, <2>3
<1>6. SumKept'
  <2>1. total_value' = award_value
    BY <1>1 DEF CalmInv, SumKept
  <2> QED BY <1>2, <1>3, <1>4, <2>1 DEF SumKept, At
<1> QED BY <1>3, <1>5, <1>6

LEMMA CalmElsewhere ==
  ASSUME CalmInv, UNCHANGED <<total_value, award, contract, request, disturbed>>
  PROVE  CalmInv'
<1>1. Made' = Made /\ award_value' = award_value
  BY SameAwards
<1>2. OneCall' <=> OneCall
  BY DEF OneCall, At
<1>3. Accounted' <=> Accounted
  BY <1>1 DEF Accounted, At
<1>4. SumKept' <=> SumKept
  BY <1>1 DEF SumKept, At
<1> QED BY <1>2, <1>3, <1>4 DEF CalmInv

LEMMA CalmInductive == IInv /\ CalmInv /\ [Next]_vars => CalmInv'
<1> SUFFICES ASSUME IInv, CalmInv, [Next]_vars PROVE CalmInv'
  OBVIOUS
<1>1. ASSUME NEW p \in Proc, NEW a \in Award, NEW b \in Bid, CreateAward(p, a, b) PROVE CalmInv'
  BY <1>1, CalmCreate
<1>2. ASSUME NEW p \in Proc, PublishAward(p) PROVE CalmInv'
  BY <1>2, CalmPublish
<1>3. ASSUME NEW p \in Proc, AddUp(p) PROVE CalmInv'
  BY <1>3, CalmAddUp
<1>4. ASSUME NEW p \in Proc, SaveTender(p) PROVE CalmInv'
  BY <1>4, CalmSave
<1>5. ASSUME NEW p \in Proc, NEW r \in Ref, SignContract(p, r) PROVE CalmInv'
  BY <1>5, CalmSign
<1>6. ASSUME NEW p \in Proc, Interrupt(p) PROVE CalmInv'
  BY <1>6 DEF Interrupt, CalmInv
<1>7. ASSUME NEW o \in Objection, NEW a \in Award, FileObjection(o, a) PROVE CalmInv'
  BY <1>7, CalmElsewhere DEF FileObjection
<1>8. ASSUME NEW o \in Objection, NEW outcome \in Outcome, DecideObjection(o, outcome) PROVE CalmInv'
  BY <1>8, CalmElsewhere DEF DecideObjection
<1>9. ASSUME NEW s \in Status, Transition(s) PROVE CalmInv'
  BY <1>9, CalmElsewhere DEF Transition
<1>10. CASE Tick
  BY <1>10, CalmElsewhere DEF Tick
<1>11. CASE UNCHANGED vars
  BY <1>11, CalmElsewhere DEF vars
<1> QED BY <1>1, <1>2, <1>3, <1>4, <1>5, <1>6, <1>7, <1>8, <1>9, <1>10, <1>11 DEF Next

-----------------------------------------------------------------------------
(* What the register shows when nothing is going on. *)

\* The amounts that the register adds up, as functions of the rows.
AwardAmounts(S) == [a \in S |-> amount[award[a].bid]]
ContractAmounts == [r \in Signed |-> amount[award[contract[r]].bid]]
SupplierAmounts == [b \in Bid |-> supplier_detail(b).total_awarded]

LEMMA ValueIsTotal == \A S : Value(S) = Total(AwardAmounts(S), S)
  BY Zenon DEF Value, Total, AwardAmounts, MapThenSumSet, MapThenFoldSet

LEMMA ContractedIsTotal == contracts_dashboard.total_value = Total(ContractAmounts, Signed)
<1>1. contracts_dashboard.total_value = MapThenSumSet(LAMBDA r : amount[award[contract[r]].bid], Signed)
  BY Zenon DEF contracts_dashboard
<1>2. MapThenSumSet(LAMBDA r : amount[award[contract[r]].bid], Signed) = Total(ContractAmounts, Signed)
  BY Zenon DEF Total, ContractAmounts, MapThenSumSet, MapThenFoldSet
<1> QED BY <1>1, <1>2

LEMMA SuppliersIsTotal ==
  MapThenSumSet(LAMBDA b : supplier_detail(b).total_awarded, Bid) = Total(SupplierAmounts, Bid)
  BY Zenon DEF Total, SupplierAmounts, MapThenSumSet, MapThenFoldSet

LEMMA AmountsAreNumbers ==
  ASSUME IInv, NEW S \in SUBSET Made
  PROVE  /\ IsFiniteSet(S)
         /\ AwardAmounts(S) \in [S -> Int]
<1>1. S \subseteq Award /\ \A a \in S : award[a] \in Awards
  BY DEF Made, IInv, TypeOK
<1>2. IsFiniteSet(S)
  BY <1>1, RowsAssumption, FS_Subset
<1>3. \A a \in S : amount[award[a].bid] \in Int
  BY <1>1, AmountAssumption DEF Awards
<1> QED BY <1>2, <1>3 DEF AwardAmounts

\* Every award is published and has a contract of its own.
LEMMA QuietRows ==
  ASSUME IInv, CalmInv, Quiet
  PROVE  /\ awards = Made
         /\ Made # {} => total_value = award_value
         /\ [r \in Signed |-> contract[r]] \in Bijection(Signed, Made)
         /\ Made = {contract[r] : r \in Signed}
<1>1. Accounted /\ SumKept /\ \A p \in Proc : At(p, "idle")
  BY DEF Quiet, CalmInv
<1>2. \A a \in Made : award[a].status = "PUBLISHED" /\ \E r \in Ref : contract[r] = a
  BY <1>1 DEF Accounted
<1>3. awards = Made
  BY <1>2 DEF awards
<1>4. Made # {} => total_value = award_value
  BY <1>1 DEF SumKept
<1> DEFINE f == [r \in Signed |-> contract[r]]
<1>5. \A r \in Signed : contract[r] \in Made
  BY DEF Signed, IInv, TypeOK
<1>6. \A r, s \in Signed : f[r] = f[s] => r = s
  BY DEF IInv, SignedMeansPublished, Signed
<1>7. \A a \in Made : \E r \in Signed : contract[r] = a
  BY <1>2, RowsAssumption DEF Signed, Made
<1>8. f \in [Signed -> Made] /\ \A a \in Made : \E r \in Signed : f[r] = a
  BY <1>5, <1>7
<1>9. f \in Bijection(Signed, Made)
  BY <1>6, <1>8, Zenon DEF Bijection, Injection, IsInjective, Surjection
<1>10. Made = {contract[r] : r \in Signed}
  BY <1>5, <1>7
<1> QED BY <1>3, <1>4, <1>9, <1>10

LEMMA QuietLists ==
  ASSUME IInv, CalmInv, Quiet
  PROVE  /\ AwardsFeed = awards /\ AwardViewSet = awards /\ ocds_active = awards
         /\ bulk = awards /\ mda_detail = awards
         /\ {contract[r] : r \in contract_stage} = awards
         /\ UNION {supplier_detail(b).awards : b \in Bid} = awards
<1>1. awards = Made /\ Made = {contract[r] : r \in Signed}
  BY QuietRows
<1>2. \A a \in Made : award[a] \in Awards
  BY MadeRows DEF IInv
<1>3. AwardsFeed = awards /\ AwardViewSet = awards /\ ocds_active = awards
  BY <1>1, <1>2 DEF AwardsFeed, AwardViewSet, ocds_active, awards, Awards
<1>4. contract_stage = Signed
  BY RowsAssumption DEF contract_stage, Signed, Made, IInv, TypeOK
<1>5. UNION {supplier_detail(b).awards : b \in Bid} = awards
  <2>1. \A b \in Bid : supplier_detail(b).awards = {a \in awards : award[a].bid = b}
    BY DEF supplier_detail, awards_won
  <2>2. \A a \in awards : award[a].bid \in Bid
    BY <1>1, <1>2 DEF Awards
  <2> QED BY <2>1, <2>2
<1> QED BY <1>1, <1>3, <1>4, <1>5 DEF bulk, mda_detail

LEMMA QuietContracts ==
  ASSUME IInv, CalmInv, Quiet
  PROVE  /\ contracts_dashboard.total_value = Value(Made)
         /\ Cardinality(Signed) = Cardinality(awards)
<1> DEFINE f == [r \in Signed |-> contract[r]]
           w == ContractAmounts
           u == AwardAmounts(Made)
<1>1. /\ awards = Made
      /\ f \in Bijection(Signed, Made)
      /\ Made = {contract[r] : r \in Signed}
  BY QuietRows
<1>2. IsFiniteSet(Made) /\ u \in [Made -> Int]
  BY AmountsAreNumbers
<1>3. /\ f \in [Signed -> Made]
      /\ \A r, s \in Signed : f[r] = f[s] => r = s
  <2>1. f \in [Signed -> Made] /\ IsInjective(f)
    BY <1>1, Zenon DEF Bijection, Injection
  <2> QED BY <2>1 DEF IsInjective
<1>4. IsFiniteSet(Signed) /\ Cardinality(Signed) = Cardinality(Made)
  <2>1. f \in Injection(Signed, Made) /\ f \in Surjection(Signed, Made)
    BY <1>1 DEF Bijection
  <2> HIDE DEF f
  <2> QED BY <1>2, <2>1, FS_Injection
<1>5. Made = {f[r] : r \in Signed}
  BY <1>1
<1>6. \A r \in Signed : u[f[r]] = w[r]
  BY <1>3 DEF AwardAmounts, ContractAmounts
<1>7. w \in [Signed -> Int]
  <2>1. \A r \in Signed : w[r] \in Int
    BY <1>2, <1>3, <1>6
  <2> QED BY <2>1 DEF ContractAmounts
<1>8. Total(w, Signed) = Total(u, Made)
  <2> HIDE DEF f, w, u
  <2> QED BY <1>2, <1>3, <1>4, <1>5, <1>6, <1>7, TotalOneForOne
<1>9. contracts_dashboard.total_value = Value(Made)
  BY <1>8, ContractedIsTotal, ValueIsTotal
<1> QED BY <1>1, <1>4, <1>9

LEMMA QuietSuppliers ==
  ASSUME IInv
  PROVE  MapThenSumSet(LAMBDA b : supplier_detail(b).total_awarded, Bid) = Value(awards)
<1> DEFINE w == AwardAmounts(awards)
           u == SupplierAmounts
           f == [a \in awards |-> award[a].bid]
           Part(b) == {a \in awards : f[a] = b}
<1>1. awards \in SUBSET Made
  BY DEF awards
<1>2. IsFiniteSet(awards) /\ w \in [awards -> Int]
  BY <1>1, AmountsAreNumbers
<1>3. f \in [awards -> Bid]
  BY <1>1, MadeRows DEF IInv, Awards
<1>4. ASSUME NEW b \in Bid
      PROVE  /\ u[b] = Total([a \in Part(b) |-> w[a]], Part(b))
             /\ u[b] \in Int
  <2>1. Part(b) = awards_won(b)
    BY DEF awards_won
  <2>2. u[b] = Value(awards_won(b))
    BY DEF SupplierAmounts, supplier_detail
  <2>3. [a \in Part(b) |-> w[a]] = AwardAmounts(awards_won(b))
    BY <2>1 DEF AwardAmounts, awards_won
  <2>4. u[b] = Total(AwardAmounts(awards_won(b)), awards_won(b))
    BY <2>2, ValueIsTotal
  <2>5. awards_won(b) \in SUBSET Made
    BY <1>1 DEF awards_won
  <2>6. IsFiniteSet(awards_won(b)) /\ AwardAmounts(awards_won(b)) \in [awards_won(b) -> Int]
    BY <2>5, AmountsAreNumbers
  <2>7. Total(AwardAmounts(awards_won(b)), awards_won(b)) \in Int
    BY <2>6, TotalIsNumber
  <2> QED BY <2>1, <2>3, <2>4, <2>7
<1>5. u \in [Bid -> Int]
  BY <1>4 DEF SupplierAmounts
<1>6. Total(u, Bid) = Total(w, awards)
  <2> HIDE DEF w, u, f
  <2> QED BY <1>2, <1>3, <1>4, <1>5, RowsAssumption, TotalByPart
<1> QED BY <1>6, SuppliersIsTotal, ValueIsTotal

LEMMA RegisterInv == IInv /\ CalmInv => RegistersAgree
<1> SUFFICES ASSUME IInv, CalmInv PROVE RegistersAgree
  OBVIOUS
<1>1. ASSUME Quiet,
             NEW shown \in {AwardsFeed, AwardViewSet, ocds_active, bulk, mda_detail,
                            {contract[r] : r \in contract_stage},
                            UNION {supplier_detail(b).awards : b \in Bid}}
      PROVE  shown = awards
  BY <1>1, QuietLists
<1>2. ASSUME Quiet,
             NEW sum \in {awarded_value_ngn, mda_dashboard.awarded, mda_dashboard.contracted,
                          contracts_dashboard.total_value,
                          MapThenSumSet(LAMBDA b : supplier_detail(b).total_awarded, Bid)}
      PROVE  sum = stats.total_award_value
  <2>1. awards = Made
    BY <1>2, QuietRows
  <2>2. stats.total_award_value = Value(awards)
    BY DEF stats, live_metrics
  <2>3. awarded_value_ngn = Value(awards) /\ mda_dashboard.awarded = Value(awards)
    BY <2>1 DEF awarded_value_ngn, mda_dashboard
  <2>4. /\ contracts_dashboard.total_value = Value(awards)
        /\ mda_dashboard.contracted = Value(awards)
    BY <1>2, <2>1, QuietContracts DEF mda_dashboard
  <2>5. MapThenSumSet(LAMBDA b : supplier_detail(b).total_awarded, Bid) = Value(awards)
    BY QuietSuppliers
  <2> QED BY <1>2, <2>2, <2>3, <2>4, <2>5
<1>3. ASSUME Quiet, awards # {} PROVE total_value = live_metrics.total_award_value
  <2>1. awards = Made /\ total_value = award_value
    BY <1>3, QuietRows
  <2>2. award_value = Value(Made)
    BY Zenon DEF award_value, Value
  <2> QED BY <2>1, <2>2 DEF live_metrics
<1>4. ASSUME Quiet PROVE stats.contracts_signed = status.awards
  BY <1>4, QuietContracts DEF stats, status, live_metrics
<1>5. \A r \in ContractViewSet \cup contract_stage : contract[r] \in awards
  BY RowsAssumption
     DEF ContractViewSet, Signed, contract_stage, awards, Made, IInv, TypeOK, SignedMeansPublished
<1> QED BY <1>1, <1>2, <1>3, <1>4, <1>5 DEF RegistersAgree

\* The pages, interfaces and sums that select the awards by different conditions come to
\* the same whenever the calls have been left alone, however many awards, bids, suppliers
\* and contracts there are; and no contract is shown whose award the award page withholds.
THEOREM RegistersStayEqual == Spec => []RegistersAgree
<1>1. Spec => []IInv
  BY InitIInv, Inductive, PTL DEF Spec
<1>2. Spec => []CalmInv
  BY <1>1, InitCalm, CalmInductive, PTL DEF Spec
<1> QED BY <1>1, <1>2, RegisterInv, PTL

=============================================================================
