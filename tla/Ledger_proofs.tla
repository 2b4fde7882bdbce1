--------------------------- MODULE Ledger_proofs ---------------------------
(***************************************************************************)
(* ChainIntact, RowsAndEventsAgree and the refinement of AppendOnlyLog, for*)
(* any number of sessions and facts.                                       *)
(*                                                                         *)
(* ChainIntact is not inductive: it says nothing of the rows a transaction *)
(* has inserted and not committed.  IInv says that what each session sees, *)
(* its own rows included, is a chain, and that at most one session has     *)
(* rows of its own: the others are held off by the UNIQUE index alone.     *)
(* The refinement needs two facts more: a row's number is its place in the *)
(* history, and a transaction never inserts more than its quota of events. *)
(***************************************************************************)
EXTENDS Ledger, FiniteSetTheorems, FunctionTheorems, TLAPS

Seqs(S) == {r.seq : r \in S}

\* The numbers of S are 1..n.
Numbered(S) == \E n \in {0} \cup Seqs(S) : Seqs(S) = 1 .. n

Chain(S) ==
  /\ Numbered(S)
  /\ \A r, q \in S : r.seq = q.seq => r = q
  /\ \A r \in S : r.row_hash = row_hash(r.prev_hash, r.fact)
  /\ \A r \in S : r.seq = 1 => r.prev_hash = GENESIS_HASH
  /\ \A r, q \in S : q.seq = r.seq - 1 => r.prev_hash = q.row_hash

Appending == {"read", "wait", "insert"}

\* What a session has in hand.
SessionInv(w) ==
  /\ Chain(Visible(w))
  /\ \A r \in pending[w] : ~Taken(rows, r.seq) /\ r.fact = fact[w]
  /\ pc[w] \in {"idle", "save"} => pending[w] = {}
  /\ pc[w] = "commit" => pending[w] # {}
  /\ pc[w] \in {"wait", "insert"} =>
       /\ \/ last[w] \in Visible(w)
          \/ last[w] = NoEvent /\ pending[w] = {}
       /\ \A r \in pending[w] : r.seq <= last[w].seq
  /\ pc[w] \in Appending => left[w] > 0
  /\ pc[w] = "save" /\ fact[w] \in SplitFact => left[w] > 0

OneInserter == \A v, w \in Writer : v # w => pending[v] = {} \/ pending[w] = {}

\* What each handler has made of its fact so far.
FactInv(w) ==
  pc[w] # "idle" =>
    /\ fact[w] \in started
    /\ \A v \in Writer \ {w} : pc[v] # "idle" => fact[v] # fact[w]
    /\ fact[w] \in AtomicFact =>
         pc[w] # "save" /\ fact[w] \notin business /\ ~Logged(fact[w])
    /\ fact[w] \in SplitFact /\ pc[w] # "save" => fact[w] \in business
    /\ fact[w] \in LogFirstFact /\ pc[w] = "save" => Logged(fact[w])

UsedFacts == business \subseteq started /\ \A r \in rows : r.fact \in started

IInv ==
  /\ TypeOK
  /\ Chain(rows)
  /\ \A w \in Writer : SessionInv(w)
  /\ OneInserter
  /\ \A w \in Writer : FactInv(w)
  /\ UsedFacts
  /\ RowsAndEventsAgree

-----------------------------------------------------------------------------
\* The next row extends a chain: its number is the first free one.
LEMMA ChainExtends ==
  ASSUME NEW S, S \subseteq Event, Chain(S), NEW l, NEW e \in Event,
         l \in S \/ (l = NoEvent /\ S = {}),
         e.seq = l.seq + 1,
         e.prev_hash = l.row_hash,
         e.row_hash = row_hash(e.prev_hash, e.fact),
         ~Taken(S, e.seq)
  PROVE  Chain(S \cup {e})
PROOF
<1> DEFINE T == S \cup {e}
<1>1. \A r \in T : r \in Event /\ r.seq \in Nat \ {0}
  BY DEF Event
<1>2. PICK n \in {0} \cup Seqs(S) : Seqs(S) = 1 .. n
  BY DEF Chain, Numbered
<1>3. n \in Nat
  BY <1>1, <1>2 DEF Seqs
<1>4. e.seq = n + 1
  <2>1. CASE l \in S
    <3>1. l.seq \in 1 .. n
      BY <2>1, <1>2 DEF Seqs
    <3>2. e.seq \notin 1 .. n
      BY <1>2 DEF Seqs, Taken
    <3> QED BY <3>1, <3>2, <1>3
  <2>2. CASE l = NoEvent /\ S = {}
    <3>1. Seqs(S) = {}
      BY <2>2 DEF Seqs
    <3>2. n = 0
      BY <3>1, <1>2
    <3> QED BY <3>2, <2>2 DEF NoEvent
  <2> QED BY <2>1, <2>2
<1>5. l.seq = n
  <2>1. l.seq \in Nat
    BY DEF Event, NoEvent
  <2> QED BY <1>3, <1>4, <2>1
<1>6. Numbered(T)
  <2>1. Seqs(T) = Seqs(S) \cup {e.seq}
    BY DEF Seqs
  <2>2. 1 .. (n + 1) = (1 .. n) \cup {n + 1}
    BY <1>3
  <2>3. Seqs(T) = 1 .. e.seq
    BY <2>1, <2>2, <1>2, <1>4
  <2> HIDE DEF T
  <2> QED BY <2>1, <2>3 DEF Numbered
<1>7. \A r, q \in T : r.seq = q.seq => r = q
  BY DEF Chain, Taken
<1>8. \A r \in T : r.row_hash = row_hash(r.prev_hash, r.fact)
  BY DEF Chain
<1>9. \A r \in T : r.seq = 1 => r.prev_hash = GENESIS_HASH
  <2>1. ASSUME e.seq = 1 PROVE e.prev_hash = GENESIS_HASH
    <3>1. l.seq = 0
      BY <2>1, <1>3, <1>4, <1>5
    <3>2. l = NoEvent
      BY <3>1, <1>1
    <3> QED BY <3>2 DEF NoEvent
  <2> QED BY <2>1 DEF Chain
<1>10. \A r, q \in T : q.seq = r.seq - 1 => r.prev_hash = q.row_hash
  <2>1. \A r, q \in S : q.seq = r.seq - 1 => r.prev_hash = q.row_hash
    BY DEF Chain
  <2>2. \A q \in S : q.seq = e.seq - 1 => e.prev_hash = q.row_hash
    <3> SUFFICES ASSUME NEW q \in S, q.seq = e.seq - 1
                 PROVE  e.prev_hash = q.row_hash
      OBVIOUS
    <3>1. q.seq = l.seq
      BY <1>3, <1>4, <1>5
    <3>2. l \in S
      OBVIOUS
    <3> QED BY <3>1, <3>2 DEF Chain
  <2>3. \A r \in S : e.seq # r.seq - 1
    <3>1. \A r \in S : r.seq \in 1 .. n
      BY <1>2 DEF Seqs
    <3> QED BY <3>1, <1>3, <1>4
  <2>4. e.seq # e.seq - 1
    BY <1>1
  <2> QED BY <2>1, <2>2, <2>3, <2>4
<1> QED BY <1>6, <1>7, <1>8, <1>9, <1>10 DEF Chain

\* A chain is what verify_chain accepts.
LEMMA ChainRows == ASSUME TypeOK, Chain(rows) PROVE ChainIntact
PROOF
<1>1. PICK n \in {0} \cup Seqs(rows) : Seqs(rows) = 1 .. n
  BY DEF Chain, Numbered
<1>2. \A r \in rows : r.seq \in Nat \ {0}
  BY DEF TypeOK, Event
<1>3. n \in Nat
  BY <1>1, <1>2 DEF Seqs
<1>4. NoGap
  <2> SUFFICES ASSUME NEW r \in rows, r.seq > 1
               PROVE  \E q \in rows : q.seq = r.seq - 1
    BY DEF NoGap
  <2>1. r.seq \in 1 .. n
    BY <1>1 DEF Seqs
  <2>2. r.seq - 1 \in Seqs(rows)
    BY <2>1, <1>1, <1>3
  <2> QED BY <2>2 DEF Seqs
<1>5. NoFork /\ Recomputes /\ Linked
  BY DEF NoFork, Recomputes, Linked, Chain
<1> QED BY <1>4, <1>5 DEF ChainIntact

LEMMA EmptyChain == Chain({})
PROOF
<1>1. Seqs({}) = {}
  BY DEF Seqs
<1>2. Seqs({}) = 1 .. 0
  BY <1>1
<1>3. Numbered({})
  BY <1>2 DEF Numbered
<1> QED BY <1>3 DEF Chain

-----------------------------------------------------------------------------
LEMMA NewEventType ==
  ASSUME TypeOK, NEW w \in Writer, fact[w] \in Fact
  PROVE  /\ NewEvent(w) \in Event
         /\ NewEvent(w).seq = last[w].seq + 1
         /\ NewEvent(w).fact = fact[w]
         /\ NewEvent(w).prev_hash = last[w].row_hash
         /\ NewEvent(w).row_hash = row_hash(NewEvent(w).prev_hash, NewEvent(w).fact)
PROOF
<1>1. last[w].seq \in Nat /\ last[w].row_hash \in Seq(Fact)
  <2>1. GENESIS_HASH \in Seq(Fact)
    BY DEF GENESIS_HASH
  <2>2. CASE last[w] \in Event
    BY <2>2 DEF Event
  <2>3. CASE last[w] = NoEvent
    BY <2>1, <2>3 DEF NoEvent
  <2> QED BY <2>2, <2>3 DEF TypeOK
<1>2. row_hash(last[w].row_hash, fact[w]) \in Seq(Fact)
  BY <1>1 DEF row_hash
<1> QED BY <1>1, <1>2 DEF NewEvent, Event

LEMMA InitInv == Init => IInv
PROOF
<1> SUFFICES ASSUME Init PROVE IInv
  OBVIOUS
<1>1. TypeOK
  BY DEF Init, TypeOK, NoEvent, NoFact
<1>2. Chain(rows) /\ \A w \in Writer : Chain(Visible(w))
  <2>1. rows = {} /\ \A w \in Writer : Visible(w) = {}
    BY DEF Init, Visible
  <2> QED BY <2>1, EmptyChain
<1>3. \A w \in Writer : SessionInv(w)
  BY <1>2 DEF Init, SessionInv, Appending
<1>4. OneInserter /\ (\A w \in Writer : FactInv(w)) /\ UsedFacts
  BY DEF Init, OneInserter, FactInv, UsedFacts
<1>5. RowsAndEventsAgree
  BY DEF Init, RowsAndEventsAgree, Logged
<1> QED BY <1>1, <1>2, <1>3, <1>4, <1>5 DEF IInv

LEMMA TypeStep == TypeOK /\ (\A w \in Writer : FactInv(w) /\ SessionInv(w)) /\ [Next]_vars => TypeOK'
PROOF
<1> SUFFICES ASSUME TypeOK, \A w \in Writer : FactInv(w) /\ SessionInv(w), [Next]_vars
             PROVE  TypeOK'
  OBVIOUS
<1>0. \A w \in Writer : pc[w] # "idle" => fact[w] \in Fact
  BY DEF TypeOK, FactInv
<1>1. ASSUME NEW w \in Writer, NEW f \in Fact, Begin(w, f) PROVE TypeOK'
  <2>1. Events(f) \in Nat
    BY EventsAssumption DEF Events
  <2> QED BY <1>1, <2>1 DEF TypeOK, Begin
<1>2. ASSUME NEW w \in Writer, SaveFact(w) PROVE TypeOK'
  BY <1>0, <1>2 DEF TypeOK, SaveFact
<1>3. ASSUME NEW w \in Writer, ReadTail(w) PROVE TypeOK'
  <2>1. Visible(w) \subseteq Event
    BY DEF TypeOK, Visible
  <2>2. \A r \in Visible(w) : r.seq \in Nat
    BY <2>1 DEF Event
  <2>3. last' \in [Writer -> Event \cup {NoEvent}] /\ locked' \in [Writer -> Nat]
    BY <1>3, <2>1, <2>2 DEF TypeOK, ReadTail
  <2>4. pc' \in [Writer -> {"idle", "save", "read", "wait", "insert", "commit"}]
    BY <1>3 DEF TypeOK, ReadTail
  <2> QED BY <1>3, <2>3, <2>4 DEF TypeOK, ReadTail
<1>4. ASSUME NEW w \in Writer, AcquireTail(w) PROVE TypeOK'
  <2>1. last[w].seq \in Nat
    BY DEF TypeOK, Event, NoEvent
  <2> QED BY <1>4, <2>1 DEF TypeOK, AcquireTail
<1>5. ASSUME NEW w \in Writer, Insert(w) PROVE TypeOK'
  <2>1. NewEvent(w) \in Event
    BY <1>0, <1>5, NewEventType DEF Insert
  <2>2. left[w] - 1 \in Nat
    BY <1>5 DEF TypeOK, SessionInv, Appending, Insert
  <2>3. pending' \in [Writer -> SUBSET Event]
    BY <1>5, <2>1 DEF TypeOK, Insert
  <2>4. left' \in [Writer -> Nat]
    BY <1>5, <2>2 DEF TypeOK, Insert
  <2>5. pc' \in [Writer -> {"idle", "save", "read", "wait", "insert", "commit"}]
    BY <1>5 DEF TypeOK, Insert
  <2> QED BY <1>5, <2>3, <2>4, <2>5 DEF TypeOK, Insert
<1>6. ASSUME NEW w \in Writer, Abandon(w) PROVE TypeOK'
  BY <1>6 DEF TypeOK, Abandon, Release
<1>7. ASSUME NEW w \in Writer, Commit(w) PROVE TypeOK'
  <2>1. business' \subseteq Fact /\ rows' \subseteq Event
    BY <1>0, <1>7 DEF TypeOK, Commit, Visible
  <2>2. pc' \in [Writer -> {"idle", "save", "read", "wait", "insert", "commit"}]
    BY <1>7 DEF TypeOK, Commit
  <2>3. last' \in [Writer -> Event \cup {NoEvent}]
    BY <1>7 DEF TypeOK, Commit
  <2>4. locked' \in [Writer -> Nat] /\ pending' \in [Writer -> SUBSET Event]
    BY <1>7 DEF TypeOK, Commit, Release
  <2> QED BY <1>7, <2>1, <2>2, <2>3, <2>4 DEF TypeOK, Commit
<1>8. ASSUME UNCHANGED vars PROVE TypeOK'
  BY <1>8 DEF TypeOK, vars
<1> QED
  BY <1>1, <1>2, <1>3, <1>4, <1>5, <1>6, <1>7, <1>8
  DEF Next, Step, Collide, Crash, Quiesce

-----------------------------------------------------------------------------
\* The steps that touch neither the committed nor the pending rows.
LEMMA BeginStep ==
  ASSUME IInv, TypeOK', NEW w \in Writer, NEW f \in Fact, Begin(w, f)
  PROVE  IInv'
PROOF
<1> USE DEF IInv
<1>1. \A v \in Writer : Visible(v)' = Visible(v)
  BY DEF Begin, Visible
<1>2. \A v \in Writer : SessionInv(v)'
  <2> SUFFICES ASSUME NEW v \in Writer PROVE SessionInv(v)'
    OBVIOUS
  <2>1. Chain(Visible(v))' /\ Visible(v)' = Visible(v)
    BY <1>1 DEF SessionInv
  <2>2. CASE v = w
    <3>1. Events(f) > 0
      BY EventsAssumption DEF Events
    <3>2. pc'[v] \in {"save", "read"} /\ left'[v] = Events(f) /\ pending'[v] = {}
      BY <2>2 DEF TypeOK, Begin, SessionInv
    <3> QED BY <2>1, <3>1, <3>2 DEF SessionInv, Appending
  <2>3. CASE v # w
    <3>1. /\ pc'[v] = pc[v] /\ fact'[v] = fact[v] /\ left'[v] = left[v]
          /\ UNCHANGED <<last, pending, rows>>
      BY <2>3 DEF TypeOK, Begin
    <3> QED BY <2>1, <3>1 DEF SessionInv, Appending, Taken
  <2> QED BY <2>2, <2>3
<1>3. OneInserter'
  BY DEF OneInserter, Begin
<1>4. f \notin business /\ ~Logged(f)
  BY DEF Begin, UsedFacts, Logged
<1>5. \A v \in Writer : FactInv(v)'
  <2> SUFFICES ASSUME NEW v \in Writer, pc'[v] # "idle" PROVE FactInv(v)'
    BY DEF FactInv
  <2>1. UNCHANGED <<business, rows>> /\ (\A g \in Fact : Logged(g)' = Logged(g))
    BY DEF Begin, Logged
  <2>2. \A u \in Writer \ {w} : pc'[u] = pc[u] /\ fact'[u] = fact[u]
    BY DEF TypeOK, Begin
  <2>3. pc'[w] = (IF SavesFirst(f) THEN "save" ELSE "read") /\ fact'[w] = f /\ started' = started \cup {f}
    BY DEF TypeOK, Begin
  <2>4. \A u \in Writer \ {w} : pc[u] # "idle" => fact[u] # f
    BY DEF FactInv, Begin
  <2>5. CASE v = w
    BY <2>1, <2>2, <2>3, <2>4, <2>5, <1>4, FactAssumption DEF FactInv, SavesFirst, Fact
  <2>6. CASE v # w
    BY <2>1, <2>2, <2>3, <2>4, <2>6 DEF FactInv, TypeOK, Logged
  <2> QED BY <2>5, <2>6
<1>6. UsedFacts' /\ RowsAndEventsAgree' /\ Chain(rows)'
  BY DEF Begin, UsedFacts, RowsAndEventsAgree, Logged
<1> QED BY <1>2, <1>3, <1>5, <1>6

LEMMA SaveFactStep ==
  ASSUME IInv, TypeOK', NEW w \in Writer, SaveFact(w)
  PROVE  IInv'
PROOF
<1> USE DEF IInv
<1>1. /\ fact[w] \in Fact /\ business' = business \cup {fact[w]}
      /\ pc'[w] = (IF SavesFirst(fact[w]) THEN "read" ELSE "idle")
      /\ \A u \in Writer \ {w} : pc'[u] = pc[u]
      /\ UNCHANGED <<rows, started, fact, left, last, locked, pending>>
  BY DEF TypeOK, SaveFact, FactInv
<1>2. \A v \in Writer : SessionInv(v)'
  <2> SUFFICES ASSUME NEW v \in Writer PROVE SessionInv(v)'
    OBVIOUS
  <2>1. Chain(Visible(v))'
    BY <1>1 DEF SessionInv, Visible
  <2>2. CASE v = w
    BY <1>1, <2>1, <2>2 DEF SessionInv, Appending, Taken, SaveFact, SavesFirst
  <2>3. CASE v # w
    <3>1. pc'[v] = pc[v]
      BY <2>3, <1>1
    <3> QED BY <1>1, <2>1, <3>1 DEF SessionInv, Appending, Taken, Visible
  <2> QED BY <2>2, <2>3
<1>3. \A g \in Fact : Logged(g)' = Logged(g)
  BY <1>1 DEF Logged
<1>4. \A v \in Writer : FactInv(v)'
  BY <1>1, <1>3, FactAssumption DEF FactInv, SavesFirst, SaveFact, Fact, TypeOK
<1>5. RowsAndEventsAgree'
  BY <1>1, <1>3, FactAssumption DEF RowsAndEventsAgree, FactInv, SaveFact, Fact
<1>6. UsedFacts' /\ OneInserter' /\ Chain(rows)'
  BY <1>1 DEF UsedFacts, OneInserter, FactInv, SaveFact
<1> QED BY <1>2, <1>4, <1>5, <1>6

\* Steps after which rows, pending, business and the facts in hand are as before,
\* and the handlers that were at work still are.
LEMMA QuietFacts ==
  ASSUME IInv, NEW w \in Writer, pc[w] \in Appending, pc'[w] \in Appending,
         \A u \in Writer \ {w} : pc'[u] = pc[u],
         UNCHANGED <<rows, business, started, fact, pending>>
  PROVE  /\ \A v \in Writer : FactInv(v)'
         /\ OneInserter' /\ UsedFacts' /\ RowsAndEventsAgree' /\ Chain(rows)'
         /\ \A v \in Writer : Chain(Visible(v))'
PROOF
<1> USE DEF IInv
<1>1. \A g \in Fact : Logged(g)' = Logged(g)
  BY DEF Logged
<1>2. \A v \in Writer : FactInv(v)'
  BY <1>1 DEF FactInv, Appending, TypeOK, Logged
<1>3. \A v \in Writer : Chain(Visible(v))'
  BY DEF SessionInv, Visible
<1> QED BY <1>1, <1>2, <1>3 DEF OneInserter, UsedFacts, RowsAndEventsAgree, Logged

LEMMA ReadTailStep ==
  ASSUME IInv, TypeOK', NEW w \in Writer, ReadTail(w)
  PROVE  IInv'
PROOF
<1> USE DEF IInv
<1>1. UNCHANGED <<rows, business, started, fact, left, pending>>
  BY DEF ReadTail
<1>2. pc[w] = "read" /\ pc'[w] \in {"insert", "wait"} /\ \A u \in Writer \ {w} : pc'[u] = pc[u] /\ last'[u] = last[u]
  BY DEF TypeOK, ReadTail
<1>3. /\ \/ last'[w] \in Visible(w)
         \/ last'[w] = NoEvent /\ pending[w] = {}
      /\ \A r \in pending[w] : r.seq <= last'[w].seq
  BY DEF TypeOK, ReadTail, IsTail, Visible
<1>4. /\ \A v \in Writer : FactInv(v)'
      /\ OneInserter' /\ UsedFacts' /\ RowsAndEventsAgree' /\ Chain(rows)'
      /\ \A v \in Writer : Chain(Visible(v))'
  BY <1>1, <1>2, QuietFacts DEF Appending
<1>5. \A v \in Writer : SessionInv(v)'
  <2> SUFFICES ASSUME NEW v \in Writer PROVE SessionInv(v)'
    OBVIOUS
  <2>1. CASE v = w
    BY <1>1, <1>2, <1>3, <1>4, <2>1 DEF SessionInv, Appending, Taken, Visible
  <2>2. CASE v # w
    <3>1. pc'[v] = pc[v] /\ last'[v] = last[v]
      BY <2>2, <1>2
    <3> QED BY <1>1, <1>4, <3>1 DEF SessionInv, Appending, Taken, Visible
  <2> QED BY <2>1, <2>2
<1> QED BY <1>4, <1>5

LEMMA AcquireTailStep ==
  ASSUME IInv, TypeOK', NEW w \in Writer, AcquireTail(w)
  PROVE  IInv'
PROOF
<1> USE DEF IInv
<1>1. UNCHANGED <<rows, business, started, fact, left, last, pending>>
  BY DEF AcquireTail
<1>2. pc[w] = "wait" /\ pc'[w] = "insert" /\ \A u \in Writer \ {w} : pc'[u] = pc[u]
  BY DEF TypeOK, AcquireTail
<1>3. /\ \A v \in Writer : FactInv(v)'
      /\ OneInserter' /\ UsedFacts' /\ RowsAndEventsAgree' /\ Chain(rows)'
      /\ \A v \in Writer : Chain(Visible(v))'
  BY <1>1, <1>2, QuietFacts DEF Appending
<1>4. \A v \in Writer : SessionInv(v)'
  <2> SUFFICES ASSUME NEW v \in Writer PROVE SessionInv(v)'
    OBVIOUS
  <2>1. CASE v = w
    BY <1>1, <1>2, <1>3, <2>1 DEF SessionInv, Appending, Taken, Visible
  <2>2. CASE v # w
    <3>1. pc'[v] = pc[v]
      BY <2>2, <1>2
    <3> QED BY <1>1, <1>3, <3>1 DEF SessionInv, Appending, Taken, Visible
  <2> QED BY <2>1, <2>2
<1> QED BY <1>3, <1>4

\* No other session can have rows of its own when this one inserts: between them
\* they would have used the number this one is about to take.
LEMMA InsertAlone ==
  ASSUME IInv, NEW w \in Writer, Insert(w), NEW v \in Writer, v # w
  PROVE  pending[v] = {}
PROOF
<1> USE DEF IInv
<1> DEFINE e == NewEvent(w)
<1>1. fact[w] \in Fact
  BY DEF TypeOK, FactInv, Insert
<1>2. e \in Event /\ e.seq = last[w].seq + 1
  BY <1>1, NewEventType
<1>3. ~Taken(rows, e.seq) /\ ~Taken(pending[v], e.seq)
  BY DEF Insert
<1> SUFFICES ASSUME pending[v] # {} PROVE FALSE
  OBVIOUS
<1>4. pending[w] = {} /\ Visible(w) = rows
  BY DEF OneInserter, Visible
<1>5. last[w] \in rows \/ last[w] = NoEvent
  BY <1>4 DEF SessionInv, Insert
<1>6. PICK n \in {0} \cup Seqs(rows) : Seqs(rows) = 1 .. n
  BY DEF Chain, Numbered
<1>7. PICK m \in {0} \cup Seqs(Visible(v)) : Seqs(Visible(v)) = 1 .. m
  BY DEF SessionInv, Chain, Numbered
<1>8. n \in Nat /\ m \in Nat
  <2>1. \A r \in Visible(v) : r.seq \in Nat
    BY DEF TypeOK, Event, Visible
  <2> QED BY <2>1, <1>6, <1>7 DEF Seqs, Visible
<1>9. \A r \in rows : r.seq \in 1 .. n
  BY <1>6 DEF Seqs
<1>10. e.seq \notin 1 .. n /\ e.seq \notin Seqs(Visible(v))
  BY <1>3, <1>6 DEF Seqs, Taken, Visible
<1>11. e.seq <= n + 1 /\ e.seq \in Nat \ {0}
  <2>1. last[w].seq \in 0 .. n
    BY <1>5, <1>8, <1>9 DEF NoEvent
  <2> QED BY <2>1, <1>2, <1>8
<1>12. e.seq = n + 1
  BY <1>8, <1>10, <1>11
<1>13. PICK r \in pending[v] : TRUE
  OBVIOUS
<1>14. r.seq \in 1 .. m /\ r.seq \notin 1 .. n
  <2>1. r.seq \in Seqs(Visible(v))
    BY DEF Seqs, Visible
  <2>2. ~Taken(rows, r.seq)
    BY DEF SessionInv
  <2>3. r.seq \notin Seqs(rows)
    BY <2>2 DEF Seqs, Taken
  <2> QED BY <2>1, <2>3, <1>6, <1>7
<1>15. m >= n + 1
  BY <1>8, <1>14
<1>16. e.seq \in 1 .. m
  BY <1>8, <1>12, <1>15
<1> QED BY <1>7, <1>10, <1>16

LEMMA InsertStep ==
  ASSUME IInv, TypeOK', NEW w \in Writer, Insert(w)
  PROVE  IInv'
PROOF
<1> USE DEF IInv
<1> DEFINE e == NewEvent(w)
<1>1. /\ UNCHANGED <<rows, business, started, fact, last>>
      /\ pc[w] = "insert" /\ pc'[w] \in {"read", "commit"}
      /\ pc'[w] = "read" => left'[w] > 0
      /\ pending'[w] = pending[w] \cup {e}
      /\ \A u \in Writer \ {w} : pc'[u] = pc[u] /\ left'[u] = left[u] /\ pending'[u] = {}
      /\ \A u \in Writer \ {w} : pending[u] = {}
  <2>1. \A u \in Writer \ {w} : pending[u] = {}
    BY InsertAlone
  <2>2. left[w] \in Nat /\ left'[w] = left[w] - 1 /\ pc'[w] = (IF left[w] > 1 THEN "read" ELSE "commit")
    BY DEF TypeOK, Insert
  <2>3. pending'[w] = pending[w] \cup {e}
    BY DEF TypeOK, Insert
  <2> QED BY <2>1, <2>2, <2>3 DEF TypeOK, Insert
<1>2. fact[w] \in Fact
  BY <1>1 DEF TypeOK, FactInv
<1>3. /\ e \in Event /\ e.seq = last[w].seq + 1 /\ e.fact = fact[w]
      /\ e.prev_hash = last[w].row_hash
      /\ e.row_hash = row_hash(e.prev_hash, e.fact)
  BY <1>2, NewEventType
<1>4. ~Taken(rows, e.seq)
  BY DEF Insert
<1>5. ~Taken(Visible(w), e.seq)
  <2>1. \A r \in pending[w] : r.seq <= last[w].seq
    BY <1>1 DEF SessionInv
  <2>2. last[w].seq \in Nat /\ \A r \in pending[w] : r.seq \in Nat
    BY DEF TypeOK, Event, NoEvent
  <2> QED BY <2>1, <2>2, <1>3, <1>4 DEF Taken, Visible
<1>6. last[w] \in Visible(w) \/ (last[w] = NoEvent /\ Visible(w) = {})
  <2>1. CASE last[w] = NoEvent /\ pending[w] = {}
    <3>1. ~Taken(rows, 1)
      BY <2>1, <1>3, <1>4 DEF NoEvent
    <3>2. PICK n \in {0} \cup Seqs(rows) : Seqs(rows) = 1 .. n
      BY DEF Chain, Numbered
    <3>3. n \in Nat
      BY <3>2 DEF TypeOK, Event, Seqs
    <3>4. 1 \notin Seqs(rows)
      BY <3>1 DEF Taken, Seqs
    <3>5. n = 0
      BY <3>2, <3>3, <3>4
    <3>6. Seqs(rows) = {}
      BY <3>2, <3>5
    <3> QED BY <3>6, <2>1 DEF Seqs, Visible
  <2> QED BY <2>1, <1>1 DEF SessionInv
<1>7. Chain(Visible(w) \cup {e})
  <2>1. Visible(w) \subseteq Event /\ Chain(Visible(w))
    BY DEF TypeOK, Visible, SessionInv
  <2> HIDE DEF e
  <2> QED BY <2>1, <1>3, <1>5, <1>6, ChainExtends
<1>8. Visible(w)' = Visible(w) \cup {e} /\ \A u \in Writer \ {w} : Visible(u)' = rows
  BY <1>1 DEF Visible
<1>9. \A v \in Writer : SessionInv(v)'
  <2> SUFFICES ASSUME NEW v \in Writer PROVE SessionInv(v)'
    OBVIOUS
  <2>1. CASE v = w
    <3>1. Chain(Visible(w))'
      BY <1>7, <1>8
    <3>2. \A r \in pending'[w] : ~Taken(rows, r.seq) /\ r.fact = fact[w]
      BY <1>1, <1>3, <1>4 DEF SessionInv
    <3> QED BY <3>1, <3>2, <1>1, <2>1 DEF SessionInv, Appending, Taken
  <2>2. CASE v # w
    <3>1. pc'[v] = pc[v] /\ left'[v] = left[v] /\ pending'[v] = {} /\ pending[v] = {}
      BY <2>2, <1>1
    <3>2. Chain(Visible(v))' /\ Visible(v)' = Visible(v)
      BY <1>8, <2>2, <3>1 DEF Visible
    <3> QED BY <3>1, <3>2, <1>1 DEF SessionInv, Appending, Taken
  <2> QED BY <2>1, <2>2
<1>10. \A g \in Fact : Logged(g)' = Logged(g)
  BY <1>1 DEF Logged
<1>11. \A v \in Writer : FactInv(v)'
  BY <1>1, <1>10 DEF FactInv, TypeOK, Logged
<1>12. OneInserter' /\ UsedFacts' /\ RowsAndEventsAgree' /\ Chain(rows)'
  BY <1>1, <1>10 DEF OneInserter, UsedFacts, RowsAndEventsAgree, Logged
<1> QED BY <1>9, <1>11, <1>12

LEMMA AbandonStep ==
  ASSUME IInv, TypeOK', NEW w \in Writer, Abandon(w)
  PROVE  IInv'
PROOF
<1> USE DEF IInv
<1>1. /\ UNCHANGED <<rows, business, started>>
      /\ pc'[w] = "idle" /\ pending'[w] = {}
      /\ \A u \in Writer \ {w} : /\ pc'[u] = pc[u] /\ fact'[u] = fact[u] /\ left'[u] = left[u]
                                 /\ last'[u] = last[u] /\ pending'[u] = pending[u]
  BY DEF TypeOK, Abandon, Release
<1>2. Visible(w)' = rows /\ \A u \in Writer \ {w} : Visible(u)' = Visible(u)
  BY <1>1 DEF Visible
<1>3. \A v \in Writer : SessionInv(v)'
  <2> SUFFICES ASSUME NEW v \in Writer PROVE SessionInv(v)'
    OBVIOUS
  <2>1. CASE v = w
    BY <1>1, <1>2, <2>1 DEF SessionInv, Appending
  <2>2. CASE v # w
    BY <1>1, <1>2, <2>2 DEF SessionInv, Appending, Taken
  <2> QED BY <2>1, <2>2
<1>4. \A g \in Fact : Logged(g)' = Logged(g)
  BY <1>1 DEF Logged
<1>5. \A v \in Writer : FactInv(v)'
  BY <1>1, <1>4 DEF FactInv, TypeOK, Logged
<1>6. OneInserter' /\ UsedFacts' /\ RowsAndEventsAgree' /\ Chain(rows)'
  BY <1>1, <1>4 DEF OneInserter, UsedFacts, RowsAndEventsAgree, Logged
<1> QED BY <1>3, <1>5, <1>6

LEMMA CommitStep ==
  ASSUME IInv, TypeOK', NEW w \in Writer, Commit(w)
  PROVE  IInv'
PROOF
<1> USE DEF IInv
<1>1. /\ rows' = Visible(w)
      /\ business' = (IF fact[w] \in AtomicFact THEN business \cup {fact[w]} ELSE business)
      /\ UNCHANGED <<started, fact, left>>
      /\ pc[w] = "commit"
      /\ pc'[w] = (IF fact[w] \in LogFirstFact THEN "save" ELSE "idle")
      /\ pending'[w] = {}
      /\ \A u \in Writer \ {w} : pc'[u] = pc[u] /\ last'[u] = last[u] /\ pending'[u] = pending[u]
  BY DEF TypeOK, Commit, Release
<1>2. pending[w] # {} /\ \A u \in Writer \ {w} : pending[u] = {}
  BY <1>1 DEF SessionInv, OneInserter
<1>3. \A u \in Writer : Visible(u)' = rows' /\ pending'[u] = {} /\ Visible(u) \subseteq rows'
  BY <1>1, <1>2 DEF Visible
<1>4. Chain(rows)' /\ \A u \in Writer : Chain(Visible(u))'
  BY <1>1, <1>3 DEF SessionInv
<1>5. fact[w] \in Fact /\ fact[w] \in started
  BY <1>1 DEF TypeOK, FactInv
<1>6. \A v \in Writer : SessionInv(v)'
  <2> SUFFICES ASSUME NEW v \in Writer PROVE SessionInv(v)'
    OBVIOUS
  <2>1. CASE v = w
    BY <1>1, <1>3, <1>4, <1>5, <2>1, FactAssumption DEF SessionInv, Appending
  <2>2. CASE v # w
    <3>1. pc'[v] = pc[v] /\ last'[v] = last[v] /\ left'[v] = left[v] /\ pending'[v] = {} /\ pending[v] = {}
      BY <1>1, <1>2, <1>3, <2>2
    <3> QED BY <1>1, <1>3, <1>4, <3>1 DEF SessionInv, Appending
  <2> QED BY <2>1, <2>2
<1>7. Logged(fact[w])' /\ \A g : g # fact[w] => Logged(g)' = Logged(g)
  <2>1. \A r \in pending[w] : r.fact = fact[w]
    BY DEF SessionInv
  <2> QED BY <2>1, <1>1, <1>2 DEF Logged, Visible
<1>8. \A v \in Writer : FactInv(v)'
  BY <1>1, <1>5, <1>7, FactAssumption DEF FactInv, TypeOK, Fact, Logged
<1>9. RowsAndEventsAgree'
  BY <1>1, <1>5, <1>7, FactAssumption DEF RowsAndEventsAgree, FactInv, Fact
<1>10. UsedFacts'
  <2>1. \A r \in pending[w] : r.fact = fact[w]
    BY DEF SessionInv
  <2> QED BY <2>1, <1>1, <1>5 DEF UsedFacts, Visible
<1>11. OneInserter'
  BY <1>3 DEF OneInserter
<1> QED BY <1>4, <1>6, <1>8, <1>9, <1>10, <1>11

LEMMA NextInv == IInv /\ [Next]_vars => IInv'
PROOF
<1> SUFFICES ASSUME IInv, [Next]_vars PROVE IInv'
  OBVIOUS
<1>1. TypeOK'
  BY TypeStep DEF IInv
<1>2. CASE \E w \in Writer, f \in Fact : Begin(w, f)
  BY <1>1, <1>2, BeginStep
<1>3. CASE \E w \in Writer : Step(w) \/ Crash(w)
  <2> PICK w \in Writer : Step(w) \/ Crash(w)
    BY <1>3
  <2>1. CASE SaveFact(w)
    BY <1>1, <2>1, SaveFactStep
  <2>2. CASE ReadTail(w)
    BY <1>1, <2>2, ReadTailStep
  <2>3. CASE AcquireTail(w)
    BY <1>1, <2>3, AcquireTailStep
  <2>4. CASE Insert(w)
    BY <1>1, <2>4, InsertStep
  <2>5. CASE Collide(w) \/ Crash(w)
    BY <1>1, <2>5, AbandonStep DEF Collide, Crash
  <2>6. CASE Commit(w)
    BY <1>1, <2>6, CommitStep
  <2> QED BY <2>1, <2>2, <2>3, <2>4, <2>5, <2>6 DEF Step
<1>4. CASE UNCHANGED vars
  <2>1. UNCHANGED <<rows, business, started, pc, fact, left, last, locked, pending>>
    BY <1>4 DEF vars
  <2>2. \A v \in Writer : SessionInv(v)'
    BY <2>1 DEF IInv, SessionInv, Visible, Taken
  <2>3. \A v \in Writer : FactInv(v)'
    BY <2>1 DEF IInv, FactInv, Logged
  <2>4. OneInserter' /\ UsedFacts' /\ RowsAndEventsAgree' /\ Chain(rows)'
    BY <2>1 DEF IInv, OneInserter, UsedFacts, RowsAndEventsAgree, Logged
  <2> QED BY <1>1, <2>2, <2>3, <2>4 DEF IInv
<1> QED BY <1>2, <1>3, <1>4 DEF Next, Quiesce

LEMMA Inductive == Spec => []IInv
PROOF
<1>1. Init => IInv
  BY InitInv
<1>2. IInv /\ [Next]_vars => IInv'
  BY NextInv
<1> QED BY <1>1, <1>2, PTL DEF Spec

-----------------------------------------------------------------------------
(***************************************************************************)
(* The refinement.  history counts rows, so it takes the numbering of a    *)
(* chain to know that its n-th entry is the fact of the row numbered n.    *)
(***************************************************************************)
\* Rows with distinct numbers 1..n are n rows.
LEMMA NumberedCount ==
  ASSUME NEW S, NEW n \in Nat, Seqs(S) = 1 .. n,
         \A r, q \in S : r.seq = q.seq => r = q
  PROVE  IsFiniteSet(S) /\ Cardinality(S) = n
PROOF
<1> DEFINE f == [i \in 1 .. n |-> CHOOSE r \in S : r.seq = i]
<1>1. \A i \in 1 .. n : f[i] \in S /\ f[i].seq = i
  <2> SUFFICES ASSUME NEW i \in 1 .. n PROVE f[i] \in S /\ f[i].seq = i
    OBVIOUS
  <2>1. \E r \in S : r.seq = i
    BY DEF Seqs
  <2> QED BY <2>1
<1>2. \A r \in S : r.seq \in 1 .. n /\ f[r.seq] = r
  <2>1. \A r \in S : r.seq \in 1 .. n
    BY DEF Seqs
  <2> HIDE DEF f
  <2> QED BY <2>1, <1>1
<1>3. f \in Bijection(1 .. n, S)
  <2>1. f \in [1 .. n -> S]
    BY <1>1
  <2> HIDE DEF f
  <2>2. f \in Injection(1 .. n, S)
    BY <2>1, <1>1, Fun_IsInj
  <2>3. f \in Surjection(1 .. n, S)
    BY <2>1, <1>2, Fun_IsSurj
  <2> QED BY <2>2, <2>3, Fun_IsBij
<1>4. ExistsBijection(1 .. n, S)
  BY <1>3 DEF ExistsBijection
<1>5. IsFiniteSet(1 .. n) /\ Cardinality(1 .. n) = n
  BY FS_Interval
<1> QED BY <1>4, <1>5, FS_Bijection

\* In a chain a row's number is one more than the number of rows below it.
LEMMA ChainCount ==
  ASSUME NEW S, S \subseteq Event, Chain(S)
  PROVE  /\ IsFiniteSet(S)
         /\ Cardinality(S) \in Nat
         /\ Seqs(S) = 1 .. Cardinality(S)
         /\ \A r \in S : Cardinality({q \in S : q.seq < r.seq}) = r.seq - 1
PROOF
<1>1. \A r \in S : r.seq \in Nat \ {0}
  BY DEF Event
<1>2. PICK n \in {0} \cup Seqs(S) : Seqs(S) = 1 .. n
  BY DEF Chain, Numbered
<1>3. n \in Nat
  BY <1>1, <1>2 DEF Seqs
<1>4. IsFiniteSet(S) /\ Cardinality(S) = n
  BY <1>2, <1>3, NumberedCount DEF Chain
<1>5. ASSUME NEW r \in S
      PROVE  Cardinality({q \in S : q.seq < r.seq}) = r.seq - 1
  <2> DEFINE B == {q \in S : q.seq < r.seq}
  <2>1. r.seq \in 1 .. n /\ r.seq - 1 \in Nat
    BY <1>2, <1>3, <1>1 DEF Seqs
  <2>2. Seqs(B) = 1 .. (r.seq - 1)
    <3>1. \A i \in Seqs(B) : i \in 1 .. (r.seq - 1)
      BY <1>1, <2>1 DEF Seqs
    <3>2. \A i \in 1 .. (r.seq - 1) : i \in Seqs(B)
      <4> SUFFICES ASSUME NEW i \in 1 .. (r.seq - 1) PROVE i \in Seqs(B)
        OBVIOUS
      <4>1. i \in Seqs(S) /\ i < r.seq
        BY <1>2, <1>3, <2>1
      <4>2. PICK q \in S : q.seq = i
        BY <4>1 DEF Seqs
      <4>3. q \in B
        BY <4>1, <4>2
      <4> QED BY <4>2, <4>3 DEF Seqs
    <3> QED BY <3>1, <3>2
  <2>3. \A p, q \in B : p.seq = q.seq => p = q
    BY DEF Chain
  <2> HIDE DEF B
  <2>4. Cardinality(B) = r.seq - 1
    BY <2>1, <2>2, <2>3, NumberedCount
  <2> QED BY <2>4 DEF B
<1> QED BY <1>2, <1>3, <1>4, <1>5

\* The n-th entry of the history is the fact of the row numbered n.
HistoryInOrder ==
  /\ history \in Seq(Fact)
  /\ Len(history) = Cardinality(rows)
  /\ \A r \in rows : history[r.seq] = r.fact

LEMMA HistoryRows == ASSUME TypeOK, Chain(rows) PROVE HistoryInOrder
PROOF
<1>1. rows \subseteq Event
  BY DEF TypeOK
<1>2. /\ Cardinality(rows) \in Nat
      /\ Seqs(rows) = 1 .. Cardinality(rows)
      /\ \A r \in rows : Cardinality({q \in rows : q.seq < r.seq}) = r.seq - 1
  BY <1>1, ChainCount
<1> DEFINE At(n) == CHOOSE r \in rows : Cardinality({q \in rows : q.seq < r.seq}) = n - 1
<1>3. ASSUME NEW n \in 1 .. Cardinality(rows)
      PROVE  At(n) \in rows /\ At(n).seq = n
  <2>1. \E r \in rows : Cardinality({q \in rows : q.seq < r.seq}) = n - 1
    BY <1>2 DEF Seqs
  <2>2. At(n) \in rows /\ Cardinality({q \in rows : q.seq < At(n).seq}) = n - 1
    BY <2>1
  <2> HIDE DEF At
  <2>3. At(n).seq - 1 = n - 1 /\ At(n).seq \in Nat
    BY <1>1, <1>2, <2>2 DEF Event
  <2> QED BY <2>2, <2>3
<1>4. history = [n \in 1 .. Cardinality(rows) |-> At(n).fact]
  BY DEF history
<1> HIDE DEF At
<1>5. \A n \in 1 .. Cardinality(rows) : At(n).fact \in Fact
  BY <1>1, <1>3 DEF Event
<1>6. history \in Seq(Fact) /\ Len(history) = Cardinality(rows)
  BY <1>2, <1>4, <1>5
<1>7. ASSUME NEW r \in rows PROVE history[r.seq] = r.fact
  <2>1. r.seq \in 1 .. Cardinality(rows)
    BY <1>2 DEF Seqs
  <2>2. At(r.seq) = r
    BY <2>1, <1>3 DEF Chain
  <2> QED BY <2>1, <2>2, <1>4
<1> QED BY <1>6, <1>7 DEF HistoryInOrder

\* What a transaction has inserted and has still to insert fits in one batch.
Batch(w) == /\ IsFiniteSet(pending[w])
            /\ Cardinality(pending[w]) + left[w] <= EventsPerAtomic

BatchInv == \A w \in Writer : Batch(w)

LEMMA BatchInvariant == Spec => []BatchInv
PROOF
<1>1. Init => BatchInv
  BY FS_EmptySet, EventsAssumption DEF Init, BatchInv, Batch
<1>2. ASSUME IInv, BatchInv, [Next]_vars PROVE BatchInv'
  <2> SUFFICES ASSUME NEW v \in Writer PROVE Batch(v)'
    BY DEF BatchInv
  <2>0. TypeOK /\ Batch(v) /\ Cardinality(pending[v]) \in Nat /\ left[v] \in Nat
    BY <1>2, FS_CardinalityType DEF IInv, BatchInv, Batch, TypeOK
  <2>1. ASSUME NEW w \in Writer, NEW f \in Fact, Begin(w, f) PROVE Batch(v)'
    <3>1. CASE v = w
      <4>1. pending'[v] = {} /\ left'[v] = Events(f)
        BY <1>2, <2>1, <3>1 DEF Begin, IInv, SessionInv, TypeOK
      <4>2. Events(f) \in Nat /\ Events(f) <= EventsPerAtomic
        BY EventsAssumption DEF Events
      <4> QED BY <4>1, <4>2, FS_EmptySet DEF Batch
    <3>2. CASE v # w
      BY <2>0, <2>1, <3>2 DEF Begin, Batch, TypeOK
    <3> QED BY <3>1, <3>2
  <2>2. ASSUME NEW w \in Writer, SaveFact(w) \/ ReadTail(w) \/ AcquireTail(w)
        PROVE  Batch(v)'
    BY <2>0, <2>2 DEF SaveFact, ReadTail, AcquireTail, Batch
  <2>3. ASSUME NEW w \in Writer, Insert(w) PROVE Batch(v)'
    <3>1. CASE v = w
      <4>1. pending'[v] = pending[v] \cup {NewEvent(v)} /\ left'[v] = left[v] - 1
        BY <2>0, <2>3, <3>1 DEF Insert, TypeOK
      <4>2. IsFiniteSet(pending[v])
        BY <2>0 DEF Batch
      <4>3. \A e : /\ IsFiniteSet(pending[v] \cup {e})
                   /\ Cardinality(pending[v] \cup {e}) \in
                        {Cardinality(pending[v]), Cardinality(pending[v]) + 1}
        BY <4>2, FS_AddElement
      <4>4. /\ IsFiniteSet(pending'[v])
            /\ Cardinality(pending'[v]) \in
                 {Cardinality(pending[v]), Cardinality(pending[v]) + 1}
        BY <4>1, <4>3
      <4>5. Cardinality(pending[v]) + left[v] <= EventsPerAtomic
        BY <2>0 DEF Batch
      <4>6. Cardinality(pending'[v]) + left'[v] <= EventsPerAtomic
        BY <4>1, <4>4, <4>5, <2>0, EventsAssumption
      <4> QED BY <4>4, <4>6 DEF Batch
    <3>2. CASE v # w
      BY <2>0, <2>3, <3>2 DEF Insert, Batch, TypeOK
    <3> QED BY <3>1, <3>2
  <2>4. ASSUME NEW w \in Writer, Abandon(w) \/ Commit(w) PROVE Batch(v)'
    <3>1. CASE v = w
      <4>1. pending'[v] = {} /\ left'[v] \in {0, left[v]}
        BY <2>0, <2>4, <3>1 DEF Abandon, Commit, Release, TypeOK
      <4> QED BY <4>1, <2>0, FS_EmptySet, EventsAssumption DEF Batch
    <3>2. CASE v # w
      BY <2>0, <2>4, <3>2 DEF Abandon, Commit, Release, Batch, TypeOK
    <3> QED BY <3>1, <3>2
  <2>5. CASE UNCHANGED vars
    BY <2>0, <2>5 DEF vars, Batch
  <2> QED BY <1>2, <2>1, <2>2, <2>3, <2>4, <2>5
       DEF Next, Step, Collide, Crash, Quiesce
<1> QED BY <1>1, <1>2, Inductive, PTL DEF Spec

\* A commit is one batch behind everything any reader has seen.
LEMMA CommitExtends ==
  ASSUME IInv, HistoryInOrder, HistoryInOrder', BatchInv, NEW w \in Writer, Commit(w)
  PROVE  Log!Extend
PROOF
<1> DEFINE n == Cardinality(rows)
           m == Cardinality(rows')
<1>1. rows' = rows \cup pending[w] /\ rows \cap pending[w] = {} /\ pending[w] # {}
  BY DEF Commit, Visible, IInv, SessionInv, Taken
<1>2. /\ history \in Seq(Fact) /\ Len(history) = n
      /\ \A r \in rows : history[r.seq] = r.fact
  BY DEF HistoryInOrder
<1>3. /\ history' \in Seq(Fact) /\ Len(history') = m
      /\ \A r \in rows' : history'[r.seq] = r.fact
  BY DEF HistoryInOrder
<1>4. IsFiniteSet(rows) /\ n \in Nat /\ Seqs(rows) = 1 .. n
  BY ChainCount DEF IInv, TypeOK
<1>5. m \in Nat
  BY <1>3
<1>6. m - n \in 1 .. EventsPerAtomic
  <2>1. /\ IsFiniteSet(pending[w]) /\ Cardinality(pending[w]) \in Nat
        /\ Cardinality(pending[w]) <= EventsPerAtomic
        /\ Cardinality(pending[w]) # 0
    BY <1>1, FS_CardinalityType, FS_EmptySet, EventsAssumption
    DEF BatchInv, Batch, IInv, TypeOK
  <2>2. m = n + Cardinality(pending[w]) - Cardinality(rows \cap pending[w])
    BY <1>1, <1>4, <2>1, FS_Union
  <2>3. Cardinality(rows \cap pending[w]) = 0
    BY <1>1, FS_EmptySet
  <2> QED BY <2>1, <2>2, <2>3, <1>4, EventsAssumption
<1> DEFINE b == [i \in 1 .. (m - n) |-> history'[n + i]]
<1>7. b \in Log!Batches
  <2>1. \A i \in 1 .. (m - n) : history'[n + i] \in Fact
    BY <1>3, <1>4, <1>5
  <2>2. b \in [1 .. (m - n) -> Fact]
    BY <2>1
  <2> QED BY <2>2, <1>6 DEF Log!Batches
<1>8. history' = history \o b
  <2>1. \A i \in 1 .. n : history'[i] = history[i]
    BY <1>1, <1>2, <1>3, <1>4 DEF Seqs
  <2>2. b \in Seq(Fact) /\ Len(b) = m - n
    BY <1>3, <1>4, <1>5, <1>6
  <2>3. \A i \in 1 .. (m - n) : b[i] = history'[n + i]
    OBVIOUS
  <2> HIDE DEF b, n, m
  <2>4. history \o b \in Seq(Fact) /\ Len(history \o b) = m
    BY <2>2, <1>2, <1>4, <1>5
  <2>5. \A i \in 1 .. m : (history \o b)[i] = history'[i]
    <3> SUFFICES ASSUME NEW i \in 1 .. m PROVE (history \o b)[i] = history'[i]
      OBVIOUS
    <3>1. CASE i <= n
      BY <3>1, <2>1, <2>2, <1>2, <1>4, <1>5
    <3>2. CASE i > n
      <4>1. i - n \in 1 .. (m - n) /\ n + (i - n) = i
        BY <3>2, <1>4, <1>5
      <4>2. (history \o b)[i] = b[i - n]
        BY <3>2, <2>2, <1>2, <1>4, <1>5
      <4> QED BY <4>1, <4>2, <2>3
    <3>3. i <= n \/ i > n
      BY <1>4, <1>5
    <3> QED BY <3>1, <3>2, <3>3
  <2> QED BY <2>4, <2>5, <1>3
<1> QED BY <1>7, <1>8 DEF Log!Extend

-----------------------------------------------------------------------------
\* The shape of the ledger's state: what append() reads, numbers and inserts is
\* always a well formed event of a fact some handler took on.
THEOREM LedgerType == Spec => []TypeOK
PROOF
<1>1. IInv => TypeOK
  BY DEF IInv
<1> QED BY <1>1, Inductive, PTL

\* verify_chain() has nothing to report in any state append() can bring about,
\* for any number of sessions, collisions and crashes.
THEOREM ChainStaysIntact == Spec => []ChainIntact
PROOF
<1>1. IInv => ChainIntact
  BY ChainRows DEF IInv
<1> QED BY <1>1, Inductive, PTL

\* However a request ends, the rows it committed and the events it logged are as
\* its transaction boundaries promise.
THEOREM RowsAgreeWithEvents == Spec => []RowsAndEventsAgree
PROOF
<1>1. IInv => RowsAndEventsAgree
  BY DEF IInv
<1> QED BY <1>1, Inductive, PTL

\* The ledger implements AppendOnlyLog: whatever the interleaving, the collisions
\* and the crashes, a reader that orders the rows by seq sees a list that only
\* grows at its end, and by whole transactions.
THEOREM LedgerIsALog == Spec => LogOnlyGrows
PROOF
<1>1. Init => Log!Init
  <2> SUFFICES ASSUME Init PROVE history = <<>>
    BY DEF Log!Init
  <2>1. Cardinality(rows) = 0
    BY FS_EmptySet DEF Init
  <2> QED BY <2>1 DEF history
<1>2. IInv => HistoryInOrder
  BY HistoryRows DEF IInv
<1>3. IInv /\ HistoryInOrder /\ HistoryInOrder' /\ BatchInv /\ [Next]_vars
        => [Log!Extend]_history
  <2> SUFFICES ASSUME IInv, HistoryInOrder, HistoryInOrder', BatchInv, [Next]_vars
               PROVE  Log!Extend \/ UNCHANGED history
    OBVIOUS
  <2>1. CASE rows' = rows
    BY <2>1 DEF history
  <2>2. CASE \E w \in Writer : Commit(w)
    BY <2>2, CommitExtends
  <2> QED
    BY <2>1, <2>2
    DEF Next, Step, Begin, SaveFact, ReadTail, AcquireTail, Insert, Collide, Crash,
        Abandon, Quiesce, vars
<1> QED BY <1>1, <1>2, <1>3, Inductive, BatchInvariant, PTL
     DEF Spec, LogOnlyGrows, Log!Spec
=============================================================================
