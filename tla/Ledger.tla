------------------------------- MODULE Ledger -------------------------------
(***************************************************************************)
(* The append-only, hash-chained event ledger (apps/ledger), written to by *)
(* concurrent request handlers on PostgreSQL at READ COMMITTED.            *)
(*                                                                         *)
(* A business fact is a row some handler writes; its events are what the   *)
(* handler then passes to append().  The code base has three shapes of     *)
(* handler, told apart by where the transaction boundaries are:            *)
(*   AtomicFact    row and events in one transaction.atomic(), e.g.        *)
(*                 submit_bid, which logs EventsPerAtomic = 2 events;      *)
(*   SplitFact     the row is committed first, then append() opens a       *)
(*                 transaction of its own, e.g. Tender.publish;            *)
(*   LogFirstFact  append() commits first, then the row, Tender.freeze.    *)
(*                                                                         *)
(* sha256 is collision free here, so a digest is represented by what it    *)
(* covers: row_hash is the sequence of facts up to and including the row.  *)
(***************************************************************************)
EXTENDS Naturals, Sequences, FiniteSets

CONSTANTS Writer,        \* concurrent request handlers (database sessions)
          AtomicFact, SplitFact, LogFirstFact,
          EventsPerAtomic

Fact == AtomicFact \cup SplitFact \cup LogFirstFact

ASSUME FactAssumption ==
  /\ AtomicFact \cap SplitFact = {}
  /\ AtomicFact \cap LogFirstFact = {}
  /\ SplitFact \cap LogFirstFact = {}
ASSUME EventsAssumption == EventsPerAtomic \in Nat \ {0}

VARIABLES
  rows,      \* committed rows of ledger_event
  business,  \* committed business facts
  started,   \* facts some handler has taken on
  pc,        \* where each handler is
  fact,      \* the fact a handler is working on
  left,      \* events the handler still has to append
  last,      \* the tail row append() read
  locked,    \* the seq of the tail row the session has locked, 0 for none
  pending    \* rows the open transaction has inserted

vars == <<rows, business, started, pc, fact, left, last, locked, pending>>

GENESIS_HASH == <<>>
row_hash(prev_hash, f) == Append(prev_hash, f)

Event == [seq : Nat \ {0}, fact : Fact, prev_hash : Seq(Fact), row_hash : Seq(Fact)]
NoEvent == [seq |-> 0, fact |-> "none", prev_hash |-> GENESIS_HASH, row_hash |-> GENESIS_HASH]
NoFact == "none"

Events(f) == IF f \in AtomicFact THEN EventsPerAtomic ELSE 1

-----------------------------------------------------------------------------
Init ==
  /\ rows = {}
  /\ business = {}
  /\ started = {}
  /\ pc = [w \in Writer |-> "idle"]
  /\ fact = [w \in Writer |-> NoFact]
  /\ left = [w \in Writer |-> 0]
  /\ last = [w \in Writer |-> NoEvent]
  /\ locked = [w \in Writer |-> 0]
  /\ pending = [w \in Writer |-> {}]

\* Fault: transaction.atomic() is missing around a handler's writes.
SavesFirst_NoAtomic(f) == f \in SplitFact \cup AtomicFact
\* The handlers that save their row before they call append().
SavesFirst(f) == f \in SplitFact

\* A request starts.
Begin(w, f) ==
  /\ pc[w] = "idle"
  /\ f \notin started
  /\ started' = started \cup {f}
  /\ fact' = [fact EXCEPT ![w] = f]
  /\ left' = [left EXCEPT ![w] = Events(f)]
  /\ pc' = [pc EXCEPT ![w] = IF SavesFirst(f) THEN "save" ELSE "read"]
  /\ UNCHANGED <<rows, business, last, locked, pending>>

\* The handler's own row, committed on its own: before append() in a split
\* handler, after it in a log-first one.
SaveFact(w) ==
  /\ pc[w] = "save"
  /\ business' = business \cup {fact[w]}
  /\ pc' = [pc EXCEPT ![w] = IF SavesFirst(fact[w]) THEN "read" ELSE "idle"]
  /\ UNCHANGED <<rows, started, fact, left, last, locked, pending>>

\* Fault: the event is saved over the row append() read instead of behind it.
Visible_Overwrites(w) == (rows \ {last[w]}) \cup pending[w]
\* What a session sees: what is committed and what it has inserted itself.
Visible(w) == rows \cup pending[w]

IsTail(r, S) == r \in S /\ \A q \in S : q.seq <= r.seq

LockedByOther(w, n) == \E v \in Writer \ {w} : locked[v] = n

\* select_for_update().order_by("-seq").first(): the newest row this session
\* sees is read and locked; an empty table leaves nothing to lock.
ReadTail(w) ==
  /\ pc[w] = "read"
  /\ \/ /\ Visible(w) = {}
        /\ last' = [last EXCEPT ![w] = NoEvent]
        /\ pc' = [pc EXCEPT ![w] = "insert"]
        /\ UNCHANGED locked
     \/ \E r \in Visible(w) :
          /\ IsTail(r, Visible(w))
          /\ last' = [last EXCEPT ![w] = r]
          /\ \/ /\ r \in pending[w]
                /\ pc' = [pc EXCEPT ![w] = "insert"]
                /\ UNCHANGED locked
             \/ /\ r \in rows
                /\ LockedByOther(w, r.seq)
                /\ pc' = [pc EXCEPT ![w] = "wait"]
                /\ UNCHANGED locked
             \/ /\ r \in rows
                /\ ~LockedByOther(w, r.seq)
                /\ pc' = [pc EXCEPT ![w] = "insert"]
                /\ locked' = [locked EXCEPT ![w] = r.seq]
  /\ UNCHANGED <<rows, business, started, fact, left, pending>>

\* The session that held the lock has ended.  The row it waited for has not
\* changed, so PostgreSQL returns that row and does not look for a newer one.
AcquireTail(w) ==
  /\ pc[w] = "wait"
  /\ ~LockedByOther(w, last[w].seq)
  /\ locked' = [locked EXCEPT ![w] = last[w].seq]
  /\ pc' = [pc EXCEPT ![w] = "insert"]
  /\ UNCHANGED <<rows, business, started, fact, left, last, pending>>

\* Fault: the number of the tail is reused.
NewEvent_SameSeq(w) ==
  [seq |-> last[w].seq,
   fact |-> fact[w],
   prev_hash |-> last[w].row_hash,
   row_hash |-> row_hash(last[w].row_hash, fact[w])]
NewEvent(w) ==
  [seq |-> last[w].seq + 1,
   fact |-> fact[w],
   prev_hash |-> last[w].row_hash,
   row_hash |-> row_hash(last[w].row_hash, fact[w])]

\* Fault: seq has no UNIQUE index.
Taken_NoIndex(S, n) == FALSE
Taken(S, n) == \E r \in S : r.seq = n

\* The UNIQUE index on seq admits the row.  An uncommitted row with the same
\* seq makes the session wait for the other transaction to end.
Insert(w) ==
  /\ pc[w] = "insert"
  /\ ~Taken(rows, NewEvent(w).seq)
  /\ \A v \in Writer \ {w} : ~Taken(pending[v], NewEvent(w).seq)
  /\ pending' = [pending EXCEPT ![w] = @ \cup {NewEvent(w)}]
  /\ left' = [left EXCEPT ![w] = @ - 1]
  /\ pc' = [pc EXCEPT ![w] = IF left[w] > 1 THEN "read" ELSE "commit"]
  /\ UNCHANGED <<rows, business, started, fact, last, locked>>

\* Fault: the session keeps its row lock.
Release_KeepsLock(w) ==
  /\ pending' = [pending EXCEPT ![w] = {}]
  /\ UNCHANGED locked
\* A transaction ends: its row locks and its uncommitted rows go with it.
Release(w) ==
  /\ locked' = [locked EXCEPT ![w] = 0]
  /\ pending' = [pending EXCEPT ![w] = {}]

\* A request ends in the middle of a transaction.
Abandon(w) ==
  /\ pc' = [pc EXCEPT ![w] = "idle"]
  /\ fact' = [fact EXCEPT ![w] = NoFact]
  /\ left' = [left EXCEPT ![w] = 0]
  /\ last' = [last EXCEPT ![w] = NoEvent]
  /\ Release(w)
  /\ UNCHANGED <<rows, business, started>>

\* IntegrityError from the UNIQUE index: the exception leaves append() and
\* every atomic block around it.
Collide(w) ==
  /\ pc[w] = "insert"
  /\ Taken(rows, NewEvent(w).seq)
  /\ Abandon(w)

\* The outermost atomic block ends.
Commit(w) ==
  /\ pc[w] = "commit"
  /\ rows' = Visible(w)
  /\ business' = IF fact[w] \in AtomicFact THEN business \cup {fact[w]} ELSE business
  /\ pc' = [pc EXCEPT ![w] = IF fact[w] \in LogFirstFact THEN "save" ELSE "idle"]
  /\ last' = [last EXCEPT ![w] = NoEvent]
  /\ Release(w)
  /\ UNCHANGED <<started, fact, left>>

\* The worker is killed or the connection drops at any point of a request.
Crash(w) == pc[w] # "idle" /\ Abandon(w)

\* No request is running and none is left to start.
Quiesce ==
  /\ \A w \in Writer : pc[w] = "idle"
  /\ started = Fact
  /\ UNCHANGED vars

Step(w) == \/ SaveFact(w) \/ ReadTail(w) \/ AcquireTail(w)
           \/ Insert(w) \/ Collide(w) \/ Commit(w)

Next == \/ \E w \in Writer, f \in Fact : Begin(w, f)
        \/ \E w \in Writer : Step(w) \/ Crash(w)
        \/ Quiesce

Spec == Init /\ [][Next]_vars

\* A session that can go on does: PostgreSQL wakes a waiter when the lock or
\* the index entry it waits for is released.  Nothing starts a request.
FairSpec == Spec /\ \A w \in Writer : WF_vars(Step(w))

-----------------------------------------------------------------------------
\* The shape of the state.
TypeOK ==
  /\ rows \subseteq Event
  /\ business \subseteq Fact
  /\ started \subseteq Fact
  /\ pc \in [Writer -> {"idle", "save", "read", "wait", "insert", "commit"}]
  /\ fact \in [Writer -> Fact \cup {NoFact}]
  /\ left \in [Writer -> Nat]
  /\ last \in [Writer -> Event \cup {NoEvent}]
  /\ locked \in [Writer -> Nat]
  /\ pending \in [Writer -> SUBSET Event]

\* verify_chain() finds nothing to report at any moment, and the numbering has
\* neither forks nor gaps, whatever the interleaving, the collisions and the
\* crashes: the rows are numbered 1..n, and each carries the hash of the one
\* before it.
NoFork == \A r, q \in rows : r.seq = q.seq => r = q
NoGap == \A r \in rows : r.seq > 1 => \E q \in rows : q.seq = r.seq - 1
Recomputes == \A r \in rows : r.row_hash = row_hash(r.prev_hash, r.fact)
Linked == \A r \in rows :
            /\ r.seq = 1 => r.prev_hash = GENESIS_HASH
            /\ \A q \in rows : q.seq = r.seq - 1 => r.prev_hash = q.row_hash
ChainIntact == NoFork /\ NoGap /\ Recomputes /\ Linked

\* What a request leaves behind when it collides or crashes part-way: an atomic
\* handler leaves its row and its events or neither, a split one never an event
\* without the row it reports, a log-first one never a row without its event.
Logged(f) == \E r \in rows : r.fact = f
RowsAndEventsAgree ==
  /\ \A f \in AtomicFact : f \in business <=> Logged(f)
  /\ \A f \in SplitFact : Logged(f) => f \in business
  /\ \A f \in LogFirstFact : f \in business => Logged(f)

\* A reader that orders the rows by seq sees the log of AppendOnlyLog: each
\* commit adds its events behind all the events any reader has already seen.
history == [n \in 1 .. Cardinality(rows) |->
              (CHOOSE r \in rows : Cardinality({q \in rows : q.seq < r.seq}) = n - 1).fact]
Log == INSTANCE AppendOnlyLog WITH
         Entry <- Fact, MaxBatch <- EventsPerAtomic, log <- history
LogOnlyGrows == Log!Spec

\* No request waits for ever: the row lock on the tail, the waits on the UNIQUE
\* index and a handler that appends twice never block one another for good.
EveryRequestEnds == \A w \in Writer : (pc[w] # "idle") ~> (pc[w] = "idle")
=============================================================================
