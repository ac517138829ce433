------------------------------- MODULE Table2 -------------------------------
(***************************************************************************)
(* The soft-state table of src/p2core/table2.C: rows expire Lifetime after *)
(* their last insertion, and the table holds at most MaxSize rows.         *)
(*                                                                         *)
(* A call (insert, remove, a lookup or a scan) is a sequence of steps that *)
(* nothing but the clock interleaves: flush drops expired and then         *)
(* supernumerary entries one at a time from the back of a time-ordered     *)
(* queue, and then the body of the call runs.  An entry is once in the     *)
(* queue for its insertion and once more for every reinsertion.            *)
(***************************************************************************)
EXTENDS CommonTable, Sequences

CONSTANTS
  MaxSize,      \* _maxSize; 0 is unlimited
  Lifetime,     \* _maxLifetime; NO_EXPIRATION is positive infinity
  StringCtor,   \* built by the constructor that takes the lifetime as a string
  MaxTime,      \* bound on the clock
  MaxQueue      \* bound on the length of the queue

NO_EXPIRATION == -1

ASSUME LimitsAssumption ==
  /\ MaxSize \in Nat
  /\ Lifetime \in Nat \cup {NO_EXPIRATION}
  /\ StringCtor \in BOOLEAN
  /\ MaxTime \in Nat
  /\ MaxQueue \in Nat

VARIABLES
  now,          \* the clock getTime reads
  queue,        \* _queue; its head is the back of the deque, the next to flush
  pc,           \* what the call in progress does next
  op,           \* the call in progress or last made
  arg,          \* its tuple
  expiry,       \* expiryTime of the flush in progress or last made
  posted,       \* the body of the insert is done, the second flush is running
  ret,          \* what insert or remove returned
  found         \* what a lookup or scan returned

callVars == <<op, arg>>
vars == <<commonVars, now, queue, pc, op, arg, expiry, posted, ret, found>>

\* _flushing.  The constructor that takes a string evaluates it while
\* _maxLifetime still is DEFAULT_EXPIRATION, and parses the string later.
Flushing ==
  \/ MaxSize > 0
  \/ Lifetime # NO_EXPIRATION /\ ~StringCtor

Ops == {"insert", "remove", "lookup"}

Init ==
  /\ CommonInit
  /\ now = 0
  /\ queue = << >>
  /\ pc = "idle"
  /\ op = "lookup"
  /\ arg = CHOOSE t \in Tuples : TRUE
  /\ expiry = 0
  /\ posted = FALSE
  /\ ret = FALSE
  /\ found = {}

-----------------------------------------------------------------------------
(* Time and calls.                                                         *)

Tick ==
  /\ now < MaxTime
  /\ now' = now + 1
  /\ UNCHANGED <<commonVars, queue, pc, op, arg, expiry, posted, ret, found>>

\* The start of flush: it samples the clock once, and does nothing at all in
\* a table that is not flushing.
StartFlush ==
  /\ expiry' = IF Lifetime = NO_EXPIRATION THEN 0 ELSE now - Lifetime
  /\ pc' = IF Flushing THEN "expire" ELSE "flushed"

Call(o, t) ==
  /\ pc = "idle"
  /\ o = "insert" => Len(queue) < MaxQueue
  /\ op' = o
  /\ arg' = t
  /\ posted' = FALSE
  /\ ret' = FALSE
  /\ found' = {}
  /\ StartFlush
  /\ UNCHANGED <<commonVars, now, queue>>

-----------------------------------------------------------------------------
(* flush.                                                                  *)

\* Variants with a plausible slip, for the checks that the properties bite.
\* The back of the queue is an entry whose time has passed.
Expired ==
  /\ Lifetime # NO_EXPIRATION
  /\ queue # << >>
  /\ time[Head(queue)] < expiry

\* The table has more rows than it may hold.
Supernumerary ==
  /\ MaxSize > 0
  /\ queue # << >>
  /\ Cardinality(primary) > MaxSize

\* _queue.push_front and _queue.pop_back.
PushFront_AtTheBack(e) == queue' = <<e>> \o queue

PushFront(e) == queue' = Append(queue, e)

PopBack == queue' = Tail(queue)

\* The queue holds another instance of the entry.
OtherInstances(e) == refCount[e] > 0

\* delete e
Free_OnlyInDestructor(e) ==
  /\ live' = IF pc = "destroy" THEN live \ {e} ELSE live
  /\ tuple' = [tuple EXCEPT ![e] = NULL]
  /\ time' = [time EXCEPT ![e] = 0]

Free(e) ==
  /\ live' = live \ {e}
  /\ tuple' = [tuple EXCEPT ![e] = NULL]
  /\ time' = [time EXCEPT ![e] = 0]

\* flushEntry on the back of the queue.  An older instance of an entry that
\* was inserted again only gives up one reference; the last instance takes
\* the row with it, unless the row was removed before, and frees the entry.
FlushEntry ==
  LET e == Head(queue) IN
  /\ PopBack
  /\ IF OtherInstances(e)
     THEN /\ refCount' = [refCount EXCEPT ![e] = @ - 1]
          /\ UNCHANGED <<live, tuple, time, primary, secondary, agg, view>>
     ELSE /\ Free(e)
          /\ IF tuple[e] = NULL
             THEN UNCHANGED <<primary, secondary, agg, view>>
             ELSE /\ RemoveTupleOfEntry(e)
                  /\ primary' = primary \ {e}
          /\ UNCHANGED refCount

FlushExpired ==
  /\ pc = "expire"
  /\ Expired
  /\ FlushEntry
  /\ UNCHANGED <<now, pc, op, arg, expiry, posted, ret, found>>

ExpireDone ==
  /\ pc = "expire"
  /\ ~Expired
  /\ pc' = "evict"
  /\ UNCHANGED <<commonVars, now, queue, op, arg, expiry, posted, ret, found>>

FlushSupernumerary ==
  /\ pc = "evict"
  /\ Supernumerary
  /\ FlushEntry
  /\ UNCHANGED <<now, pc, op, arg, expiry, posted, ret, found>>

EvictDone ==
  /\ pc = "evict"
  /\ ~Supernumerary
  /\ pc' = "flushed"
  /\ UNCHANGED <<commonVars, now, queue, op, arg, expiry, posted, ret, found>>

-----------------------------------------------------------------------------
(* The bodies of the calls, after their first flush.                       *)

\* The tuple of the entry is reset.
Empty(e) ==
  /\ tuple' = [tuple EXCEPT ![e] = NULL]
  /\ UNCHANGED <<live, time>>

\* removeTuple.  In a flushing table the entry stays in the queue, emptied;
\* otherwise it is freed at once.
RemoveTuple(e) ==
  /\ RemoveTupleOfEntry(e)
  /\ primary' = primary \ {e}
  /\ IF Flushing
     THEN Empty(e)
     ELSE Free(e)
  /\ UNCHANGED <<refCount, queue>>

\* updateTime, without its refresh listeners.
UpdateTime_ForgetsCount(e) ==
  /\ time' = [time EXCEPT ![e] = now]
  /\ PushFront(e)
  /\ UNCHANGED refCount

UpdateTime(e) ==
  /\ refCount' = [refCount EXCEPT ![e] = @ + 1]
  /\ time' = [time EXCEPT ![e] = now]
  /\ PushFront(e)

\* insert of a tuple that is already there: updateTime.
InsertDuplicate ==
  /\ pc = "flushed" /\ op = "insert" /\ ~posted
  /\ \E e \in Find(arg) :
       /\ tuple[e] = arg
       /\ IF Flushing
          THEN UpdateTime(e)
          ELSE UNCHANGED <<refCount, time, queue>>
  /\ ret' = FALSE
  /\ pc' = "idle"
  /\ UNCHANGED <<live, tuple, primary, secondary, agg, view>>
  /\ UNCHANGED <<now, op, arg, expiry, posted, found>>

\* insert of a tuple that replaces another one: the old one goes first.
InsertReplace ==
  /\ pc = "flushed" /\ op = "insert" /\ ~posted
  /\ \E e \in Find(arg) : tuple[e] # arg /\ RemoveTuple(e)
  /\ pc' = "insert"
  /\ UNCHANGED <<now, op, arg, expiry, posted, ret, found>>

\* insertTuple of a tuple whose key is free, and the second flush.
InsertTuple ==
  /\ \/ pc = "flushed" /\ op = "insert" /\ ~posted /\ Find(arg) = {}
     \/ pc = "insert"
  /\ \E e \in Entries \ live :
       /\ NewEntry(e, arg, now, 0)
       /\ CommonInsertTuple(e, arg)
       /\ IF Flushing THEN PushFront(e) ELSE UNCHANGED queue
  /\ posted' = TRUE
  /\ StartFlush
  /\ UNCHANGED <<now, op, arg, ret, found>>

InsertReturn ==
  /\ pc = "flushed" /\ op = "insert" /\ posted
  /\ ret' = TRUE
  /\ pc' = "idle"
  /\ UNCHANGED <<commonVars, now, queue, op, arg, expiry, posted, found>>

\* remove takes the row with the key of the tuple, even if it differs.
RemoveRow ==
  /\ pc = "flushed" /\ op = "remove"
  /\ \E e \in Find(arg) : RemoveTuple(e)
  /\ ret' = TRUE
  /\ pc' = "idle"
  /\ UNCHANGED <<now, op, arg, expiry, posted, found>>

RemoveNothing ==
  /\ pc = "flushed" /\ op = "remove" /\ Find(arg) = {}
  /\ ret' = FALSE
  /\ pc' = "idle"
  /\ UNCHANGED <<commonVars, now, queue, op, arg, expiry, posted, found>>

\* A lookup in the primary or the secondary index, or a scan, copies the
\* matching tuples into an iterator.
Lookup ==
  /\ pc = "flushed" /\ op = "lookup"
  /\ \/ found' = {tuple[e] : e \in Find(arg)}
     \/ found' = GroupRows(secondary, tuple, Group(arg))
     \/ found' = Rows
  /\ pc' = "idle"
  /\ UNCHANGED <<commonVars, now, queue, op, arg, expiry, posted, ret>>

-----------------------------------------------------------------------------
(* ~Table2: it drops indices, aggregates and listeners, and then frees the *)
(* entries, through the queue if there is one.                             *)

Destroy ==
  /\ pc = "idle"
  /\ pc' = "destroy"
  /\ secondary' = {}
  /\ agg' = [g \in Groups |-> Unseen]
  /\ view' = [t \in Tuples |-> 0]
  /\ UNCHANGED <<live, tuple, time, refCount, primary>>
  /\ UNCHANGED <<now, queue, op, arg, expiry, posted, ret, found>>

DestroyEntry ==
  /\ pc = "destroy"
  /\ IF Flushing
     THEN /\ queue # << >>
          /\ PopBack
          /\ IF OtherInstances(Head(queue))
             THEN /\ refCount' = [refCount EXCEPT ![Head(queue)] = @ - 1]
                  /\ UNCHANGED <<live, tuple, time>>
             ELSE Free(Head(queue)) /\ UNCHANGED refCount
          /\ UNCHANGED primary
     ELSE /\ \E e \in primary : primary' = primary \ {e} /\ Free(e)
          /\ UNCHANGED <<queue, refCount>>
  /\ UNCHANGED <<secondary, agg, view>>
  /\ UNCHANGED <<now, pc, op, arg, expiry, posted, ret, found>>

DestroyDone ==
  /\ pc = "destroy"
  /\ IF Flushing THEN queue = << >> ELSE primary = {}
  /\ primary' = {}
  /\ pc' = "dead"
  /\ UNCHANGED <<live, tuple, time, refCount, secondary, agg, view>>
  /\ UNCHANGED <<now, queue, op, arg, expiry, posted, ret, found>>

-----------------------------------------------------------------------------

Flush == FlushExpired \/ ExpireDone \/ FlushSupernumerary \/ EvictDone

Body ==
  \/ InsertDuplicate \/ InsertReplace \/ InsertTuple \/ InsertReturn
  \/ RemoveRow \/ RemoveNothing \/ Lookup

Next ==
  \/ Tick
  \/ \E o \in Ops, t \in Tuples : Call(o, t)
  \/ Flush
  \/ Body
  \/ Destroy \/ DestroyEntry \/ DestroyDone

Spec == Init /\ [][Next]_vars

-----------------------------------------------------------------------------
(* Properties.                                                             *)

Positions(q, e) == {i \in 1..Len(q) : q[i] = e}

Instances(e) == Positions(queue, e)

\* The table has not been handed to its destructor.
Alive == pc \notin {"destroy", "dead"}

\* Types of the state of a table, its queue and the call in progress.
TypeOK ==
  /\ CommonTypeOK
  /\ now \in Nat
  /\ queue \in Seq(Entries)
  /\ pc \in {"idle", "expire", "evict", "flushed", "insert", "destroy", "dead"}
  /\ op \in Ops
  /\ arg \in Tuples
  /\ expiry \in Int
  /\ posted \in BOOLEAN
  /\ ret \in BOOLEAN
  /\ found \subseteq Tuples

\* Every index entry is allocated and in both indices until the destructor
\* runs (commonInsertTuple, removeTupleOfEntry, flushEntry, removeTuple).
IndicesOK == Alive => IndicesAgree

\* Listeners are told of every row that comes and goes, expiry and eviction
\* included, once and in the order it happens (commonInsertTuple,
\* removeDerivatives).
ListenersOK == Alive => ListenersKnowRows

\* The aggregate follows every change of the rows, also those that flush makes
\* in the middle of a call (AggregateObj::update).
AggregatesOK == Alive => AggregatesCurrent

\* The indices agree, and the listeners and the aggregate follow the rows, at every step
\* of every call, whether insert, remove, replacement, expiry or eviction changed them.
DerivativesOK == IndicesOK /\ ListenersOK /\ AggregatesOK

\* Entry::refCount "How many times does this entry appear in the table queue?"
\* is the number of instances but the last: an entry is freed exactly when
\* its last instance is popped, so the queue never holds a freed entry and no
\* entry outside the queue stays allocated (flushEntry, updateTime, ~Table2).
RefCountsExact ==
  Flushing =>
    \A e \in Entries :
      Cardinality(Instances(e)) = IF e \in live THEN refCount[e] + 1 ELSE 0

\* A table with a maximum size is within it whenever no call is in progress.
SizeBounded ==
  (pc = "idle" /\ MaxSize > 0) => Cardinality(primary) <= MaxSize

\* The destructor frees every entry: the tombstones of removed rows, rows
\* with several instances in the queue, and rows of a table without a queue.
NothingLeaked == pc = "dead" => live = {}

\* Entries are freed exactly when nothing refers to them any more, by flushes and by
\* the destructor (flushEntry, updateTime, ~Table2).
EntriesFreedInTime == RefCountsExact /\ NothingLeaked

\* What a call relies on between two of its steps: the entries in the indices
\* are those with a tuple, a table without a queue frees entries at once, an
\* insert that replaces a row has freed its key, and the body of a call finds
\* the table within its size.
StepsOK ==
  /\ IsFiniteSet(primary)
  /\ Alive => \A e \in live : tuple[e] # NULL <=> e \in primary
  /\ ~Flushing => queue = << >> /\ live \subseteq primary
  /\ pc \notin {"expire", "evict"} \/ Flushing
  /\ pc = "insert" => Find(arg) = {}
  /\ (pc = "flushed" /\ MaxSize > 0) => Cardinality(primary) <= MaxSize
  /\ pc = "dead" => queue = << >> /\ live = {}

\* The inductive invariant of the proofs.
TableInv ==
  /\ TypeOK
  /\ IndicesOK
  /\ RefCountsExact
  /\ StepsOK
  /\ SizeBounded
  /\ ListenersOK
  /\ AggregatesOK

\* When flush ends its expiration loop, a row whose lifetime is over is left
\* only if the back of the queue is an old instance of an entry inserted again
\* later, whose renewed time ends the loop early (updateTime, flush).
StaleOnlyBehindRefreshed ==
  [][(ExpireDone /\ Flushing /\ Lifetime # NO_EXPIRATION) =>
       \A e \in primary :
         time[e] < expiry => /\ Head(queue) # e
                             /\ refCount[Head(queue)] > 0]_vars

\* In a table whose rows do not expire, the tuple given to insert is a row
\* when insert returns: the second flush evicts rows, but never that one.
InsertVisible ==
  (pc = "idle" /\ op = "insert" /\ Lifetime = NO_EXPIRATION) => arg \in Rows

\* A lookup returns no tuple whose lifetime was over when the call flushed the
\* table, which makes sure "we're operating on the correct view of the table
\* as of right now" (table2.C:451).
LookupsFresh ==
  (pc = "idle" /\ op = "lookup" /\ Lifetime # NO_EXPIRATION) =>
     \A e \in primary : tuple[e] \in found => time[e] >= expiry

\* Every call returns and every destructor ends: the loops of flush and of
\* ~Table2 make progress at each step.
CallsReturn == (pc # "idle") ~> (pc \in {"idle", "dead"})

-----------------------------------------------------------------------------
(* Table2 implements SoftStateTable.  A row is ordered by the last of the  *)
(* instances of its entry in the queue; instances before it, and entries   *)
(* emptied by remove, are invisible.                                       *)

AbsRows == IF Alive THEN Rows ELSE {}

EntryOf(t) == CHOOSE e \in primary : tuple[e] = t

AbsStamp == [t \in Tuples |-> IF t \in AbsRows THEN time[EntryOf(t)] ELSE 0]

\* The last instance of e comes before that of f.
Precedes(e, f) == \E j \in Instances(f) : \A i \in Instances(e) : i < j

AbsOlder == {p \in AbsRows \X AbsRows : Precedes(EntryOf(p[1]), EntryOf(p[2]))}

AbsPhase ==
  CASE pc = "idle"                  -> "idle"
    [] pc \in {"expire", "evict"}   -> "cleaning"
    [] pc \in {"flushed", "insert"} -> "serving"
    [] pc \in {"destroy", "dead"}   -> "gone"

Abs == INSTANCE SoftStateTable WITH
         Ordered <- Flushing, rows <- AbsRows, stamp <- AbsStamp,
         older <- AbsOlder, phase <- AbsPhase, key <- Key(arg)

\* Whatever calls are made and whenever the clock ticks, the rows a Table2
\* shows are those of a table ordered by latest insertion: a flush takes only
\* the row inserted least recently, only if its lifetime is over or the table
\* is over its size, and an insertion or removal touches only its own key
\* (insert, remove, flush and flushEntry of table2.C).  An expired row is shown
\* only behind a refreshed one.
ImplementsSoftState == StaleOnlyBehindRefreshed /\ Abs!Spec
=============================================================================
