------------------------------- MODULE Strand -------------------------------
(***************************************************************************)
(* The strand that src/lang/planner/plannerContext.C makes of a rule with  *)
(* a RECV event:                                                           *)
(*                                                                         *)
(*   event queue -> PullPush 1 -> Lookup2 1 -> filter -> projection        *)
(*               -> PullPush 2 -> Lookup2 2 -> filter -> projection        *)
(*               -> ... -> PullPush N+1 -> action                          *)
(*                                                                         *)
(* and, when the head has an aggregate, the same strand as the inner graph *)
(* of an Aggwrap2 (src/elements/aggwrap2.C), which gets its events from a  *)
(* queue of its own through PullPush 0, takes what PullPush N+1 pushes,    *)
(* and learns from the NoNullSignal behind the first lookup that an event  *)
(* is done.                                                                *)
(*                                                                         *)
(* A tuple is the number of its event, the fields of the event and one     *)
(* field for every join.  A row <<a, b>> joins a tuple that ends with a.   *)
(***************************************************************************)
EXTENDS Integers, Sequences, FiniteSets, FiniteSetsExt, SequencesExt

-----------------------------------------------------------------------------
(* src/aggregates: the aggregate functions behind CommonTable::AggFunc.    *)
(* A function is reset, takes a first value and further ones, and is asked *)
(* for its result.  AggSchema merges attribute lists for the compiler and  *)
(* is left out.                                                            *)

Functions == {"COUNT", "COUNTDISTINCT", "MIN", "MAX", "MKLIST", "MKSET"}

\* reset: a null pointer of AggMin and AggMax is the empty sequence.
Reset(f) ==
  CASE f = "COUNT" -> 0
    [] f \in {"COUNTDISTINCT", "MKSET"} -> {}
    [] OTHER -> <<>>

First(f, acc, v) ==
  CASE f = "COUNT" -> 1
    [] f \in {"COUNTDISTINCT", "MKSET"} -> acc \cup {v}
    [] f = "MKLIST" -> Append(acc, v)
    [] OTHER -> <<v>>

\* An earlier value that compares equal stays.
Process(f, acc, v) ==
  CASE f = "COUNT" -> acc + 1
    [] f \in {"COUNTDISTINCT", "MKSET"} -> acc \cup {v}
    [] f = "MKLIST" -> Append(acc, v)
    [] f = "MIN" -> IF v < acc[1] THEN <<v>> ELSE acc
    [] f = "MAX" -> IF v > acc[1] THEN <<v>> ELSE acc

\* result: Val_Null, where AggMin and AggMax have seen nothing, is the empty sequence.
Result(f, acc) == IF f = "COUNTDISTINCT" THEN Cardinality(acc) ELSE acc

\* AggMkSet alone hands out the object that its reset clears: AggMkList makes a new
\* list, and the values of the others are not changed.
HandsOutItsState(f) == f = "MKSET"

-----------------------------------------------------------------------------
\* What a result r should be for the values val[t] of a set S of tuples.
IsAggregate(f, r, S, val(_)) ==
  LET vals == {val(t) : t \in S}
  IN  CASE f = "COUNT" -> r = Cardinality(S)
        [] f = "COUNTDISTINCT" -> r = Cardinality(vals)
        [] f = "MKSET" -> r = vals
        [] f = "MKLIST" -> /\ Len(r) = Cardinality(S)
                           /\ \A v \in vals : Cardinality({i \in DOMAIN r : r[i] = v})
                                              = Cardinality({t \in S : val(t) = v})
        [] f = "MIN" -> r = IF S = {} THEN <<>> ELSE <<Min(vals)>>
        [] f = "MAX" -> r = IF S = {} THEN <<>> ELSE <<Max(vals)>>

-----------------------------------------------------------------------------
(* The strand.                                                             *)

CONSTANTS
  N,           \* number of probes of the rule
  Heads,       \* the kinds of rules: <<negated probes, aggregate function or "NONE">>
  Keys,        \* the values that events carry
  Contents,    \* what the tables may hold: probe |-> rows
  MaxEvents,   \* bound on the events
  MaxCommits   \* bound on the changes of the tables

WellFormed ==
  /\ N \in Nat \ {0} /\ MaxEvents \in Nat /\ MaxCommits \in Nat
  /\ Heads \subseteq (SUBSET (1 .. N)) \X (Functions \cup {"NONE"})

VARIABLES
  notIn,    \* the probes of the rule that are negated
  fn,       \* the aggregate function of its head
  rows,     \* probe |-> rows of its table
  strand,   \* the state of the elements, see Empty
  running,  \* the PullPush that runs, None if there is none
  asked,    \* history: the events and the tables they met
  commits   \* number of changes of the tables

rule == <<notIn, fn>>
vars == <<rule, rows, strand, running, asked, commits>>

Aggregated == fn # "NONE"

Probes == 1 .. N
PullPushes == IF Aggregated THEN 0 .. N + 1 ELSE 1 .. N + 1
None == -1

Idle == [tuple |-> <<>>, open |-> FALSE, left |-> {}, pushCB |-> FALSE, pullCB |-> FALSE]

Empty ==
  [q      |-> [j \in {0, 1} |-> <<>>],            \* aggQueue and the event queue
   qCB    |-> [j \in {0, 1} |-> FALSE],           \* their _pullCB
   lookup |-> [i \in Probes |-> Idle],
   pp     |-> [r \in PullPushes |-> [active |-> TRUE, pull |-> FALSE, push |-> FALSE]],
   agg    |-> [busy |-> FALSE, cb |-> FALSE, seen |-> FALSE, event |-> <<>>],
   store  |-> <<Reset(fn)>>,                      \* the states of the aggregate function
   out    |-> <<>>,                               \* what reached the action, in order
   faults |-> {}]                                 \* overruns, strays, failed assertions

Init ==
  /\ \E h \in Heads : notIn = h[1] /\ fn = h[2]
  /\ rows \in Contents
  /\ strand = Empty /\ running = None /\ asked = <<>> /\ commits = 0

-----------------------------------------------------------------------------
(* src/elements/pullPush.C                                                 *)

PullWakeup(s, r) ==
  [s EXCEPT !.pp[r] = [@ EXCEPT !.pull = FALSE, !.active = @ \/ ~s.pp[r].push]]

PushWakeup(s, r) ==
  [s EXCEPT !.pp[r] = [@ EXCEPT !.push = FALSE, !.active = @ \/ ~s.pp[r].pull]]

\* The push returned 0.
Blocks_Never(s, r) == s
Blocks(s, r) == [s EXCEPT !.pp[r] = [@ EXCEPT !.push = TRUE, !.active = FALSE]]

\* The pull returned nothing.
Quiesces(s, r) == [s EXCEPT !.pp[r] = [@ EXCEPT !.pull = TRUE, !.active = FALSE]]

(* src/elements/queue.C, without a limit                                   *)

QueuePush(s, j, t) ==
  LET queued == [s EXCEPT !.q[j] = Append(@, t), !.qCB[j] = FALSE]
  IN  IF s.qCB[j] THEN PullWakeup(queued, j) ELSE queued

(* src/elements/lookup2.C                                                  *)

\* push always returns 0.  While a lookup is pending it drops the tuple.
LookupPush(s, i, t) ==
  IF s.lookup[i].tuple = <<>>
  THEN LET taken == [s EXCEPT !.lookup[i] = [Idle EXCEPT !.tuple = t, !.pushCB = TRUE]]
       IN  IF s.lookup[i].pullCB THEN PullWakeup(taken, i + 1) ELSE taken
  ELSE [s EXCEPT !.faults = @ \cup {"lookup overrun"}]

Matches(i, t) == {row \in rows[i] : row[1] = Last(t)}

\* The iterator is at its end: the lookup is over, and PullPush i may push again.
LookupDone(s, i) ==
  LET closed == [s EXCEPT !.lookup[i] = [Idle EXCEPT !.pullCB = s.lookup[i].pullCB]]
  IN  IF s.lookup[i].pushCB THEN PushWakeup(closed, i) ELSE closed

(* src/elements/aggwrap2.C                                                 *)

\* agg_init: AggMkSet clears the set it may have handed out.
ResetStore(s) ==
  IF HandsOutItsState(fn)
  THEN [s EXCEPT !.store[Len(s.store)] = Reset(fn)]
  ELSE [s EXCEPT !.store = Append(@, Reset(fn))]

\* push on port 0, which always returns 0.  While an event is in work it is dropped.
AggEvent(s, t) ==
  IF s.agg.busy
  THEN [s EXCEPT !.agg.cb = TRUE, !.faults = @ \cup {"outer overrun"}]
  ELSE QueuePush(ResetStore([s EXCEPT !.agg = [busy |-> TRUE, cb |-> TRUE, seen |-> FALSE,
                                               event |-> t]]), 1, t)

\* agg_accum, push on port 1.
AggAccum(s, t) ==
  IF ~s.agg.busy
  THEN [s EXCEPT !.faults = @ \cup {"stray inner tuple"}]
  ELSE [s EXCEPT !.agg.seen = TRUE,
                 !.store[Len(s.store)] =
                   IF s.agg.seen THEN Process(fn, @, Last(t)) ELSE First(fn, @, Last(t))]

\* agg_finalize, push on port 2.  The result is the object of the aggregate function.
AggFinalize(s) ==
  IF ~s.agg.busy
  THEN [s EXCEPT !.faults = @ \cup {"stray completion"}]
  ELSE LET ended == [s EXCEPT !.out = Append(@, [event |-> s.agg.event, obj |-> Len(s.store)]),
                              !.agg = [busy |-> FALSE, cb |-> FALSE, seen |-> s.agg.seen,
                                       event |-> <<>>]]
       IN  IF s.agg.cb THEN PushWakeup(ended, 0) ELSE ended

-----------------------------------------------------------------------------
\* What PullPush r does with a tuple that it pulled.
Deliver(s, r, t) ==
  CASE r = 0 -> Blocks(AggEvent(s, t), r)
    [] r \in Probes -> Blocks(LookupPush(s, r, t), r)
    [] r = N + 1 -> IF Aggregated THEN AggAccum(s, t)
                    ELSE [s EXCEPT !.out = Append(@, [event |-> t, obj |-> 0])]

\* PullPush::run goes on until it is blocked or there is nothing to pull.
Continue(s) ==
  /\ strand' = s
  /\ running' = IF s.pp[running].active THEN running ELSE None
  /\ UNCHANGED <<rule, rows, asked, commits>>

\* NoNull and NoNullSignal drop the empty tuple that ends a lookup.  The signal of the
\* first probe ends the aggregation.
Signal_EveryProbe(s, i) == IF Aggregated THEN AggFinalize(s) ELSE s
Signal(s, i) == IF Aggregated /\ i = 1 THEN AggFinalize(s) ELSE s

\* NoNullField drops the tuples that found no row, OnlyNullField the ones that did.
PassesNull_Always(i) == TRUE
PassesNull(i) == i \in notIn
PassesRow(i) == i \notin notIn

RunPullPush ==
  /\ running = None
  /\ \E r \in PullPushes :
       /\ strand.pp[r].active
       /\ running' = r
  /\ UNCHANGED <<rule, rows, strand, asked, commits>>

QueuePull ==
  /\ running \in {0, 1}
  /\ IF strand.q[running] = <<>>
     THEN Continue(Quiesces([strand EXCEPT !.qCB[running] = TRUE], running))
     ELSE Continue(Deliver([strand EXCEPT !.q[running] = Tail(@)], running,
                           Head(strand.q[running])))

\* Lookup2::pull without a pending lookup.
LookupUnderrun ==
  /\ running > 1
  /\ strand.lookup[running - 1].tuple = <<>>
  /\ Continue(Quiesces([strand EXCEPT !.lookup[running - 1].pullCB = TRUE], running))

\* The first pull of a lookup that finds nothing.
LookupNothing ==
  /\ running > 1
  /\ LET i == running - 1
         t == strand.lookup[i].tuple
         s == [strand EXCEPT !.lookup[i].open = TRUE]
     IN  /\ t # <<>> /\ ~strand.lookup[i].open /\ Matches(i, t) = {}
         /\ Continue(IF PassesNull(i) THEN Deliver(s, running, t) ELSE s)

LookupRow ==
  /\ running > 1
  /\ LET i == running - 1
         t == strand.lookup[i].tuple
         left == IF strand.lookup[i].open THEN strand.lookup[i].left ELSE Matches(i, t)
     IN  /\ t # <<>>
         /\ \E row \in left :
              LET s == [strand EXCEPT !.lookup[i].open = TRUE, !.lookup[i].left = left \ {row}]
              IN  Continue(IF PassesRow(i) THEN Deliver(s, running, Append(t, row[2])) ELSE s)

LookupEnd ==
  /\ running > 1
  /\ LET i == running - 1
     IN  /\ strand.lookup[i].open /\ strand.lookup[i].left = {}
         /\ Continue(Signal(LookupDone(strand, i), i))

Step == RunPullPush \/ QueuePull \/ LookupUnderrun \/ LookupNothing \/ LookupRow \/ LookupEnd

-----------------------------------------------------------------------------
\* The end of a fixpoint: Scheduler::runRunnables finds no PullPush ACTIVE.
Fixpoint == running = None /\ \A r \in PullPushes : ~strand.pp[r].active

\* The demultiplexer pushes an event into the queue of the strand.
Event ==
  /\ running = None /\ Len(asked) < MaxEvents
  /\ \E k \in Keys :
       /\ strand' = QueuePush(strand, IF Aggregated THEN 0 ELSE 1, <<Len(asked) + 1, k>>)
       /\ asked' = Append(asked, [key |-> k, rows |-> rows])
  /\ UNCHANGED <<rule, rows, running, commits>>

\* CommitManager::commit changes the tables.
Commit ==
  /\ Fixpoint /\ commits < MaxCommits
  /\ rows' \in Contents \ {rows}
  /\ commits' = commits + 1
  /\ UNCHANGED <<rule, strand, running, asked>>

Next == Step \/ Event \/ Commit

Spec == Init /\ [][Next]_vars

-----------------------------------------------------------------------------
\* The type invariant.
TypeOK ==
  /\ <<notIn, fn>> \in Heads /\ rows \in Contents
  /\ running \in PullPushes \cup {None}
  /\ DOMAIN strand = DOMAIN Empty
  /\ strand.pp \in [PullPushes -> [active : BOOLEAN, pull : BOOLEAN, push : BOOLEAN]]
  /\ strand.qCB \in [{0, 1} -> BOOLEAN]
  /\ \A i \in Probes : strand.lookup[i].left \subseteq UNION {c[i] : c \in Contents}
  /\ commits \in 0 .. MaxCommits /\ Len(asked) <= MaxEvents

\* No lookup and no Aggwrap2 is pushed to while it is at work ("lookup overrun",
\* "Received an overrun outer tuple"), and none gets a tuple or a completion of an
\* event that it is not at: a dropped tuple would be lost without a trace.
NothingDropped == TypeOK /\ strand.faults = {}

\* The tuples that rule evaluation should give for an event.
Join(n) ==
  LET probe(S, i) ==
        IF i \in notIn
        THEN {t \in S : \A row \in asked[n].rows[i] : row[1] # Last(t)}
        ELSE UNION {{Append(t, row[2]) : row \in {w \in asked[n].rows[i] : w[1] = Last(t)}} : t \in S}
  IN  FoldLeft(probe, {<<n, asked[n].key>>}, [i \in Probes |-> i])

Outputs(n) == {k \in DOMAIN strand.out : strand.out[k].event[1] = n}

\* An event of a rule without an aggregate gives the tuples of the join of its event
\* with the tables, each once.  An event of a rule with an aggregate gives one tuple, with
\* the aggregate over all of the join, also when the join is empty.  All of it comes in the
\* fixpoint of the event: when no PullPush is ACTIVE nothing is left to do.  Events are
\* answered in the order in which they came.
Complete ==
  /\ \A j, k \in DOMAIN strand.out : j < k => strand.out[j].event[1] <= strand.out[k].event[1]
  /\ Fixpoint =>
       \A n \in DOMAIN asked :
         IF Aggregated
         THEN Cardinality(Outputs(n)) = 1
         ELSE /\ {strand.out[k].event : k \in Outputs(n)} = Join(n)
              /\ Cardinality(Outputs(n)) = Cardinality(Join(n))

\* The value of an aggregate that Aggwrap2 has sent.
Value(k) == IF Aggregated THEN Result(fn, strand.store[strand.out[k].obj]) ELSE 0

\* When Aggwrap2 sends a result it is the aggregate over the whole join: the completion
\* of the first lookup overtakes no tuple of the lookups behind it.
AggregatesWhole ==
  Aggregated => \A k \in DOMAIN strand'.out \ DOMAIN strand.out :
                  IsAggregate(fn, Value(k)', Join(strand'.out[k].event[1]), Last)

\* A tuple that was sent keeps its value: table2.C, refTable.C and commonTable.C rely
\* on it ("Since tuples are immutable, there are no update consistency issues").
ValuesKept == \A k \in DOMAIN strand.out : Value(k)' = Value(k)

\* At the end of a fixpoint the strand holds no state: queues are empty, no lookup is
\* pending, no aggregation is open, and every PullPush waits for the queue or the
\* lookup it pulls from, which has its callback.
Stateless ==
  Fixpoint =>
    /\ \A j \in {0, 1} : strand.q[j] = <<>>
    /\ \A i \in Probes : strand.lookup[i].tuple = <<>> /\ ~strand.lookup[i].pushCB
    /\ ~strand.agg.busy
    /\ \A r \in PullPushes :
         /\ strand.pp[r].pull /\ ~strand.pp[r].push
         /\ IF r < 2 THEN strand.qCB[r] ELSE strand.lookup[r - 1].pullCB

\* An event of a rule with an aggregate, which is to be answered: ext_in_cb calls PullPush 0
\* back after each of them, and the scheduler runs what is ACTIVE.
Asked(n) == Aggregated /\ Len(asked) >= n
=============================================================================
