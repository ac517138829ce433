-------------------------------- MODULE Feeds --------------------------------
(***************************************************************************)
(* The elements that feed a PullPush, in chains as the planners build them *)
(* (src/planner/rulePlanner.C, src/lang/planner/plannerContext.C):         *)
(*                                                                         *)
(*   "Buffer"     Update, Refresh or Removed -> DupElim                    *)
(*   "Timed"      Update -> TimedPullPush -> Slot                          *)
(*   "Periodic"   StaticTupleSource -> TimedPullPush -> Slot               *)
(*   "Aggregate"  Aggregate                                                *)
(*   "Stage"      Update -> Stage with a Tokenizer                         *)
(*                                                                         *)
(* The listeners of a table hand tuples in during a commit; the PullPush   *)
(* pulls until there is nothing, and again once it is called back.         *)
(***************************************************************************)
EXTENDS Integers, Sequences, SequencesExt

CONSTANTS
  Kinds,      \* the chains
  Limits,     \* values of _tuples; 0 is no limit
  Told,       \* what a table listener is told
  Texts,      \* what a Tokenizer is given: sequences of characters, 0 a delimiter
  MaxFed      \* bound on what the listener is told

\* A tuple a Tokenizer can do nothing with: too few fields, or fields of other types.
Unusable == <<-1>>
NoTuple == <<>>

VARIABLES
  kind, limit,
  feed,   \* the state of the elements, see Quiet
  fed,    \* history: what the listener was told, or the source gave
  got     \* history: what the PullPush got

vars == <<kind, limit, feed, fed, got>>

Quiet ==
  [buffer |-> <<>>, bufferCB |-> FALSE,                \* Update: _updateBuffer, _pullCB
   seen |-> {},                                        \* DupElim: _table
   timer |-> FALSE, counter |-> 0,                     \* TimedPullPush
   pendingPull |-> FALSE, pendingPush |-> FALSE,
   slot |-> <<>>, pushCB |-> FALSE, pullCB |-> FALSE,  \* Slot
   latest |-> <<>>, pending |-> FALSE, aggCB |-> FALSE,\* Aggregate
   input |-> FALSE, upstreamBlocked |-> FALSE,         \* Stage
   stageCB |-> FALSE, content |-> <<>>, iterator |-> 1,
   active |-> TRUE,                                    \* the PullPush
   faults |-> {}]                                      \* failed assertions, overruns

Fault(s, what) == [s EXCEPT !.faults = @ \cup {what}]

-----------------------------------------------------------------------------
(* src/elements/timedPullPush.C                                            *)

reschedule(s) ==
  LET t == IF s.timer THEN Fault(s, "assert(_timeCallback == 0)") ELSE s
  IN IF limit = 0 \/ (limit > 0 /\ t.counter < limit) THEN [t EXCEPT !.timer = TRUE] ELSE t

pullWakeup_Pending(s) == IF s.timer THEN s ELSE reschedule(s)
pullWakeup(s) == LET t == [s EXCEPT !.pendingPull = FALSE] IN IF t.timer THEN t ELSE reschedule(t)
pushWakeup(s) == LET t == [s EXCEPT !.pendingPush = FALSE] IN IF t.timer THEN t ELSE reschedule(t)

(* src/elements/slot.C; its push always returns 0                          *)

SlotPush(s, v) ==
  LET t == [s EXCEPT !.pushCB = TRUE]
  IN CASE s.slot # <<>> -> Fault(t, "tuple overrun")
       [] OTHER -> [t EXCEPT !.slot = <<v>>, !.active = @ \/ s.pullCB, !.pullCB = FALSE]

WakePusher(s) == IF s.pushCB THEN [pushWakeup(s) EXCEPT !.pushCB = FALSE] ELSE s

\* A pull gives the state after it and the tuple, or NoTuple.
Gives(s, v) == [s |-> s, v |-> v]

SlotPull(s) ==
  IF s.slot # <<>>
  THEN Gives([WakePusher(s) EXCEPT !.slot = <<>>], s.slot)
  ELSE Gives(WakePusher([s EXCEPT !.pullCB = TRUE]), NoTuple)

(* src/elements/stage.C                                                    *)

unblock(s) ==
  CASE ~s.upstreamBlocked -> s
    [] s.upstreamBlocked /\ ~s.stageCB -> Fault(s, "call of an empty callback")
    [] OTHER -> [s EXCEPT !.upstreamBlocked = FALSE, !.stageCB = FALSE, !.active = TRUE]

(* src/elements/update.C, refresh.C and removed.C                          *)

BufferListener(s, v) ==
  LET t == [s EXCEPT !.buffer = Append(@, v), !.bufferCB = FALSE]
  IN CASE ~s.bufferCB      -> t
       [] kind = "Timed"   -> pullWakeup(t)
       [] kind = "Stage"   -> unblock(t)
       [] OTHER            -> [t EXCEPT !.active = TRUE]

BufferPull(s) ==
  IF s.buffer = <<>> THEN Gives([s EXCEPT !.bufferCB = TRUE], NoTuple)
  ELSE Gives([s EXCEPT !.buffer = Tail(@)], <<Head(s.buffer)>>)

(* src/elements/dupElim.C behind src/p2core/element.C: Element::pull pulls  *)
(* until simple_action lets a tuple pass or there is none.                 *)

FilteredPull(s) ==
  LET fresh == SelectInSeq(s.buffer, LAMBDA v : v \notin s.seen)
  IN IF fresh = 0 THEN Gives([s EXCEPT !.buffer = <<>>, !.bufferCB = TRUE], NoTuple)
     ELSE Gives([s EXCEPT !.buffer = SubSeq(@, fresh + 1, Len(@)),
                          !.seen = @ \cup {s.buffer[fresh]}], <<s.buffer[fresh]>>)

(* src/elements/aggregate.C                                                *)

AggListener(s, v) ==
  IF s.latest = <<v>> THEN s
  ELSE [s EXCEPT !.latest = <<v>>, !.pending = TRUE, !.active = @ \/ s.aggCB, !.aggCB = FALSE]

AggPull(s) ==
  IF ~s.pending THEN Gives([s EXCEPT !.aggCB = TRUE], NoTuple)
  ELSE Gives([(IF s.aggCB THEN Fault(s, "assert(!_pullCallback)") ELSE s) EXCEPT !.pending = FALSE],
             s.latest)

(* src/stages/tokenizer.C; the delimiter is one character, position 0 npos *)

FirstFrom(s, i, Test(_)) == IF i = 0 THEN 0 ELSE SelectInSubSeq(s, i, Len(s), Test)

newInput(s, v) ==
  IF v = Unusable THEN [s EXCEPT !.content = <<>>, !.iterator = 1]
  ELSE [s EXCEPT !.content = v, !.iterator = FirstFrom(v, 1, LAMBDA c : c # 0)]

newOutput_Keeps(s) ==
  LET end == FirstFrom(s.content, s.iterator, LAMBDA c : c = 0)
  IN CASE end = 0 /\ s.iterator = 0 -> Gives(s, NoTuple)
       [] end = 0 -> Gives([s EXCEPT !.iterator = 0], <<SubSeq(s.content, s.iterator, Len(s.content))>>)
       [] OTHER -> Gives([s EXCEPT !.iterator = end + 1], <<SubSeq(s.content, s.iterator, end - 1)>>)
newOutput(s) ==
  LET end == FirstFrom(s.content, s.iterator, LAMBDA c : c = 0)
  IN CASE end = 0 /\ s.iterator = 0 -> Gives(s, NoTuple)
       [] end = 0 -> Gives([s EXCEPT !.iterator = 0], <<SubSeq(s.content, s.iterator, Len(s.content))>>)
       [] OTHER -> Gives([s EXCEPT !.iterator = FirstFrom(s.content, end, LAMBDA c : c # 0)],
                         <<SubSeq(s.content, s.iterator, end - 1)>>)

\* Stage::pull: the rest of the input at hand, then the first of the next inputs that has
\* output; the inputs that have none are taken and dropped.
StageNext(s) ==
  LET useful == SelectInSeq(s.buffer, LAMBDA v : newOutput(newInput(s, v)).v # NoTuple)
  IN IF useful = 0
     THEN Gives([s EXCEPT !.buffer = <<>>, !.bufferCB = TRUE, !.input = FALSE,
                          !.upstreamBlocked = TRUE, !.stageCB = TRUE], NoTuple)
     ELSE newOutput([newInput(s, s.buffer[useful])
                       EXCEPT !.buffer = SubSeq(@, useful + 1, Len(@)), !.input = TRUE])

StagePull(s) ==
  IF s.stageCB THEN Gives(s, NoTuple)
  ELSE IF s.input /\ newOutput(s).v # NoTuple THEN newOutput(s)
  ELSE IF s.upstreamBlocked THEN Gives([s EXCEPT !.input = FALSE, !.stageCB = TRUE], NoTuple)
  ELSE StageNext(s)

-----------------------------------------------------------------------------
Init ==
  /\ kind \in Kinds
  /\ limit \in IF kind = "Periodic" THEN Limits \ {0} ELSE IF kind = "Timed" THEN Limits ELSE {0}
  /\ feed = IF kind \in {"Timed", "Periodic"} THEN reschedule(Quiet) ELSE Quiet
  /\ fed = <<>> /\ got = <<>>

\* A commit tells the listener.
Listen ==
  /\ kind # "Periodic" /\ Len(fed) < MaxFed
  /\ \E v \in IF kind = "Stage" THEN Texts \cup {Unusable} ELSE Told :
       /\ feed' = IF kind = "Aggregate" THEN AggListener(feed, v) ELSE BufferListener(feed, v)
       /\ fed' = Append(fed, v)
  /\ UNCHANGED <<kind, limit, got>>

\* TimedPullPush::runTimer, a callback of the loop.  A StaticTupleSource gives its tuple
\* at every pull; the copies are numbered.
Ticks(s) ==
  LET p == IF kind = "Periodic" THEN Gives(s, <<s.counter + 1>>) ELSE BufferPull(s)
  IN CASE s.pendingPush \/ s.pendingPull -> reschedule(s)
       [] ~s.pendingPush /\ ~s.pendingPull /\ p.v = NoTuple -> [p.s EXCEPT !.pendingPull = TRUE]
       [] OTHER -> reschedule([SlotPush([p.s EXCEPT !.counter = @ + 1], p.v[1])
                                 EXCEPT !.pendingPush = TRUE])

runTimer ==
  /\ feed.timer
  /\ \E s \in {Ticks([feed EXCEPT !.timer = FALSE])} :
       /\ feed' = s
       /\ fed' = IF kind = "Periodic" THEN [i \in 1 .. s.counter |-> i] ELSE fed
  /\ UNCHANGED <<kind, limit, got>>

\* A turn of PullPush::run; what is behind it never pushes back.
Run ==
  /\ feed.active
  /\ \E p \in {CASE kind = "Buffer" -> FilteredPull(feed)
                 [] kind = "Aggregate" -> AggPull(feed)
                 [] kind = "Stage" -> StagePull(feed)
                 [] OTHER -> SlotPull(feed)} :
        /\ feed' = [p.s EXCEPT !.active = p.v # NoTuple]
        /\ got' = got \o p.v
  /\ UNCHANGED <<kind, limit, fed>>

Next == Listen \/ runTimer \/ Run

Spec == Init /\ [][Next]_vars

-----------------------------------------------------------------------------
\* What the PullPush should get.  A Tokenizer gives one empty token for a tuple it cannot use.
Words(v) ==
  IF v = Unusable THEN <<<<>>>>
  ELSE LET starts == SelectSeq([i \in 1..Len(v) |-> i],
                               LAMBDA i : v[i] # 0 /\ (i = 1 \/ v[i - 1] = 0))
           run(i) == SubSeq(v, i, CHOOSE j \in i..Len(v) : /\ \A k \in i..j : v[k] # 0
                                                           /\ j = Len(v) \/ v[j + 1] = 0)
       IN [n \in 1..Len(starts) |-> run(starts[n])]

Firsts(s) == SelectSeq([i \in 1..Len(s) |-> [v |-> s[i], new |-> \A j \in 1..(i - 1) : s[j] # s[i]]],
                       LAMBDA e : e.new)

Due ==
  CASE kind = "Buffer" -> [i \in 1..Len(Firsts(fed)) |-> Firsts(fed)[i].v]
    [] kind = "Stage" -> FoldLeft(LAMBDA due, v : due \o Words(v), <<>>, fed)
    [] kind = "Timed" /\ limit > 0 -> SubSeq(fed, 1, IF Len(fed) < limit THEN Len(fed) ELSE limit)
    [] OTHER -> fed

\* No assertion fails, no slot is overrun and no empty callback is called.
AssertionsHold == feed.faults = {}

\* A PullPush that sleeps is called back: the element it pulls from has its callback and
\* nothing for it, and a TimedPullPush that waits is waited for by a timer, by the table it
\* pulls from, or by the slot it pushed to.
WillBeCalled ==
  /\ ~feed.active =>
       CASE kind = "Buffer" -> feed.bufferCB /\ feed.buffer = <<>>
         [] kind = "Aggregate" -> feed.aggCB /\ ~feed.pending
         [] kind = "Stage" -> feed.stageCB /\ feed.upstreamBlocked /\ feed.bufferCB /\ feed.buffer = <<>>
         [] OTHER -> feed.pullCB /\ feed.slot = <<>>
  /\ kind \in {"Timed", "Periodic"} =>
       \/ feed.timer /\ (feed.pendingPush => feed.pushCB) /\ (feed.pendingPull => feed.bufferCB)
       \/ feed.pendingPull /\ feed.bufferCB /\ feed.buffer = <<>>
       \/ limit > 0 /\ feed.counter = limit

\* What the PullPush has got is the beginning of what it is due, in order and once each.
\* Of an Aggregate, which keeps only the latest, it has the latest when it sleeps.
NothingLost ==
  IF kind = "Aggregate"
  THEN /\ \A i \in 1..Len(got) : \E j \in 1..Len(fed) : fed[j] = got[i]
       /\ ~feed.active /\ fed # <<>> => got # <<>> /\ Last(got) = Last(fed)
  ELSE IsPrefix(got, Due)

\* All of it has come.
Served ==
  /\ kind = "Aggregate" \/ got = Due
  /\ kind = "Periodic" => Len(got) = limit
=============================================================================
