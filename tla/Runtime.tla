------------------------------- MODULE Runtime -------------------------------
(***************************************************************************)
(* The dataflow of a node and the scheduler that runs it: the wiring of    *)
(* src/bin/runStagedOverlog.C, the rule strands of                         *)
(* src/lang/planner/plannerContext.C, and src/p2core/scheduler.C.          *)
(*                                                                         *)
(*   net -> defrag -> DefragPP -> netQ ---+                                *)
(*   table listeners of INSERT, DELETE ---+-> ExtDRRPP -> extQ -> Switch   *)
(*                                                                 |       *)
(*      +-------------------- intQ <-------------------------------+       *)
(*      v                                                          |       *)
(*   IntQPP -> demux -> strand of r -> SEAOutputPP -> local -------+       *)
(*                          |                      -> remote: commit -> net*)
(*                          +-> action of r -> Insert2, Delete2: commit    *)
(*                                                                         *)
(* Queues are FIFO and unbounded, as Queue is with size 0.  Every PullPush *)
(* and the Switch are runnables; the order in which the scheduler visits   *)
(* them is that of their addresses, so any order is allowed.               *)
(***************************************************************************)
EXTENDS Overlog

CONSTANTS
  Arrivals,  \* events that the network brings
  MaxNet,    \* bound on their number
  MaxFrags,  \* max_queue_size_ of Frag
  Lapsing,   \* rows of tables with a finite lifetime
  Programs,  \* the programs that ProgramLoader loads, rows of a table
  Installed  \* the row whose insertion makes it load the next one

FixedRunnables == {"DefragPP", "ExtDRRPP", "IntQPP", "SEAOutputPP", "NetPP", "Switch"}
FixedQueues == {"defrag", "netQ", "extQ", "intQ", "netOutQ"}

\* Rules have names of their own, and the commit actions are those of the rules,
\* the loader's and the network's.  The loader pushes programs to compile, and
\* the stub declares the Insert2 that says that one is installed before the
\* loader's.
WellFormed ==
  /\ WellFormedProgram
  /\ Rules \cap (FixedRunnables \cup FixedQueues \cup {"none", "net", "loader"}) = {}
  /\ Order \in Seq(ActionRules \cup {"net", "loader"})
  /\ \A i, j \in DOMAIN Order : Order[i] = Order[j] => i = j
  /\ Range(Order) = ActionRules \cup {"net", "loader"}
  /\ MaxNet \in Nat /\ MaxFrags \in Nat \ {0}
  /\ Arrivals \subseteq Tuples /\ Lapsing \subseteq Tuples
  /\ Programs \in Seq(Tuples \ {Installed})
  /\ \A i, j \in DOMAIN Order :
       /\ Order[i] \in ActionRules /\ Order[j] = "loader"
       /\ Rule[Order[i]].action = "ADD" /\ Rule[Order[i]].head = Installed
       => i < j

VARIABLES
  table,    \* rows
  lapsed,   \* rows whose lifetime is over and that no access has flushed
  q,        \* queue |-> its tuples
  state,    \* runnable |-> its IRunnable::state
  cur,      \* the PullPush whose run() is in progress, or "none"
  frags,    \* fragments that wait in Frag for the socket
  pending,  \* commit action |-> its buffer
  loaded,   \* how many programs the loader has pushed
  arrived,  \* how many events the network brought
  pc,       \* where the event loop and the scheduler are
  first,    \* phase2: the first fixpoint
  ran,      \* phase2: ranSomething
  idx,      \* the commit action that comes next
  wait,     \* whether the loop waits
  events,   \* history: events that passed the gate
  snap,     \* history: the table when the fixpoint began
  taken,    \* history: the events that passed the gate in this fixpoint
  seen      \* history: the events that intDemux has passed on in this fixpoint

rows == <<table, lapsed>>
flow == <<q, state, cur>>
outside == <<frags, loaded, arrived>>
phase == <<first, ran, idx, wait>>
history == <<events, snap, taken, seen>>
vars == <<rows, flow, outside, pending, pc, phase, history>>

PullPushes == (FixedRunnables \ {"Switch"}) \cup ActionRules
Runnables == PullPushes \cup {"Switch"}
Queues == FixedQueues \cup Rules
Actions == Range(Order)

Tup == [name : Tuples, tag : Nat]

\* The queues that a runnable pulls from, through a DRoundRobin if several.
Inputs(p) ==
  CASE p = "DefragPP" -> {"defrag"}
    [] p = "ExtDRRPP" -> {"netQ"} \cup TableRules
    [] p = "Switch" -> {"extQ"}
    [] p = "IntQPP" -> {"intQ"}
    [] p = "SEAOutputPP" -> SendRules
    [] p = "NetPP" -> {"netOutQ"}
    [] OTHER -> {p}

Empty(Q) == \A x \in Q : q[x] = <<>>

T(name, tag) == [name |-> name, tag |-> tag]

\* Queue::push and the listeners: append to the queues of Q.
Push(qs, Q, t) == [x \in Queues |-> IF x \in Q THEN Append(qs[x], t) ELSE qs[x]]

\* The pull callbacks of Q wake the PullPush that waits there; those of the
\* Switch only clear its flag, as !state() == OFF never holds.
Wake(st, Q) ==
  [p \in Runnables |->
     IF p \in PullPushes /\ Inputs(p) \cap Q # {} /\ st[p] # "BLOCKED_PUSH"
     THEN "ACTIVE" ELSE st[p]]

Init ==
  /\ table = {} /\ lapsed = {}
  /\ q = [x \in Queues |-> <<>>]
  /\ state = [p \in Runnables |-> "ACTIVE"]
  /\ cur = "none" /\ frags = 0
  /\ pending = [a \in Actions |-> <<>>]
  /\ loaded = 0 /\ arrived = 0
  /\ pc = "timers" /\ first = TRUE /\ ran = FALSE /\ idx = 1 /\ wait = FALSE
  /\ events = 0 /\ snap = {} /\ taken = <<>> /\ seen = {}

-----------------------------------------------------------------------------
(* The event loop: timers, the scheduler, descriptors.                     *)

\* ProgramLoader::loader pushes the next program to its Insert2.
Load(pend) ==
  IF loaded < Len(Programs)
  THEN [pend EXCEPT !["loader"] = Append(@, T(Programs[loaded + 1], 0))]
  ELSE pend

\* The callback that ProgramLoader::initialize scheduled.
LoaderTimer ==
  /\ pc = "timers" /\ loaded = 0 /\ Programs # <<>>
  /\ pending' = Load(pending)
  /\ loaded' = 1
  /\ UNCHANGED <<rows, flow, frags, arrived, pc, phase, history>>

\* processCatchup calls Scheduler::proc once the timers are done.
StartProc ==
  /\ pc = "timers" /\ (Programs # <<>> => loaded > 0)
  /\ pc' = "phase2" /\ first' = TRUE /\ ran' = FALSE
  /\ UNCHANGED <<rows, flow, outside, pending, idx, wait, history>>

\* A datagram completes a tuple in Defrag.
Arrive(n) ==
  /\ pc \in {"sleep", "fds"} /\ arrived < MaxNet
  /\ arrived' = arrived + 1
  /\ q' = Push(q, {"defrag"}, T(n, 0))
  /\ state' = Wake(state, {"defrag"})
  /\ pc' = "fds"
  /\ UNCHANGED <<rows, cur, frags, loaded, pending, phase, history>>

\* The socket takes a fragment, and Frag calls back the PullPush it refused.
Transmit ==
  /\ pc \in {"sleep", "fds"} /\ frags > 0
  /\ frags' = frags - 1
  /\ state' = [state EXCEPT !["NetPP"] = IF @ = "BLOCKED_PUSH" THEN "ACTIVE" ELSE @]
  /\ pc' = "fds"
  /\ UNCHANGED <<rows, q, cur, loaded, arrived, pending, phase, history>>

Loop ==
  /\ pc \in {"sleep", "fds"}
  /\ pc' = "timers"
  /\ UNCHANGED <<rows, flow, outside, pending, phase, history>>

-----------------------------------------------------------------------------
(* Scheduler::phase2 and runRunnables.                                     *)

\* "turn on the gate for exactly 1 external event to flow through"
BeginFixpoint ==
  /\ pc = "phase2" /\ (first \/ q["extQ"] # <<>>)
  /\ state' = [state EXCEPT !["Switch"] = "ACTIVE"]
  /\ first' = FALSE
  /\ pc' = "run"
  /\ snap' = table /\ taken' = <<>> /\ seen' = {}
  /\ UNCHANGED <<rows, q, cur, outside, pending, ran, idx, wait, events>>

\* mNTuple of the gate.
NTuple_Two == 2

NTuple == 1

\* Switch::run: OFF after NTuple tuples, BLOCKED when the queue has no more.
RunSwitch ==
  LET n == IF Len(q["extQ"]) < NTuple THEN Len(q["extQ"]) ELSE NTuple
      new == [i \in 1..n |-> T(q["extQ"][i].name, events + i)]
  IN /\ pc = "run" /\ cur = "none" /\ state["Switch"] = "ACTIVE"
     /\ q' = [q EXCEPT !["extQ"] = SubSeq(@, n + 1, Len(@)), !["intQ"] = @ \o new]
     /\ state' = [(IF n > 0 THEN Wake(state, {"intQ"}) ELSE state)
                    EXCEPT !["Switch"] = IF n = NTuple THEN "OFF" ELSE "BLOCKED"]
     /\ events' = events + n
     /\ taken' = taken \o new
     /\ UNCHANGED <<rows, cur, outside, pending, pc, phase, snap, seen>>

\* Any other ACTIVE runnable: PullPush::run begins, and ends when its inputs
\* have no more tuples or its output refuses one.
StartRun(p) ==
  /\ pc = "run" /\ cur = "none" /\ state[p] = "ACTIVE"
  /\ cur' = p /\ ran' = TRUE
  /\ UNCHANGED <<rows, q, state, outside, pending, pc, first, idx, wait, history>>

FinishRun ==
  /\ pc = "run" /\ cur # "none" /\ Empty(Inputs(cur))
  /\ state' = [state EXCEPT ![cur] = "BLOCKED"]
  /\ cur' = "none"
  /\ UNCHANGED <<rows, q, outside, pending, pc, phase, history>>

\* The PullPush pulls the first tuple of queue x.
Ready(x) == pc = "run" /\ cur # "none" /\ x \in Inputs(cur) /\ q[x] # <<>>

\* A strand probes its table, which flushes it first.
Pull(x) == Ready(x) /\ (x \in Rules => Rule[x].probe \notin lapsed)

\* It pushes t to the queues of Q.
Forward(x, Q, t) ==
  /\ q' = Push([q EXCEPT ![x] = Tail(@)], Q, t)
  /\ state' = Wake(state, Q)
  /\ seen' = IF x = "intQ" THEN seen \cup {t.name} ELSE seen
  /\ UNCHANGED <<rows, cur, outside, pending, pc, phase, events, snap, taken>>

\* It pushes t to the buffer of a commit action.
Buffer(x, a, t) ==
  /\ q' = [q EXCEPT ![x] = Tail(@)]
  /\ pending' = [pending EXCEPT ![a] = Append(@, t)]
  /\ UNCHANGED <<rows, state, cur, outside, pc, phase, history>>

DefragStep ==
  /\ cur = "DefragPP" /\ Pull("defrag")
  /\ Forward("defrag", {"netQ"}, Head(q["defrag"]))

\* From the network, or the head of a rule on a table event.
ExtStep(x) ==
  /\ cur = "ExtDRRPP" /\ Pull(x)
  /\ Forward(x, {"extQ"},
             IF x \in TableRules THEN T(Rule[x].head, 0) ELSE Head(q[x]))

\* intDemux: to the strands of all rules on the event, or discarded.
IntStep ==
  /\ cur = "IntQPP" /\ Pull("intQ")
  /\ LET t == Head(q["intQ"]) IN
       Forward("intQ", {r \in RecvRules : Rule[r].event = t.name}, t)

\* A strand whose condition fails produces nothing.
StrandFails(r) ==
  /\ r \in RecvRules /\ Pull(r) /\ ~Holds(r, table)
  /\ Forward(r, {}, Head(q[r]))

\* intExtDemux: to intQMux, or to NetCommitBuf.
SendLocal(r) ==
  /\ r \in SendRules \ Remote /\ Pull(r) /\ Holds(r, table)
  /\ Forward(r, {"intQ"}, T(Rule[r].head, Head(q[r]).tag))

SendRemote(r) ==
  /\ r \in SendRules \cap Remote /\ Pull(r) /\ Holds(r, table)
  /\ Buffer(r, "net", T(Rule[r].head, Head(q[r]).tag))

\* Insert2::push, Delete2::push.
SideEffect_Direct(r) ==
  /\ r \in ActionRules /\ Pull(r) /\ Holds(r, table)
  /\ q' = [q EXCEPT ![r] = Tail(@)]
  /\ table' = IF Rule[r].action = "ADD" THEN table \cup {Rule[r].head}
              ELSE table \ {Rule[r].head}
  /\ UNCHANGED <<lapsed, state, cur, outside, pending, pc, phase, history>>

SideEffect(r) ==
  /\ r \in ActionRules /\ Pull(r) /\ Holds(r, table)
  /\ Buffer(r, r, T(Rule[r].head, Head(q[r]).tag))

\* Frag accepts the tuple; at its limit it refuses the next one.
FragFull(n) == n >= MaxFrags

NetStep ==
  /\ cur = "NetPP" /\ Pull("netOutQ")
  /\ q' = [q EXCEPT !["netOutQ"] = Tail(@)]
  /\ frags' = frags + 1
  /\ IF FragFull(frags + 1)
     THEN cur' = "none" /\ state' = [state EXCEPT !["NetPP"] = "BLOCKED_PUSH"]
     ELSE UNCHANGED <<state, cur>>
  /\ UNCHANGED <<rows, loaded, arrived, pending, pc, phase, history>>

\* Nothing is ACTIVE: "fixpoint is reached, commit all updates".
Quiescent == cur = "none" /\ \A p \in Runnables : state[p] # "ACTIVE"

BeginCommit ==
  /\ pc = "run" /\ Quiescent
  /\ pc' = "commit" /\ idx' = 1
  /\ UNCHANGED <<rows, flow, outside, pending, first, ran, wait, history>>

-----------------------------------------------------------------------------
(* CommitManager::commit.                                                  *)

\* The listeners of a change get the row; ProgramLoader::programUpdate is one.
LoadsNext_Never(on, n) == FALSE

LoadsNext(on, n) == on = "INSERT" /\ n = Installed

Notify(on, n, pend) ==
  LET Q == {r \in TableRules : Rule[r].on = on /\ Rule[r].event = n} IN
    /\ q' = Push(q, Q, T(n, 0))
    /\ state' = Wake(state, Q)
    /\ IF LoadsNext(on, n) /\ loaded < Len(Programs)
       THEN pending' = Load(pend) /\ loaded' = loaded + 1
       ELSE pending' = pend /\ UNCHANGED loaded

\* Insert2::Action::commit and Delete2::Action::commit, for one tuple.
CommitRow(add, n, pend) ==
  \/ /\ add /\ n \notin table
     /\ table' = table \cup {n}
     /\ Notify("INSERT", n, pend)
  \/ /\ ~add /\ n \in table
     /\ table' = table \ {n}
     /\ Notify("REMOVE", n, pend)
  \/ /\ add <=> n \in table
     /\ pending' = pend
     /\ UNCHANGED <<rows, q, state, loaded>>

Committing(a) == pc = "commit" /\ idx <= Len(Order) /\ a = Order[idx]

\* ctInsert of the loader, Insert2 of an ADD rule.
Adds(a) == IF a = "loader" THEN TRUE ELSE Rule[a].action = "ADD"

CommitTable(a) ==
  /\ Committing(a) /\ a # "net" /\ pending[a] # <<>>
  /\ Head(pending[a]).name \notin lapsed
  /\ CommitRow(Adds(a), Head(pending[a]).name,
               [pending EXCEPT ![a] = Tail(@)])
  /\ UNCHANGED <<lapsed, cur, frags, arrived, pc, phase, history>>

\* CommitBuf::flush pushes its tuples to netOut, in the order of their values.
CommitNet(a) ==
  /\ Committing(a) /\ a = "net" /\ pending[a] # <<>>
  /\ \E i \in DOMAIN pending[a] :
       /\ pending' = [pending EXCEPT ![a] = SubSeq(@, 1, i - 1) \o SubSeq(@, i + 1, Len(@))]
       /\ q' = Push(q, {"netOutQ"}, pending[a][i])
  /\ state' = Wake(state, {"netOutQ"})
  /\ UNCHANGED <<rows, cur, outside, pc, phase, history>>

\* Table2::flush, at the beginning of any access: a strand's lookup, or an
\* insert or remove of the commit.
Accessed(n) ==
  \/ \E r \in RecvRules : Ready(r) /\ Rule[r].probe = n
  \/ \E a \in Actions \ {"net"} :
       Committing(a) /\ pending[a] # <<>> /\ Head(pending[a]).name = n

Flush(n) ==
  /\ n \in lapsed /\ Accessed(n)
  /\ table' = table \ {n} /\ lapsed' = lapsed \ {n}
  /\ Notify("REMOVE", n, pending)
  /\ UNCHANGED <<cur, frags, arrived, pc, phase, history>>

\* Time passes.
Lapse(n) ==
  /\ n \in (table \cap Lapsing) \ lapsed
  /\ lapsed' = lapsed \cup {n}
  /\ UNCHANGED <<table, flow, outside, pending, pc, phase, history>>

NextAction(a) ==
  /\ Committing(a) /\ pending[a] = <<>>
  /\ idx' = idx + 1
  /\ UNCHANGED <<rows, flow, outside, pending, pc, first, ran, wait, history>>

CommitDone ==
  /\ pc = "commit" /\ idx > Len(Order)
  /\ pc' = "phase2"
  /\ UNCHANGED <<rows, flow, outside, pending, phase, history>>

\* The wait of the loop, when the external queue is empty.
WaitFor_AlwaysLong(r) == TRUE

WaitFor(r) == ~r

EndProc ==
  /\ pc = "phase2" /\ ~first /\ q["extQ"] = <<>>
  /\ wait' = WaitFor(ran)
  /\ pc' = "sleep"
  /\ UNCHANGED <<rows, flow, outside, pending, first, ran, idx, history>>

-----------------------------------------------------------------------------
Run ==
  \/ RunSwitch \/ FinishRun \/ DefragStep \/ IntStep \/ NetStep
  \/ \E p \in PullPushes : StartRun(p)
  \/ \E x \in Inputs("ExtDRRPP") : ExtStep(x)
  \/ \E r \in Rules : StrandFails(r) \/ SendLocal(r) \/ SendRemote(r) \/ SideEffect(r)

Commit ==
  \/ BeginCommit \/ CommitDone
  \/ \E a \in Actions : CommitTable(a) \/ CommitNet(a) \/ NextAction(a)

Process ==
  \/ LoaderTimer \/ StartProc \/ Loop \/ BeginFixpoint \/ Run \/ Commit \/ EndProc
  \/ \E n \in Tuples : Flush(n)

Next ==
  \/ Process \/ Transmit
  \/ \E n \in Arrivals : Arrive(n)
  \/ \E n \in Lapsing : Lapse(n)

Spec == Init /\ [][Next]_vars

-----------------------------------------------------------------------------
(* Properties.                                                             *)

\* The tuples of the event in progress, wherever they are.
InFlight ==
  (UNION {Range(q[x]) : x \in {"intQ"} \cup RecvRules}) \cup
  (UNION {Range(pending[a]) : a \in Actions \ {"loader"}})

\* Types.
TypeOK ==
  /\ lapsed \subseteq table /\ table \subseteq Tuples /\ snap \subseteq Tuples
  /\ q \in [Queues -> Seq(Tup)] /\ pending \in [Actions -> Seq(Tup)]
  /\ state \in [Runnables -> {"ACTIVE", "BLOCKED", "BLOCKED_PUSH", "OFF"}]
  /\ cur \in PullPushes \cup {"none"}
  /\ frags \in 0..MaxFrags
  /\ pc \in {"timers", "phase2", "run", "commit", "sleep", "fds"}

\* "we should get *exactly one* tuple from mpSwitch per fixpoint": all tuples
\* between the gate and the commit descend from the same external event.
OneEventPerFixpoint ==
  \A t, u \in InFlight : t.tag = u.tag

\* Tables change only in a commit, when no strand holds a tuple: every rule that
\* an event triggers reads the same tables, but for rows whose lifetime ends.
CommitOnly ==
  table' # table =>
    \/ pc = "commit" /\ Empty({"intQ"} \cup RecvRules) /\ cur = "none"
    \/ table' \subseteq table /\ table \ table' \subseteq lapsed

\* A fixpoint is of one event and reads tables that do not change.
FixpointsAtomic == [][TypeOK' /\ OneEventPerFixpoint' /\ CommitOnly]_vars

\* A PullPush that waits for input has none: no tuple is left in a queue whose
\* puller nobody wakes.
NoLostWakeup ==
  \A p \in PullPushes : state[p] = "BLOCKED" => Empty(Inputs(p))

\* The loop waits for the network or a timer only when no runnable is ACTIVE and
\* no update waits for a commit: otherwise it would wedge for 10 seconds.
SleepsOnlyWhenIdle ==
  (pc = "sleep" /\ wait) =>
    /\ \A p \in PullPushes : state[p] # "ACTIVE"
    /\ \A a \in Actions : pending[a] = <<>>

\* Nobody sleeps over work, neither a PullPush nor the loop.
NobodyOversleeps == NoLostWakeup /\ SleepsOnlyWhenIdle

\* Nothing is left to do.
Idle == (\A x \in Queues : q[x] = <<>>) /\ (\A a \in Actions : pending[a] = <<>>)

-----------------------------------------------------------------------------
(* The event semantics.                                                    *)

InFixpoint == pc \in {"run", "commit"}

Count(S, n) == Cardinality({i \in DOMAIN S : S[i].name = n})

\* The table jumps at the end of the commit, when the event leaves the inbox.
AbsTable == IF InFixpoint THEN snap ELSE table

\* The rows that wait at the rules that make an event n of them.
Noticed(n) == {p \in UNION {{r} \X DOMAIN q[r] : r \in TableRules} : Rule[p[1]].head = n}

AbsInbox ==
  [n \in Tuples |->
     Count(q["defrag"], n) + Count(q["netQ"], n) + Count(q["extQ"], n)
     + (IF InFixpoint THEN Count(taken, n) ELSE 0)
     + (IF pc = "commit" THEN 0 ELSE Cardinality(Noticed(n)))]

Abs == INSTANCE EventSemantics WITH table <- AbsTable, inbox <- AbsInbox

\* The node implements the event semantics, as long as no row expires and no program is
\* loaded: events are processed one by one, all their rules read the tables of one moment,
\* and the commits of an event happen at once as far as the rules can tell.
ImplementsEventSemantics == Abs!Spec
=============================================================================
