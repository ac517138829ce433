----------------------------- MODULE EventProofs -----------------------------
(***************************************************************************)
(* The proof that a node implements the event semantics, for every program *)
(* that is well formed and any events, as long as no row expires and no    *)
(* program is loaded: the steps inside the gate, the commit, and the       *)
(* theorem.  EventSteps has the invariant, EvInv, and the other steps.     *)
(***************************************************************************)
EXTENDS EventSteps

-----------------------------------------------------------------------------
(* The steps of the dataflow inside the gate.                              *)

\* Inside the gate nothing that the event semantics sees changes, and only after an event
\* has passed it is there something to do.
LEMMA InnerStep ==
  ASSUME WellFormed, RtInv, EvInv, pc = "run", pc' = "run", NEW x \in Inner, q[x] # <<>>,
         \A y \in {"defrag", "netQ", "extQ"} \cup TableRules : q'[y] = q[y],
         table' = table, lapsed' = lapsed, snap' = snap, taken' = taken,
         pending'["loader"] = pending["loader"], state'["Switch"] = state["Switch"],
         Sound', Answered'
  PROVE  EvInv' /\ [Abs!Next]_<<AbsTable, AbsInbox>>
<1>1. taken # <<>>
  BY DEF EvInv, Gated, Empty
<1>2. /\ [Abs!Next]_<<AbsTable, AbsInbox>> /\ \A n \in Tuples : IsFiniteSet(Noticed(n)')
  BY Quiet DEF EvInv
<1>3. Steady'
  BY <1>2 DEF EvInv, Steady
<1>4. Gated'
  BY <1>1 DEF EvInv, Gated, InFixpoint
<1>5. Commits'
  BY DEF Commits
<1>. QED BY <1>2, <1>3, <1>4, <1>5 DEF EvInv

\* Which queues are which.
LEMMA QueueParts ==
  ASSUME WellFormed
  PROVE  /\ {"defrag", "netQ", "extQ"} \cup TableRules \subseteq Queues
         /\ ({"defrag", "netQ", "extQ"} \cup TableRules) \cap Inner = {}
         /\ "intQ" \in Inner /\ "intQ" \notin RecvRules /\ RecvRules \subseteq Inner
         /\ Inner \subseteq Queues
         /\ LocalRules = SendRules \ Remote
BY Parts DEF Queues, FixedQueues, WellFormed, Inner, LocalRules

\* intDemux passes an event on to the strands of its rules.
LEMMA IntStepStep ==
  ASSUME WellFormed, RtInv, EvInv, IntStep
  PROVE  EvInv' /\ [Abs!Next]_<<AbsTable, AbsInbox>>
<1>. DEFINE t == Head(q["intQ"])
            Q == {r \in RecvRules : Rule[r].event = t.name}
<1>1. Ready("intQ") /\ Forward("intQ", Q, t)
  BY DEF IntStep, Pull
<1>2. "intQ" \in Queues /\ Q \in SUBSET Queues /\ "intQ" \notin Q
  BY QueueParts
<1>3. t \in Tup
  BY <1>1, <1>2, HeadFacts
<1>4. /\ pc = "run" /\ pc' = "run" /\ \A y \in Queues : q[y] \in Seq(Tup)
      /\ q["intQ"] # <<>> /\ q'["intQ"] = Tail(q["intQ"])
      /\ \A y \in Q : q'[y] = Append(q[y], t)
      /\ \A y \in Queues \ (Q \cup {"intQ"}) : q'[y] = q[y]
      /\ state'["Switch"] = state["Switch"] /\ seen' = seen \cup {t.name}
      /\ UNCHANGED <<table, lapsed, pending, snap, taken>>
  <2>. HIDE DEF t, Q
  <2>. QED BY <1>1, <1>2, <1>3, ForwardFacts
<1>5. taken # <<>> /\ Sound /\ Answered
  BY <1>4, QueueParts DEF EvInv, Gated, Empty
<1>6. seen' \cup NamesOf(q'["intQ"]) = seen \cup NamesOf(q["intQ"])
  <2>1. NamesOf(q["intQ"]) = NamesOf(q'["intQ"]) \cup {t.name}
    BY <1>2, <1>4, NamesTail
  <2>. QED BY <1>4, <2>1
<1>7. ASSUME NEW r \in RecvRules
      PROVE  \/ Rule[r].event = t.name /\ q'[r] # <<>>
             \/ Rule[r].event # t.name /\ q'[r] = q[r]
  <2>1. CASE r \in Q
    <3>1. q'[r] = Append(q[r], t) /\ q[r] \in Seq(Tup)
      BY <1>2, <1>4, <2>1
    <3>2. q'[r] # <<>>
      BY <1>3, <3>1
    <3>. QED BY <2>1, <3>2
  <2>2. CASE r \notin Q
    BY <1>4, <2>2, QueueParts
  <2>. QED BY <2>1, <2>2
<1>8. Event' = Event
  BY <1>4 DEF Event
<1>9. Sound'
  BY <1>4, <1>5, <1>6, <1>7, <1>8 DEF Sound
<1>10. Answered'
  BY <1>4, <1>5, <1>6, <1>7, <1>8 DEF Answered
<1>11. \A y \in {"defrag", "netQ", "extQ"} \cup TableRules : q'[y] = q[y]
  BY <1>4, QueueParts
<1>12. "intQ" \in Inner
  BY QueueParts
<1>. QED BY <1>4, <1>9, <1>10, <1>11, <1>12, InnerStep

\* A strand whose condition fails, and one whose head is an event of this node.
LEMMA StrandStep ==
  ASSUME WellFormed, RtInv, EvInv, NEW r \in Rules, StrandFails(r) \/ SendLocal(r)
  PROVE  EvInv' /\ [Abs!Next]_<<AbsTable, AbsInbox>>
<1>1. r \in RecvRules /\ Ready(r) /\ r \in Queues /\ r \in Inner /\ r # "intQ"
  BY Parts, QueueParts DEF StrandFails, SendLocal, Pull
<1>2. /\ q \in [Queues -> Seq(Tup)] /\ pc = "run" /\ q[r] # <<>> /\ Head(q[r]) \in Tup
      /\ Head(q[r]).tag \in Nat
  BY <1>1, Types, HeadFacts DEF Ready, Tup
<1>3. taken # <<>> /\ Sound /\ Answered /\ snap = table
  BY <1>1, <1>2 DEF EvInv, Gated, Empty
<1>4. Rule[r].event \in seen /\ Rule[r].event \in Abs!Reach(Event, snap)
  BY <1>1, <1>2, <1>3 DEF Sound
<1>5. CASE StrandFails(r)
  <2>1. Forward(r, {}, Head(q[r])) /\ ~Holds(r, snap)
    BY <1>3, <1>5 DEF StrandFails
  <2>2. /\ pc' = "run" /\ q'[r] = Tail(q[r])
        /\ \A y \in Queues \ {r} : q'[y] = q[y]
        /\ state'["Switch"] = state["Switch"] /\ seen' = seen
        /\ UNCHANGED <<table, lapsed, pending, snap, taken>>
    BY <1>1, <1>2, <2>1, ForwardNone
  <2>3. /\ q'["intQ"] = q["intQ"] /\ Event' = Event
        /\ \A s \in RecvRules \ {r} : q'[s] = q[s]
        /\ \A y \in {"defrag", "netQ", "extQ"} \cup TableRules : q'[y] = q[y]
    BY <1>1, <2>2, QueueParts DEF Event
  <2>4. Sound'
    BY <1>2, <1>3, <2>2, <2>3 DEF Sound
  <2>5. Answered'
    BY <1>2, <1>3, <2>1, <2>2, <2>3 DEF Answered
  <2>. QED BY <1>1, <1>2, <2>2, <2>3, <2>4, <2>5, InnerStep
<1>6. CASE SendLocal(r)
  <2>. DEFINE t == T(Rule[r].head, Head(q[r]).tag)
  <2>1. Forward(r, {"intQ"}, t) /\ Holds(r, snap) /\ r \in LocalRules
    BY <1>3, <1>6, QueueParts DEF SendLocal
  <2>2. t \in Tup /\ t.name = Rule[r].head
    BY <1>2, HeadTup DEF T
  <2>. HIDE DEF t
  <2>3. /\ pc' = "run" /\ q'[r] = Tail(q[r]) /\ q'["intQ"] = Append(q["intQ"], t)
        /\ \A y \in Queues \ {"intQ", r} : q'[y] = q[y]
        /\ state'["Switch"] = state["Switch"] /\ seen' = seen
        /\ UNCHANGED <<table, lapsed, pending, snap, taken>>
    <3>1. "intQ" \in Queues
      BY QueueParts
    <3>2. /\ pc' = "run" /\ q'[r] = Tail(q[r]) /\ q'["intQ"] = Append(q["intQ"], t)
          /\ \A y \in Queues \ {r, "intQ"} : q'[y] = q[y]
          /\ state'["Switch"] = state["Switch"] /\ seen' = seen
          /\ UNCHANGED <<table, lapsed, pending, snap, taken>>
      BY <1>1, <2>1, <2>2, <3>1, ForwardOne
    <3>. QED BY <3>2
  <2>4. NamesOf(q'["intQ"]) = NamesOf(q["intQ"]) \cup {Rule[r].head} /\ Event' = Event
    BY <1>2, <2>2, <2>3, NamesAppend, QueueParts DEF Event
  <2>5. /\ \A s \in RecvRules \ {r} : q'[s] = q[s]
        /\ \A y \in {"defrag", "netQ", "extQ"} \cup TableRules : q'[y] = q[y]
    BY <1>1, <2>3, QueueParts
  <2>6. Rule[r].head \in Abs!Reach(Event, snap)
    BY <1>4, <2>1, ReachLeast
  <2>7. Sound'
    BY <1>2, <1>3, <2>3, <2>4, <2>5, <2>6 DEF Sound
  <2>8. r \notin ActionRules
    BY <2>1, QueueParts, Parts
  <2>9. Answered'
    BY <1>2, <1>3, <2>3, <2>4, <2>5, <2>8 DEF Answered
  <2>. QED BY <1>1, <1>2, <2>3, <2>5, <2>7, <2>9, InnerStep
<1>. QED BY <1>5, <1>6

\* A strand whose head goes to a commit buffer.
LEMMA BufferStep ==
  ASSUME WellFormed, RtInv, EvInv, NEW r \in Rules, SendRemote(r) \/ SideEffect(r)
  PROVE  EvInv' /\ [Abs!Next]_<<AbsTable, AbsInbox>>
<1>1. r \in RecvRules /\ Ready(r) /\ r \in Queues /\ r \in Inner /\ r # "intQ"
  BY Parts, QueueParts DEF SendRemote, SideEffect, Pull
<1>2. /\ q \in [Queues -> Seq(Tup)] /\ pc = "run" /\ q[r] # <<>> /\ Head(q[r]) \in Tup
      /\ Head(q[r]).tag \in Nat /\ pending \in [Actions -> Seq(Tup)]
  BY <1>1, Types, HeadFacts DEF Ready, Tup
<1>3. taken # <<>> /\ Sound /\ Answered /\ snap = table
  BY <1>1, <1>2 DEF EvInv, Gated, Empty
<1>4. Rule[r].event \in seen /\ Rule[r].event \in Abs!Reach(Event, snap)
  BY <1>1, <1>2, <1>3 DEF Sound
<1>. DEFINE t == T(Rule[r].head, Head(q[r]).tag)
<1>5. t \in Tup
  BY <1>2, HeadTup
<1>6. PICK a \in Updates :
        /\ Buffer(r, a, t)
        /\ \/ a = "net" /\ r \in SendRules \cap Remote
           \/ a = r /\ r \in ActionRules /\ Holds(r, snap)
  BY <1>3, Parts DEF SendRemote, SideEffect
<1>. HIDE DEF t
<1>7. /\ pc' = "run" /\ q'[r] = Tail(q[r]) /\ \A y \in Queues \ {r} : q'[y] = q[y]
      /\ pending'[a] = Append(pending[a], t)
      /\ \A b \in Actions \ {a} : pending'[b] = pending[b]
      /\ state' = state /\ seen' = seen /\ UNCHANGED <<table, lapsed, snap, taken>>
  BY <1>1, <1>2, <1>6 DEF Buffer, rows, history, Updates
<1>8. /\ q'["intQ"] = q["intQ"] /\ Event' = Event
      /\ \A s \in RecvRules \ {r} : q'[s] = q[s]
      /\ \A y \in {"defrag", "netQ", "extQ"} \cup TableRules : q'[y] = q[y]
  BY <1>1, <1>7, QueueParts DEF Event
<1>9. /\ pending'[a] # <<>> /\ "net" \notin ActionRules
      /\ ActionRules \subseteq Actions /\ (r \in SendRules => r \notin ActionRules)
  <2>1. pending[a] \in Seq(Tup)
    BY <1>2, Parts DEF Updates
  <2>2. pending'[a] # <<>>
    BY <1>5, <1>7, <2>1
  <2>. QED BY <2>2, Parts DEF WellFormed
<1>10. /\ a \in ActionRules => a = r /\ Holds(r, snap)
       /\ r \notin LocalRules /\ (r \in ActionRules => a = r)
  BY <1>6, <1>9, QueueParts DEF ActionRules
<1>11. a \in ActionRules => a \in Abs!Asked(Event, snap)
  BY <1>4, <1>10, AskedIs
<1>12. \A s \in ActionRules : s # a => pending'[s] = pending[s]
  BY <1>7, <1>9
<1>13. Sound'
  BY <1>2, <1>3, <1>7, <1>8, <1>11, <1>12 DEF Sound
<1>14. Answered'
  <2>1. ASSUME NEW s \in RecvRules, Rule[s].event \in seen, Holds(s, snap), q'[s] = <<>>
        PROVE  /\ s \in LocalRules => Rule[s].head \in seen \cup NamesOf(q["intQ"])
               /\ s \in ActionRules => pending'[s] # <<>>
    <3>1. CASE s = r
      BY <1>9, <1>10, <3>1
    <3>2. CASE s # r
      <4>1. q[s] = <<>>
        BY <1>8, <2>1, <3>2
      <4>2. /\ s \in LocalRules => Rule[s].head \in seen \cup NamesOf(q["intQ"])
            /\ s \in ActionRules => pending[s] # <<>>
        BY <1>2, <1>3, <2>1, <4>1 DEF Answered
      <4>. QED BY <1>9, <1>12, <4>2
    <3>. QED BY <3>1, <3>2
  <2>2. Event \in seen \cup NamesOf(q["intQ"])
    BY <1>2, <1>3 DEF Answered
  <2>3. /\ Event' = Event /\ seen' = seen /\ snap' = snap
        /\ NamesOf(q["intQ"])' = NamesOf(q["intQ"])
    BY <1>7, <1>8 DEF NamesOf
  <2>. QED BY <2>1, <2>2, <2>3 DEF Answered
<1>15. pending'["loader"] = pending["loader"]
  <2>1. "loader" \in Actions /\ a # "loader"
    BY Parts DEF Updates
  <2>. QED BY <1>7, <2>1
<1>. QED BY <1>1, <1>2, <1>7, <1>8, <1>13, <1>14, <1>15, InnerStep

-----------------------------------------------------------------------------
(* The commit.                                                             *)

\* When nothing is ACTIVE, the rules with tuples in their buffers are those that the event
\* asks for.
LEMMA QuiescentBuffers ==
  ASSUME WellFormed, RtInv, EvInv, pc = "run", Empty(Inner), NEW r \in ActionRules
  PROVE  pending[r] # <<>> <=> r \in AskedNow
<1>1. CASE taken = <<>>
  BY <1>1 DEF EvInv, Gated, InFixpoint, AskedNow
<1>2. CASE taken # <<>>
  <2>1. Sound /\ Answered /\ AskedNow = Abs!Asked(Event, snap)
    BY <1>2 DEF EvInv, AskedNow
  <2>2. NamesOf(q["intQ"]) = {} /\ \A s \in RecvRules : q[s] = <<>>
    <3>1. q["intQ"] = <<>> /\ \A s \in RecvRules : q[s] = <<>>
      BY QueueParts DEF Empty
    <3>. QED BY <3>1 DEF NamesOf
  <2>3. Event \in seen
    BY <1>2, <2>1, <2>2 DEF Answered
  <2>4. \A s \in LocalRules : Rule[s].event \in seen /\ Holds(s, snap) => Rule[s].head \in seen
    <3>1. LocalRules \subseteq RecvRules
      BY Parts, QueueParts
    <3>. QED BY <1>2, <2>1, <2>2, <3>1 DEF Answered
  <2>5. Abs!Reach(Event, snap) \subseteq seen
    <3>1. Abs!Sends(seen, snap) \subseteq seen
      BY <2>4, SendsIs
    <3>. QED BY <2>3, <3>1, ReachLeast
  <2>6. ASSUME r \in AskedNow PROVE pending[r] # <<>>
    <3>1. Rule[r].event \in seen /\ Holds(r, snap)
      BY <2>1, <2>5, <2>6, AskedIs
    <3>. QED BY <1>2, <2>1, <2>2, <3>1, Parts DEF Answered
  <2>7. ASSUME pending[r] # <<>> PROVE r \in AskedNow
    BY <1>2, <2>1, <2>7 DEF Sound
  <2>. QED BY <2>6, <2>7
<1>. QED BY <1>1, <1>2

\* The commit begins: nothing is left in a strand, and no row waits at a rule.
LEMMA BeginCommitStep ==
  ASSUME FiniteSetFacts, WellFormed, RtInv, EvInv, BeginCommit
  PROVE  EvInv' /\ [Abs!Next]_<<AbsTable, AbsInbox>>
<1>1. /\ pc = "run" /\ pc' = "commit" /\ idx' = 1 /\ q' = q /\ table' = table
      /\ lapsed' = lapsed /\ pending' = pending /\ snap' = snap /\ taken' = taken
  BY DEF BeginCommit, rows, flow, history
<1>2. ASSUME NEW p \in PullPushes \ {"NetPP"}
      PROVE  Empty(Inputs(p))
  <2>1. state[p] # "ACTIVE"
    BY DEF BeginCommit, Quiescent, Runnables
  <2>2. state[p] = "BLOCKED"
    BY <2>1 DEF RtInv, Scheduled
  <2>. QED BY <2>2 DEF RtInv, NoLostWakeup
<1>3. Empty(Inner)
  <2>. SUFFICES ASSUME NEW x \in Inner PROVE q[x] = <<>>
    BY DEF Empty
  <2>1. PICK p \in PullPushes \ {"NetPP"} : x \in Inputs(p)
    BY InnerInputs
  <2>. QED BY <1>2, <2>1 DEF Empty
<1>4. \A r \in TableRules : q[r] = <<>>
  <2>1. "ExtDRRPP" \in PullPushes \ {"NetPP"}
    BY DEF PullPushes, FixedRunnables
  <2>. QED BY <1>2, <2>1, InputsOf DEF Empty
<1>5. \A n \in Tuples : Noticed(n) = {} /\ Noticed(n)' = {}
  <2>1. \A r \in TableRules : DOMAIN q[r] = {}
    BY <1>4
  <2>2. \A n \in Tuples : \A p : p \notin Noticed(n)
    BY <2>1, NoticedMembers
  <2>3. \A n \in Tuples : Noticed(n) = {}
    BY <2>2
  <2>. QED BY <1>1, <2>3, NoticedSame
<1>6. Cardinality({}) = 0 /\ IsFiniteSet({})
  BY EmptySetFacts
<1>7. Steady'
  BY <1>1, <1>5, <1>6 DEF EvInv, Steady
<1>8. Gated'
  BY <1>1 DEF EvInv, Gated, InFixpoint
<1>9. Sound' /\ Answered'
  BY <1>1 DEF Sound, Answered
<1>10. \A n \in Tuples : Outer(n)' = Outer(n) /\ Outer(n) \in Nat
  <2>1. q \in [Queues -> Seq(Tup)] /\ {"defrag", "netQ", "extQ"} \subseteq Queues
    BY Types, QueueParts
  <2>2. \A n \in Tuples : /\ Count(q["defrag"], n) \in Nat /\ Count(q["netQ"], n) \in Nat
                          /\ Count(q["extQ"], n) \in Nat
    BY <2>1, CountType
  <2>. QED BY <1>1, <2>2 DEF Outer, Count
<1>11. Start' = Start /\ AskedNow' = AskedNow
  BY <1>1, <1>10 DEF Start, AskedNow, Event
<1>12. Current' = Start
  <2>1. \A n \in Tuples : Outer(n)' + Cardinality(Noticed(n)') = Outer(n)
    BY <1>5, <1>6, <1>10
  <2>2. table' = snap
    BY <1>1 DEF EvInv, Gated
  <2>. QED BY <2>1, <2>2 DEF Current, Start
<1>13. Commits'
  <2>1. Plan'[0] = Start
    BY <1>11, CommittedSteps DEF Plan
  <2>2. \A j \in DOMAIN Order : Buffered(j)'
    BY <1>1, <1>3, <1>11, QuiescentBuffers DEF Buffered
  <2>3. idx' <= Len(Order) + 1 /\ idx' - 1 = 0
    BY <1>1, Constants
  <2>4. Current' = Plan'[idx' - 1]
    BY <1>12, <2>1, <2>3
  <2>5. idx' \in DOMAIN Order => Buffered(idx)'
    BY <2>2 DEF Buffered
  <2>. QED BY <2>2, <2>3, <2>4, <2>5 DEF Commits
<1>14. \A n \in Tuples : Waiting(n) = 0 /\ Waiting(n)' = 0
  BY <1>1, <1>5, <1>6 DEF Waiting
<1>15. \A n \in Tuples : Passing(n)' = Passing(n)
  BY <1>1 DEF Passing, InFixpoint, Count
<1>16. AbsTable' = AbsTable
  BY <1>1 DEF AbsTable, InFixpoint
<1>17. [Abs!Next]_<<AbsTable, AbsInbox>>
  BY <1>10, <1>14, <1>15, <1>16, Stutters
<1>. QED BY <1>7, <1>8, <1>9, <1>13, <1>17 DEF EvInv

\* Which action the commit is at.
LEMMA AtAction ==
  ASSUME WellFormed, RtInv, EvInv, NEW a, Committing(a)
  PROVE  /\ pc = "commit" /\ idx \in DOMAIN Order /\ a = Order[idx] /\ a \in Actions
         /\ idx \in Nat \ {0} /\ idx - 1 \in Nat
         /\ \A j \in DOMAIN Order : j > idx => Order[j] # a /\ Order[j] \in Actions
<1>1. pc = "commit" /\ idx <= Len(Order) /\ a = Order[idx]
  BY DEF Committing
<1>2. idx \in Nat \ {0} /\ DOMAIN Order = 1 .. Len(Order) /\ Len(Order) \in Nat
      /\ \A j \in DOMAIN Order : Order[j] \in Actions
  BY Types, Constants
<1>3. idx \in DOMAIN Order /\ \A j \in DOMAIN Order : j > idx => j # idx
  BY <1>1, <1>2
<1>4. \A i, j \in DOMAIN Order : Order[i] = Order[j] => i = j
  BY DEF WellFormed
<1>. QED BY <1>1, <1>2, <1>3, <1>4

\* A tuple of an action is committed: the tables and the events on their changes become
\* those that Apply says.
LEMMA CommitApplies ==
  ASSUME FiniteSetFacts, WellFormed, Programs = <<>>, RtInv, Steady, NEW a \in ActionRules, CommitTable(a)
  PROVE  /\ Current' = Abs!Apply(a, Current)
         /\ \A n \in Tuples : Outer(n)' = Outer(n) /\ IsFiniteSet(Noticed(n)')
         /\ pending' = [pending EXCEPT ![a] = Tail(@)]
         /\ lapsed' = lapsed
<1>. DEFINE m == Rule[a].head
            pend == [pending EXCEPT ![a] = Tail(@)]
            Q(on) == {r \in TableRules : Rule[r].on = on /\ Rule[r].event = m}
<1>1. /\ a \in Actions /\ a # "loader" /\ a # "net" /\ m \in Tuples
      /\ Rule[a].action \in {"ADD", "DELETE"}
      /\ q \in [Queues -> Seq(Tup)] /\ pending \in [Actions -> Seq(Tup)]
  <2>1. a \in Rules /\ a \in RecvRules /\ a \notin SendRules /\ a \in Actions
    BY Parts
  <2>2. a # "loader" /\ a # "net"
    BY <2>1 DEF WellFormed
  <2>3. m \in Tuples /\ Rule[a].action \in {"SEND", "ADD", "DELETE"}
    BY <2>1 DEF WellFormed, WellFormedProgram, Rules
  <2>4. Rule[a].action # "SEND"
    BY <2>1 DEF SendRules
  <2>. QED BY <2>1, <2>2, <2>3, <2>4, Types
<1>2. Head(pending[a]).name = m
  <2>1. pending[a] \in Seq(Tup) /\ pending[a] # <<>>
    BY <1>1 DEF CommitTable
  <2>2. 1 \in DOMAIN pending[a] /\ Head(pending[a]) = pending[a][1]
    BY <2>1
  <2>. QED BY <2>2 DEF RtInv, Buffers
<1>3. (Adds(a) <=> Rule[a].action = "ADD") /\ CommitRow(Adds(a), m, pend) /\ lapsed' = lapsed
  BY <1>1, <1>2 DEF Adds, CommitTable
<1>4. T(m, 0) \in Tup
  BY <1>1 DEF T, Tup
<1>5. ASSUME NEW on \in {"INSERT", "REMOVE"}, Notify(on, m, pend)
      PROVE  /\ q' = Push(q, Q(on), T(m, 0)) /\ pending' = pend
             /\ \A n \in Tuples :
                  /\ Outer(n)' = Outer(n) /\ IsFiniteSet(Noticed(n)')
                  /\ Outer(n)' + Cardinality(Noticed(n)')
                       = Outer(n) + Cardinality(Noticed(n)) + Abs!Notices(on, m, n)
  <2>1. q' = Push(q, Q(on), T(m, 0)) /\ pending' = pend
    <3>1. ~(loaded < Len(Programs))
      BY Types
    <3>. QED BY <1>5, <3>1 DEF Notify
  <2>2. \A x \in {"defrag", "netQ", "extQ"} : q'[x] = q[x] /\ q[x] \in Seq(Tup)
    <3>1. {"defrag", "netQ", "extQ"} \subseteq Queues \ Q(on)
      BY Parts, QueueParts DEF Queues, FixedQueues, WellFormed
    <3>. DEFINE P == Q(on)
                u == T(m, 0)
    <3>2. q \in [Queues -> Seq(Tup)] /\ u \in Tup
      BY <1>1, <1>4
    <3>3. q' = Push(q, P, u) /\ {"defrag", "netQ", "extQ"} \subseteq Queues \ P
      BY <2>1, <3>1
    <3>. HIDE DEF P, u
    <3>4. \A x \in Queues \ P : Push(q, P, u)[x] = q[x]
      BY <3>2, PushFacts
    <3>. QED BY <3>2, <3>3, <3>4
  <2>. SUFFICES ASSUME NEW n \in Tuples
                PROVE  /\ Outer(n)' = Outer(n) /\ IsFiniteSet(Noticed(n)')
                       /\ Outer(n)' + Cardinality(Noticed(n)')
                            = Outer(n) + Cardinality(Noticed(n)) + Abs!Notices(on, m, n)
    BY <2>1
  <2>3. Outer(n)' = Outer(n)
    BY <2>2 DEF Outer, Count
  <2>4. Outer(n) \in Nat
    <3>1. /\ Count(q["defrag"], n) \in Nat /\ Count(q["netQ"], n) \in Nat
          /\ Count(q["extQ"], n) \in Nat
      BY <2>2, CountType
    <3>. QED BY <3>1 DEF Outer
  <2>5. IsFiniteSet(Noticed(n)) /\ Cardinality(Noticed(n)) \in Nat
    BY CardinalityType DEF Steady
  <2>6. /\ IsFiniteSet(Noticed(n)') /\ Abs!Notices(on, m, n) \in Nat
        /\ Cardinality(Noticed(n)') = Cardinality(Noticed(n)) + Abs!Notices(on, m, n)
    BY <1>1, <1>4, <2>1, <2>5, NoticedPush
  <2>. QED BY <2>3, <2>4, <2>5, <2>6
<1>6. Current.table = table /\ \A n \in Tuples : Current.inbox[n] = Outer(n) + Cardinality(Noticed(n))
  BY DEF Current
<1>7. CASE Adds(a) /\ m \notin table /\ table' = table \cup {m} /\ Notify("INSERT", m, pend)
  <2>1. Current' = [table |-> table \cup {m},
                    inbox |-> [n \in Tuples |-> Outer(n) + Cardinality(Noticed(n))
                                                  + Abs!Notices("INSERT", m, n)]]
    BY <1>5, <1>7 DEF Current
  <2>2. Abs!Apply(a, Current) =
          [table |-> table \cup {m},
           inbox |-> [n \in Tuples |-> Current.inbox[n] + Abs!Notices("INSERT", m, n)]]
    <3>. HIDE DEF Current
    <3>. QED BY <1>3, <1>6, <1>7 DEF Abs!Apply
  <2>3. Current' = Abs!Apply(a, Current)
    BY <1>6, <2>1, <2>2
  <2>. QED BY <1>3, <1>5, <1>7, <2>3
<1>8. CASE ~Adds(a) /\ m \in table /\ table' = table \ {m} /\ Notify("REMOVE", m, pend)
  <2>1. Current' = [table |-> table \ {m},
                    inbox |-> [n \in Tuples |-> Outer(n) + Cardinality(Noticed(n))
                                                  + Abs!Notices("REMOVE", m, n)]]
    BY <1>5, <1>8 DEF Current
  <2>2. Abs!Apply(a, Current) =
          [table |-> table \ {m},
           inbox |-> [n \in Tuples |-> Current.inbox[n] + Abs!Notices("REMOVE", m, n)]]
    <3>1. Rule[a].action = "DELETE"
      BY <1>1, <1>3, <1>8
    <3>. HIDE DEF Current
    <3>. QED BY <1>6, <1>8, <3>1 DEF Abs!Apply
  <2>3. Current' = Abs!Apply(a, Current)
    BY <1>6, <2>1, <2>2
  <2>. QED BY <1>3, <1>5, <1>8, <2>3
<1>9. CASE (Adds(a) <=> m \in table) /\ pending' = pend /\ UNCHANGED <<rows, q, state, loaded>>
  <2>1. \A n \in Tuples : Noticed(n)' = Noticed(n) /\ Outer(n)' = Outer(n)
    BY <1>9, NoticedSame DEF Outer, Count
  <2>2. Current' = Current
    BY <1>9, <2>1 DEF Current, rows
  <2>3. Abs!Apply(a, Current) = Current
    <3>1. /\ ~(Rule[a].action = "ADD" /\ m \notin Current.table)
          /\ ~(Rule[a].action = "DELETE" /\ m \in Current.table)
      BY <1>1, <1>3, <1>6, <1>9
    <3>. HIDE DEF Current
    <3>. QED BY <3>1 DEF Abs!Apply
  <2>. QED BY <1>3, <1>9, <2>1, <2>2, <2>3 DEF Steady
<1>. QED BY <1>3, <1>7, <1>8, <1>9 DEF CommitRow

\* A step of the commit that the event semantics does not see.
LEMMA CommitStutters ==
  ASSUME pc = "commit", pc' = "commit", snap' = snap, taken' = taken,
         \A n \in Tuples : Outer(n)' = Outer(n)
  PROVE  /\ [Abs!Next]_<<AbsTable, AbsInbox>>
         /\ Plan' = Plan /\ AskedNow' = AskedNow
<1>1. \A n \in Tuples : Passing(n)' = Passing(n) /\ Waiting(n)' = Waiting(n)
  BY DEF Passing, Waiting, InFixpoint, Count
<1>2. AbsTable' = AbsTable
  BY DEF AbsTable, InFixpoint
<1>3. [Abs!Next]_<<AbsTable, AbsInbox>>
  BY <1>1, <1>2, Stutters
<1>4. AskedNow' = AskedNow
  BY DEF AskedNow, Event
<1>5. Start' = Start
  BY DEF Start
<1>. QED BY <1>3, <1>4, <1>5 DEF Plan

\* Insert2::Action::commit and Delete2::Action::commit: the first tuple of an action does
\* what Apply says, the others nothing.
LEMMA CommitTableStep ==
  ASSUME FiniteSetFacts, WellFormed, Programs = <<>>, RtInv, EvInv, NEW a \in Actions, CommitTable(a)
  PROVE  EvInv' /\ [Abs!Next]_<<AbsTable, AbsInbox>>
<1>1. /\ Committing(a) /\ a # "net" /\ pending[a] # <<>> /\ pc' = pc /\ idx' = idx
      /\ snap' = snap /\ taken' = taken
  BY DEF CommitTable, phase, history
<1>2. a \in ActionRules
  BY <1>1, Parts DEF EvInv, Steady
<1>3. /\ pc = "commit" /\ idx \in DOMAIN Order /\ a = Order[idx]
      /\ \A j \in DOMAIN Order : j > idx => Order[j] # a /\ Order[j] \in Actions
  BY <1>1, AtAction
<1>4. Steady /\ Commits
  BY DEF EvInv
<1>5. /\ Current' = Abs!Apply(a, Current)
      /\ \A n \in Tuples : Outer(n)' = Outer(n) /\ IsFiniteSet(Noticed(n)')
      /\ pending' = [pending EXCEPT ![a] = Tail(@)] /\ lapsed' = lapsed
  BY <1>2, <1>4, CommitApplies
<1>6. /\ [Abs!Next]_<<AbsTable, AbsInbox>> /\ Plan' = Plan /\ AskedNow' = AskedNow
  BY <1>1, <1>3, <1>5, CommitStutters
<1>7. pending \in [Actions -> Seq(Tup)] /\ \A b \in Actions \ {a} : pending'[b] = pending[b]
  BY <1>5, Types
<1>8. Steady'
  <2>1. "loader" \in Actions \ {a}
    BY <1>2, Parts DEF WellFormed
  <2>. QED BY <1>4, <1>5, <1>7, <2>1 DEF Steady
<1>9. taken # <<>>
  BY <1>1, <1>2, <1>3 DEF EvInv, Gated, InFixpoint
<1>10. Gated'
  BY <1>1, <1>3, <1>9 DEF EvInv, Gated, InFixpoint
<1>11. Sound' /\ Answered'
  BY <1>1, <1>3 DEF Sound, Answered
<1>12. a \in AskedNow
  BY <1>1, <1>2, <1>3, <1>4 DEF Commits, Buffered
<1>13. Plan[idx] = Abs!Apply(a, Plan[idx - 1])
  BY <1>3, <1>12, CommittedSteps DEF Plan
<1>14. Current' = Plan[idx]
  <2>1. CASE Current = Plan[idx - 1]
    BY <1>5, <1>13, <2>1
  <2>2. CASE Current = Plan[idx]
    BY <1>2, <1>5, <1>13, <2>2, ApplyTwice
  <2>. QED BY <1>3, <1>4, <2>1, <2>2 DEF Commits
<1>15. ASSUME NEW j \in DOMAIN Order, j > idx PROVE Buffered(j)'
  <2>1. Buffered(j) /\ Order[j] \in Actions \ {a}
    BY <1>3, <1>4, <1>15 DEF Commits
  <2>. QED BY <1>6, <1>7, <2>1 DEF Buffered
<1>16. Commits'
  BY <1>1, <1>3, <1>4, <1>6, <1>12, <1>14, <1>15 DEF Commits
<1>. QED BY <1>6, <1>8, <1>10, <1>11, <1>16 DEF EvInv

\* Tuples go to the network, and the commit moves on when a buffer is empty: one that the
\* event did not ask for, or one whose tuples are done.
LEMMA CommitMoves ==
  ASSUME FiniteSetFacts, WellFormed, RtInv, EvInv, NEW a \in Actions, CommitNet(a) \/ NextAction(a)
  PROVE  EvInv' /\ [Abs!Next]_<<AbsTable, AbsInbox>>
<1>1. /\ Committing(a) /\ pc' = pc /\ snap' = snap /\ taken' = taken /\ table' = table
      /\ lapsed' = lapsed
  BY DEF CommitNet, NextAction, rows, history
<1>2. /\ pc = "commit" /\ idx \in DOMAIN Order /\ a = Order[idx] /\ idx \in Nat \ {0}
      /\ \A j \in DOMAIN Order : j > idx => Order[j] # a /\ Order[j] \in Actions
  BY <1>1, AtAction
<1>3. q \in [Queues -> Seq(Tup)] /\ pending \in [Actions -> Seq(Tup)] /\ Steady /\ Commits
  BY Types DEF EvInv
<1>4. \A x \in {"defrag", "netQ", "extQ"} \cup TableRules : q'[x] = q[x]
  <2>1. CASE NextAction(a)
    BY <2>1 DEF NextAction, flow
  <2>2. CASE CommitNet(a)
    <3>1. PICK i \in DOMAIN pending[a] : q' = Push(q, {"netOutQ"}, pending[a][i])
      BY <2>2 DEF CommitNet
    <3>2. pending[a][i] \in Tup
      BY <1>3
    <3>3. {"defrag", "netQ", "extQ"} \cup TableRules \subseteq Queues \ {"netOutQ"}
      BY QueueParts, Parts DEF WellFormed, FixedQueues
    <3>. DEFINE P == {"netOutQ"}
                u == pending[a][i]
    <3>4. u \in Tup /\ q' = Push(q, P, u)
      BY <3>1, <3>2
    <3>5. {"defrag", "netQ", "extQ"} \cup TableRules \subseteq Queues \ P
      BY <3>3
    <3>. HIDE DEF P, u
    <3>6. \A x \in Queues \ P : q'[x] = q[x]
      BY <1>3, <3>4, PushFacts
    <3>. QED BY <3>5, <3>6
  <2>. QED BY <2>1, <2>2
<1>5. \A n \in Tuples : Noticed(n)' = Noticed(n) /\ Outer(n)' = Outer(n)
  BY <1>4, NoticedSame DEF Outer, Count
<1>6. /\ [Abs!Next]_<<AbsTable, AbsInbox>> /\ Plan' = Plan /\ AskedNow' = AskedNow
  BY <1>1, <1>2, <1>5, CommitStutters
<1>7. Current' = Current
  BY <1>1, <1>5 DEF Current
<1>8. \A b \in Actions \ {"net"} : pending'[b] = pending[b]
  BY <1>3 DEF CommitNet, NextAction
<1>9. "net" \notin ActionRules /\ "loader" \in Actions \ {"net"} /\ ActionRules \subseteq Actions
  BY Parts DEF WellFormed
<1>10. Steady'
  BY <1>1, <1>3, <1>5, <1>8, <1>9 DEF Steady
<1>11. Gated'
  BY <1>1, <1>2, <1>8, <1>9 DEF EvInv, Gated, InFixpoint
<1>12. Sound' /\ Answered'
  BY <1>1, <1>2 DEF Sound, Answered
<1>13. \A j \in DOMAIN Order : Buffered(j) => Buffered(j)'
  BY <1>6, <1>8, <1>9 DEF Buffered
<1>14. CASE CommitNet(a)
  <2>1. idx' = idx
    BY <1>14 DEF CommitNet, phase
  <2>2. (idx \in DOMAIN Order => Buffered(idx)) => (idx' \in DOMAIN Order => Buffered(idx)')
    BY <1>13, <2>1 DEF Buffered
  <2>3. Commits'
    BY <1>1, <1>2, <1>3, <1>6, <1>7, <1>13, <2>1, <2>2 DEF Commits
  <2>. QED BY <1>6, <1>10, <1>11, <1>12, <2>3 DEF EvInv
<1>15. CASE NextAction(a)
  <2>1. idx' = idx + 1 /\ pending[a] = <<>>
    BY <1>15 DEF NextAction
  <2>2. idx' - 1 = idx /\ idx' <= Len(Order) + 1 /\ \A j \in DOMAIN Order : j > idx' => j > idx
        /\ idx' > idx
    <3>1. Len(Order) \in Nat /\ DOMAIN Order = 1 .. Len(Order)
      BY Constants
    <3>2. idx \in 1 .. Len(Order) /\ idx' = idx + 1
      BY <1>2, <2>1, <3>1
    <3>. QED BY <3>1, <3>2
  <2>3. Current = Plan[idx]
    <3>1. CASE Current = Plan[idx - 1] /\ Buffered(idx)
      <4>1. AskedNow \subseteq ActionRules
        BY AskedIs DEF AskedNow
      <4>2. a \notin AskedNow
        BY <1>2, <2>1, <3>1, <4>1 DEF Buffered
      <4>. QED BY <1>2, <3>1, <4>2, CommittedSteps DEF Plan
    <3>. QED BY <1>2, <1>3, <3>1 DEF Commits
  <2>4. \A j \in DOMAIN Order : j > idx => Buffered(j)'
    BY <1>2, <1>3, <1>13 DEF Commits
  <2>5. idx' \in DOMAIN Order => Buffered(idx)'
    BY <2>2, <2>4 DEF Buffered
  <2>6. Current' = Plan'[idx' - 1]
    BY <1>6, <1>7, <2>2, <2>3
  <2>7. \A j \in DOMAIN Order : j > idx' => Buffered(j)'
    BY <2>2, <2>4
  <2>8. Commits'
    BY <2>2, <2>5, <2>6, <2>7 DEF Commits
  <2>. QED BY <1>6, <1>10, <1>11, <1>12, <2>8 DEF EvInv
<1>. QED BY <1>14, <1>15

\* The commit is over: the event semantics takes the event, fires its rules and commits.
LEMMA CommitDoneStep ==
  ASSUME FiniteSetFacts, WellFormed, RtInv, EvInv, CommitDone
  PROVE  EvInv' /\ [Abs!Next]_<<AbsTable, AbsInbox>>
<1>1. /\ pc = "commit" /\ idx > Len(Order) /\ pc' = "phase2" /\ q' = q /\ table' = table
      /\ lapsed' = lapsed /\ pending' = pending
  BY DEF CommitDone, rows, flow
<1>2. \A n \in Tuples : Noticed(n)' = Noticed(n) /\ Outer(n)' = Outer(n)
  BY <1>1, NoticedSame DEF Outer, Count
<1>3. Steady'
  BY <1>1, <1>2 DEF EvInv, Steady
<1>4. EvInv'
  BY <1>1, <1>3, OutsideInv
<1>5. Current = Plan[Len(Order)]
  <2>1. /\ idx \in Nat /\ Len(Order) \in Nat /\ DOMAIN Order = 1 .. Len(Order)
        /\ idx <= Len(Order) + 1
    BY <1>1, Types, Constants DEF EvInv, Commits
  <2>2. idx - 1 = Len(Order) /\ idx \notin DOMAIN Order
    BY <1>1, <2>1
  <2>. QED BY <1>1, <2>2 DEF EvInv, Commits
<1>6. \A n \in Tuples :
        /\ Count(q["defrag"], n) \in Nat /\ Count(q["netQ"], n) \in Nat
        /\ Count(q["extQ"], n) \in Nat /\ Cardinality(Noticed(n)) \in Nat
  <2>1. q \in [Queues -> Seq(Tup)] /\ {"defrag", "netQ", "extQ"} \subseteq Queues
    BY Types, QueueParts
  <2>. QED BY <2>1, CountType, CardinalityType DEF EvInv, Steady
<1>7. \A n \in Tuples : Outer(n) \in Nat
  BY <1>6 DEF Outer
<1>8. /\ AbsTable' = table /\ AbsTable = snap
      /\ \A n \in Tuples : /\ Passing(n)' = 0 /\ Waiting(n)' = Cardinality(Noticed(n))
                           /\ Passing(n) = Count(taken, n) /\ Waiting(n) = 0
  BY <1>1, <1>2 DEF AbsTable, InFixpoint, Passing, Waiting
<1>9. AbsTable' = Current.table /\ AbsInbox' = Current.inbox
  <2>1. \A n \in Tuples : Outer(n)' + Passing(n)' + Waiting(n)' = Outer(n) + Cardinality(Noticed(n))
    BY <1>2, <1>6, <1>7, <1>8
  <2>. QED BY <1>8, <2>1, InboxIs DEF Current
<1>10. CASE taken = <<>>
  <2>1. AskedNow = {} /\ \A n \in Tuples : Passing(n) = 0
    BY <1>8, <1>10, CountEmpty DEF AskedNow
  <2>2. Current = Start
    <3>. DEFINE Bad == {i \in 0 .. Len(Order) : Plan[i] # Start}
    <3>1. Len(Order) \in Nat /\ DOMAIN Order = 1 .. Len(Order)
      BY Constants
    <3>2. Plan[0] = Start /\ \A i \in 1 .. Len(Order) : Plan[i] = Plan[i - 1]
      BY <2>1, <3>1, CommittedSteps DEF Plan
    <3>3. Bad = {}
      <4>. SUFFICES ASSUME Bad # {} PROVE FALSE
        OBVIOUS
      <4>1. PICK x \in Bad : \A y \in Bad : ~(y < x)
        <5>1. Bad \in SUBSET Nat
          OBVIOUS
        <5>. HIDE DEF Bad
        <5>. QED BY <5>1, LeastOne
      <4>2. x \in 1 .. Len(Order) /\ x - 1 \in 0 .. Len(Order) /\ x - 1 < x
        BY <3>1, <3>2, <4>1
      <4>. QED BY <3>2, <4>1, <4>2
    <3>. QED BY <1>5, <3>1, <3>3
  <2>3. AbsTable' = AbsTable
    BY <1>8, <1>9, <2>2 DEF Start
  <2>4. AbsInbox' = AbsInbox
    <3>1. \A n \in Tuples : Outer(n) + Passing(n) + Waiting(n) = Outer(n)
      BY <1>7, <1>8, <2>1
    <3>. QED BY <1>9, <2>2, <3>1, InboxIs DEF Start
  <2>. QED BY <1>4, <2>3, <2>4
<1>11. CASE taken # <<>>
  <2>1. taken \in Seq(Tup) /\ Len(taken) <= 1
    BY <1>1 DEF RtInv, Counters, EvInv, Gated, InFixpoint
  <2>. DEFINE t == taken[1]
  <2>2. t \in Tup /\ taken = <<t>> /\ taken = Append(<<>>, t) /\ <<>> \in Seq(Tup)
    <3>1. Len(taken) = 1 /\ t \in Tup
      <4>1. Len(taken) \in Nat /\ Len(taken) # 0
        BY <1>11, <2>1
      <4>2. \A k \in Nat : k # 0 /\ k <= 1 => k = 1
        OBVIOUS
      <4>3. Len(taken) = 1
        BY <2>1, <4>1, <4>2, Zenon
      <4>. QED BY <2>1, <4>3
    <3>2. taken = <<t>>
      <4>1. \A s \in Seq(Tup) : Len(s) = 1 => s = <<s[1]>>
        BY OneLong, Zenon
      <4>. QED BY <2>1, <3>1, <4>1, Zenon
    <3>. HIDE DEF t
    <3>3. Append(<<>>, t) = <<t>> /\ <<>> \in Seq(Tup)
      BY <3>1
    <3>. QED BY <3>1, <3>2, <3>3, Zenon
  <2>3. Event = t.name /\ Event \in Tuples /\ AskedNow = Abs!Asked(Event, AbsTable)
    BY <1>8, <1>11, <2>2 DEF Event, Tup, AskedNow
  <2>. HIDE DEF t
  <2>4. \A n \in Tuples : Count(taken, n) = IF Event = n THEN 1 ELSE 0
    <3>. SUFFICES ASSUME NEW n \in Tuples PROVE Count(taken, n) = IF Event = n THEN 1 ELSE 0
      OBVIOUS
    <3>1. Count(<<>>, n) = 0
      BY CountEmpty
    <3>2. Count(Append(<<>>, t), n) = Count(<<>>, n) + (IF t.name = n THEN 1 ELSE 0)
      BY <2>2, CountAppend
    <3>3. Count(taken, n) = Count(Append(<<>>, t), n)
      BY <2>2, Zenon
    <3>. QED BY <2>3, <3>1, <3>2, <3>3
  <2>5. \A n \in Tuples : AbsInbox[n] = Outer(n) + (IF Event = n THEN 1 ELSE 0)
    BY <1>7, <1>8, <2>4, InboxIs
  <2>6. AbsInbox[Event] > 0
    BY <1>7, <2>3, <2>5
  <2>7. [AbsInbox EXCEPT ![Event] = @ - 1] = [n \in Tuples |-> Outer(n)]
    <3>1. AbsInbox = [n \in Tuples |-> AbsInbox[n]]
      BY InboxIs
    <3>. QED BY <1>7, <2>3, <2>5, <3>1
  <2>8. Plan = Abs!Committed(Abs!Asked(Event, AbsTable),
                             [table |-> AbsTable, inbox |-> [AbsInbox EXCEPT ![Event] = @ - 1]])
    BY <1>8, <2>3, <2>7 DEF Plan, Start
  <2>9. Abs!Process(Event)
    BY <1>5, <1>9, <2>6, <2>8 DEF Abs!Process
  <2>. QED BY <1>4, <2>3, <2>9 DEF Abs!Next
<1>. QED BY <1>10, <1>11

-----------------------------------------------------------------------------
(* The theorem.                                                            *)

\* A node starts as the event semantics does.
LEMMA EvInit ==
  ASSUME FiniteSetFacts, WellFormed, Init
  PROVE  EvInv /\ Abs!Init
<1>1. /\ pc = "timers" /\ table = {} /\ lapsed = {} /\ q = [x \in Queues |-> <<>>]
      /\ pending = [a \in Actions |-> <<>>]
  BY DEF Init
<1>2. \A n \in Tuples : Noticed(n) = {}
  <2>1. \A r \in TableRules : DOMAIN q[r] = {}
    BY <1>1, Parts
  <2>2. \A n \in Tuples : \A p : p \notin Noticed(n)
    BY <2>1, NoticedMembers
  <2>. QED BY <2>2
<1>3. Cardinality({}) = 0 /\ IsFiniteSet({})
  BY EmptySetFacts
<1>4. Steady
  BY <1>1, <1>2, <1>3, Parts DEF Steady
<1>5. EvInv
  BY <1>1, <1>4 DEF EvInv, Gated, Sound, Answered, Commits, InFixpoint
<1>6. ASSUME NEW n \in Tuples PROVE Outer(n) + Passing(n) + Waiting(n) = 0
  <2>1. q["defrag"] = <<>> /\ q["netQ"] = <<>> /\ q["extQ"] = <<>>
    BY <1>1, QueueParts
  <2>2. Outer(n) = 0
    BY <2>1, CountEmpty DEF Outer
  <2>3. Passing(n) = 0 /\ Waiting(n) = 0
    BY <1>1, <1>2, <1>3 DEF Passing, Waiting, InFixpoint
  <2>. QED BY <2>2, <2>3
<1>7. AbsInbox = [n \in Tuples |-> 0]
  BY <1>6, InboxIs
<1>8. AbsTable = {}
  BY <1>1 DEF AbsTable, InFixpoint
<1>. QED BY <1>5, <1>7, <1>8 DEF Abs!Init

\* Every step of the node is one of the event semantics, or a stutter.
LEMMA EvNext ==
  ASSUME FiniteSetFacts, WellFormed, Lapsing = {}, Programs = <<>>, RtInv, EvInv, [Next]_vars
  PROVE  EvInv' /\ [Abs!Next]_<<AbsTable, AbsInbox>>
<1>1. CASE UNCHANGED vars
  <2>1. /\ q' = q /\ table' = table /\ lapsed' = lapsed /\ pending' = pending /\ pc' = pc
        /\ snap' = snap /\ taken' = taken /\ seen' = seen /\ state' = state /\ idx' = idx
    BY <1>1 DEF vars, rows, flow, phase, history
  <2>2. [Abs!Next]_<<AbsTable, AbsInbox>>
    BY <2>1, Quiet DEF EvInv
  <2>3. (Steady' <=> Steady) /\ (Gated' <=> Gated)
    BY <2>1 DEF Steady, Gated, Noticed, InFixpoint, Empty
  <2>4. NamesOf(q["intQ"])' = NamesOf(q["intQ"]) /\ Event' = Event /\ AskedNow' = AskedNow
    BY <2>1 DEF NamesOf, Event, AskedNow
  <2>5. (Sound' <=> Sound) /\ (Answered' <=> Answered)
    BY <2>1, <2>4 DEF Sound, Answered
  <2>6. \A n \in Tuples : Outer(n)' = Outer(n) /\ Noticed(n)' = Noticed(n)
    BY <2>1 DEF Outer, Count, Noticed
  <2>7. Current' = Current /\ Plan' = Plan
    BY <2>1, <2>4, <2>6 DEF Current, Plan, Start
  <2>8. \A j \in DOMAIN Order : Buffered(j)' <=> Buffered(j)
    BY <2>1, <2>4 DEF Buffered
  <2>9. Commits' <=> Commits
    BY <2>1, <2>4, <2>7, <2>8 DEF Commits
  <2>10. EvInv'
    BY <2>3, <2>5, <2>9 DEF EvInv
  <2>. QED BY <2>2, <2>10
<1>2. CASE LoaderTimer \/ (\E n \in Tuples : Flush(n)) \/ \E n \in Lapsing : Lapse(n)
  BY <1>2 DEF LoaderTimer, Flush, EvInv, Steady
<1>3. CASE Run
  BY <1>3, RunSwitchStep, RunnableStep, OuterStep, IntStepStep, StrandStep, BufferStep DEF Run
<1>4. CASE Commit
  BY <1>4, BeginCommitStep, CommitDoneStep, CommitTableStep, CommitMoves DEF Commit
<1>5. CASE StartProc \/ Loop \/ Transmit \/ EndProc
  BY <1>5, IdleStep
<1>6. CASE BeginFixpoint
  BY <1>6, BeginFixpointStep
<1>7. CASE \E n \in Arrivals : Arrive(n)
  BY <1>7, ArriveStep
<1>. QED BY <1>1, <1>2, <1>3, <1>4, <1>5, <1>6, <1>7, Zenon DEF Next, Process

-----------------------------------------------------------------------------
(* The library has what the steps use of finite sets.                      *)

FST == INSTANCE FiniteSetTheorems

\* Every set of natural numbers with an element has a least one.
LEMMA LeastNat ==
  ASSUME NEW S \in SUBSET Nat, S # {}
  PROVE  \E x \in S : \A y \in S : ~(y < x)
<1>. DEFINE R == FST!OpToRel(<, Nat)
<1>1. FST!IsWellFoundedOn(R, Nat)
  BY FST!NatLessThanWellFounded, Zenon
<1>2. \A x, y \in Nat : <<y, x>> \in R <=> y < x
  BY DEF FST!OpToRel
<1>. HIDE DEF R
<1>3. PICK x \in S : \A y \in S : ~(<<y, x>> \in R)
  BY <1>1, FST!WFMin, Zenon
<1>. QED BY <1>2, <1>3, Zenon

\* The facts about finite sets that the steps rest on.
LEMMA FiniteSetsHold == FiniteSetFacts
<1>1. /\ \A S : FST!IsFiniteSet(S) <=> IsFiniteSet(S)
      /\ \A S : FST!Cardinality(S) = Cardinality(S)
  BY Zenon DEF FST!IsFiniteSet, IsFiniteSet, FST!Cardinality, Cardinality
<1>2. \A S, U : FST!ExistsBijection(S, U) <=> ExistsBijection(S, U)
  BY Zenon
     DEF FST!ExistsBijection, FST!Bijection, FST!Injection, FST!Surjection, FST!IsInjective,
     ExistsBijection, Bijection, Injection, Surjection, IsInjective
<1>3. IsFiniteSet({}) /\ Cardinality({}) = 0
  BY <1>1, FST!FS_EmptySet, Zenon
<1>4. \A S : IsFiniteSet(S) => Cardinality(S) \in Nat
  BY <1>1, FST!FS_CardinalityType, Zenon
<1>5. \A S, U : IsFiniteSet(S) /\ U \subseteq S => IsFiniteSet(U)
  BY <1>1, FST!FS_Subset
<1>6. \A n \in Nat : IsFiniteSet(1 .. n)
  <2>1. \A n \in Nat : FST!IsFiniteSet(1 .. n)
    BY FST!FS_Interval
  <2>. QED BY <1>1, <2>1
<1>7. \A S, x : IsFiniteSet(S) /\ x \notin S => Cardinality(S \cup {x}) = Cardinality(S) + 1
  BY <1>1, FST!FS_AddElement
<1>8. \A S, x : IsFiniteSet(S) =>
        /\ IsFiniteSet(S \ {x})
        /\ Cardinality(S \ {x}) = IF x \in S THEN Cardinality(S) - 1 ELSE Cardinality(S)
  BY <1>1, FST!FS_RemoveElement
<1>9. \A S, U : IsFiniteSet(S) /\ ExistsBijection(S, U) =>
        IsFiniteSet(U) /\ Cardinality(U) = Cardinality(S)
  BY <1>1, <1>2, FST!FS_Bijection
<1>10. \A S, U : IsFiniteSet(S) /\ IsFiniteSet(U) =>
        /\ IsFiniteSet(S \cup U)
        /\ Cardinality(S \cup U) = Cardinality(S) + Cardinality(U) - Cardinality(S \cap U)
  BY <1>1, FST!FS_Union
<1>11. \A S \in SUBSET Nat : S # {} => \E x \in S : \A y \in S : ~(y < x)
  BY LeastNat
<1>. QED
  BY <1>3, <1>4, <1>5, <1>6, <1>7, <1>8, <1>9, <1>10, <1>11, Zenon DEF FiniteSetFacts

\* The node implements the event semantics: whatever order the scheduler runs the dataflow
\* in, external events are processed one by one, all the rules that an event triggers read
\* the tables as they were when the fixpoint began, and the commits of the event (the
\* CommitManager's actions, in their order) are one step of the event semantics
\* (Switch::run, PullPush::run, CommitManager::commit).  No row expires and no program is
\* loaded meanwhile.
THEOREM NodeImplementsEventSemantics ==
  ASSUME WellFormed, Lapsing = {}, Programs = <<>>
  PROVE  Spec => ImplementsEventSemantics
<1>1. Init => Abs!Init /\ EvInv
  BY EvInit, FiniteSetsHold
<1>2. RtInv /\ EvInv /\ [Next]_vars => EvInv' /\ [Abs!Next]_<<AbsTable, AbsInbox>>
  BY EvNext, FiniteSetsHold
<1>. QED BY <1>1, <1>2, RuntimeInvariant, PTL DEF Spec, ImplementsEventSemantics, Abs!Spec
=============================================================================
