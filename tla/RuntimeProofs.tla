---------------------------- MODULE RuntimeProofs ----------------------------
(***************************************************************************)
(* Proofs about the scheduler, its gate and its commits, for every program *)
(* that is well formed, any events and any expiry of rows.                 *)
(***************************************************************************)
EXTENDS Runtime, TLAPS

\* The queues between the gate and the commit.
Inner == {"intQ"} \cup RecvRules

\* The buffers of the updates that an event asks for.
Updates == Actions \ {"loader"}

\* Types of the scheduler's own variables.
Counters ==
  /\ events \in Nat /\ idx \in Nat \ {0} /\ loaded \in 0..Len(Programs)
  /\ first \in BOOLEAN /\ ran \in BOOLEAN /\ wait \in BOOLEAN
  /\ taken \in Seq(Tup)

\* A PullPush that runs is ACTIVE; one that does not wait for its output is
\* ACTIVE or waits for input, and Frag refuses only NetPP.
Scheduled ==
  /\ cur # "none" => pc = "run" /\ ran /\ state[cur] = "ACTIVE"
  /\ \A p \in PullPushes :
       state[p] \in {"ACTIVE", "BLOCKED"} \/ (p = "NetPP" /\ state[p] = "BLOCKED_PUSH")
  /\ frags = MaxFrags => state["NetPP"] = "BLOCKED_PUSH"

\* What is between the gate and the commit descends from the last event that
\* passed the gate; there is nothing of it while the gate is open, or after the
\* commit.
OneEvent ==
  /\ \A x \in Inner : \A i \in DOMAIN q[x] : q[x][i].tag = events
  /\ \A a \in Updates : \A i \in DOMAIN pending[a] : pending[a][i].tag = events
  /\ pc # "run" \/ state["Switch"] = "ACTIVE" => Empty(Inner)
  /\ pc \notin {"run", "commit"} \/ (pc = "run" /\ state["Switch"] = "ACTIVE") =>
       \A a \in Updates : pending[a] = <<>>

\* Buffers hold what their actions put there, and those the commit is done with
\* are empty.
Buffers ==
  /\ \A a \in ActionRules : \A i \in DOMAIN pending[a] : pending[a][i].name = Rule[a].head
  /\ \A i \in DOMAIN pending["loader"] : pending["loader"][i].name # Installed
  /\ pc = "commit" => \A j \in DOMAIN Order : j < idx => pending[Order[j]] = <<>>

NoneActive == \A p \in PullPushes : state[p] # "ACTIVE"
NonePending == \A a \in Actions : pending[a] = <<>>

\* A round of the scheduler that ran nothing has nothing to commit and wakes
\* nobody.  The first program waits only until the first round, in which
\* everything is ACTIVE.
Restful ==
  /\ pc \in {"run", "commit"} /\ ~ran => \A a \in Updates : pending[a] = <<>>
  /\ pc = "commit" /\ ~ran => NonePending /\ NoneActive
  /\ pc = "phase2" /\ ~first => NonePending /\ (~ran => NoneActive)
  /\ pc \in {"sleep", "fds"} => NonePending
  /\ pc = "sleep" /\ wait => NoneActive
  /\ pc = "timers" \/ (pc = "phase2" /\ first) \/ (pc = "run" /\ ~ran) =>
       (pending["loader"] # <<>> => state["IntQPP"] = "ACTIVE")
  /\ Programs # <<>> /\ loaded = 0 => pc = "timers" /\ state["IntQPP"] = "ACTIVE"

RtInv ==
  TypeOK /\ Counters /\ Scheduled /\ NoLostWakeup /\ OneEvent /\ Buffers /\ Restful

-----------------------------------------------------------------------------
(* The parts of the dataflow.                                              *)

States == {"ACTIVE", "BLOCKED", "BLOCKED_PUSH", "OFF"}

\* Rules, queues, runnables and commit actions, and which is which.
LEMMA Parts ==
  ASSUME WellFormed
  PROVE  /\ RecvRules \subseteq Rules /\ SendRules \subseteq RecvRules
         /\ ActionRules \subseteq RecvRules /\ ActionRules \cap SendRules = {}
         /\ TableRules \subseteq Rules /\ TableRules \cap RecvRules = {}
         /\ Rules \subseteq Queues /\ Inner \subseteq Queues
         /\ Actions = ActionRules \cup {"net", "loader"}
         /\ Updates = ActionRules \cup {"net"}
         /\ "Switch" \notin PullPushes /\ "none" \notin PullPushes
         /\ TableRules \cap Inner = {}
         /\ {"defrag", "netQ", "extQ", "netOutQ"} \cap Inner = {}
BY DEF WellFormed, RecvRules, SendRules, ActionRules, TableRules, Queues, Inner, Actions,
       Updates, PullPushes, FixedRunnables, FixedQueues

\* Which queues a PullPush pulls from.
LEMMA InputsOf ==
  ASSUME WellFormed
  PROVE  /\ Inputs("DefragPP") = {"defrag"} /\ Inputs("ExtDRRPP") = {"netQ"} \cup TableRules
         /\ Inputs("IntQPP") = {"intQ"} /\ Inputs("SEAOutputPP") = SendRules
         /\ Inputs("NetPP") = {"netOutQ"} /\ \A r \in ActionRules : Inputs(r) = {r}
<1>1. \A r \in ActionRules : r \notin FixedRunnables
  BY DEF WellFormed, ActionRules, RecvRules
<1>. QED BY <1>1 DEF Inputs, FixedRunnables

\* Every input of a PullPush is a queue, and none is the gate's.
LEMMA InputsQueues ==
  ASSUME WellFormed, NEW p \in PullPushes
  PROVE  Inputs(p) \subseteq Queues \ {"extQ"}
<1>1. "extQ" \notin Rules
  BY DEF WellFormed, FixedQueues
<1>2. CASE p \in ActionRules
  BY <1>1, <1>2, InputsOf, Parts
<1>3. CASE p \in FixedRunnables \ {"Switch"}
  <2>1. /\ {"defrag", "netQ", "intQ", "netOutQ"} \subseteq Queues
        /\ TableRules \cup SendRules \subseteq Queues \ {"extQ"}
    BY <1>1, Parts DEF Queues, FixedQueues
  <2>. QED BY <1>3, <2>1, InputsOf DEF FixedRunnables
<1>. QED BY <1>2, <1>3 DEF PullPushes

\* Every queue of the inner part of the dataflow is an input of a PullPush other
\* than NetPP.
LEMMA InnerInputs ==
  ASSUME WellFormed, NEW x \in Inner
  PROVE  \E p \in PullPushes \ {"NetPP"} : x \in Inputs(p)
<1>1. CASE x = "intQ"
  BY <1>1, InputsOf DEF PullPushes, FixedRunnables
<1>2. CASE x \in SendRules
  BY <1>2, InputsOf DEF PullPushes, FixedRunnables
<1>3. CASE x \in ActionRules
  <2>1. x \in PullPushes /\ x # "NetPP"
    BY <1>3, Parts DEF PullPushes, WellFormed, FixedRunnables
  <2>. QED BY <1>3, <2>1, InputsOf
<1>. QED BY <1>1, <1>2, <1>3 DEF Inner, ActionRules

\* Queue::push puts the tuple at the end of the queues, and changes no other.
LEMMA PushFacts ==
  ASSUME NEW qs \in [Queues -> Seq(Tup)], NEW Q, NEW t \in Tup
  PROVE  /\ Push(qs, Q, t) \in [Queues -> Seq(Tup)]
         /\ \A x \in Queues \cap Q : Push(qs, Q, t)[x] = Append(qs[x], t)
         /\ \A x \in Queues \ Q : Push(qs, Q, t)[x] = qs[x]
BY DEF Push

\* The pull callbacks wake the PullPushes that wait for input, and no other.
LEMMA WakeFacts ==
  ASSUME WellFormed, NEW st \in [Runnables -> States], NEW Q
  PROVE  /\ Wake(st, Q) \in [Runnables -> States]
         /\ Wake(st, Q)["Switch"] = st["Switch"]
         /\ \A p \in PullPushes :
              Wake(st, Q)[p] = IF Inputs(p) \cap Q # {} /\ st[p] # "BLOCKED_PUSH"
                               THEN "ACTIVE" ELSE st[p]
<1>1. "Switch" \notin PullPushes
  BY Parts
<1>. QED BY <1>1 DEF Wake, Runnables, States

\* Types of the constants.
LEMMA Constants ==
  ASSUME WellFormed
  PROVE  /\ Len(Order) \in Nat /\ DOMAIN Order = 1..Len(Order)
         /\ \A j \in DOMAIN Order : Order[j] \in Actions
         /\ Programs \in Seq(Tuples \ {Installed}) /\ Len(Programs) \in Nat
         /\ MaxFrags \in Nat \ {0}
<1>1. /\ Order \in Seq(ActionRules \cup {"net", "loader"})
      /\ Programs \in Seq(Tuples \ {Installed}) /\ MaxFrags \in Nat \ {0}
  BY DEF WellFormed
<1>2. \A j \in DOMAIN Order : Order[j] \in Actions
  BY DEF Actions, Range
<1>. QED BY <1>1, <1>2

\* Types of the variables.
LEMMA Types ==
  ASSUME RtInv
  PROVE  /\ q \in [Queues -> Seq(Tup)] /\ pending \in [Actions -> Seq(Tup)]
         /\ state \in [Runnables -> States] /\ cur \in PullPushes \cup {"none"}
         /\ events \in Nat /\ idx \in Nat \ {0} /\ loaded \in 0..Len(Programs)
         /\ frags \in 0..MaxFrags /\ lapsed \subseteq table /\ table \subseteq Tuples
<1>1. TypeOK /\ Counters
  BY DEF RtInv
<1>. QED BY <1>1 DEF TypeOK, Counters, States

-----------------------------------------------------------------------------
(* One lemma per step.                                                     *)

\* A node starts with empty queues, and everything may run.
LEMMA InitInv == WellFormed /\ Init => RtInv
<1>. SUFFICES ASSUME WellFormed, Init PROVE RtInv
  OBVIOUS
<1>1. /\ \A x \in Queues : q[x] = <<>> /\ DOMAIN q[x] = {}
      /\ \A a \in Actions : pending[a] = <<>> /\ DOMAIN pending[a] = {}
      /\ \A p \in Runnables : state[p] = "ACTIVE"
  BY DEF Init
<1>2. TypeOK /\ Counters
  <2>1. <<>> \in Seq(Tup)
    OBVIOUS
  <2>2. MaxFrags \in Nat /\ Len(Programs) \in Nat
    BY DEF WellFormed
  <2>3. TypeOK
    BY <2>1, <2>2 DEF Init, TypeOK
  <2>4. Counters
    <3>1. events \in Nat /\ idx \in Nat \ {0} /\ loaded \in 0..Len(Programs)
      BY <2>2 DEF Init
    <3>2. first \in BOOLEAN /\ ran \in BOOLEAN /\ wait \in BOOLEAN /\ taken \in Seq(Tup)
      BY <2>1, Zenon DEF Init
    <3>. QED BY <3>1, <3>2 DEF Counters
  <2>. QED BY <2>3, <2>4
<1>3. "NetPP" \in PullPushes /\ "IntQPP" \in PullPushes /\ PullPushes \subseteq Runnables
  BY DEF PullPushes, FixedRunnables, Runnables
<1>4. Scheduled
  BY <1>1, <1>3 DEF Init, Scheduled, WellFormed
<1>5. NoLostWakeup
  BY <1>1, <1>3 DEF NoLostWakeup
<1>6. OneEvent
  BY <1>1, Parts DEF Init, OneEvent, Empty, Updates
<1>7. Buffers
  BY <1>1, Parts DEF Init, Buffers
<1>8. Restful
  BY <1>1, <1>3, Parts DEF Init, Restful
<1>. QED BY <1>2, <1>4, <1>5, <1>6, <1>7, <1>8 DEF RtInv

\* What moves between queues while a PullPush runs: the tuple leaves x for the
\* queues of Q, whose pullers wake.  Only tuples of the event in progress go to
\* inner queues.
LEMMA ForwardInv ==
  ASSUME WellFormed, RtInv, NEW x \in Queues, Ready(x),
         NEW Q \in SUBSET Queues, NEW t \in Tup, Forward(x, Q, t),
         Q \cap Inner # {} => x \in Inner /\ t.tag = events
  PROVE  RtInv'
<1>. DEFINE qs == [q EXCEPT ![x] = Tail(@)]
<1>1. /\ q \in [Queues -> Seq(Tup)] /\ q[x] # <<>> /\ q[x] \in Seq(Tup)
      /\ state \in [Runnables -> States]
      /\ pc = "run" /\ cur # "none" /\ ran /\ state[cur] = "ACTIVE"
  BY DEF RtInv, TypeOK, Scheduled, Ready, States
<1>2. /\ qs \in [Queues -> Seq(Tup)] /\ qs[x] = Tail(q[x])
      /\ \A y \in Queues \ {x} : qs[y] = q[y]
  BY <1>1
<1>. HIDE DEF qs
<1>3. /\ q' \in [Queues -> Seq(Tup)]
      /\ \A y \in Queues \cap Q : q'[y] = Append(qs[y], t)
      /\ \A y \in Queues \ Q : q'[y] = qs[y]
  <2>1. q' = Push(qs, Q, t)
    BY DEF Forward, qs
  <2>. QED BY <2>1, <1>2, PushFacts
<1>4. /\ state' \in [Runnables -> States] /\ state'["Switch"] = state["Switch"]
      /\ \A p \in PullPushes :
           state'[p] = IF Inputs(p) \cap Q # {} /\ state[p] # "BLOCKED_PUSH"
                       THEN "ACTIVE" ELSE state[p]
  BY <1>1, WakeFacts DEF Forward
<1>5. TypeOK'
  BY <1>3, <1>4, Zenon DEF RtInv, TypeOK, Forward, rows, outside, phase, history, States
<1>6. Counters'
  BY DEF RtInv, Counters, Forward, outside, phase, history
<1>7. cur \in PullPushes /\ "NetPP" \in PullPushes /\ "IntQPP" \in PullPushes
  BY <1>1 DEF RtInv, TypeOK, PullPushes, FixedRunnables
<1>8. Scheduled'
  BY <1>1, <1>4, <1>7 DEF RtInv, Scheduled, Forward, outside, phase
<1>9. NoLostWakeup'
  <2>. SUFFICES ASSUME NEW p \in PullPushes, state'[p] = "BLOCKED", NEW y \in Inputs(p)
                PROVE  q'[y] = <<>>
    BY DEF NoLostWakeup, Empty
  <2>1. state[p] = "BLOCKED" /\ Inputs(p) \cap Q = {}
    BY <1>4
  <2>2. y \in Queues \ Q /\ q[y] = <<>>
    BY <2>1, InputsQueues DEF RtInv, NoLostWakeup, Empty
  <2>. QED BY <1>1, <1>2, <1>3, <2>2
<1>10. OneEvent'
  <2>1. ASSUME NEW y \in Inner, NEW i \in DOMAIN q'[y]
        PROVE  q'[y][i].tag = events
    <3>1. y \in Queues /\ q[y] \in Seq(Tup) /\ qs[y] \in Seq(Tup)
      BY <1>1, <1>2, Parts
    <3>2. \A j \in DOMAIN q[y] : q[y][j].tag = events
      BY DEF RtInv, OneEvent
    <3>3. \A j \in DOMAIN qs[y] : qs[y][j].tag = events
      <4>1. CASE y = x
        BY <4>1, <3>1, <3>2, <1>1, <1>2
      <4>2. CASE y # x
        BY <4>2, <3>1, <3>2, <1>2
      <4>. QED BY <4>1, <4>2
    <3>4. CASE y \in Q
      <4>1. t.tag = events /\ q'[y] = Append(qs[y], t)
        BY <3>1, <3>4, <1>3
      <4>. QED BY <4>1, <3>1, <3>3, <2>1
    <3>5. CASE y \notin Q
      BY <3>5, <3>1, <3>3, <1>3, <2>1
    <3>. QED BY <3>4, <3>5
  <2>2. ASSUME state'["Switch"] = "ACTIVE", NEW y \in Inner
        PROVE  q'[y] = <<>>
    <3>1. \A z \in Inner : q[z] = <<>>
      BY <2>2, <1>4 DEF RtInv, OneEvent, Empty
    <3>2. x \notin Inner /\ y \notin Q
      BY <3>1, <1>1
    <3>3. y \in Queues
      BY Parts
    <3>. QED BY <3>1, <3>2, <3>3, <1>2, <1>3
  <2>. QED BY <1>1, <1>4, <2>1, <2>2, Zenon DEF RtInv, OneEvent, Empty, Forward, history
<1>11. Buffers'
  BY DEF RtInv, Buffers, Forward, phase
<1>12. Restful'
  BY <1>1 DEF RtInv, Restful, Forward, outside, phase
<1>. QED BY <1>5, <1>6, <1>8, <1>9, <1>10, <1>11, <1>12 DEF RtInv

\* The first tuple of a queue that is not empty; in an inner queue it belongs to
\* the event in progress.
LEMMA HeadFacts ==
  ASSUME WellFormed, RtInv, NEW x \in Queues, Ready(x)
  PROVE  /\ Head(q[x]) \in Tup
         /\ x \in Inner => Head(q[x]).tag = events
<1>1. q[x] \in Seq(Tup) /\ q[x] # <<>>
  BY DEF RtInv, TypeOK, Ready
<1>2. 1 \in DOMAIN q[x] /\ Head(q[x]) = q[x][1]
  BY <1>1
<1>. QED BY <1>1, <1>2 DEF RtInv, OneEvent

\* The heads of rules are tuples.
LEMMA HeadTup ==
  ASSUME WellFormed, NEW r \in Rules, NEW n \in Nat
  PROVE  T(Rule[r].head, n) \in Tup /\ T(Rule[r].head, n).tag = n
BY DEF WellFormed, WellFormedProgram, Rules, T, Tup

\* The PullPushes outside the strands, and intDemux.
LEMMA QueueStepInv ==
  ASSUME WellFormed, RtInv,
         DefragStep \/ IntStep \/ \E x \in Inputs("ExtDRRPP") : ExtStep(x)
  PROVE  RtInv'
<1>. USE DEF Pull
<1>1. {"defrag", "netQ", "extQ", "intQ"} \subseteq Queues
  BY DEF Queues, FixedQueues
<1>2. CASE DefragStep
  <2>1. Ready("defrag") /\ Forward("defrag", {"netQ"}, Head(q["defrag"]))
    BY <1>2 DEF DefragStep
  <2>2. {"netQ"} \in SUBSET Queues /\ {"netQ"} \cap Inner = {}
    BY <1>1, Parts
  <2>3. Head(q["defrag"]) \in Tup
    BY <1>1, <2>1, HeadFacts
  <2>. QED BY <1>1, <2>1, <2>2, <2>3, ForwardInv
<1>3. CASE IntStep
  <2>. DEFINE t == Head(q["intQ"])
              Q == {r \in RecvRules : Rule[r].event = t.name}
  <2>1. Ready("intQ") /\ Forward("intQ", Q, t)
    BY <1>3 DEF IntStep
  <2>2. Q \in SUBSET Queues /\ "intQ" \in Inner
    BY Parts DEF Inner
  <2>3. t \in Tup /\ t.tag = events
    BY <1>1, <2>1, <2>2, HeadFacts
  <2>. HIDE DEF t, Q
  <2>. QED BY <1>1, <2>1, <2>2, <2>3, ForwardInv
<1>4. ASSUME NEW x \in Inputs("ExtDRRPP"), ExtStep(x)
      PROVE  RtInv'
  <2>. DEFINE t == IF x \in TableRules THEN T(Rule[x].head, 0) ELSE Head(q[x])
  <2>1. Ready(x) /\ Forward(x, {"extQ"}, t)
    BY <1>4 DEF ExtStep
  <2>2. {"extQ"} \in SUBSET Queues /\ {"extQ"} \cap Inner = {} /\ x \in Queues
    BY <1>1, <1>4, Parts, InputsOf
  <2>3. t \in Tup
    BY <2>1, <2>2, HeadFacts, HeadTup, Parts
  <2>. HIDE DEF t
  <2>. QED BY <2>1, <2>2, <2>3, ForwardInv
<1>. QED BY <1>2, <1>3, <1>4

\* Strands that produce nothing, and those whose head is an event of this node.
LEMMA StrandStepInv ==
  ASSUME WellFormed, RtInv, NEW r \in Rules, StrandFails(r) \/ SendLocal(r)
  PROVE  RtInv'
<1>1. r \in RecvRules /\ Ready(r) /\ r \in Queues /\ r \in Inner
  BY Parts DEF StrandFails, SendLocal, Pull, Inner
<1>2. Head(q[r]) \in Tup /\ Head(q[r]).tag = events
  BY <1>1, HeadFacts
<1>3. CASE StrandFails(r)
  <2>1. Forward(r, {}, Head(q[r]))
    BY <1>3 DEF StrandFails
  <2>. QED BY <1>1, <1>2, <2>1, ForwardInv
<1>4. CASE SendLocal(r)
  <2>. DEFINE t == T(Rule[r].head, Head(q[r]).tag)
  <2>1. Forward(r, {"intQ"}, t)
    BY <1>4 DEF SendLocal
  <2>2. {"intQ"} \in SUBSET Queues
    BY DEF Queues, FixedQueues
  <2>3. Head(q[r]).tag \in Nat
    BY <1>2 DEF Tup
  <2>4. t \in Tup /\ t.tag = events
    BY <1>2, <2>3, HeadTup
  <2>. HIDE DEF t
  <2>. QED BY <1>1, <2>1, <2>2, <2>4, ForwardInv
<1>. QED BY <1>3, <1>4

\* What a strand buffers for the commit belongs to the event in progress.
LEMMA BufferInv ==
  ASSUME WellFormed, RtInv, NEW r \in Inner, Ready(r), NEW a \in Updates, NEW t \in Tup,
         Buffer(r, a, t), t.tag = events, a \in ActionRules => t.name = Rule[a].head
  PROVE  RtInv'
<1>1. /\ r \in Queues /\ q \in [Queues -> Seq(Tup)] /\ q[r] # <<>> /\ q[r] \in Seq(Tup)
      /\ a \in Actions /\ a # "loader"
      /\ pending \in [Actions -> Seq(Tup)] /\ pending[a] \in Seq(Tup)
      /\ pc = "run" /\ cur # "none" /\ ran /\ state["Switch"] # "ACTIVE"
  BY Parts DEF RtInv, TypeOK, Scheduled, OneEvent, Empty, Ready, Updates
<1>2. /\ q' \in [Queues -> Seq(Tup)] /\ q'[r] = Tail(q[r])
      /\ \A y \in Queues \ {r} : q'[y] = q[y]
  BY <1>1 DEF Buffer
<1>3. /\ pending' \in [Actions -> Seq(Tup)] /\ pending'[a] = Append(pending[a], t)
      /\ \A b \in Actions \ {a} : pending'[b] = pending[b]
  BY <1>1 DEF Buffer
<1>4. TypeOK' /\ Counters'
  BY <1>2, <1>3 DEF RtInv, TypeOK, Counters, Buffer, rows, outside, phase, history
<1>5. Scheduled'
  BY DEF RtInv, Scheduled, Buffer, outside, phase
<1>6. NoLostWakeup'
  <2>. SUFFICES ASSUME NEW p \in PullPushes, state'[p] = "BLOCKED", NEW y \in Inputs(p)
                PROVE  q'[y] = <<>>
    BY DEF NoLostWakeup, Empty
  <2>1. y \in Queues /\ q[y] = <<>>
    BY InputsQueues DEF RtInv, NoLostWakeup, Empty, Buffer
  <2>. QED BY <1>1, <1>2, <2>1
<1>7. OneEvent'
  <2>1. ASSUME NEW y \in Inner, NEW i \in DOMAIN q'[y]
        PROVE  q'[y][i].tag = events
    <3>1. y \in Queues /\ q[y] \in Seq(Tup)
      BY <1>1, Parts
    <3>2. \A j \in DOMAIN q[y] : q[y][j].tag = events
      BY DEF RtInv, OneEvent
    <3>3. CASE y = r
      BY <3>1, <3>2, <3>3, <1>1, <1>2, <2>1
    <3>4. CASE y # r
      BY <3>1, <3>2, <3>4, <1>2, <2>1
    <3>. QED BY <3>3, <3>4
  <2>2. ASSUME NEW b \in Updates, NEW i \in DOMAIN pending'[b]
        PROVE  pending'[b][i].tag = events
    <3>1. b \in Actions /\ \A j \in DOMAIN pending[b] : pending[b][j].tag = events
      BY DEF RtInv, OneEvent, Updates
    <3>2. CASE b = a
      BY <3>1, <3>2, <1>1, <1>3, <2>2
    <3>3. CASE b # a
      BY <3>1, <3>3, <1>3, <2>2
    <3>. QED BY <3>2, <3>3
  <2>. QED BY <1>1, <2>1, <2>2 DEF OneEvent, Buffer, history
<1>8. Buffers'
  <2>1. ASSUME NEW b \in ActionRules, NEW i \in DOMAIN pending'[b]
        PROVE  pending'[b][i].name = Rule[b].head
    <3>1. b \in Actions /\ \A j \in DOMAIN pending[b] : pending[b][j].name = Rule[b].head
      <4>1. b \in Actions
        BY Parts
      <4>2. \A j \in DOMAIN pending[b] : pending[b][j].name = Rule[b].head
        BY DEF RtInv, Buffers
      <4>. QED BY <4>1, <4>2
    <3>2. CASE b = a
      BY <3>1, <3>2, <1>1, <1>3, <2>1
    <3>3. CASE b # a
      BY <3>1, <3>3, <1>3, <2>1
    <3>. QED BY <3>2, <3>3
  <2>2. pending'["loader"] = pending["loader"]
    BY <1>1, <1>3, Parts
  <2>. QED BY <1>1, <2>1, <2>2 DEF RtInv, Buffers, Buffer
<1>9. Restful'
  BY <1>1 DEF RtInv, Restful, Buffer, outside, phase
<1>. QED BY <1>4, <1>5, <1>6, <1>7, <1>8, <1>9 DEF RtInv

\* Heads that go to another node, and inserts and deletes.
LEMMA BufferStepInv ==
  ASSUME WellFormed, RtInv, NEW r \in Rules, SendRemote(r) \/ SideEffect(r)
  PROVE  RtInv'
<1>1. r \in RecvRules /\ Ready(r) /\ r \in Queues /\ r \in Inner
  BY Parts DEF SendRemote, SideEffect, Pull, Inner
<1>2. Head(q[r]) \in Tup /\ Head(q[r]).tag = events
  BY <1>1, HeadFacts
<1>. DEFINE t == T(Rule[r].head, Head(q[r]).tag)
<1>3. Head(q[r]).tag \in Nat
  BY <1>2 DEF Tup
<1>4. t \in Tup /\ t.tag = events /\ t.name = Rule[r].head
  BY <1>2, <1>3, HeadTup DEF T
<1>5. CASE SendRemote(r)
  <2>1. Buffer(r, "net", t)
    BY <1>5 DEF SendRemote
  <2>2. "net" \in Updates /\ "net" \notin ActionRules
    BY Parts DEF WellFormed
  <2>. HIDE DEF t
  <2>. QED BY <1>1, <1>4, <2>1, <2>2, BufferInv
<1>6. CASE SideEffect(r)
  <2>1. Buffer(r, r, t) /\ r \in ActionRules
    BY <1>6 DEF SideEffect
  <2>2. r \in Updates
    BY <2>1, Parts
  <2>. HIDE DEF t
  <2>. QED BY <1>1, <1>4, <2>1, <2>2, BufferInv
<1>. QED BY <1>5, <1>6

\* The empty sequence is neutral.
LEMMA EmptyConcat ==
  ASSUME NEW S, NEW s \in Seq(S)
  PROVE  <<>> \o s = s
OBVIOUS

\* The gate: at most one event passes, and only when nothing of an earlier one is
\* left.
LEMMA RunSwitchInv ==
  ASSUME WellFormed, RtInv, RunSwitch
  PROVE  RtInv'
<1>. DEFINE n == IF Len(q["extQ"]) < NTuple THEN Len(q["extQ"]) ELSE NTuple
            new == [i \in 1..n |-> T(q["extQ"][i].name, events + i)]
            st == IF n > 0 THEN Wake(state, {"intQ"}) ELSE state
<1>1. /\ q \in [Queues -> Seq(Tup)] /\ "extQ" \in Queues /\ "intQ" \in Queues
      /\ state \in [Runnables -> States] /\ "Switch" \in Runnables
      /\ pc = "run" /\ cur = "none" /\ state["Switch"] = "ACTIVE" /\ events \in Nat
      /\ "intQ" \in Inner /\ "IntQPP" \in PullPushes /\ "NetPP" \in PullPushes
      /\ PullPushes \subseteq Runnables \ {"Switch"}
  BY Parts, Zenon
     DEF RtInv, TypeOK, Counters, RunSwitch, Queues, FixedQueues, States, Runnables, Inner,
     PullPushes, FixedRunnables
<1>2. /\ \A x \in Inner : q[x] = <<>>
      /\ \A a \in Updates : pending[a] = <<>>
  BY <1>1 DEF RtInv, OneEvent, Empty
<1>3. n \in 0..1 /\ n <= Len(q["extQ"])
  BY <1>1 DEF NTuple
<1>4. /\ q' = [q EXCEPT !["extQ"] = SubSeq(@, n + 1, Len(@)), !["intQ"] = @ \o new]
      /\ state' = [st EXCEPT !["Switch"] = IF n = NTuple THEN "OFF" ELSE "BLOCKED"]
      /\ events' = events + n /\ taken' = taken \o new
  BY DEF RunSwitch
<1>5. new \in Seq(Tup) /\ Len(new) = n /\ \A i \in 1..n : new[i].tag = events + i
  <2>1. \A i \in 1..n : q["extQ"][i] \in Tup
    BY <1>1, <1>3
  <2>2. \A i \in 1..n : T(q["extQ"][i].name, events + i) \in Tup
    BY <1>1, <1>3, <2>1 DEF T, Tup
  <2>3. new \in [1..n -> Tup]
    BY <2>2
  <2>4. new \in Seq(Tup) /\ Len(new) = n
    BY <2>3, <1>3
  <2>. QED BY <2>4, Zenon DEF T
<1>6. st \in [Runnables -> States]
      /\ \A p \in PullPushes :
           st[p] = IF n > 0 /\ Inputs(p) \cap {"intQ"} # {} /\ state[p] # "BLOCKED_PUSH"
                   THEN "ACTIVE" ELSE state[p]
  <2>1. CASE n > 0
    <3>1. st = Wake(state, {"intQ"})
      BY <2>1
    <3>. HIDE DEF n, st
    <3>. QED BY <2>1, <3>1, <1>1, WakeFacts
  <2>2. CASE ~(n > 0)
    <3>1. st = state
      BY <2>2
    <3>. HIDE DEF n, st
    <3>. QED BY <2>2, <3>1, <1>1
  <2>. QED BY <2>1, <2>2
<1>. HIDE DEF n, new, st
<1>7. /\ q' \in [Queues -> Seq(Tup)] /\ q'["intQ"] = new
      /\ \A x \in Queues \ {"extQ", "intQ"} : q'[x] = q[x]
  <2>1. /\ q'["intQ"] = q["intQ"] \o new /\ q'["extQ"] = SubSeq(q["extQ"], n + 1, Len(q["extQ"]))
        /\ \A x \in Queues \ {"extQ", "intQ"} : q'[x] = q[x]
        /\ q' = [x \in Queues |-> q'[x]]
    BY <1>1, <1>4, Zenon
  <2>2. q'["intQ"] = new
    BY <1>1, <1>2, <1>5, <2>1, EmptyConcat, Zenon
  <2>3. SubSeq(q["extQ"], n + 1, Len(q["extQ"])) \in Seq(Tup)
    BY <1>1, <1>3
  <2>. QED BY <1>1, <1>5, <2>1, <2>2, <2>3, Zenon
<1>8. /\ state' \in [Runnables -> States] /\ state'["Switch"] # "ACTIVE"
      /\ \A p \in PullPushes : state'[p] = st[p]
  BY <1>1, <1>4, <1>6 DEF States
<1>9. TypeOK'
  BY <1>7, <1>8, Zenon DEF RtInv, TypeOK, RunSwitch, rows, outside, States
<1>10. Counters'
  <2>1. events' \in Nat
    BY <1>1, <1>3, <1>4
  <2>2. taken' \in Seq(Tup)
    BY <1>4, <1>5 DEF RtInv, Counters
  <2>. QED BY <2>1, <2>2 DEF RtInv, Counters, RunSwitch, outside, phase
<1>11. Scheduled'
  BY <1>1, <1>6, <1>8 DEF RtInv, Scheduled, RunSwitch, outside
<1>12. NoLostWakeup'
  <2>. SUFFICES ASSUME NEW p \in PullPushes, state'[p] = "BLOCKED", NEW y \in Inputs(p)
                PROVE  q'[y] = <<>>
    BY DEF NoLostWakeup, Empty
  <2>1. state[p] = "BLOCKED" /\ (n > 0 => y # "intQ")
    BY <1>6, <1>8
  <2>2. y \in Queues \ {"extQ"} /\ q[y] = <<>>
    BY <2>1, InputsQueues DEF RtInv, NoLostWakeup, Empty
  <2>3. CASE y = "intQ"
    BY <2>1, <2>3, <1>3, <1>5, <1>7
  <2>4. CASE y # "intQ"
    BY <2>2, <2>4, <1>7
  <2>. QED BY <2>3, <2>4
<1>13. OneEvent'
  <2>1. ASSUME NEW x \in Inner, NEW i \in DOMAIN q'[x]
        PROVE  q'[x][i].tag = events'
    <3>1. x \in Queues \ {"extQ"}
      BY Parts
    <3>2. CASE x = "intQ"
      <4>1. i \in 1..n
        BY <2>1, <3>2, <1>5, <1>7
      <4>2. i = n
        BY <4>1, <1>3
      <4>. QED BY <4>1, <4>2, <3>2, <1>4, <1>5, <1>7
    <3>3. CASE x # "intQ"
      <4>1. q'[x] = <<>>
        BY <3>1, <3>3, <1>2, <1>7
      <4>. QED BY <2>1, <4>1
    <3>. QED BY <3>2, <3>3
  <2>2. \A a \in Updates : DOMAIN pending'[a] = {}
    BY <1>2 DEF RunSwitch
  <2>3. pc' = "run"
    BY <1>1 DEF RunSwitch
  <2>. QED BY <1>8, <2>1, <2>2, <2>3 DEF OneEvent
<1>14. Buffers'
  BY <1>1 DEF RtInv, Buffers, RunSwitch, phase
<1>15. Restful'
  <2>1. state["IntQPP"] = "ACTIVE" => state'["IntQPP"] = "ACTIVE"
    BY <1>1, <1>6, <1>8
  <2>. QED BY <1>1, <2>1 DEF RtInv, Restful, RunSwitch, outside, phase
<1>. QED BY <1>9, <1>10, <1>11, <1>12, <1>13, <1>14, <1>15 DEF RtInv

\* PullPush::run begins.
LEMMA StartRunInv ==
  ASSUME WellFormed, RtInv, NEW p \in PullPushes, StartRun(p)
  PROVE  RtInv'
<1>1. TypeOK' /\ Counters'
  BY DEF RtInv, TypeOK, Counters, StartRun, rows, outside, history
<1>2. Scheduled' /\ NoLostWakeup'
  BY DEF RtInv, Scheduled, NoLostWakeup, Empty, StartRun, outside
<1>3. OneEvent' /\ Buffers'
  BY DEF RtInv, OneEvent, Buffers, Empty, StartRun, history
<1>4. Restful'
  BY DEF RtInv, Restful, StartRun, outside
<1>. QED BY <1>1, <1>2, <1>3, <1>4 DEF RtInv

\* PullPush::run ends: it waits for input.
LEMMA FinishRunInv ==
  ASSUME WellFormed, RtInv, FinishRun
  PROVE  RtInv'
<1>1. /\ cur \in PullPushes /\ pc = "run" /\ ran /\ state[cur] = "ACTIVE"
      /\ "Switch" \notin PullPushes /\ PullPushes \subseteq Runnables
      /\ state \in [Runnables -> States]
  BY Parts DEF RtInv, TypeOK, Scheduled, FinishRun, Runnables, States
<1>2. /\ state' \in [Runnables -> States] /\ state'["Switch"] = state["Switch"]
      /\ state'[cur] = "BLOCKED" /\ \A p \in PullPushes \ {cur} : state'[p] = state[p]
  BY <1>1 DEF FinishRun, States
<1>3. TypeOK' /\ Counters'
  BY <1>2 DEF RtInv, TypeOK, Counters, FinishRun, rows, outside, phase, history, States
<1>4. Scheduled'
  <2>1. "NetPP" \in PullPushes
    BY DEF PullPushes, FixedRunnables
  <2>. QED BY <1>1, <1>2, <2>1 DEF RtInv, Scheduled, FinishRun, outside
<1>5. NoLostWakeup'
  BY <1>2 DEF RtInv, NoLostWakeup, Empty, FinishRun
<1>6. OneEvent' /\ Buffers'
  BY <1>1, <1>2, Zenon DEF RtInv, OneEvent, Buffers, Empty, FinishRun, phase, history
<1>7. Restful'
  BY <1>1 DEF RtInv, Restful, FinishRun, outside, phase
<1>. QED BY <1>3, <1>4, <1>5, <1>6, <1>7 DEF RtInv

\* Frag takes a tuple, and refuses the next one when it is full.
LEMMA NetStepInv ==
  ASSUME WellFormed, RtInv, NetStep
  PROVE  RtInv'
<1>1. /\ pc = "run" /\ ran /\ cur = "NetPP" /\ state["NetPP"] = "ACTIVE"
      /\ "NetPP" \in PullPushes /\ "NetPP" \in Runnables /\ "Switch" \notin PullPushes
      /\ PullPushes \subseteq Runnables
      /\ q \in [Queues -> Seq(Tup)] /\ "netOutQ" \in Queues /\ q["netOutQ"] # <<>>
      /\ state \in [Runnables -> States] /\ frags \in Nat /\ frags < MaxFrags /\ MaxFrags \in Nat
      /\ "netOutQ" \notin Inner
  <2>1. /\ pc = "run" /\ cur = "NetPP" /\ q["netOutQ"] # <<>>
    BY DEF NetStep, Pull, Ready
  <2>2. ran /\ state["NetPP"] = "ACTIVE" /\ (frags = MaxFrags => state["NetPP"] = "BLOCKED_PUSH")
    BY <2>1 DEF RtInv, Scheduled
  <2>3. /\ "NetPP" \in PullPushes /\ "NetPP" \in Runnables /\ PullPushes \subseteq Runnables
        /\ "netOutQ" \in Queues
    BY DEF Runnables, PullPushes, FixedRunnables, Queues, FixedQueues
  <2>4. "Switch" \notin PullPushes /\ "netOutQ" \notin Inner
    BY Parts
  <2>5. /\ q \in [Queues -> Seq(Tup)] /\ state \in [Runnables -> States]
        /\ frags \in 0..MaxFrags /\ MaxFrags \in Nat
    BY Types, Constants
  <2>. QED BY <2>1, <2>2, <2>3, <2>4, <2>5
<1>2. /\ q' \in [Queues -> Seq(Tup)] /\ q'["netOutQ"] = Tail(q["netOutQ"])
      /\ \A x \in Queues \ {"netOutQ"} : q'[x] = q[x]
  BY <1>1 DEF NetStep
<1>3. /\ state' \in [Runnables -> States] /\ state'["Switch"] = state["Switch"]
      /\ \A p \in PullPushes \ {"NetPP"} : state'[p] = state[p]
      /\ state'["NetPP"] = IF frags + 1 >= MaxFrags THEN "BLOCKED_PUSH" ELSE "ACTIVE"
      /\ cur' = IF frags + 1 >= MaxFrags THEN "none" ELSE "NetPP"
  <2>1. CASE FragFull(frags + 1)
    <3>1. /\ cur' = "none" /\ state' = [state EXCEPT !["NetPP"] = "BLOCKED_PUSH"]
          /\ frags + 1 >= MaxFrags
      BY <2>1 DEF NetStep, FragFull
    <3>. QED BY <1>1, <3>1 DEF States
  <2>2. CASE ~FragFull(frags + 1)
    BY <1>1, <2>2 DEF NetStep, FragFull
  <2>. QED BY <2>1, <2>2
<1>4. TypeOK' /\ Counters'
  <2>1. frags' \in 0..MaxFrags
    BY <1>1 DEF NetStep
  <2>. QED BY <1>1, <1>2, <1>3, <2>1
       DEF RtInv, TypeOK, Counters, NetStep, rows, phase, history, States
<1>5. Scheduled'
  BY <1>1, <1>3 DEF RtInv, Scheduled, NetStep, phase
<1>6. NoLostWakeup'
  <2>. SUFFICES ASSUME NEW p \in PullPushes, state'[p] = "BLOCKED", NEW y \in Inputs(p)
                PROVE  q'[y] = <<>>
    BY DEF NoLostWakeup, Empty
  <2>1. state[p] = "BLOCKED"
    BY <1>3
  <2>2. y \in Queues /\ q[y] = <<>>
    BY <2>1, InputsQueues DEF RtInv, NoLostWakeup, Empty
  <2>3. y # "netOutQ"
    BY <1>1, <2>2
  <2>. QED BY <1>2, <2>2, <2>3
<1>7. OneEvent'
  <2>1. \A x \in Inner : q'[x] = q[x]
    BY <1>1, <1>2, Parts
  <2>2. UNCHANGED <<pc, pending, events>>
    BY DEF NetStep, history
  <2>. QED BY <1>3, <2>1, <2>2 DEF RtInv, OneEvent, Empty
<1>8. Buffers'
  BY <1>1 DEF RtInv, Buffers, NetStep, phase
<1>9. Restful'
  BY <1>1 DEF RtInv, Restful, NetStep, phase
<1>. QED BY <1>4, <1>5, <1>6, <1>7, <1>8, <1>9 DEF RtInv

\* The first program is pushed before the first round, when everything is ACTIVE.
LEMMA LoaderTimerInv ==
  ASSUME WellFormed, RtInv, LoaderTimer
  PROVE  RtInv'
<1>1. /\ pc = "timers" /\ loaded = 0 /\ Programs # <<>> /\ state["IntQPP"] = "ACTIVE"
      /\ pending \in [Actions -> Seq(Tup)] /\ "loader" \in Actions
      /\ pending["loader"] \in Seq(Tup)
  BY Parts DEF RtInv, TypeOK, Restful, LoaderTimer
<1>. DEFINE t == T(Programs[1], 0)
<1>2. /\ Len(Programs) \in Nat /\ 0 < Len(Programs) /\ t \in Tup /\ t.name # Installed
  <2>1. Programs \in Seq(Tuples \ {Installed})
    BY DEF WellFormed
  <2>2. Len(Programs) \in Nat /\ 0 < Len(Programs) /\ Programs[1] \in Tuples \ {Installed}
    BY <1>1, <2>1
  <2>. QED BY <2>2 DEF T, Tup
<1>3. pending' = [pending EXCEPT !["loader"] = Append(@, t)]
  BY <1>1, <1>2 DEF LoaderTimer, Load
<1>. HIDE DEF t
<1>4. /\ pending' \in [Actions -> Seq(Tup)] /\ pending'["loader"] = Append(pending["loader"], t)
      /\ \A a \in Updates : pending'[a] = pending[a]
      /\ \A a \in ActionRules : pending'[a] = pending[a]
  <2>1. "loader" \notin Updates /\ ActionRules \subseteq Updates /\ Updates \subseteq Actions
    BY Parts DEF Updates
  <2>2. /\ pending' \in [Actions -> Seq(Tup)]
        /\ pending'["loader"] = Append(pending["loader"], t)
        /\ \A a \in Actions \ {"loader"} : pending'[a] = pending[a]
    BY <1>1, <1>2, <1>3
  <2>. QED BY <2>1, <2>2
<1>5. TypeOK' /\ Counters'
  BY <1>1, <1>2, <1>4
     DEF RtInv, TypeOK, Counters, LoaderTimer, rows, flow, phase, history
<1>6. Scheduled' /\ NoLostWakeup'
  BY Zenon DEF RtInv, Scheduled, NoLostWakeup, Empty, LoaderTimer, flow, phase
<1>7. OneEvent'
  BY <1>4 DEF RtInv, OneEvent, Empty, LoaderTimer, flow, history
<1>8. Buffers'
  BY <1>1, <1>2, <1>4 DEF RtInv, Buffers, LoaderTimer
<1>9. Restful'
  BY <1>1 DEF RtInv, Restful, LoaderTimer, flow, phase
<1>. QED BY <1>5, <1>6, <1>7, <1>8, <1>9 DEF RtInv

\* A round begins.
LEMMA StartProcInv ==
  ASSUME WellFormed, RtInv, StartProc
  PROVE  RtInv'
<1>1. TypeOK' /\ Counters'
  BY Zenon DEF RtInv, TypeOK, Counters, StartProc, rows, flow, outside, history
<1>2. Scheduled' /\ NoLostWakeup'
  BY DEF RtInv, Scheduled, NoLostWakeup, Empty, StartProc, flow, outside
<1>3. OneEvent' /\ Buffers'
  BY DEF RtInv, OneEvent, Buffers, Empty, StartProc, flow, history
<1>4. Restful'
  <2>1. /\ pc = "timers" /\ pc' = "phase2" /\ first' /\ (Programs # <<>> => loaded # 0)
        /\ pending' = pending /\ state' = state /\ loaded' = loaded
    BY Types DEF StartProc, flow, outside
  <2>2. pending["loader"] # <<>> => state["IntQPP"] = "ACTIVE"
    BY <2>1 DEF RtInv, Restful
  <2>. QED BY <2>1, <2>2 DEF Restful
<1>. QED BY <1>1, <1>2, <1>3, <1>4 DEF RtInv

\* The network brings an event, which waits outside the gate.
LEMMA ArriveInv ==
  ASSUME WellFormed, RtInv, NEW m \in Arrivals, Arrive(m)
  PROVE  RtInv'
<1>1. /\ q \in [Queues -> Seq(Tup)] /\ state \in [Runnables -> States]
      /\ T(m, 0) \in Tup /\ "defrag" \in Queues /\ "defrag" \notin Inner
      /\ pc \in {"sleep", "fds"} /\ cur = "none" /\ "NetPP" \in PullPushes
  BY Parts, Zenon
     DEF RtInv, TypeOK, Scheduled, Arrive, States, WellFormed, T, Tup, Queues, FixedQueues,
     PullPushes, FixedRunnables
<1>2. /\ q' \in [Queues -> Seq(Tup)] /\ \A x \in Queues \ {"defrag"} : q'[x] = q[x]
  <2>. DEFINE t == T(m, 0)
              Q == {"defrag"}
  <2>1. t \in Tup /\ q' = Push(q, Q, t)
    BY <1>1 DEF Arrive
  <2>. HIDE DEF t, Q
  <2>2. q' \in [Queues -> Seq(Tup)] /\ \A x \in Queues \ Q : q'[x] = q[x]
    BY <1>1, <2>1, PushFacts
  <2>. QED BY <2>2 DEF Q
<1>3. /\ state' \in [Runnables -> States] /\ state'["Switch"] = state["Switch"]
      /\ \A p \in PullPushes :
           state'[p] = IF Inputs(p) \cap {"defrag"} # {} /\ state[p] # "BLOCKED_PUSH"
                       THEN "ACTIVE" ELSE state[p]
  <2>. DEFINE Q == {"defrag"}
  <2>1. state' = Wake(state, Q)
    BY DEF Arrive
  <2>. HIDE DEF Q
  <2>2. /\ state' \in [Runnables -> States] /\ state'["Switch"] = state["Switch"]
        /\ \A p \in PullPushes :
             state'[p] = IF Inputs(p) \cap Q # {} /\ state[p] # "BLOCKED_PUSH"
                         THEN "ACTIVE" ELSE state[p]
    BY <1>1, <2>1, WakeFacts
  <2>. QED BY <2>2 DEF Q
<1>4. TypeOK' /\ Counters'
  BY <1>2, <1>3 DEF RtInv, TypeOK, Counters, Arrive, rows, phase, history, States
<1>5. Scheduled'
  BY <1>1, <1>3 DEF RtInv, Scheduled, Arrive
<1>6. NoLostWakeup'
  <2>. SUFFICES ASSUME NEW p \in PullPushes, state'[p] = "BLOCKED", NEW y \in Inputs(p)
                PROVE  q'[y] = <<>>
    BY DEF NoLostWakeup, Empty
  <2>1. state[p] = "BLOCKED" /\ y # "defrag"
    BY <1>3
  <2>2. y \in Queues /\ q[y] = <<>>
    BY <2>1, InputsQueues DEF RtInv, NoLostWakeup, Empty
  <2>. QED BY <1>2, <2>1, <2>2
<1>7. OneEvent'
  <2>1. \A x \in Inner : q'[x] = q[x]
    BY <1>1, <1>2, Parts
  <2>2. /\ UNCHANGED <<pending, events>> /\ pc' = "fds" /\ pc # "run" /\ pc # "commit"
    BY <1>1 DEF Arrive, history
  <2>. QED BY <2>1, <2>2, Zenon DEF RtInv, OneEvent, Empty
<1>8. Buffers'
  BY DEF RtInv, Buffers, Arrive
<1>9. Restful'
  BY <1>1, Zenon DEF RtInv, Restful, NonePending, Arrive, phase
<1>. QED BY <1>4, <1>5, <1>6, <1>7, <1>8, <1>9 DEF RtInv

\* The socket takes a fragment.
LEMMA TransmitInv ==
  ASSUME WellFormed, RtInv, Transmit
  PROVE  RtInv'
<1>1. /\ state \in [Runnables -> States] /\ "NetPP" \in PullPushes /\ "NetPP" \in Runnables
      /\ PullPushes \subseteq Runnables /\ "Switch" \notin PullPushes
      /\ pc \in {"sleep", "fds"} /\ cur = "none"
      /\ frags \in 1..MaxFrags /\ MaxFrags \in Nat
  <2>1. "NetPP" \in PullPushes /\ "NetPP" \in Runnables /\ PullPushes \subseteq Runnables
    BY DEF Runnables, PullPushes, FixedRunnables
  <2>2. "Switch" \notin PullPushes
    BY Parts
  <2>3. pc \in {"sleep", "fds"} /\ frags > 0
    BY DEF Transmit
  <2>4. cur = "none"
    BY <2>3 DEF RtInv, Scheduled
  <2>5. state \in [Runnables -> States] /\ frags \in 0..MaxFrags /\ MaxFrags \in Nat
    BY Types, Constants
  <2>. QED BY <2>1, <2>2, <2>3, <2>4, <2>5
<1>2. /\ state' \in [Runnables -> States] /\ state'["Switch"] = state["Switch"]
      /\ \A p \in PullPushes \ {"NetPP"} : state'[p] = state[p]
      /\ state'["NetPP"] = IF state["NetPP"] = "BLOCKED_PUSH" THEN "ACTIVE" ELSE state["NetPP"]
  BY <1>1 DEF Transmit, States
<1>3. TypeOK' /\ Counters'
  <2>1. frags' \in 0..MaxFrags
    BY <1>1 DEF Transmit
  <2>. QED BY <1>2, <2>1 DEF RtInv, TypeOK, Counters, Transmit, rows, phase, history, States
<1>4. Scheduled'
  BY <1>1, <1>2 DEF RtInv, Scheduled, Transmit
<1>5. NoLostWakeup'
  <2>. SUFFICES ASSUME NEW p \in PullPushes, state'[p] = "BLOCKED", NEW y \in Inputs(p)
                PROVE  q'[y] = <<>>
    BY DEF NoLostWakeup, Empty
  <2>1. state[p] = "BLOCKED"
    BY <1>2
  <2>. QED BY <2>1 DEF RtInv, NoLostWakeup, Empty, Transmit
<1>6. OneEvent' /\ Buffers'
  <2>1. /\ UNCHANGED <<q, pending, events>> /\ pc' = "fds" /\ pc # "run" /\ pc # "commit"
    BY <1>1 DEF Transmit, history
  <2>. QED BY <2>1 DEF RtInv, OneEvent, Buffers, Empty
<1>7. Restful'
  BY <1>1 DEF RtInv, Restful, NonePending, Transmit, phase
<1>. QED BY <1>3, <1>4, <1>5, <1>6, <1>7 DEF RtInv

\* The loop turns.
LEMMA LoopInv ==
  ASSUME WellFormed, RtInv, Loop
  PROVE  RtInv'
<1>1. TypeOK' /\ Counters'
  BY DEF RtInv, TypeOK, Counters, Loop, rows, flow, outside, phase, history
<1>2. Scheduled' /\ NoLostWakeup'
  BY Zenon DEF RtInv, Scheduled, NoLostWakeup, Empty, Loop, flow, outside, phase
<1>3. OneEvent' /\ Buffers'
  BY Zenon DEF RtInv, OneEvent, Buffers, Empty, Loop, flow, history
<1>4. Restful'
  <2>1. "loader" \in Actions
    BY Parts
  <2>. QED BY <2>1 DEF RtInv, Restful, NonePending, Loop, flow, outside, phase
<1>. QED BY <1>1, <1>2, <1>3, <1>4 DEF RtInv

\* The gate opens after a commit or at the beginning of a round.
LEMMA BeginFixpointInv ==
  ASSUME WellFormed, RtInv, BeginFixpoint
  PROVE  RtInv'
<1>1. /\ state \in [Runnables -> States] /\ "Switch" \in Runnables
      /\ PullPushes \subseteq Runnables \ {"Switch"} /\ pc = "phase2" /\ cur = "none"
      /\ "NetPP" \in PullPushes /\ "IntQPP" \in PullPushes
  <2>1. pc = "phase2"
    BY DEF BeginFixpoint
  <2>2. cur = "none"
    BY <2>1 DEF RtInv, Scheduled
  <2>3. state \in [Runnables -> States]
    BY Types
  <2>4. "NetPP" \in PullPushes /\ "IntQPP" \in PullPushes /\ "Switch" \in Runnables
    BY DEF Runnables, PullPushes, FixedRunnables
  <2>5. PullPushes \subseteq Runnables \ {"Switch"}
    BY Parts DEF Runnables
  <2>. QED BY <2>1, <2>2, <2>3, <2>4, <2>5
<1>2. /\ state' \in [Runnables -> States]
      /\ \A p \in PullPushes : state'[p] = state[p]
  BY <1>1 DEF BeginFixpoint, States
<1>3. TypeOK' /\ Counters'
  <2>1. <<>> \in Seq(Tup)
    OBVIOUS
  <2>. QED BY <1>2, <2>1, Zenon DEF RtInv, TypeOK, Counters, BeginFixpoint, rows, outside, States
<1>4. Scheduled'
  BY <1>1, <1>2, Zenon DEF RtInv, Scheduled, BeginFixpoint, outside
<1>5. NoLostWakeup'
  BY <1>2 DEF RtInv, NoLostWakeup, Empty, BeginFixpoint
<1>6. OneEvent' /\ Buffers'
  BY <1>1, Zenon DEF RtInv, OneEvent, Buffers, Empty, BeginFixpoint
<1>7. Restful'
  <2>1. pending["loader"] # <<>> => state["IntQPP"] = "ACTIVE"
    BY <1>1, Parts DEF RtInv, Counters, Restful, NonePending
  <2>. QED BY <1>1, <1>2, <2>1, Zenon DEF RtInv, Restful, OneEvent, BeginFixpoint, outside
<1>. QED BY <1>3, <1>4, <1>5, <1>6, <1>7 DEF RtInv

-----------------------------------------------------------------------------
(* The commit.                                                             *)

\* No runnable is ACTIVE: nothing of the event is left outside the buffers.
LEMMA BeginCommitInv ==
  ASSUME WellFormed, RtInv, BeginCommit
  PROVE  RtInv'
<1>1. /\ cur = "none" /\ \A p \in PullPushes : state[p] # "ACTIVE"
      /\ "IntQPP" \in PullPushes
  BY DEF BeginCommit, Quiescent, Runnables, PullPushes, FixedRunnables
<1>2. Empty(Inner)
  <2>. SUFFICES ASSUME NEW x \in Inner PROVE q[x] = <<>>
    BY DEF Empty
  <2>1. PICK p \in PullPushes \ {"NetPP"} : x \in Inputs(p)
    BY InnerInputs
  <2>2. state[p] = "BLOCKED"
    BY <1>1, <2>1 DEF RtInv, Scheduled
  <2>. QED BY <2>1, <2>2 DEF RtInv, NoLostWakeup, Empty
<1>3. TypeOK' /\ Counters'
  BY DEF RtInv, TypeOK, Counters, BeginCommit, rows, flow, outside, history
<1>4. Scheduled' /\ NoLostWakeup'
  BY <1>1, Zenon DEF RtInv, Scheduled, NoLostWakeup, Empty, BeginCommit, flow, outside
<1>5. OneEvent'
  BY <1>2, Zenon DEF RtInv, OneEvent, Empty, BeginCommit, flow, history
<1>6. Buffers'
  <2>1. pending' = pending /\ idx' = 1
    BY DEF BeginCommit
  <2>2. \A j \in DOMAIN Order : ~(j < idx')
    BY <2>1, Constants
  <2>. QED BY <2>1, <2>2 DEF RtInv, Buffers
<1>7. Restful'
  <2>1. ~ran => NonePending
    BY <1>1, Zenon DEF RtInv, Restful, NonePending, Updates, BeginCommit
  <2>. QED BY <1>1, <2>1, Zenon
              DEF RtInv, Restful, NoneActive, NonePending, BeginCommit, flow, outside
<1>. QED BY <1>3, <1>4, <1>5, <1>6, <1>7 DEF RtInv

\* The lifetime of a row ends.
LEMMA LapseInv ==
  ASSUME WellFormed, RtInv, NEW n \in Lapsing, Lapse(n)
  PROVE  RtInv'
<1>1. TypeOK' /\ Counters'
  BY DEF RtInv, TypeOK, Counters, Lapse, flow, outside, phase, history
<1>2. Scheduled' /\ NoLostWakeup'
  BY Zenon DEF RtInv, Scheduled, NoLostWakeup, Empty, Lapse, flow, outside, phase
<1>3. OneEvent' /\ Buffers'
  BY Zenon DEF RtInv, OneEvent, Buffers, Empty, Lapse, flow, phase, history
<1>4. Restful'
  BY Zenon DEF RtInv, Restful, NoneActive, NonePending, Lapse, flow, outside, phase
<1>. QED BY <1>1, <1>2, <1>3, <1>4 DEF RtInv

\* An action has nothing more to commit.
LEMMA NextActionInv ==
  ASSUME WellFormed, RtInv, NEW a \in Actions, NextAction(a)
  PROVE  RtInv'
<1>1. TypeOK' /\ Counters'
  BY DEF RtInv, TypeOK, Counters, NextAction, rows, flow, outside, history
<1>2. Scheduled' /\ NoLostWakeup'
  BY Zenon DEF RtInv, Scheduled, NoLostWakeup, Empty, NextAction, flow, outside
<1>3. OneEvent'
  BY DEF RtInv, OneEvent, Empty, NextAction, flow, history
<1>4. Buffers'
  <2>1. DOMAIN Order \subseteq Nat /\ idx \in Nat
    BY Constants, Types
  <2>2. pending[Order[idx]] = <<>> /\ pc = "commit" /\ idx' = idx + 1 /\ UNCHANGED <<pending, pc>>
    BY DEF NextAction, Committing
  <2>3. \A j \in DOMAIN Order : j < idx => pending[Order[j]] = <<>>
    BY <2>2 DEF RtInv, Buffers
  <2>4. \A j \in DOMAIN Order : j < idx' => pending'[Order[j]] = <<>>
    <3>. SUFFICES ASSUME NEW j \in DOMAIN Order, j < idx + 1 PROVE pending[Order[j]] = <<>>
      BY <2>2
    <3>1. j < idx \/ j = idx
      BY <2>1
    <3>. QED BY <2>2, <2>3, <3>1
  <2>. QED BY <2>2, <2>4 DEF RtInv, Buffers
<1>5. Restful'
  <2>1. UNCHANGED <<pc, first, ran, wait, pending, state, loaded>>
    BY DEF NextAction, flow, outside
  <2>. QED BY <2>1, Zenon DEF RtInv, Restful, NoneActive, NonePending
<1>. QED BY <1>1, <1>2, <1>3, <1>4, <1>5 DEF RtInv

\* Every action has committed: no update is left.
LEMMA CommitDoneInv ==
  ASSUME WellFormed, RtInv, CommitDone
  PROVE  RtInv'
<1>1. NonePending
  <2>. SUFFICES ASSUME NEW a \in Actions PROVE pending[a] = <<>>
    BY DEF NonePending
  <2>1. PICK j \in DOMAIN Order : a = Order[j]
    BY DEF Actions, Range
  <2>2. j \in Nat /\ j <= Len(Order) /\ idx \in Nat /\ Len(Order) \in Nat
    BY Constants, Types
  <2>3. pc = "commit" /\ idx > Len(Order)
    BY DEF CommitDone
  <2>4. j < idx
    BY <2>2, <2>3
  <2>. QED BY <2>1, <2>3, <2>4 DEF RtInv, Buffers
<1>2. TypeOK' /\ Counters'
  BY DEF RtInv, TypeOK, Counters, CommitDone, rows, flow, outside, phase, history
<1>3. Scheduled' /\ NoLostWakeup'
  BY Zenon DEF RtInv, Scheduled, NoLostWakeup, Empty, CommitDone, flow, outside, phase
<1>4. OneEvent' /\ Buffers'
  BY <1>1 DEF RtInv, OneEvent, Buffers, Empty, NonePending, Updates, CommitDone, flow, history
<1>5. Restful'
  <2>1. "loader" \in Actions /\ pc = "commit"
    BY Parts DEF CommitDone
  <2>. QED BY <1>1, <2>1, Zenon
              DEF RtInv, Restful, NoneActive, NonePending, CommitDone, flow, outside, phase
<1>. QED BY <1>2, <1>3, <1>4, <1>5 DEF RtInv

\* A round ends.
LEMMA EndProcInv ==
  ASSUME WellFormed, RtInv, EndProc
  PROVE  RtInv'
<1>1. TypeOK' /\ Counters'
  BY DEF RtInv, TypeOK, Counters, EndProc, WaitFor, rows, flow, outside, history
<1>2. Scheduled' /\ NoLostWakeup'
  BY Zenon DEF RtInv, Scheduled, NoLostWakeup, Empty, EndProc, flow, outside
<1>3. OneEvent' /\ Buffers'
  BY Zenon DEF RtInv, OneEvent, Buffers, Empty, EndProc, flow, history
<1>4. Restful'
  <2>1. pc = "phase2" /\ ~first /\ pc' = "sleep" /\ wait' = ~ran /\ ran \in BOOLEAN
    BY DEF RtInv, Counters, EndProc, WaitFor
  <2>. QED BY <2>1, Zenon DEF RtInv, Restful, NoneActive, NonePending, EndProc, flow, outside
<1>. QED BY <1>1, <1>2, <1>3, <1>4 DEF RtInv

\* pend holds nothing that pending does not, but for programs to load, and the
\* actions that have committed have nothing in it.
Remaining(pend) ==
  /\ pend \in [Actions -> Seq(Tup)]
  /\ \A a \in Updates :
       /\ pending[a] = <<>> => pend[a] = <<>>
       /\ \A i \in DOMAIN pend[a] : \E j \in DOMAIN pending[a] : pend[a][i] = pending[a][j]
  /\ \A i \in DOMAIN pend["loader"] : pend["loader"][i].name # Installed
  /\ pc = "commit" => \A j \in DOMAIN Order : j < idx => pend[Order[j]] = <<>>

\* A step that only takes from the buffers, loads a program and pushes to queues
\* outside the gate, waking those who wait there.
LEMMA ListenersInv ==
  ASSUME WellFormed, RtInv, ran, pc \in {"run", "commit"},
         table' \subseteq Tuples, lapsed' \subseteq table',
         NEW Q, Q \cap Inner = {},
         q' \in [Queues -> Seq(Tup)], \A x \in Queues \ Q : q'[x] = q[x],
         state' = Wake(state, Q), Remaining(pending'),
         loaded' \in loaded .. Len(Programs),
         UNCHANGED <<cur, frags, arrived, pc, phase, history>>
  PROVE  RtInv'
<1>1. /\ state' \in [Runnables -> States] /\ state'["Switch"] = state["Switch"]
      /\ \A p \in PullPushes :
           state'[p] = IF Inputs(p) \cap Q # {} /\ state[p] # "BLOCKED_PUSH"
                       THEN "ACTIVE" ELSE state[p]
  <2>1. state \in [Runnables -> States]
    BY Types
  <2>2. /\ Wake(state, Q) \in [Runnables -> States]
        /\ Wake(state, Q)["Switch"] = state["Switch"]
        /\ \A p \in PullPushes :
             Wake(state, Q)[p] = IF Inputs(p) \cap Q # {} /\ state[p] # "BLOCKED_PUSH"
                                 THEN "ACTIVE" ELSE state[p]
    <3>1. "Switch" \notin PullPushes
      BY Parts
    <3>. QED BY <2>1, <3>1 DEF Wake, Runnables, States
  <2>. QED BY <2>2
<1>2. \A x \in Inner : q'[x] = q[x]
  BY Parts
<1>3. loaded \in Nat /\ Len(Programs) \in Nat /\ (Programs # <<>> => loaded > 0)
  <2>1. loaded \in Nat /\ Len(Programs) \in Nat
    BY Constants, Types
  <2>2. Programs # <<>> => loaded # 0
    BY DEF RtInv, Restful
  <2>. QED BY <2>1, <2>2
<1>4. TypeOK'
  BY <1>1 DEF RtInv, TypeOK, States, Remaining, history
<1>5. Counters'
  BY <1>3 DEF RtInv, Counters, phase, history
<1>6. Scheduled'
  <2>1. \A p \in PullPushes :
          state'[p] \in {"ACTIVE", "BLOCKED"} \/ (p = "NetPP" /\ state'[p] = "BLOCKED_PUSH")
    BY <1>1 DEF RtInv, Scheduled
  <2>2. cur' # "none" => pc' = "run" /\ ran' /\ state'[cur'] = "ACTIVE"
    BY <1>1 DEF RtInv, Scheduled, TypeOK, phase
  <2>3. frags' = MaxFrags => state'["NetPP"] = "BLOCKED_PUSH"
    BY <1>1 DEF RtInv, Scheduled, PullPushes, FixedRunnables
  <2>. QED BY <2>1, <2>2, <2>3 DEF Scheduled
<1>7. NoLostWakeup'
  <2>. SUFFICES ASSUME NEW p \in PullPushes, state'[p] = "BLOCKED", NEW y \in Inputs(p)
                PROVE  q'[y] = <<>>
    BY DEF NoLostWakeup, Empty
  <2>1. state[p] = "BLOCKED" /\ y \notin Q
    BY <1>1
  <2>2. y \in Queues /\ q[y] = <<>>
    BY <2>1, InputsQueues, Zenon DEF RtInv, NoLostWakeup, Empty
  <2>. QED BY <2>1, <2>2, Zenon
<1>8. OneEvent'
  <2>1. \A x \in Inner : \A i \in DOMAIN q'[x] : q'[x][i].tag = events'
    BY <1>2, Zenon DEF RtInv, OneEvent, history
  <2>2. \A a \in Updates : \A i \in DOMAIN pending'[a] : pending'[a][i].tag = events'
    <3>1. \A a \in Updates : \A j \in DOMAIN pending[a] : pending[a][j].tag = events
      BY Zenon DEF RtInv, OneEvent
    <3>2. \A a \in Updates : \A i \in DOMAIN pending'[a] :
            \E j \in DOMAIN pending[a] : pending'[a][i] = pending[a][j]
      BY DEF Remaining
    <3>3. events' = events
      BY DEF history
    <3>4. ASSUME NEW a \in Updates, NEW i \in DOMAIN pending'[a]
          PROVE  pending'[a][i].tag = events'
      <4>1. PICK j \in DOMAIN pending[a] : pending'[a][i] = pending[a][j]
        BY <3>2
      <4>. QED BY <3>1, <3>3, <4>1
    <3>. QED BY <3>4
  <2>3. pc' # "run" \/ state'["Switch"] = "ACTIVE" => \A x \in Inner : q'[x] = <<>>
    <3>1. pc # "run" \/ state["Switch"] = "ACTIVE" => \A x \in Inner : q[x] = <<>>
      BY Zenon DEF RtInv, OneEvent, Empty
    <3>. QED BY <1>1, <1>2, <3>1, Zenon
  <2>4. pc' \notin {"run", "commit"} \/ (pc' = "run" /\ state'["Switch"] = "ACTIVE") =>
          \A a \in Updates : pending'[a] = <<>>
    BY <1>1, Zenon DEF RtInv, OneEvent, Remaining
  <2>. QED BY <2>1, <2>2, <2>3, <2>4, Zenon DEF OneEvent, Empty
<1>9. Buffers'
  <2>1. \A a \in ActionRules : \A i \in DOMAIN pending'[a] : pending'[a][i].name = Rule[a].head
    <3>1. ActionRules \subseteq Updates
      BY Parts
    <3>2. \A a \in ActionRules : \A j \in DOMAIN pending[a] : pending[a][j].name = Rule[a].head
      BY DEF RtInv, Buffers
    <3>3. \A a \in Updates : \A i \in DOMAIN pending'[a] :
            \E j \in DOMAIN pending[a] : pending'[a][i] = pending[a][j]
      BY DEF Remaining
    <3>4. ASSUME NEW a \in ActionRules, NEW i \in DOMAIN pending'[a]
          PROVE  pending'[a][i].name = Rule[a].head
      <4>1. PICK j \in DOMAIN pending[a] : pending'[a][i] = pending[a][j]
        BY <3>1, <3>3, Zenon
      <4>. QED BY <3>2, <4>1
    <3>. QED BY <3>4
  <2>. QED BY <2>1, Zenon DEF Buffers, Remaining, phase
<1>10. Restful'
  <2>1. ran' /\ pc' \in {"run", "commit"}
    BY DEF phase
  <2>2. ~(Programs # <<>> /\ loaded' = 0)
    BY <1>3
  <2>. QED BY <2>1, <2>2 DEF Restful
<1>. QED BY <1>4, <1>5, <1>6, <1>7, <1>8, <1>9, <1>10 DEF RtInv

\* Nothing changes in the buffers.
LEMMA RemainingSame ==
  ASSUME WellFormed, RtInv
  PROVE  Remaining(pending)
BY DEF RtInv, TypeOK, Buffers, Remaining

\* The action that commits takes a tuple from its buffer, and the round ran
\* something.
LEMMA TakeFacts ==
  ASSUME WellFormed, RtInv, NEW a \in Actions, Committing(a), pending[a] # <<>>
  PROVE  /\ ran /\ Head(pending[a]) \in Tup
         /\ Remaining([pending EXCEPT ![a] = Tail(@)])
         /\ a \in ActionRules => Head(pending[a]).name = Rule[a].head
         /\ a = "loader" => Head(pending[a]).name # Installed
<1>1. /\ pc = "commit" /\ pending \in [Actions -> Seq(Tup)] /\ pending[a] \in Seq(Tup)
      /\ Len(pending[a]) \in Nat /\ Len(pending[a]) > 0 /\ idx \in Nat
      /\ DOMAIN Order \subseteq Nat /\ idx \in DOMAIN Order /\ a = Order[idx]
  <2>1. pending \in [Actions -> Seq(Tup)] /\ idx \in Nat \ {0}
    BY Types
  <2>2. Len(Order) \in Nat /\ DOMAIN Order = 1..Len(Order)
    BY Constants
  <2>3. pc = "commit" /\ idx <= Len(Order) /\ a = Order[idx]
    BY DEF Committing
  <2>4. pending[a] \in Seq(Tup) /\ Len(pending[a]) \in Nat /\ Len(pending[a]) > 0
    BY <2>1
  <2>. QED BY <2>1, <2>2, <2>3, <2>4
<1>2. ran
  BY <1>1 DEF RtInv, Restful, NonePending
<1>3. Head(pending[a]) = pending[a][1] /\ 1 \in DOMAIN pending[a] /\ Head(pending[a]) \in Tup
  BY <1>1
<1>4. /\ a \in ActionRules => Head(pending[a]).name = Rule[a].head
      /\ a = "loader" => Head(pending[a]).name # Installed
  BY <1>3 DEF RtInv, Buffers
<1>. DEFINE pend == [pending EXCEPT ![a] = Tail(@)]
<1>5. /\ pend \in [Actions -> Seq(Tup)] /\ pend[a] = Tail(pending[a])
      /\ \A b \in Actions \ {a} : pend[b] = pending[b]
  BY <1>1
<1>6. \A i \in DOMAIN pend[a] : i + 1 \in DOMAIN pending[a] /\ pend[a][i] = pending[a][i + 1]
  BY <1>1, <1>5
<1>. HIDE DEF pend
<1>7. Updates \subseteq Actions /\ \A j \in DOMAIN Order : Order[j] \in Actions
  BY DEF Updates, Actions, Range
<1>8. \A b \in Updates :
        /\ pending[b] = <<>> => pend[b] = <<>>
        /\ \A i \in DOMAIN pend[b] : \E j \in DOMAIN pending[b] : pend[b][i] = pending[b][j]
  <2>. SUFFICES ASSUME NEW b \in Updates
                PROVE  /\ pending[b] = <<>> => pend[b] = <<>>
                       /\ \A i \in DOMAIN pend[b] :
                            \E j \in DOMAIN pending[b] : pend[b][i] = pending[b][j]
    OBVIOUS
  <2>1. CASE b = a
    BY <1>6, <2>1
  <2>2. CASE b # a
    BY <1>5, <1>7, <2>2
  <2>. QED BY <2>1, <2>2
<1>9. \A i \in DOMAIN pend["loader"] : pend["loader"][i].name # Installed
  <2>1. CASE a = "loader"
    BY <1>6, <2>1 DEF RtInv, Buffers
  <2>2. CASE a # "loader"
    BY <1>5, <2>2, Parts, Zenon DEF RtInv, Buffers
  <2>. QED BY <2>1, <2>2
<1>10. \A j \in DOMAIN Order : j < idx => pend[Order[j]] = <<>>
  BY <1>1, <1>5, <1>7, Zenon DEF RtInv, Buffers
<1>11. Remaining(pend)
  BY <1>5, <1>8, <1>9, <1>10, Zenon DEF Remaining
<1>. QED BY <1>2, <1>3, <1>4, <1>11 DEF pend

\* A program is loaded during the commit, in a buffer whose turn is still to come.
LEMMA LoadFacts ==
  ASSUME WellFormed, RtInv, NEW pend, Remaining(pend), loaded < Len(Programs),
         \A j \in DOMAIN Order : Order[j] = "loader" => idx < j
  PROVE  Remaining(Load(pend))
<1>1. /\ loaded \in Nat /\ Len(Programs) \in Nat /\ idx \in Nat /\ DOMAIN Order \subseteq Nat
      /\ Programs \in Seq(Tuples \ {Installed}) /\ pend \in [Actions -> Seq(Tup)]
      /\ "loader" \in Actions /\ pend["loader"] \in Seq(Tup)
  <2>1. loaded \in Nat /\ idx \in Nat
    BY Types, Constants
  <2>2. /\ Len(Programs) \in Nat /\ DOMAIN Order \subseteq Nat
        /\ Programs \in Seq(Tuples \ {Installed})
    BY Constants
  <2>3. "loader" \in Actions /\ pend \in [Actions -> Seq(Tup)]
    BY Parts DEF Remaining
  <2>. QED BY <2>1, <2>2, <2>3
<1>. DEFINE t == T(Programs[loaded + 1], 0)
<1>2. t \in Tup /\ t.name # Installed
  <2>1. Programs[loaded + 1] \in Tuples \ {Installed}
    BY <1>1
  <2>. QED BY <2>1 DEF T, Tup
<1>3. Load(pend) = [pend EXCEPT !["loader"] = Append(@, t)]
  BY DEF Load
<1>. HIDE DEF t
<1>4. /\ Load(pend) \in [Actions -> Seq(Tup)]
      /\ Load(pend)["loader"] = Append(pend["loader"], t)
      /\ \A a \in Actions \ {"loader"} : Load(pend)[a] = pend[a]
  BY <1>1, <1>2, <1>3
<1>5. \A j \in DOMAIN Order : Order[j] \in Actions
  BY DEF Actions, Range
<1>6. \A i \in DOMAIN Load(pend)["loader"] : Load(pend)["loader"][i].name # Installed
  <2>. DEFINE s == pend["loader"]
  <2>1. s \in Seq(Tup) /\ \A i \in DOMAIN s : s[i].name # Installed
    BY <1>1 DEF Remaining
  <2>. HIDE DEF s
  <2>2. \A i \in DOMAIN Append(s, t) : Append(s, t)[i].name # Installed
    <3>. SUFFICES ASSUME NEW i \in DOMAIN Append(s, t) PROVE Append(s, t)[i].name # Installed
      OBVIOUS
    <3>1. CASE i \in DOMAIN s
      BY <1>2, <2>1, <3>1
    <3>2. CASE i \notin DOMAIN s
      <4>1. Append(s, t)[i] = t
        BY <1>2, <2>1, <3>2
      <4>. QED BY <1>2, <4>1
    <3>. QED BY <3>1, <3>2
  <2>. QED BY <1>4, <2>2 DEF s
<1>7. pc = "commit" => \A j \in DOMAIN Order : j < idx => Load(pend)[Order[j]] = <<>>
  <2>. SUFFICES ASSUME pc = "commit", NEW j \in DOMAIN Order, j < idx
                PROVE  Load(pend)[Order[j]] = <<>>
    OBVIOUS
  <2>1. Order[j] # "loader"
    BY <1>1
  <2>2. pend[Order[j]] = <<>>
    BY DEF Remaining
  <2>. QED BY <1>4, <1>5, <2>1, <2>2
<1>8. \A a \in Updates : a \in Actions /\ a # "loader"
  BY DEF Updates
<1>9. \A a \in Updates :
        /\ pending[a] = <<>> => Load(pend)[a] = <<>>
        /\ \A i \in DOMAIN Load(pend)[a] :
             \E j \in DOMAIN pending[a] : Load(pend)[a][i] = pending[a][j]
  <2>1. \A a \in Updates : Load(pend)[a] = pend[a]
    BY <1>4, <1>8
  <2>. SUFFICES ASSUME NEW a \in Updates
                PROVE  /\ pending[a] = <<>> => pend[a] = <<>>
                       /\ \A i \in DOMAIN pend[a] : \E j \in DOMAIN pending[a] : pend[a][i] = pending[a][j]
    BY <2>1
  <2>. QED BY <1>8 DEF Remaining
<1>10. Load(pend) \in [Actions -> Seq(Tup)]
  BY <1>4
<1>. QED BY <1>6, <1>7, <1>9, <1>10, Zenon DEF Remaining

\* Listeners are told of a change of row n; the loader's next program goes to a
\* buffer whose turn is still to come.
LEMMA NotifyInv ==
  ASSUME WellFormed, RtInv, ran, pc \in {"run", "commit"},
         table' \subseteq Tuples, lapsed' \subseteq table',
         NEW on, NEW n \in Tuples, NEW pend, Remaining(pend), Notify(on, n, pend),
         LoadsNext(on, n) => \A j \in DOMAIN Order : Order[j] = "loader" => idx < j,
         UNCHANGED <<cur, frags, arrived, pc, phase, history>>
  PROVE  RtInv'
<1>. DEFINE Q == {r \in TableRules : Rule[r].on = on /\ Rule[r].event = n}
            t == T(n, 0)
<1>1. q' = Push(q, Q, t) /\ state' = Wake(state, Q)
  BY DEF Notify
<1>2. t \in Tup /\ Q \cap Inner = {} /\ q \in [Queues -> Seq(Tup)]
  BY Parts, Zenon DEF T, Tup, RtInv, TypeOK
<1>3. Remaining(pending')
  BY LoadFacts DEF Notify
<1>4. loaded' \in loaded .. Len(Programs)
  <2>1. loaded \in Nat /\ Len(Programs) \in Nat /\ loaded <= Len(Programs)
    BY Constants, Types
  <2>. QED BY <2>1 DEF Notify
<1>. HIDE DEF Q, t
<1>5. q' \in [Queues -> Seq(Tup)] /\ \A x \in Queues \ Q : q'[x] = q[x]
  BY <1>1, <1>2, PushFacts
<1>. QED BY <1>1, <1>2, <1>3, <1>4, <1>5, ListenersInv

\* A tuple is committed to its table.
LEMMA CommitTableInv ==
  ASSUME WellFormed, RtInv, NEW a \in Actions, CommitTable(a)
  PROVE  RtInv'
<1>. DEFINE n == Head(pending[a]).name
            pend == [pending EXCEPT ![a] = Tail(@)]
<1>1. /\ pc = "commit" /\ Committing(a) /\ pending[a] # <<>> /\ a # "net"
      /\ n \notin lapsed /\ CommitRow(Adds(a), n, pend)
      /\ UNCHANGED <<lapsed, cur, frags, arrived, pc, phase, history>>
  BY Zenon DEF CommitTable, Committing
<1>2. /\ ran /\ n \in Tuples /\ Remaining(pend)
      /\ a \in ActionRules => n = Rule[a].head
      /\ a = "loader" => n # Installed
  BY <1>1, TakeFacts, Zenon DEF Tup
<1>. HIDE DEF n, pend
<1>3. lapsed \subseteq table /\ table \subseteq Tuples
  BY DEF RtInv, TypeOK
<1>4. CASE Adds(a) /\ n \notin table /\ table' = table \cup {n} /\ Notify("INSERT", n, pend)
  <2>1. n = Installed => \A j \in DOMAIN Order : Order[j] = "loader" => idx < j
    <3>. SUFFICES ASSUME n = Installed, NEW j \in DOMAIN Order, Order[j] = "loader"
                  PROVE  idx < j
      OBVIOUS
    <3>1. a \in ActionRules /\ Rule[a].action = "ADD" /\ Rule[a].head = Installed
      BY <1>1, <1>2, <1>4, Parts, Zenon DEF Adds
    <3>2. idx \in DOMAIN Order /\ Order[idx] = a
      BY <1>1, Constants, Types DEF Committing
    <3>3. \A i, k \in DOMAIN Order :
            /\ Order[i] \in ActionRules /\ Order[k] = "loader"
            /\ Rule[Order[i]].action = "ADD" /\ Rule[Order[i]].head = Installed
            => i < k
      BY Zenon DEF WellFormed
    <3>. QED BY <3>1, <3>2, <3>3
  <2>2. table' \subseteq Tuples /\ lapsed' \subseteq table'
    BY <1>1, <1>2, <1>3, <1>4, Zenon
  <2>3. UNCHANGED <<cur, frags, arrived, pc, phase, history>>
    BY <1>1, Zenon
  <2>4. LoadsNext("INSERT", n) => n = Installed
    BY DEF LoadsNext
  <2>. QED BY <1>1, <1>2, <1>4, <2>1, <2>2, <2>3, <2>4, NotifyInv, Zenon
<1>5. CASE ~Adds(a) /\ n \in table /\ table' = table \ {n} /\ Notify("REMOVE", n, pend)
  <2>1. table' \subseteq Tuples /\ lapsed' \subseteq table'
    BY <1>1, <1>3, <1>5, Zenon
  <2>2. UNCHANGED <<cur, frags, arrived, pc, phase, history>>
    BY <1>1, Zenon
  <2>3. ~LoadsNext("REMOVE", n)
    BY DEF LoadsNext
  <2>. QED BY <1>1, <1>2, <1>5, <2>1, <2>2, <2>3, NotifyInv, Zenon
<1>6. CASE pending' = pend /\ UNCHANGED <<rows, q, state, loaded>>
  <2>1. table' \subseteq Tuples /\ lapsed' \subseteq table'
    BY <1>3, <1>6 DEF rows
  <2>2. UNCHANGED <<cur, frags, arrived, pc, phase, history>>
    BY <1>1, Zenon
  <2>. DEFINE Q == {}
  <2>3. /\ Q \cap Inner = {} /\ q' \in [Queues -> Seq(Tup)]
        /\ \A x \in Queues \ Q : q'[x] = q[x]
    BY <1>6 DEF RtInv, TypeOK
  <2>4. state' = Wake(state, Q)
    <3>1. state \in [Runnables -> States]
      BY DEF RtInv, TypeOK, States
    <3>. QED BY <1>6, <3>1 DEF Wake
  <2>5. loaded' \in loaded .. Len(Programs)
    BY <1>6, Constants, Types
  <2>. HIDE DEF Q
  <2>. QED BY <1>1, <1>2, <1>6, <2>1, <2>2, <2>3, <2>4, <2>5, ListenersInv, Zenon
<1>. QED BY <1>1, <1>4, <1>5, <1>6, Zenon DEF CommitRow

\* A tuple leaves for the network, in the order of values.
LEMMA CommitNetInv ==
  ASSUME WellFormed, RtInv, NEW a \in Actions, CommitNet(a)
  PROVE  RtInv'
<1>1. /\ a = "net" /\ "net" \in Updates /\ pc = "commit" /\ pending[a] # <<>>
      /\ pending \in [Actions -> Seq(Tup)] /\ pending[a] \in Seq(Tup)
      /\ Order[idx] = a /\ idx \in Nat /\ DOMAIN Order \subseteq Nat
      /\ UNCHANGED <<rows, cur, outside, pc, phase, history>>
  <2>1. /\ a = "net" /\ pc = "commit" /\ pending[a] # <<>> /\ Order[idx] = a
        /\ UNCHANGED <<rows, cur, outside, pc, phase, history>>
    BY DEF CommitNet, Committing
  <2>2. "net" \in Updates
    BY Parts
  <2>3. pending \in [Actions -> Seq(Tup)] /\ idx \in Nat /\ DOMAIN Order \subseteq Nat
    BY Types, Constants
  <2>. QED BY <2>1, <2>2, <2>3
<1>2. PICK i \in DOMAIN pending[a] :
        /\ pending' = [pending EXCEPT ![a] = SubSeq(@, 1, i - 1) \o SubSeq(@, i + 1, Len(@))]
        /\ q' = Push(q, {"netOutQ"}, pending[a][i])
  BY Zenon DEF CommitNet
<1>3. ran
  BY <1>1, TakeFacts, Zenon DEF CommitNet
<1>. DEFINE s == pending[a]
            new == SubSeq(s, 1, i - 1) \o SubSeq(s, i + 1, Len(s))
<1>4. s \in Seq(Tup) /\ i \in 1..Len(s) /\ Len(s) \in Nat /\ i \in Nat
  BY <1>1, <1>2
<1>5. /\ new \in Seq(Tup)
      /\ \A k \in DOMAIN new : \E j \in DOMAIN s : new[k] = s[j]
  <2>. HIDE DEF s
  <2>. DEFINE u == SubSeq(s, 1, i - 1)
              v == SubSeq(s, i + 1, Len(s))
  <2>1. /\ u \in Seq(Tup) /\ Len(u) = i - 1 /\ \A k \in 1..(i - 1) : u[k] = s[k]
    BY <1>4
  <2>2. /\ v \in Seq(Tup) /\ Len(v) = Len(s) - i /\ \A k \in 1..(Len(s) - i) : v[k] = s[i + k]
    BY <1>4
  <2>. HIDE DEF u, v
  <2>3. /\ u \o v \in Seq(Tup) /\ Len(u \o v) = Len(s) - 1
        /\ \A k \in 1..(Len(s) - 1) :
             (u \o v)[k] = IF k <= i - 1 THEN s[k] ELSE s[k + 1]
    <3>1. u \o v \in Seq(Tup) /\ Len(u \o v) = Len(s) - 1
      <4>1. u \o v \in Seq(Tup) /\ Len(u \o v) = Len(u) + Len(v)
        BY <2>1, <2>2
      <4>2. (i - 1) + (Len(s) - i) = Len(s) - 1
        BY <1>4
      <4>. QED BY <2>1, <2>2, <4>1, <4>2
    <3>2. ASSUME NEW k \in 1..(Len(s) - 1)
          PROVE  (u \o v)[k] = IF k <= i - 1 THEN s[k] ELSE s[k + 1]
      <4>1. CASE k <= i - 1
        BY <1>4, <2>1, <2>2, <4>1
      <4>2. CASE ~(k <= i - 1)
        <5>1. (u \o v)[k] = v[k - (i - 1)]
          BY <1>4, <2>1, <2>2, <4>2
        <5>2. k - (i - 1) \in 1..(Len(s) - i) /\ i + (k - (i - 1)) = k + 1
          BY <1>4, <4>2
        <5>. QED BY <2>2, <4>2, <5>1, <5>2
      <4>. QED BY <4>1, <4>2, Zenon
    <3>. QED BY <3>1, <3>2, Zenon
  <2>4. \A k \in DOMAIN (u \o v) : \E j \in DOMAIN s : (u \o v)[k] = s[j]
    <3>. SUFFICES ASSUME NEW k \in DOMAIN (u \o v)
                  PROVE  \E j \in DOMAIN s : (u \o v)[k] = s[j]
      OBVIOUS
    <3>1. k \in 1..(Len(s) - 1) /\ k \in DOMAIN s /\ k + 1 \in DOMAIN s
      BY <1>4, <2>3
    <3>. QED BY <2>3, <3>1
  <2>. QED BY <2>3, <2>4, Zenon DEF u, v
<1>6. pending' = [pending EXCEPT ![a] = new]
  BY <1>2
<1>. HIDE DEF new
<1>7. /\ pending' \in [Actions -> Seq(Tup)] /\ pending'[a] = new
      /\ \A b \in Actions \ {a} : pending'[b] = pending[b]
  BY <1>1, <1>5, <1>6
<1>8. Remaining(pending')
  <2>1. \A b \in Updates :
          /\ pending[b] = <<>> => pending'[b] = <<>>
          /\ \A k \in DOMAIN pending'[b] : \E j \in DOMAIN pending[b] : pending'[b][k] = pending[b][j]
    <3>. SUFFICES ASSUME NEW b \in Updates
                  PROVE  /\ pending[b] = <<>> => pending'[b] = <<>>
                         /\ \A k \in DOMAIN pending'[b] :
                              \E j \in DOMAIN pending[b] : pending'[b][k] = pending[b][j]
      OBVIOUS
    <3>1. CASE b = a
      BY <1>1, <1>5, <1>7, <3>1
    <3>2. CASE b # a
      BY <1>7, <3>2, Zenon DEF Updates
    <3>. QED BY <3>1, <3>2, Zenon
  <2>2. pending'["loader"] = pending["loader"]
    BY <1>1, <1>7, Parts, Zenon
  <2>3. \A j \in DOMAIN Order : j < idx => pending'[Order[j]] = <<>>
    <3>1. \A j \in DOMAIN Order : Order[j] \in Actions
      BY DEF Actions, Range
    <3>. QED BY <1>1, <1>7, <3>1, Zenon DEF RtInv, Buffers
  <2>. QED BY <1>7, <2>1, <2>2, <2>3, Zenon DEF RtInv, Buffers, Remaining
<1>. DEFINE Q == {"netOutQ"}
            t == pending[a][i]
<1>9. /\ t \in Tup /\ Q \cap Inner = {} /\ q \in [Queues -> Seq(Tup)]
      /\ q' = Push(q, Q, t) /\ state' = Wake(state, Q)
  <2>1. t \in Tup
    BY <1>1, <1>2
  <2>2. Q \cap Inner = {} /\ q \in [Queues -> Seq(Tup)]
    BY Parts, Zenon DEF RtInv, TypeOK
  <2>3. q' = Push(q, Q, t) /\ state' = Wake(state, Q)
    BY <1>2 DEF CommitNet
  <2>. QED BY <2>1, <2>2, <2>3
<1>. HIDE DEF Q, t
<1>10. q' \in [Queues -> Seq(Tup)] /\ \A x \in Queues \ Q : q'[x] = q[x]
  BY <1>9, PushFacts
<1>11. loaded' \in loaded .. Len(Programs)
  BY <1>1, Types, Constants DEF outside
<1>12. /\ table' \subseteq Tuples /\ lapsed' \subseteq table'
       /\ UNCHANGED <<cur, frags, arrived, pc, phase, history>>
  BY <1>1 DEF RtInv, TypeOK, rows, outside
<1>. QED BY <1>1, <1>3, <1>8, <1>9, <1>10, <1>11, <1>12, ListenersInv

\* An access flushes a row whose lifetime is over.
LEMMA FlushInv ==
  ASSUME WellFormed, RtInv, NEW n \in Tuples, Flush(n)
  PROVE  RtInv'
<1>1. ran /\ pc \in {"run", "commit"}
  <2>1. CASE \E r \in RecvRules : Ready(r)
    BY <2>1 DEF Ready, RtInv, Scheduled
  <2>2. CASE \E a \in Actions : Committing(a) /\ pending[a] # <<>>
    BY <2>2, TakeFacts, Zenon DEF Committing
  <2>. QED BY <2>1, <2>2 DEF Flush, Accessed
<1>2. /\ table' \subseteq Tuples /\ lapsed' \subseteq table'
      /\ UNCHANGED <<cur, frags, arrived, pc, phase, history>>
  BY DEF Flush, RtInv, TypeOK
<1>3. Notify("REMOVE", n, pending) /\ ~LoadsNext("REMOVE", n)
  BY DEF Flush, LoadsNext
<1>. QED BY <1>1, <1>2, <1>3, RemainingSame, NotifyInv

-----------------------------------------------------------------------------
(* The theorems.                                                           *)

\* Every step of the event loop, the scheduler, a PullPush and a commit keeps
\* the invariant.
LEMMA NextInv ==
  ASSUME WellFormed, RtInv, [Next]_vars
  PROVE  RtInv'
<1>1. CASE LoaderTimer \/ StartProc \/ Loop \/ BeginFixpoint \/ EndProc
  BY <1>1, LoaderTimerInv, StartProcInv, LoopInv, BeginFixpointInv, EndProcInv
<1>2. CASE RunSwitch \/ FinishRun \/ NetStep \/ \E p \in PullPushes : StartRun(p)
  BY <1>2, RunSwitchInv, FinishRunInv, NetStepInv, StartRunInv
<1>3. CASE DefragStep \/ IntStep \/ \E x \in Inputs("ExtDRRPP") : ExtStep(x)
  BY <1>3, QueueStepInv
<1>4. CASE \E r \in Rules : StrandFails(r) \/ SendLocal(r) \/ SendRemote(r) \/ SideEffect(r)
  BY <1>4, StrandStepInv, BufferStepInv
<1>5. CASE BeginCommit \/ CommitDone
  BY <1>5, BeginCommitInv, CommitDoneInv
<1>6. CASE \E a \in Actions : CommitTable(a) \/ CommitNet(a) \/ NextAction(a)
  BY <1>6, CommitTableInv, CommitNetInv, NextActionInv
<1>7. CASE \E n \in Tuples : Flush(n)
  BY <1>7, FlushInv
<1>8. CASE Transmit
  BY <1>8, TransmitInv
<1>9. CASE \E n \in Arrivals : Arrive(n)
  BY <1>9, ArriveInv
<1>10. CASE \E n \in Lapsing : Lapse(n)
  BY <1>10, LapseInv
<1>11. CASE UNCHANGED vars
  <2>1. UNCHANGED rows /\ UNCHANGED flow /\ UNCHANGED outside /\ UNCHANGED pending
        /\ UNCHANGED pc /\ UNCHANGED phase /\ UNCHANGED history
    BY <1>11 DEF vars
  <2>2. TypeOK' /\ Counters' /\ Scheduled'
    BY <2>1, Zenon DEF RtInv, TypeOK, Counters, Scheduled, rows, flow, outside, phase, history
  <2>3. NoLostWakeup' /\ OneEvent'
    BY <2>1, Zenon DEF RtInv, NoLostWakeup, OneEvent, Empty, flow, history
  <2>4. Buffers' /\ Restful'
    BY <2>1, Zenon DEF RtInv, Buffers, Restful, NoneActive, NonePending, flow, outside, phase
  <2>. QED BY <2>2, <2>3, <2>4 DEF RtInv
<1>. QED
  BY <1>1, <1>2, <1>3, <1>4, <1>5, <1>6, <1>7, <1>8, <1>9, <1>10, <1>11
  DEF Next, Process, Run, Commit

\* The dataflow of a node with any well-formed program keeps the invariant of
\* its scheduler (Scheduler::phase2, Switch::run, PullPush::run,
\* CommitManager::commit).
THEOREM RuntimeInvariant ==
  ASSUME WellFormed
  PROVE  Spec => []RtInv
<1>1. Init => RtInv
  BY InitInv
<1>2. RtInv /\ [Next]_vars => RtInv'
  BY NextInv
<1>. QED BY <1>1, <1>2, PTL DEF Spec

\* Nobody sleeps over work.  No wakeup is lost: whatever order the scheduler picks
\* the runnables in, a PullPush that waits for input has none (PullPush::wakeup and
\* PullPush::run).  And when the scheduler asks for the long wait, no runnable is
\* ACTIVE and no update waits for a commit: the test of ranSomething, at the end of
\* Scheduler::phase2, is enough.
THEOREM SchedulerSleepsIdle ==
  ASSUME WellFormed
  PROVE  Spec => []NobodyOversleeps
<1>1. RtInv => NoLostWakeup
  BY DEF RtInv
<1>2. RtInv => SleepsOnlyWhenIdle
  BY DEF RtInv, Restful, NoneActive, NonePending, SleepsOnlyWhenIdle
<1>3. RtInv => NobodyOversleeps
  BY <1>1, <1>2 DEF NobodyOversleeps
<1>. QED BY <1>3, RuntimeInvariant, PTL

\* What is between the gate and the commit is of one event.
LEMMA OneTag == ASSUME RtInv PROVE OneEventPerFixpoint
<1>1. \A t \in InFlight : t.tag = events
  <2>1. \A x \in Inner : \A t \in Range(q[x]) : t.tag = events
    BY DEF RtInv, OneEvent, Range
  <2>2. \A a \in Updates : \A t \in Range(pending[a]) : t.tag = events
    BY DEF RtInv, OneEvent, Range
  <2>. SUFFICES ASSUME NEW t \in InFlight PROVE t.tag = events
    OBVIOUS
  <2>3. CASE t \in UNION {Range(q[x]) : x \in Inner}
    <3>1. PICK x \in Inner : t \in Range(q[x])
      BY <2>3
    <3>. QED BY <2>1, <3>1
  <2>4. CASE t \in UNION {Range(pending[a]) : a \in Updates}
    <3>1. PICK a \in Updates : t \in Range(pending[a])
      BY <2>4
    <3>. QED BY <2>2, <3>1
  <2>. QED BY <2>3, <2>4 DEF InFlight, Inner, Updates
<1>. QED BY <1>1 DEF OneEventPerFixpoint

\* Only the commit, which begins when nothing is ACTIVE, and the end of a
\* lifetime change a table.
LEMMA TableSteps ==
  ASSUME WellFormed, RtInv, Next
  PROVE  CommitOnly
<1>1. CASE \E a \in Actions : CommitTable(a)
  <2>1. pc = "commit"
    BY <1>1 DEF CommitTable, Committing
  <2>. QED BY <2>1 DEF RtInv, Scheduled, OneEvent, Inner, CommitOnly
<1>2. CASE \E n \in Tuples : Flush(n)
  BY <1>2 DEF Flush, CommitOnly
<1>3. CASE table' = table
  BY <1>3 DEF CommitOnly
<1>4. LoaderTimer \/ StartProc \/ Loop \/ BeginFixpoint \/ EndProc => table' = table
  BY Zenon DEF LoaderTimer, StartProc, Loop, BeginFixpoint, EndProc, rows
<1>5. Run => table' = table
  BY Zenon
     DEF Run, RunSwitch, FinishRun, DefragStep, IntStep, NetStep, StartRun, ExtStep, StrandFails,
     SendLocal, SendRemote, SideEffect, Forward, Buffer, rows
<1>6. ASSUME NEW a \in Actions, CommitNet(a) \/ NextAction(a) PROVE table' = table
  BY <1>6 DEF CommitNet, NextAction, rows
<1>7. BeginCommit \/ CommitDone => table' = table
  BY DEF BeginCommit, CommitDone, rows
<1>8. Transmit \/ (\E n \in Arrivals : Arrive(n)) \/ (\E n \in Lapsing : Lapse(n)) => table' = table
  BY DEF Transmit, Arrive, Lapse, rows
<1>. QED BY <1>1, <1>2, <1>3, <1>4, <1>5, <1>6, <1>7, <1>8 DEF Next, Process, Commit

\* Fixpoints are atomic: all tuples between the gate and the commit descend from
\* one external event, and tables change only in a commit, when no strand holds
\* a tuple, or when a lifetime ends (Scheduler::phase2, Switch::run,
\* CommitManager::commit).
THEOREM FixpointsAreAtomic ==
  ASSUME WellFormed
  PROVE  Spec => FixpointsAtomic
<1>1. RtInv => TypeOK /\ OneEventPerFixpoint
  BY OneTag DEF RtInv
<1>2. RtInv' => TypeOK' /\ OneEventPerFixpoint'
  BY <1>1, PTL
<1>3. RtInv /\ [Next]_vars => [TypeOK' /\ OneEventPerFixpoint' /\ CommitOnly]_vars
  BY <1>2, NextInv, TableSteps
<1>. QED BY <1>3, RuntimeInvariant, PTL DEF Spec, FixpointsAtomic
=============================================================================
