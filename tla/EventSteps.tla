----------------------------- MODULE EventSteps ------------------------------
(***************************************************************************)
(* The invariant that relates a node to the event semantics, and the steps *)
(* of the node outside the gate, for the refinement that EventProofs shows.*)
(*                                                                         *)
(* Between the gate and the commit, the events that intDemux has passed on *)
(* are events that the one taken leads to (Sound), and what their rules    *)
(* ask for is done or still in a strand (Answered); so when nothing is     *)
(* ACTIVE the buffers are those of the rules that the event asks for.  The *)
(* commit then applies them in their order, an action at a time (Commits). *)
(***************************************************************************)
EXTENDS RuntimeProofs

NamesOf(s) == {s[i].name : i \in DOMAIN s}

\* The events on their way to the gate.
Outer(n) == Count(q["defrag"], n) + Count(q["netQ"], n) + Count(q["extQ"], n)

\* No lifetime ends and no program waits; finitely many rows wait at the rules on them.
Steady ==
  /\ lapsed = {} /\ pending["loader"] = <<>>
  /\ \A n \in Tuples : IsFiniteSet(Noticed(n))

\* At most one event passes the gate in a fixpoint, whose strands read the tables as they
\* were when it began; without an event there is nothing to do.
Gated ==
  /\ InFixpoint => Len(taken) <= 1
  /\ pc = "run" => snap = table
  /\ pc = "run" /\ state["Switch"] = "ACTIVE" => taken = <<>>
  /\ pc = "run" /\ taken = <<>> => seen = {} /\ Empty(Inner)
  /\ InFixpoint /\ taken = <<>> => \A a \in ActionRules : pending[a] = <<>>

\* The event of the fixpoint, and the commit actions it asks for.
Event == taken[1].name
AskedNow == IF taken = <<>> THEN {} ELSE Abs!Asked(Event, snap)

\* Only what the event leads to is done.
Sound ==
  pc = "run" /\ taken # <<>> =>
    /\ seen \cup NamesOf(q["intQ"]) \subseteq Abs!Reach(Event, snap)
    /\ \A r \in RecvRules : q[r] # <<>> => Rule[r].event \in seen
    /\ \A r \in ActionRules : pending[r] # <<>> => r \in Abs!Asked(Event, snap)

\* What the event leads to is done, or a queue of a strand has it.
Answered ==
  pc = "run" /\ taken # <<>> =>
    /\ Event \in seen \cup NamesOf(q["intQ"])
    /\ \A r \in RecvRules :
         Rule[r].event \in seen /\ Holds(r, snap) /\ q[r] = <<>> =>
           /\ r \in LocalRules => Rule[r].head \in seen \cup NamesOf(q["intQ"])
           /\ r \in ActionRules => pending[r] # <<>>

\* Tables and external events before the commit, now, and after its first i actions.
Start == [table |-> snap, inbox |-> [n \in Tuples |-> Outer(n)]]
Current == [table |-> table, inbox |-> [n \in Tuples |-> Outer(n) + Cardinality(Noticed(n))]]
Plan == Abs!Committed(AskedNow, Start)

\* The buffer of a rule has tuples if and only if the event asks for the rule.
Buffered(j) == Order[j] \in ActionRules => (pending[Order[j]] # <<>> <=> Order[j] \in AskedNow)

\* The commit has done the actions before the one it is at, which it has not begun, or has
\* done at least once.
Commits ==
  pc = "commit" =>
    /\ idx <= Len(Order) + 1
    /\ \A j \in DOMAIN Order : j > idx => Buffered(j)
    /\ \/ Current = Plan[idx - 1] /\ (idx \in DOMAIN Order => Buffered(idx))
       \/ idx \in DOMAIN Order /\ Order[idx] \in AskedNow /\ Current = Plan[idx]

EvInv == Steady /\ Gated /\ Sound /\ Answered /\ Commits

-----------------------------------------------------------------------------
(* Finite sets.  The facts about them that the proofs use are collected in *)
(* one formula, which EventProofs shows to hold from the theorems of the   *)
(* library.                                                                *)

FiniteSetFacts ==
  /\ IsFiniteSet({}) /\ Cardinality({}) = 0
  /\ \A S : IsFiniteSet(S) => Cardinality(S) \in Nat
  /\ \A S, U : IsFiniteSet(S) /\ U \subseteq S => IsFiniteSet(U)
  /\ \A n \in Nat : IsFiniteSet(1 .. n)
  /\ \A S, x : IsFiniteSet(S) /\ x \notin S => Cardinality(S \cup {x}) = Cardinality(S) + 1
  /\ \A S, x : IsFiniteSet(S) =>
       /\ IsFiniteSet(S \ {x})
       /\ Cardinality(S \ {x}) = IF x \in S THEN Cardinality(S) - 1 ELSE Cardinality(S)
  /\ \A S, U : IsFiniteSet(S) /\ ExistsBijection(S, U) =>
       IsFiniteSet(U) /\ Cardinality(U) = Cardinality(S)
  /\ \A S, U : IsFiniteSet(S) /\ IsFiniteSet(U) =>
       /\ IsFiniteSet(S \cup U)
       /\ Cardinality(S \cup U) = Cardinality(S) + Cardinality(U) - Cardinality(S \cap U)
  /\ \A S \in SUBSET Nat : S # {} => \E x \in S : \A y \in S : ~(y < x)

\* The empty set.
LEMMA EmptySetFacts ==
  ASSUME FiniteSetFacts PROVE IsFiniteSet({}) /\ Cardinality({}) = 0
BY Zenon DEF FiniteSetFacts

\* Sizes are natural numbers.
LEMMA CardinalityType ==
  ASSUME FiniteSetFacts, NEW S, IsFiniteSet(S) PROVE Cardinality(S) \in Nat
BY Zenon DEF FiniteSetFacts

\* A subset of a finite set is finite.
LEMMA SubsetFinite ==
  ASSUME FiniteSetFacts, NEW S, IsFiniteSet(S), NEW U \in SUBSET S PROVE IsFiniteSet(U)
<1>1. U \subseteq S
  OBVIOUS
<1>. QED BY <1>1, Zenon DEF FiniteSetFacts

\* The positions of a sequence are finite in number.
LEMMA IntervalFinite ==
  ASSUME FiniteSetFacts, NEW n \in Nat PROVE IsFiniteSet(1 .. n)
BY Zenon DEF FiniteSetFacts

\* One more member.
LEMMA AddElement ==
  ASSUME FiniteSetFacts, NEW S, IsFiniteSet(S), NEW x, x \notin S
  PROVE  Cardinality(S \cup {x}) = Cardinality(S) + 1
BY Zenon DEF FiniteSetFacts

\* One member less.
LEMMA RemoveElement ==
  ASSUME FiniteSetFacts, NEW S, IsFiniteSet(S), NEW x
  PROVE  /\ IsFiniteSet(S \ {x})
         /\ Cardinality(S \ {x}) = IF x \in S THEN Cardinality(S) - 1 ELSE Cardinality(S)
BY Zenon DEF FiniteSetFacts

\* Sets that correspond have one size.
LEMMA BijectionFinite ==
  ASSUME FiniteSetFacts, NEW S, NEW U, IsFiniteSet(S), ExistsBijection(S, U)
  PROVE  IsFiniteSet(U) /\ Cardinality(U) = Cardinality(S)
BY Zenon DEF FiniteSetFacts

\* The size of a union.
LEMMA UnionFinite ==
  ASSUME FiniteSetFacts, NEW S, IsFiniteSet(S), NEW U, IsFiniteSet(U)
  PROVE  /\ IsFiniteSet(S \cup U)
         /\ Cardinality(S \cup U) = Cardinality(S) + Cardinality(U) - Cardinality(S \cap U)
BY Zenon DEF FiniteSetFacts

\* Every set of natural numbers with an element has a least one.
LEMMA LeastOne ==
  ASSUME FiniteSetFacts, NEW S \in SUBSET Nat, S # {}
  PROVE  \E x \in S : \A y \in S : ~(y < x)
BY Zenon DEF FiniteSetFacts

-----------------------------------------------------------------------------
(* The operators of the event semantics.                                   *)

\* The rules of the event semantics are those of the node.
LEMMA SameRules ==
  /\ Abs!RecvRules = RecvRules /\ Abs!LocalRules = LocalRules
  /\ Abs!ActionRules = ActionRules /\ Abs!Rules = Rules
  /\ \A r, tab : Abs!Holds(r, tab) <=> Holds(r, tab)
BY DEF Abs!RecvRules, RecvRules, Abs!LocalRules, LocalRules, Abs!ActionRules, ActionRules,
       Abs!SendRules, SendRules, Abs!Rules, Rules, Abs!Holds, Holds

\* A set of events has what its rules send if no rule sends out of it.
LEMMA SendsIs ==
  ASSUME NEW S, NEW tab
  PROVE  Abs!Sends(S, tab) \subseteq S <=>
           \A r \in LocalRules : Rule[r].event \in S /\ Holds(r, tab) => Rule[r].head \in S
<1>1. LocalRules \subseteq RecvRules
  BY DEF LocalRules, SendRules
<1>2. \A s \in LocalRules :
        (\E d \in S : Abs!Fires(s, d, tab)) <=> Rule[s].event \in S /\ Holds(s, tab)
  BY <1>1, SameRules DEF Abs!Fires
<1>3. Abs!Sends(S, tab) =
        {Rule[r].head : r \in {s \in LocalRules : Rule[s].event \in S /\ Holds(s, tab)}}
  BY <1>2, SameRules DEF Abs!Sends
<1>. QED BY <1>3

\* The events that e leads to are the least set that has e and what its rules send.
LEMMA ReachLeast ==
  ASSUME NEW e, NEW tab
  PROVE  /\ e \in Abs!Reach(e, tab)
         /\ \A r \in LocalRules :
              Rule[r].event \in Abs!Reach(e, tab) /\ Holds(r, tab)
                => Rule[r].head \in Abs!Reach(e, tab)
         /\ \A S : e \in S /\ Abs!Sends(S, tab) \subseteq S => Abs!Reach(e, tab) \subseteq S
<1>. DEFINE C == {e} \cup {Rule[r].head : r \in LocalRules}
            Closed == {S \in SUBSET C : e \in S /\ Abs!Sends(S, tab) \subseteq S}
            R == Abs!Reach(e, tab)
<1>1. R = {d \in C : \A S \in Closed : d \in S}
  BY SameRules DEF Abs!Reach
<1>2. \A S \in Closed : e \in S /\ R \subseteq S
  BY <1>1
<1>3. e \in R
  BY <1>1
<1>4. ASSUME NEW r \in LocalRules, Rule[r].event \in R, Holds(r, tab)
      PROVE  Rule[r].head \in R
  <2>1. ASSUME NEW S \in Closed PROVE Rule[r].head \in S
    <3>1. Rule[r].event \in S /\ Abs!Sends(S, tab) \subseteq S
      BY <1>2, <1>4
    <3>. QED BY <1>4, <3>1, SendsIs
  <2>. QED BY <1>1, <2>1
<1>5. ASSUME NEW S, e \in S, Abs!Sends(S, tab) \subseteq S
      PROVE  R \subseteq S
  <2>1. \A r \in LocalRules : Rule[r].event \in S /\ Holds(r, tab) => Rule[r].head \in S
    BY <1>5, SendsIs
  <2>2. \A r \in LocalRules : Rule[r].event \in S \cap C /\ Holds(r, tab)
                                => Rule[r].head \in S \cap C
    BY <2>1
  <2>3. Abs!Sends(S \cap C, tab) \subseteq S \cap C
    BY <2>2, SendsIs
  <2>4. S \cap C \in Closed
    BY <1>5, <2>3
  <2>. QED BY <1>2, <2>4
<1>. QED BY <1>3, <1>4, <1>5

\* The rules an event asks for are the actions on the events that it leads to.
LEMMA AskedIs ==
  ASSUME NEW e, NEW tab
  PROVE  Abs!Asked(e, tab) =
           {r \in ActionRules : Rule[r].event \in Abs!Reach(e, tab) /\ Holds(r, tab)}
<1>1. ActionRules \subseteq RecvRules
  BY DEF ActionRules
<1>2. \A r \in ActionRules :
        (\E d \in Abs!Reach(e, tab) : Abs!Fires(r, d, tab))
          <=> Rule[r].event \in Abs!Reach(e, tab) /\ Holds(r, tab)
  BY <1>1, SameRules DEF Abs!Fires
<1>. QED BY <1>2, SameRules DEF Abs!Asked

\* What the first i commit actions leave follows from what the first i - 1 leave.
LEMMA CommittedSteps ==
  ASSUME FiniteSetFacts, WellFormed, NEW S, NEW w
  PROVE  /\ Abs!Committed(S, w)[0] = w
         /\ \A i \in DOMAIN Order :
              Abs!Committed(S, w)[i] =
                IF Order[i] \in S THEN Abs!Apply(Order[i], Abs!Committed(S, w)[i - 1])
                ELSE Abs!Committed(S, w)[i - 1]
<1>. DEFINE N == Len(Order)
            G(i, v) == IF i = 0 THEN w
                       ELSE IF Order[i] \in S THEN Abs!Apply(Order[i], v[i - 1]) ELSE v[i - 1]
            Good(f, k) == f = [i \in 0 .. k |-> G(i, f)]
            Bad == {k \in 0 .. N : \A f : ~Good(f, k)}
<1>1. N \in Nat /\ DOMAIN Order = 1 .. N
  BY Constants
<1>2. Bad = {}
  <2>. SUFFICES ASSUME Bad # {} PROVE FALSE
    OBVIOUS
  <2>1. Bad \in SUBSET Nat
    OBVIOUS
  <2>2. PICK x \in Bad : \A y \in Bad : ~(y < x)
    BY <2>1, LeastOne
  <2>3. x # 0
    <3>1. Good([i \in 0 .. 0 |-> w], 0)
      OBVIOUS
    <3>. QED BY <3>1
  <2>4. x \in 1 .. N /\ x - 1 \in 0 .. N /\ x - 1 < x
    BY <1>1, <2>3
  <2>5. PICK g : Good(g, x - 1)
    BY <2>2, <2>4
  <2>. DEFINE f == [i \in 0 .. x |-> IF i = x THEN G(x, g) ELSE g[i]]
  <2>6. ASSUME NEW i \in 0 .. x PROVE f[i] = G(i, f)
    <3>1. CASE i = 0
      BY <2>4, <2>5, <3>1
    <3>2. CASE i # 0
      <4>1. i - 1 \in 0 .. x - 1 /\ i - 1 \in 0 .. x /\ i - 1 # x
        BY <2>4, <3>2
      <4>2. f[i - 1] = g[i - 1]
        BY <4>1
      <4>3. G(i, f) = G(i, g)
        BY <4>2
      <4>4. f[i] = G(i, g)
        BY <2>4, <2>5
      <4>. QED BY <4>3, <4>4
    <3>. QED BY <3>1, <3>2
  <2>7. Good(f, x)
    BY <2>6
  <2>. QED BY <2>7
<1>3. \E f : Good(f, N)
  <2>1. N \in 0 .. N
    BY <1>1
  <2>. QED BY <1>2, <2>1
<1>4. Abs!Committed(S, w) = CHOOSE f : Good(f, N)
  BY Zenon DEF Abs!Committed
<1>. DEFINE c == Abs!Committed(S, w)
<1>5. Good(c, N)
  BY <1>3, <1>4
<1>. HIDE DEF c
<1>6. \A i \in 0 .. N : c[i] = G(i, c)
  BY <1>5
<1>7. c[0] = w /\ \A i \in 1 .. N : c[i] = G(i, c) /\ i # 0
  BY <1>1, <1>6
<1>. QED BY <1>1, <1>7 DEF c

\* To insert a row that is there, or to delete one that is not, changes nothing: a second
\* tuple of an action has no effect.
LEMMA ApplyTwice ==
  ASSUME WellFormed, NEW r \in ActionRules, NEW w
  PROVE  Abs!Apply(r, Abs!Apply(r, w)) = Abs!Apply(r, w)
<1>. DEFINE n == Rule[r].head
            a == Rule[r].action
            v == Abs!Apply(r, w)
<1>1. CASE a = "ADD" /\ n \notin w.table
  <2>1. v.table = w.table \cup {n}
    BY <1>1 DEF Abs!Apply
  <2>2. ~(n \notin v.table) /\ a # "DELETE"
    BY <1>1, <2>1
  <2>. HIDE DEF v
  <2>3. Abs!Apply(r, v) = v
    BY <2>2 DEF Abs!Apply
  <2>. QED BY <2>3 DEF v
<1>2. CASE a = "DELETE" /\ n \in w.table
  <2>1. v.table = w.table \ {n}
    BY <1>2 DEF Abs!Apply
  <2>2. n \notin v.table /\ a # "ADD"
    BY <1>2, <2>1
  <2>. HIDE DEF v
  <2>3. Abs!Apply(r, v) = v
    BY <2>2 DEF Abs!Apply
  <2>. QED BY <2>3 DEF v
<1>3. CASE ~(a = "ADD" /\ n \notin w.table) /\ ~(a = "DELETE" /\ n \in w.table)
  <2>1. v = w
    BY <1>3 DEF Abs!Apply
  <2>. QED BY <2>1
<1>. QED BY <1>1, <1>2, <1>3

-----------------------------------------------------------------------------
(* Events that are counted.                                                *)

\* A queue has finitely many tuples of a name.
LEMMA CountType ==
  ASSUME FiniteSetFacts, NEW s \in Seq(Tup), NEW n
  PROVE  /\ IsFiniteSet({i \in DOMAIN s : s[i].name = n})
         /\ Count(s, n) \in Nat
<1>1. Len(s) \in Nat /\ DOMAIN s = 1 .. Len(s)
  OBVIOUS
<1>2. IsFiniteSet(1 .. Len(s))
  BY <1>1, IntervalFinite
<1>3. {i \in DOMAIN s : s[i].name = n} \in SUBSET (1 .. Len(s))
  BY <1>1
<1>. QED BY <1>2, <1>3, SubsetFinite, CardinalityType DEF Count

\* An empty queue has none.
LEMMA CountEmpty ==
  ASSUME FiniteSetFacts, NEW n PROVE Count(<<>>, n) = 0
<1>1. {i \in DOMAIN <<>> : <<>>[i].name = n} = {}
  OBVIOUS
<1>. QED BY <1>1, EmptySetFacts, Zenon DEF Count

\* Queue::push adds one tuple of its name.
LEMMA CountAppend ==
  ASSUME FiniteSetFacts, NEW s \in Seq(Tup), NEW t \in Tup, NEW n
  PROVE  Count(Append(s, t), n) = Count(s, n) + (IF t.name = n THEN 1 ELSE 0)
<1>. DEFINE A == {i \in DOMAIN s : s[i].name = n}
            B == {i \in DOMAIN Append(s, t) : Append(s, t)[i].name = n}
            k == Len(s) + 1
<1>1. /\ Len(s) \in Nat /\ DOMAIN s = 1 .. Len(s) /\ DOMAIN Append(s, t) = 1 .. k
      /\ Append(s, t)[k] = t /\ \A i \in 1 .. Len(s) : Append(s, t)[i] = s[i]
  OBVIOUS
<1>2. k \notin A /\ k \in 1 .. k /\ \A i \in 1 .. k : i \in 1 .. Len(s) \/ i = k
  BY <1>1
<1>3. IsFiniteSet(A) /\ Cardinality(A) \in Nat
  BY CountType, CardinalityType
<1>6. Count(s, n) = Cardinality(A) /\ Count(Append(s, t), n) = Cardinality(B)
  BY DEF Count
<1>4. CASE t.name = n
  <2>1. B = A \cup {k}
    <3>1. B \subseteq A \cup {k}
      BY <1>1, <1>2
    <3>2. A \cup {k} \subseteq B
      BY <1>1, <1>2, <1>4
    <3>. QED BY <3>1, <3>2
  <2>2. Cardinality(B) = Cardinality(A) + 1
    <3>. HIDE DEF A, B, k
    <3>. QED BY <1>2, <1>3, <2>1, AddElement
  <2>. HIDE DEF A, B
  <2>. QED BY <1>4, <1>6, <2>2
<1>5. CASE t.name # n
  <2>1. B = A
    <3>1. B \subseteq A
      BY <1>1, <1>2, <1>5
    <3>2. A \subseteq B
      BY <1>1, <1>2
    <3>. QED BY <3>1, <3>2
  <2>. HIDE DEF A, B
  <2>. QED BY <1>3, <1>5, <1>6, <2>1
<1>. QED BY <1>4, <1>5

\* Queue::pull takes one tuple of its name.
LEMMA CountTail ==
  ASSUME FiniteSetFacts, NEW s \in Seq(Tup), s # <<>>, NEW n
  PROVE  Count(s, n) = Count(Tail(s), n) + (IF Head(s).name = n THEN 1 ELSE 0)
<1>. DEFINE A == {i \in DOMAIN Tail(s) : Tail(s)[i].name = n}
            S == {i \in DOMAIN s : s[i].name = n}
            B == S \ {1}
            f == [i \in A |-> i + 1]
<1>1. /\ Tail(s) \in Seq(Tup) /\ Len(Tail(s)) = Len(s) - 1 /\ Len(s) \in Nat \ {0}
      /\ \A i \in 1 .. Len(Tail(s)) : Tail(s)[i] = s[i + 1]
      /\ DOMAIN s = 1 .. Len(s) /\ DOMAIN Tail(s) = 1 .. Len(Tail(s)) /\ Head(s) = s[1]
  OBVIOUS
<1>2. f \in [A -> B]
  BY <1>1
<1>3. \A i, j \in A : f[i] = f[j] => i = j
  BY <1>1
<1>4. ASSUME NEW k \in B PROVE \E i \in A : f[i] = k
  <2>1. k - 1 \in A /\ f[k - 1] = k
    BY <1>1
  <2>. QED BY <2>1
<1>5. f \in Bijection(A, B)
  <2>. HIDE DEF A, B, f
  <2>. QED BY <1>2, <1>3, <1>4 DEF Bijection, Injection, Surjection, IsInjective
<1>6. IsFiniteSet(A) /\ IsFiniteSet(S) /\ Cardinality(A) \in Nat /\ Cardinality(S) \in Nat
  BY <1>1, CountType, CardinalityType
<1>7. 1 \in S <=> Head(s).name = n
  BY <1>1
<1>8. Cardinality(B) = Cardinality(A)
  <2>. HIDE DEF A, B, f
  <2>. QED BY <1>5, <1>6, BijectionFinite DEF ExistsBijection
<1>9. Cardinality(B) = IF 1 \in S THEN Cardinality(S) - 1 ELSE Cardinality(S)
  <2>. HIDE DEF S
  <2>. QED BY <1>6, RemoveElement
<1>10. Count(s, n) = Cardinality(S) /\ Count(Tail(s), n) = Cardinality(A)
  BY DEF Count
<1>. HIDE DEF A, S, B
<1>. QED BY <1>6, <1>7, <1>8, <1>9, <1>10

\* The names in a queue after a push and before a pull.
LEMMA NamesAppend ==
  ASSUME NEW s \in Seq(Tup), NEW t \in Tup
  PROVE  NamesOf(Append(s, t)) = NamesOf(s) \cup {t.name}
<1>1. /\ Len(s) \in Nat /\ DOMAIN s = 1 .. Len(s) /\ DOMAIN Append(s, t) = 1 .. Len(s) + 1
      /\ Append(s, t)[Len(s) + 1] = t /\ \A i \in 1 .. Len(s) : Append(s, t)[i] = s[i]
  OBVIOUS
<1>2. \A i \in 1 .. Len(s) + 1 : i \in 1 .. Len(s) \/ i = Len(s) + 1
  BY <1>1
<1>3. NamesOf(Append(s, t)) \subseteq NamesOf(s) \cup {t.name}
  BY <1>1, <1>2 DEF NamesOf
<1>4. Len(s) + 1 \in 1 .. Len(s) + 1 /\ \A i \in 1 .. Len(s) : i \in 1 .. Len(s) + 1
  BY <1>1
<1>5. NamesOf(s) \cup {t.name} \subseteq NamesOf(Append(s, t))
  BY <1>1, <1>4 DEF NamesOf
<1>. QED BY <1>3, <1>5

\* The names in a queue are those of its tail and that of its head.
LEMMA NamesTail ==
  ASSUME NEW s \in Seq(Tup), s # <<>>
  PROVE  NamesOf(s) = NamesOf(Tail(s)) \cup {Head(s).name}
<1>1. /\ Len(Tail(s)) = Len(s) - 1 /\ Len(s) \in Nat \ {0}
      /\ \A i \in 1 .. Len(Tail(s)) : Tail(s)[i] = s[i + 1]
      /\ DOMAIN s = 1 .. Len(s) /\ DOMAIN Tail(s) = 1 .. Len(Tail(s)) /\ Head(s) = s[1]
  OBVIOUS
<1>2. ASSUME NEW i \in 1 .. Len(s) PROVE s[i].name \in NamesOf(Tail(s)) \cup {Head(s).name}
  <2>1. CASE i = 1
    BY <1>1, <2>1
  <2>2. CASE i # 1
    <3>1. i - 1 \in 1 .. Len(Tail(s)) /\ i - 1 + 1 = i
      BY <1>1, <2>2
    <3>2. Tail(s)[i - 1] = s[i]
      BY <1>1, <3>1
    <3>. QED BY <1>1, <3>1, <3>2 DEF NamesOf
  <2>. QED BY <2>1, <2>2
<1>3. ASSUME NEW i \in 1 .. Len(Tail(s)) PROVE Tail(s)[i].name \in NamesOf(s)
  <2>1. i + 1 \in 1 .. Len(s)
    BY <1>1
  <2>. QED BY <1>1, <2>1 DEF NamesOf
<1>4. Head(s).name \in NamesOf(s)
  <2>1. 1 \in 1 .. Len(s)
    BY <1>1
  <2>. QED BY <1>1, <2>1 DEF NamesOf
<1>5. NamesOf(s) \subseteq NamesOf(Tail(s)) \cup {Head(s).name}
  BY <1>1, <1>2 DEF NamesOf
<1>6. NamesOf(Tail(s)) \subseteq NamesOf(s)
  BY <1>1, <1>3 DEF NamesOf
<1>. QED BY <1>4, <1>5, <1>6

\* A sequence of one tuple.
LEMMA OneLong ==
  ASSUME NEW s \in Seq(Tup), Len(s) = 1
  PROVE  s = <<s[1]>>
<1>1. s = [i \in 1 .. 1 |-> s[i]]
  OBVIOUS
<1>2. DOMAIN <<s[1]>> = 1 .. 1 /\ <<s[1]>>[1] = s[1]
  OBVIOUS
<1>3. <<s[1]>> = [i \in 1 .. 1 |-> <<s[1]>>[i]]
  BY <1>2
<1>4. \A i \in 1 .. 1 : i = 1
  OBVIOUS
<1>5. \A i \in 1 .. 1 : s[i] = <<s[1]>>[i]
  BY <1>2, <1>4
<1>. QED BY <1>1, <1>3, <1>5

\* Which rows wait at the rules that make an event n of them.
LEMMA NoticedMembers ==
  ASSUME NEW n
  PROVE  /\ \A p : p \in Noticed(n) <=>
              \E r \in TableRules : Rule[r].head = n /\ \E i \in DOMAIN q[r] : p = <<r, i>>
         /\ \A p : p \in Noticed(n)' <=>
              \E r \in TableRules : Rule[r].head = n /\ \E i \in DOMAIN q'[r] : p = <<r, i>>
BY DEF Noticed

\* They do not change with the other queues.
LEMMA NoticedSame ==
  ASSUME \A r \in TableRules : q'[r] = q[r], NEW n
  PROVE  Noticed(n)' = Noticed(n)
<1>1. \A p : p \in Noticed(n)' <=> p \in Noticed(n)
  BY NoticedMembers
<1>. QED BY <1>1

\* One more tuple at the rules of Q and at no other; where it is at the rules that make an n.
LongerAt(Q) ==
  \A r \in TableRules :
     /\ Len(q[r]) \in Nat /\ DOMAIN q[r] = 1 .. Len(q[r])
     /\ r \in Q => DOMAIN q'[r] = 1 .. Len(q[r]) + 1
     /\ r \notin Q => q'[r] = q[r]

Latest(Q, n) == {<<r, Len(q[r]) + 1>> : r \in {s \in Q \cap TableRules : Rule[s].head = n}}

\* One more tuple at every rule of Q is one more row at each rule of Q that makes an n.
LEMMA NoticedGrows ==
  ASSUME NEW Q, NEW n, LongerAt(Q)
  PROVE  Noticed(n)' = Noticed(n) \cup Latest(Q, n) /\ Noticed(n) \cap Latest(Q, n) = {}
<1>. DEFINE A == {s \in Q \cap TableRules : Rule[s].head = n}
            New == {<<r, Len(q[r]) + 1>> : r \in A}
<1>1. \A r : r \in A <=> r \in Q /\ r \in TableRules /\ Rule[r].head = n
  OBVIOUS
<1>5. ASSUME NEW r \in TableRules
      PROVE  /\ Len(q[r]) \in Nat /\ DOMAIN q[r] = 1 .. Len(q[r])
             /\ r \in Q => DOMAIN q'[r] = 1 .. Len(q[r]) + 1
             /\ r \notin Q => q'[r] = q[r]
  BY DEF LongerAt
<1>12. \A p : p \in Noticed(n)' <=>
         \E r \in TableRules : Rule[r].head = n /\ \E i \in DOMAIN q'[r] : p = <<r, i>>
  BY NoticedMembers
<1>6. Noticed(n)' \subseteq Noticed(n) \cup New
  <2>. SUFFICES ASSUME NEW p \in Noticed(n)', p \notin New
                PROVE  p \in Noticed(n)
    OBVIOUS
  <2>3. PICK r \in TableRules : Rule[r].head = n /\ \E i \in DOMAIN q'[r] : p = <<r, i>>
    <3>. HIDE DEF New
    <3>. QED BY <1>12, Zenon
  <2>4. PICK i \in DOMAIN q'[r] : p = <<r, i>>
    BY <2>3
  <2>1. CASE r \in Q
    <3>1. r \in A /\ i # Len(q[r]) + 1
      BY <1>1, <2>1, <2>3, <2>4
    <3>2. i \in DOMAIN q[r]
      BY <1>5, <2>1, <3>1
    <3>. QED BY <2>3, <2>4, <3>2, NoticedMembers
  <2>2. CASE r \notin Q
    <3>1. i \in DOMAIN q[r]
      BY <1>5, <2>2
    <3>. QED BY <2>3, <2>4, <3>1, NoticedMembers
  <2>. QED BY <2>1, <2>2
<1>7. Noticed(n) \subseteq Noticed(n)'
  <2>. SUFFICES ASSUME NEW r \in TableRules, Rule[r].head = n, NEW i \in DOMAIN q[r]
                PROVE  <<r, i>> \in Noticed(n)'
    BY NoticedMembers
  <2>1. i \in DOMAIN q'[r]
    BY <1>5
  <2>. QED BY <2>1, NoticedMembers
<1>8. New \subseteq Noticed(n)' /\ New \cap Noticed(n) = {}
  <2>1. ASSUME NEW r \in A
        PROVE  <<r, Len(q[r]) + 1>> \in Noticed(n)' /\ <<r, Len(q[r]) + 1>> \notin Noticed(n)
    <3>1. r \in TableRules /\ r \in Q /\ Rule[r].head = n
      BY <1>1
    <3>2. Len(q[r]) + 1 \in DOMAIN q'[r] /\ Len(q[r]) + 1 \notin DOMAIN q[r]
      BY <1>5, <3>1
    <3>3. <<r, Len(q[r]) + 1>> \in Noticed(n)'
      BY <3>1, <3>2, NoticedMembers
    <3>4. ASSUME NEW s \in TableRules, NEW i \in DOMAIN q[s]
          PROVE  <<r, Len(q[r]) + 1>> # <<s, i>>
      BY <3>2
    <3>. QED BY <3>3, <3>4, NoticedMembers
  <2>. QED BY <2>1
<1>9. New = Latest(Q, n)
  BY DEF Latest
<1>. HIDE DEF New
<1>. QED BY <1>6, <1>7, <1>8, <1>9

\* A change of row m adds one for each rule on it.
LEMMA NoticedPush ==
  ASSUME FiniteSetFacts, WellFormed, q \in [Queues -> Seq(Tup)], NEW on \in {"INSERT", "REMOVE"},
         NEW m, NEW t \in Tup, NEW n, IsFiniteSet(Noticed(n)),
         q' = Push(q, {r \in TableRules : Rule[r].on = on /\ Rule[r].event = m}, t)
  PROVE  /\ IsFiniteSet(Noticed(n)') /\ Abs!Notices(on, m, n) \in Nat
         /\ Cardinality(Noticed(n)') = Cardinality(Noticed(n)) + Abs!Notices(on, m, n)
<1>. DEFINE Q == {r \in TableRules : Rule[r].on = on /\ Rule[r].event = m}
            A == {r \in Rules : Rule[r].on = on /\ Rule[r].event = m /\ Rule[r].head = n}
            f == [r \in A |-> <<r, Len(q[r]) + 1>>]
            New == {<<r, Len(q[r]) + 1>> : r \in A}
<1>1. A = {r \in Q : Rule[r].head = n} /\ A \in SUBSET Rules /\ TableRules \subseteq Queues
  BY Parts DEF TableRules, RecvRules
<1>2. IsFiniteSet(A) /\ Abs!Notices(on, m, n) = Cardinality(A) /\ Cardinality(A) \in Nat
  <2>1. IsFiniteSet(Rules)
    BY DEF WellFormed, WellFormedProgram, Rules
  <2>2. IsFiniteSet(A) /\ Cardinality(A) \in Nat
    <3>. HIDE DEF A
    <3>. QED BY <1>1, <2>1, SubsetFinite, CardinalityType
  <2>3. Abs!Notices(on, m, n) = Cardinality(A)
    <3>1. A = {r \in Abs!Rules : Rule[r].on = on /\ Rule[r].event = m /\ Rule[r].head = n}
      BY SameRules
    <3>. HIDE DEF A
    <3>. QED BY <3>1, Zenon DEF Abs!Notices, Abs!Cardinality, Cardinality
  <2>. QED BY <2>2, <2>3
<1>3. f \in Bijection(A, New)
  <2>1. f \in [A -> New] /\ \A r, s \in A : f[r] = f[s] => r = s
    OBVIOUS
  <2>2. \A p \in New : \E r \in A : f[r] = p
    OBVIOUS
  <2>. HIDE DEF A, New, f
  <2>. QED BY <2>1, <2>2 DEF Bijection, Injection, Surjection, IsInjective
<1>4. IsFiniteSet(New) /\ Cardinality(New) = Cardinality(A)
  <2>. HIDE DEF A, New, f
  <2>. QED BY <1>2, <1>3, BijectionFinite DEF ExistsBijection
<1>5. ASSUME NEW r \in TableRules
      PROVE  /\ Len(q[r]) \in Nat /\ DOMAIN q[r] = 1 .. Len(q[r])
             /\ r \in Q => DOMAIN q'[r] = 1 .. Len(q[r]) + 1
             /\ r \notin Q => q'[r] = q[r]
  <2>1. r \in Queues /\ q[r] \in Seq(Tup)
    BY <1>1
  <2>. DEFINE P == Q
  <2>2. q' = Push(q, P, t)
    OBVIOUS
  <2>3. (r \in P => q'[r] = Append(q[r], t)) /\ (r \notin P => q'[r] = q[r])
    <3>. HIDE DEF P
    <3>1. /\ \A x \in Queues \cap P : Push(q, P, t)[x] = Append(q[x], t)
          /\ \A x \in Queues \ P : Push(q, P, t)[x] = q[x]
      BY PushFacts
    <3>. QED BY <2>1, <2>2, <3>1, Zenon
  <2>4. Len(q[r]) \in Nat /\ DOMAIN q[r] = 1 .. Len(q[r])
    BY <2>1
  <2>5. DOMAIN Append(q[r], t) = 1 .. Len(q[r]) + 1
    BY <2>1
  <2>. QED BY <2>3, <2>4, <2>5, Zenon
<1>6. Noticed(n)' = Noticed(n) \cup New /\ Noticed(n) \cap New = {}
  <2>1. A = {r \in Q \cap TableRules : Rule[r].head = n}
    BY <1>1
  <2>2. New = Latest(Q, n)
    <3>. HIDE DEF Q, A
    <3>. QED BY <2>1 DEF Latest
  <2>3. LongerAt(Q)
    <3>. HIDE DEF Q
    <3>. QED BY <1>5 DEF LongerAt
  <2>. HIDE DEF Q, New
  <2>. QED BY <2>2, <2>3, NoticedGrows, Zenon
<1>7. /\ IsFiniteSet(Noticed(n) \cup New)
       /\ Cardinality(Noticed(n) \cup New)
            = Cardinality(Noticed(n)) + Cardinality(New) - Cardinality({})
  <2>. HIDE DEF New
  <2>. QED BY <1>4, <1>6, UnionFinite
<1>8. Cardinality(Noticed(n)) \in Nat /\ Cardinality({}) = 0
  BY CardinalityType, EmptySetFacts
<1>. HIDE DEF A, New
<1>. QED BY <1>2, <1>4, <1>6, <1>7, <1>8

\* A rule on a table event takes one.
LEMMA NoticedTail ==
  ASSUME FiniteSetFacts, WellFormed, q \in [Queues -> Seq(Tup)], NEW x \in TableRules, q[x] # <<>>,
         q'[x] = Tail(q[x]), \A r \in TableRules \ {x} : q'[r] = q[r],
         NEW n, IsFiniteSet(Noticed(n))
  PROVE  /\ IsFiniteSet(Noticed(n)')
         /\ Cardinality(Noticed(n))
              = Cardinality(Noticed(n)') + (IF Rule[x].head = n THEN 1 ELSE 0)
<1>. DEFINE p == <<x, Len(q[x])>>
<1>1. /\ q[x] \in Seq(Tup) /\ Len(q[x]) \in Nat \ {0} /\ DOMAIN q[x] = 1 .. Len(q[x])
      /\ DOMAIN q'[x] = 1 .. Len(q[x]) - 1
  BY Parts
<1>2. \A i : i \in DOMAIN q'[x] <=> i \in DOMAIN q[x] /\ i # Len(q[x])
  BY <1>1
<1>3. Noticed(n)' = Noticed(n) \ {p}
  <2>1. ASSUME NEW r \in TableRules, NEW i
        PROVE  i \in DOMAIN q'[r] <=> i \in DOMAIN q[r] /\ <<r, i>> # p
    BY <1>2
  <2>2. \A o : o \in Noticed(n)' <=> o \in Noticed(n) /\ o # p
    BY <2>1, NoticedMembers
  <2>. QED BY <2>2
<1>4. p \in Noticed(n) <=> Rule[x].head = n
  <2>1. Len(q[x]) \in DOMAIN q[x]
    BY <1>1
  <2>. QED BY <2>1, NoticedMembers
<1>5. Cardinality(Noticed(n)) \in Nat
  BY CardinalityType
<1>. HIDE DEF p
<1>6. /\ IsFiniteSet(Noticed(n) \ {p})
      /\ Cardinality(Noticed(n) \ {p})
           = IF p \in Noticed(n) THEN Cardinality(Noticed(n)) - 1 ELSE Cardinality(Noticed(n))
  BY RemoveElement
<1>. QED BY <1>3, <1>4, <1>5, <1>6

-----------------------------------------------------------------------------
(* The steps outside the dataflow.                                         *)

\* The event of the fixpoint, which is in the inbox until it is over, and the rows that
\* wait, which are not there while the commit makes them.
Passing(n) == IF InFixpoint THEN Count(taken, n) ELSE 0
Waiting(n) == IF pc = "commit" THEN 0 ELSE Cardinality(Noticed(n))

\* The inbox of the event semantics.
LEMMA InboxIs ==
  /\ AbsInbox = [n \in Tuples |-> Outer(n) + Passing(n) + Waiting(n)]
  /\ AbsInbox' = [n \in Tuples |-> Outer(n)' + Passing(n)' + Waiting(n)']
BY DEF AbsInbox, Outer, Passing, Waiting

\* A step that changes no count is a stutter.
LEMMA Stutters ==
  ASSUME AbsTable' = AbsTable,
         \A n \in Tuples : Outer(n)' + Passing(n)' + Waiting(n)' = Outer(n) + Passing(n) + Waiting(n)
  PROVE  [Abs!Next]_<<AbsTable, AbsInbox>>
<1>1. AbsInbox' = AbsInbox
  BY InboxIs
<1>. QED BY <1>1

\* So is one that moves nothing in the outer part of the dataflow and neither begins nor
\* ends a fixpoint.
LEMMA Quiet ==
  ASSUME Steady, \A x \in {"defrag", "netQ", "extQ"} \cup TableRules : q'[x] = q[x],
         table' = table, snap' = snap, taken' = taken,
         pc' = pc \/ {pc, pc'} \cap {"run", "commit"} = {}
  PROVE  /\ [Abs!Next]_<<AbsTable, AbsInbox>>
         /\ \A n \in Tuples : /\ Noticed(n)' = Noticed(n) /\ Outer(n)' = Outer(n)
                              /\ IsFiniteSet(Noticed(n)')
<1>1. \A n \in Tuples : Noticed(n)' = Noticed(n)
  BY NoticedSame
<1>2. \A n \in Tuples : Outer(n)' = Outer(n)
  BY DEF Outer, Count
<1>3. (pc' = "commit" <=> pc = "commit") /\ (InFixpoint' <=> InFixpoint)
  BY DEF InFixpoint
<1>4. \A n \in Tuples : Passing(n)' = Passing(n) /\ Waiting(n)' = Waiting(n)
  BY <1>1, <1>3 DEF Passing, Waiting, Count
<1>5. AbsTable' = AbsTable
  BY <1>3 DEF AbsTable
<1>6. [Abs!Next]_<<AbsTable, AbsInbox>>
  BY <1>2, <1>4, <1>5, Stutters
<1>. QED BY <1>1, <1>2, <1>6 DEF Steady

\* Outside a fixpoint there is little to keep.
LEMMA OutsideInv ==
  ASSUME Steady', pc' \notin {"run", "commit"}
  PROVE  EvInv'
BY DEF EvInv, Gated, Sound, Answered, Commits, InFixpoint

\* The scheduler and the socket between fixpoints.
LEMMA IdleStep ==
  ASSUME WellFormed, RtInv, EvInv, StartProc \/ Loop \/ Transmit \/ EndProc
  PROVE  EvInv' /\ [Abs!Next]_<<AbsTable, AbsInbox>>
<1>1. /\ pc \notin {"run", "commit"} /\ pc' \notin {"run", "commit"} /\ q' = q
      /\ table' = table /\ lapsed' = lapsed /\ snap' = snap /\ taken' = taken
      /\ pending' = pending
  BY DEF StartProc, Loop, Transmit, EndProc, rows, flow, history
<1>2. Steady
  BY DEF EvInv
<1>3. /\ [Abs!Next]_<<AbsTable, AbsInbox>> /\ \A n \in Tuples : IsFiniteSet(Noticed(n)')
  BY <1>1, <1>2, Quiet
<1>4. Steady'
  BY <1>1, <1>2, <1>3 DEF Steady
<1>. QED BY <1>1, <1>3, <1>4, OutsideInv

\* An event arrives, in the node and in the event semantics.
LEMMA ArriveStep ==
  ASSUME FiniteSetFacts, WellFormed, RtInv, EvInv, NEW m \in Arrivals, Arrive(m)
  PROVE  EvInv' /\ [Abs!Next]_<<AbsTable, AbsInbox>>
<1>1. /\ q \in [Queues -> Seq(Tup)] /\ m \in Tuples /\ T(m, 0) \in Tup /\ T(m, 0).name = m
      /\ Steady
  BY Types DEF WellFormed, T, Tup, EvInv
<1>2. {"defrag", "netQ", "extQ"} \subseteq Queues /\ TableRules \subseteq Queues \ {"defrag"}
  BY Parts DEF Queues, FixedQueues, WellFormed
<1>3. /\ q'["defrag"] = Append(q["defrag"], T(m, 0))
      /\ \A x \in {"netQ", "extQ"} \cup TableRules : q'[x] = q[x]
  <2>1. q' = Push(q, {"defrag"}, T(m, 0))
    BY DEF Arrive
  <2>2. /\ \A x \in Queues \cap {"defrag"} : Push(q, {"defrag"}, T(m, 0))[x] = Append(q[x], T(m, 0))
        /\ \A x \in Queues \ {"defrag"} : Push(q, {"defrag"}, T(m, 0))[x] = q[x]
    <3>. DEFINE P == {"defrag"}
                u == T(m, 0)
    <3>1. q \in [Queues -> Seq(Tup)] /\ u \in Tup
      BY <1>1
    <3>. HIDE DEF P, u
    <3>2. /\ \A x \in Queues \cap P : Push(q, P, u)[x] = Append(q[x], u)
          /\ \A x \in Queues \ P : Push(q, P, u)[x] = q[x]
      BY <3>1, PushFacts
    <3>. QED BY <3>2, Zenon DEF P, u
  <2>. QED BY <1>2, <2>1, <2>2
<1>4. /\ pc \notin {"run", "commit"} /\ pc' \notin {"run", "commit"}
      /\ table' = table /\ lapsed' = lapsed /\ pending' = pending
  BY DEF Arrive, rows
<1>5. \A n \in Tuples : Noticed(n)' = Noticed(n)
  BY <1>3, NoticedSame
<1>6. Steady'
  BY <1>1, <1>4, <1>5 DEF Steady
<1>7. ASSUME NEW n \in Tuples
      PROVE  /\ AbsInbox'[n] = AbsInbox[n] + (IF n = m THEN 1 ELSE 0)
             /\ AbsInbox[n] \in Nat
  <2>1. /\ Count(q["defrag"], n) \in Nat /\ Count(q["netQ"], n) \in Nat
        /\ Count(q["extQ"], n) \in Nat /\ Cardinality(Noticed(n)) \in Nat
    BY <1>1, <1>2, CountType, CardinalityType DEF Steady
  <2>2. Count(q'["defrag"], n) = Count(q["defrag"], n) + (IF m = n THEN 1 ELSE 0)
    BY <1>1, <1>2, <1>3, CountAppend
  <2>3. Passing(n) = 0 /\ Passing(n)' = 0 /\ Waiting(n) = Cardinality(Noticed(n))
        /\ Waiting(n)' = Cardinality(Noticed(n))
    BY <1>4, <1>5 DEF Passing, Waiting, InFixpoint
  <2>4. Outer(n) \in Nat /\ Outer(n)' = Outer(n) + (IF m = n THEN 1 ELSE 0)
    <3>1. Outer(n)' = Count(q'["defrag"], n) + Count(q["netQ"], n) + Count(q["extQ"], n)
      BY <1>3 DEF Outer, Count
    <3>. QED BY <2>1, <2>2, <3>1 DEF Outer
  <2>. QED BY <2>1, <2>3, <2>4, InboxIs
<1>8. AbsInbox' = [AbsInbox EXCEPT ![m] = @ + 1]
  <2>1. /\ AbsInbox = [n \in Tuples |-> AbsInbox[n]]
        /\ AbsInbox' = [n \in Tuples |-> AbsInbox'[n]]
    BY InboxIs
  <2>. QED BY <1>1, <1>7, <2>1
<1>9. AbsTable' = AbsTable
  BY <1>4 DEF AbsTable, InFixpoint
<1>10. Abs!Next
  BY <1>1, <1>8, <1>9 DEF Abs!Next, Abs!Arrive
<1>. QED BY <1>4, <1>6, <1>10, OutsideInv

\* A fixpoint begins: the history variables are set.
LEMMA BeginFixpointStep ==
  ASSUME FiniteSetFacts, WellFormed, RtInv, EvInv, BeginFixpoint
  PROVE  EvInv' /\ [Abs!Next]_<<AbsTable, AbsInbox>>
<1>1. /\ pc = "phase2" /\ pc' = "run" /\ q' = q /\ table' = table /\ lapsed' = lapsed
      /\ snap' = table /\ taken' = <<>> /\ seen' = {} /\ pending' = pending
  BY DEF BeginFixpoint, rows
<1>2. \A n \in Tuples : Noticed(n)' = Noticed(n) /\ Outer(n)' = Outer(n)
  BY <1>1, NoticedSame DEF Outer, Count
<1>3. Steady'
  BY <1>1, <1>2 DEF EvInv, Steady
<1>4. Empty(Inner) /\ \A a \in ActionRules : pending[a] = <<>>
  BY <1>1, Parts DEF RtInv, OneEvent
<1>5. Empty(Inner)'
  BY <1>1, <1>4 DEF Empty
<1>6. Gated'
  BY <1>1, <1>4, <1>5 DEF Gated, InFixpoint
<1>7. Sound' /\ Answered' /\ Commits'
  BY <1>1 DEF Sound, Answered, Commits
<1>8. \A n \in Tuples : Passing(n)' = 0 /\ Passing(n) = 0
  BY <1>1, CountEmpty DEF Passing, InFixpoint
<1>9. \A n \in Tuples : Waiting(n)' = Waiting(n)
  BY <1>1, <1>2 DEF Waiting
<1>10. AbsTable' = AbsTable
  BY <1>1 DEF AbsTable, InFixpoint
<1>11. [Abs!Next]_<<AbsTable, AbsInbox>>
  BY <1>2, <1>8, <1>9, <1>10, Stutters
<1>. QED BY <1>3, <1>6, <1>7, <1>11 DEF EvInv

-----------------------------------------------------------------------------
(* The steps of the dataflow.                                              *)

\* A step that moves nothing in the inner part of the dataflow.
LEMMA InnerSame ==
  ASSUME WellFormed, EvInv, pc = "run", pc' = "run", \A x \in Inner : q'[x] = q[x],
         pending' = pending, table' = table, snap' = snap, taken' = taken, seen' = seen,
         state'["Switch"] = state["Switch"], Steady'
  PROVE  EvInv'
<1>1. Gated'
  BY DEF EvInv, Gated, InFixpoint, Empty
<1>2. q'["intQ"] = q["intQ"] /\ \A r \in RecvRules : q'[r] = q[r]
  BY DEF Inner
<1>3. Sound'
  BY <1>2 DEF EvInv, Sound, Event
<1>4. Answered'
  BY <1>2 DEF EvInv, Answered, Event
<1>5. Commits'
  BY DEF Commits
<1>. QED BY <1>1, <1>3, <1>4, <1>5 DEF EvInv

\* The PullPushes begin and end, and the one at the network sends.
LEMMA RunnableStep ==
  ASSUME WellFormed, RtInv, EvInv, FinishRun \/ NetStep \/ \E p \in PullPushes : StartRun(p)
  PROVE  EvInv' /\ [Abs!Next]_<<AbsTable, AbsInbox>>
<1>1. /\ pc = "run" /\ pc' = "run" /\ table' = table /\ lapsed' = lapsed
      /\ snap' = snap /\ taken' = taken /\ seen' = seen /\ pending' = pending
  BY DEF FinishRun, NetStep, StartRun, Pull, Ready, rows, history
<1>2. q \in [Queues -> Seq(Tup)] /\ state \in [Runnables -> States] /\ Steady
  BY Types DEF EvInv
<1>3. \A x \in Queues \ {"netOutQ"} : q'[x] = q[x]
  BY <1>2 DEF FinishRun, NetStep, StartRun
<1>4. /\ {"defrag", "netQ", "extQ"} \cup TableRules \subseteq Queues \ {"netOutQ"}
      /\ Inner \subseteq Queues \ {"netOutQ"}
  BY Parts DEF Queues, FixedQueues, WellFormed
<1>5. state'["Switch"] = state["Switch"]
  <2>1. "Switch" # "NetPP" /\ (FinishRun => cur # "Switch")
    BY Types, Parts DEF FinishRun
  <2>2. CASE FinishRun
    <3>1. state' = [state EXCEPT ![cur] = "BLOCKED"]
      BY <2>2 DEF FinishRun
    <3>. QED BY <2>1, <2>2, <3>1
  <2>3. CASE NetStep
    <3>1. state' = [state EXCEPT !["NetPP"] = "BLOCKED_PUSH"] \/ state' = state
      BY <2>3 DEF NetStep
    <3>2. "Switch" \in Runnables
      BY DEF Runnables
    <3>. QED BY <1>2, <2>1, <3>1, <3>2
  <2>4. CASE \E p \in PullPushes : StartRun(p)
    BY <2>4 DEF StartRun
  <2>. QED BY <2>2, <2>3, <2>4
<1>6. /\ [Abs!Next]_<<AbsTable, AbsInbox>> /\ \A n \in Tuples : IsFiniteSet(Noticed(n)')
  BY <1>1, <1>2, <1>3, <1>4, Quiet
<1>7. Steady'
  BY <1>1, <1>2, <1>6 DEF Steady
<1>8. EvInv'
  BY <1>1, <1>3, <1>4, <1>5, <1>7, InnerSame
<1>. QED BY <1>6, <1>8

\* What a step of a PullPush from x to the queues of Q changes.
LEMMA ForwardFacts ==
  ASSUME WellFormed, RtInv, NEW x \in Queues, Ready(x), NEW Q \in SUBSET Queues, x \notin Q,
         NEW t \in Tup, Forward(x, Q, t)
  PROVE  /\ pc = "run" /\ pc' = "run" /\ \A y \in Queues : q[y] \in Seq(Tup)
         /\ q[x] # <<>> /\ q'[x] = Tail(q[x])
         /\ \A y \in Q : q'[y] = Append(q[y], t)
         /\ \A y \in Queues \ (Q \cup {x}) : q'[y] = q[y]
         /\ state'["Switch"] = state["Switch"]
         /\ seen' = IF x = "intQ" THEN seen \cup {t.name} ELSE seen
         /\ UNCHANGED <<table, lapsed, pending, snap, taken>>
<1>. DEFINE qs == [q EXCEPT ![x] = Tail(@)]
<1>1. /\ q \in [Queues -> Seq(Tup)] /\ state \in [Runnables -> States]
      /\ pc = "run" /\ q[x] # <<>>
  BY Types DEF Ready
<1>2. /\ qs \in [Queues -> Seq(Tup)] /\ qs[x] = Tail(q[x])
      /\ \A y \in Queues \ {x} : qs[y] = q[y]
  BY <1>1
<1>3. /\ q' = Push(qs, Q, t) /\ state' = Wake(state, Q) /\ pc' = pc
      /\ seen' = IF x = "intQ" THEN seen \cup {t.name} ELSE seen
      /\ UNCHANGED <<table, lapsed, pending, snap, taken>>
  BY DEF Forward, rows
<1>. HIDE DEF qs
<1>4. /\ \A y \in Queues \cap Q : q'[y] = Append(qs[y], t)
      /\ \A y \in Queues \ Q : q'[y] = qs[y]
  BY <1>2, <1>3, PushFacts
<1>5. state'["Switch"] = state["Switch"]
  BY <1>1, <1>3, WakeFacts
<1>6. /\ q'[x] = Tail(q[x]) /\ \A y \in Q : q'[y] = Append(q[y], t)
      /\ \A y \in Queues \ (Q \cup {x}) : q'[y] = q[y]
  BY <1>2, <1>4
<1>. QED BY <1>1, <1>3, <1>5, <1>6

\* The same when there is one queue, or none.
LEMMA ForwardOne ==
  ASSUME WellFormed, RtInv, NEW x \in Queues, Ready(x), NEW y \in Queues, x # y, x # "intQ",
         NEW t \in Tup, Forward(x, {y}, t)
  PROVE  /\ pc = "run" /\ pc' = "run" /\ \A z \in Queues : q[z] \in Seq(Tup)
         /\ q[x] # <<>> /\ q'[x] = Tail(q[x]) /\ q'[y] = Append(q[y], t)
         /\ \A z \in Queues \ {x, y} : q'[z] = q[z]
         /\ state'["Switch"] = state["Switch"] /\ seen' = seen
         /\ UNCHANGED <<table, lapsed, pending, snap, taken>>
<1>. DEFINE Q == {y}
<1>1. /\ Q \in SUBSET Queues /\ x \notin Q /\ Forward(x, Q, t) /\ y \in Q
      /\ \A z \in Queues \ {x, y} : z \notin Q \cup {x}
  OBVIOUS
<1>. HIDE DEF Q
<1>2. /\ pc = "run" /\ pc' = "run" /\ \A z \in Queues : q[z] \in Seq(Tup)
      /\ q[x] # <<>> /\ q'[x] = Tail(q[x])
      /\ \A z \in Q : q'[z] = Append(q[z], t)
      /\ \A z \in Queues \ (Q \cup {x}) : q'[z] = q[z]
      /\ state'["Switch"] = state["Switch"]
      /\ seen' = IF x = "intQ" THEN seen \cup {t.name} ELSE seen
      /\ UNCHANGED <<table, lapsed, pending, snap, taken>>
  BY <1>1, ForwardFacts
<1>. QED BY <1>1, <1>2

\* A tuple outside the gate that no one listens for is taken out of its queue, and that is all.
LEMMA ForwardNone ==
  ASSUME WellFormed, RtInv, NEW x \in Queues, Ready(x), x # "intQ", NEW t \in Tup, Forward(x, {}, t)
  PROVE  /\ pc' = "run" /\ q'[x] = Tail(q[x]) /\ \A z \in Queues \ {x} : q'[z] = q[z]
         /\ state'["Switch"] = state["Switch"] /\ seen' = seen
         /\ UNCHANGED <<table, lapsed, pending, snap, taken>>
<1>. DEFINE Q == {}
<1>1. /\ Q \in SUBSET Queues /\ x \notin Q /\ Forward(x, Q, t)
      /\ \A z \in Queues \ {x} : z \notin Q \cup {x}
  OBVIOUS
<1>. HIDE DEF Q
<1>2. /\ pc' = "run" /\ q'[x] = Tail(q[x])
      /\ \A z \in Queues \ (Q \cup {x}) : q'[z] = q[z]
      /\ state'["Switch"] = state["Switch"]
      /\ seen' = IF x = "intQ" THEN seen \cup {t.name} ELSE seen
      /\ UNCHANGED <<table, lapsed, pending, snap, taken>>
  BY <1>1, ForwardFacts
<1>. QED BY <1>1, <1>2

\* An event moves towards the gate.
LEMMA OuterStep ==
  ASSUME FiniteSetFacts, WellFormed, RtInv, EvInv, DefragStep \/ \E x \in Inputs("ExtDRRPP") : ExtStep(x)
  PROVE  EvInv' /\ [Abs!Next]_<<AbsTable, AbsInbox>>
<1>1. /\ {"defrag", "netQ", "extQ"} \subseteq Queues /\ TableRules \subseteq Queues
      /\ {"defrag", "netQ", "extQ"} \cap TableRules = {}
      /\ Inner \subseteq Queues /\ ({"defrag", "netQ", "extQ"} \cup TableRules) \cap Inner = {}
  BY Parts DEF Queues, FixedQueues, WellFormed
<1>2. PICK x \in {"defrag", "netQ"} \cup TableRules, y \in {"netQ", "extQ"}, t \in Tup :
        /\ Ready(x) /\ Forward(x, {y}, t)
        /\ x = "defrag" => y = "netQ" /\ t = Head(q[x])
        /\ x = "netQ" => y = "extQ" /\ t = Head(q[x])
        /\ x \in TableRules => y = "extQ" /\ t.name = Rule[x].head
  <2>1. CASE DefragStep
    <3>1. Ready("defrag") /\ Forward("defrag", {"netQ"}, Head(q["defrag"]))
      BY <2>1 DEF DefragStep, Pull
    <3>2. Head(q["defrag"]) \in Tup
      BY <1>1, <3>1, HeadFacts
    <3>. QED BY <1>1, <3>1, <3>2
  <2>2. ASSUME NEW x \in Inputs("ExtDRRPP"), ExtStep(x), x \in TableRules
        PROVE  Ready(x) /\ Forward(x, {"extQ"}, T(Rule[x].head, 0))
               /\ T(Rule[x].head, 0) \in Tup /\ T(Rule[x].head, 0).name = Rule[x].head
    BY <2>2, HeadTup, Parts DEF ExtStep, Pull, T
  <2>3. ASSUME NEW x \in Inputs("ExtDRRPP"), ExtStep(x), x \notin TableRules
        PROVE  x = "netQ" /\ Ready(x) /\ Forward(x, {"extQ"}, Head(q[x])) /\ Head(q[x]) \in Tup
    <3>1. x = "netQ" /\ Ready(x) /\ Forward(x, {"extQ"}, Head(q[x]))
      BY <2>3, InputsOf DEF ExtStep, Pull
    <3>. QED BY <1>1, <3>1, HeadFacts
  <2>. QED BY <1>1, <2>1, <2>2, <2>3
<1>3. x \in Queues /\ y \in Queues /\ x # y /\ x # "intQ"
  BY <1>1, <1>2 DEF Inner
<1>4. /\ pc = "run" /\ pc' = "run" /\ \A z \in Queues : q[z] \in Seq(Tup)
      /\ q[x] # <<>> /\ q'[x] = Tail(q[x]) /\ q'[y] = Append(q[y], t)
      /\ \A z \in Queues \ {x, y} : q'[z] = q[z]
      /\ state'["Switch"] = state["Switch"] /\ seen' = seen
      /\ UNCHANGED <<table, lapsed, pending, snap, taken>>
  BY <1>2, <1>3, ForwardOne
<1>5. ASSUME NEW n \in Tuples
      PROVE  /\ IsFiniteSet(Noticed(n)') /\ IsFiniteSet(Noticed(n))
             /\ Cardinality(Noticed(n)) = Cardinality(Noticed(n)')
                  + (IF x \in TableRules /\ t.name = n THEN 1 ELSE 0)
  <2>1. IsFiniteSet(Noticed(n)) /\ Cardinality(Noticed(n)) \in Nat
    BY CardinalityType DEF EvInv, Steady
  <2>2. CASE x \in TableRules
    <3>1. q \in [Queues -> Seq(Tup)] /\ \A r \in TableRules \ {x} : q'[r] = q[r]
      BY <1>1, <1>4, Types
    <3>. QED BY <1>2, <1>4, <2>1, <2>2, <3>1, NoticedTail
  <2>3. CASE x \notin TableRules
    <3>1. \A r \in TableRules : q'[r] = q[r]
      BY <1>1, <1>4, <2>3
    <3>. QED BY <2>1, <2>3, <3>1, NoticedSame
  <2>. QED BY <2>2, <2>3
<1>6. Steady'
  BY <1>4, <1>5 DEF EvInv, Steady
<1>7. EvInv'
  <2>1. \A z \in Inner : q'[z] = q[z]
    BY <1>1, <1>4
  <2>. QED BY <1>4, <1>6, <2>1, InnerSame
<1>8. ASSUME NEW n \in Tuples
      PROVE  Outer(n)' + Passing(n)' + Waiting(n)' = Outer(n) + Passing(n) + Waiting(n)
  <2>. DEFINE one == IF t.name = n THEN 1 ELSE 0
              C(z) == Count(q[z], n)
              D(z) == Count(q'[z], n)
  <2>1. \A z \in Queues : C(z) \in Nat
    BY <1>4, CountType
  <2>2. C(x) = D(x) + (IF Head(q[x]).name = n THEN 1 ELSE 0) /\ D(y) = C(y) + one
    BY <1>3, <1>4, CountTail, CountAppend
  <2>3. D(x) \in Nat
    <3>1. q'[x] \in Seq(Tup)
      BY <1>3, <1>4
    <3>. QED BY <3>1, CountType
  <2>4. \A z \in Queues \ {x, y} : D(z) = C(z)
    BY <1>4
  <2>5. Passing(n)' = Passing(n) /\ Passing(n) \in Nat
    <3>1. taken \in Seq(Tup)
      BY DEF RtInv, Counters
    <3>. QED BY <1>4, <3>1, CountType DEF Passing, InFixpoint, Count
  <2>6. /\ Waiting(n) = Cardinality(Noticed(n)) /\ Waiting(n)' = Cardinality(Noticed(n)')
        /\ Waiting(n) \in Nat /\ Waiting(n)' \in Nat
        /\ Waiting(n) = Waiting(n)' + (IF x \in TableRules THEN one ELSE 0)
    BY <1>4, <1>5, CardinalityType DEF Waiting
  <2>7. /\ Outer(n) = C("defrag") + C("netQ") + C("extQ")
        /\ Outer(n)' = D("defrag") + D("netQ") + D("extQ")
    BY DEF Outer, Count
  <2>. HIDE DEF C, D
  <2>8. CASE x = "defrag"
    <3>1. y = "netQ" /\ x \notin TableRules /\ D("extQ") = C("extQ")
          /\ C("defrag") = D("defrag") + one
      BY <1>1, <1>2, <2>2, <2>4, <2>8
    <3>. HIDE DEF one
    <3>2. one \in Nat
      BY DEF one
    <3>. QED BY <1>1, <2>1, <2>2, <2>3, <2>5, <2>6, <2>7, <2>8, <3>1, <3>2
  <2>9. CASE x = "netQ"
    <3>1. y = "extQ" /\ x \notin TableRules /\ D("defrag") = C("defrag")
          /\ C("netQ") = D("netQ") + one
      BY <1>1, <1>2, <2>2, <2>4, <2>9
    <3>. HIDE DEF one
    <3>2. one \in Nat
      BY DEF one
    <3>. QED BY <1>1, <2>1, <2>2, <2>3, <2>5, <2>6, <2>7, <2>9, <3>1, <3>2
  <2>10. CASE x \in TableRules
    <3>1. y = "extQ" /\ D("defrag") = C("defrag") /\ D("netQ") = C("netQ")
      BY <1>1, <1>2, <2>4, <2>10
    <3>. HIDE DEF one
    <3>2. one \in Nat
      BY DEF one
    <3>. QED BY <1>1, <2>1, <2>2, <2>5, <2>6, <2>7, <2>10, <3>1, <3>2
  <2>. QED BY <1>2, <2>8, <2>9, <2>10
<1>9. AbsTable' = AbsTable
  BY <1>4 DEF AbsTable, InFixpoint
<1>. QED BY <1>7, <1>8, <1>9, Stutters

\* An event passes the gate, at most one in a fixpoint; until then the fixpoint has done
\* nothing.
LEMMA RunSwitchStep ==
  ASSUME FiniteSetFacts, WellFormed, RtInv, EvInv, RunSwitch
  PROVE  EvInv' /\ [Abs!Next]_<<AbsTable, AbsInbox>>
<1>1. /\ pc = "run" /\ pc' = "run" /\ state["Switch"] = "ACTIVE"
      /\ UNCHANGED <<table, lapsed, pending, snap, seen>>
  BY DEF RunSwitch, rows
<1>2. /\ q \in [Queues -> Seq(Tup)] /\ {"defrag", "netQ", "extQ", "intQ"} \subseteq Queues
      /\ TableRules \subseteq Queues \ {"extQ", "intQ"} /\ q["extQ"] \in Seq(Tup)
      /\ RecvRules \subseteq Queues \ {"extQ", "intQ"} /\ events \in Nat
      /\ state \in [Runnables -> States] /\ "Switch" \in Runnables
  BY Types, Parts DEF Queues, FixedQueues, WellFormed, Runnables
<1>3. taken = <<>> /\ seen = {} /\ snap = table /\ Empty(Inner)
      /\ \A a \in ActionRules : pending[a] = <<>>
  BY <1>1 DEF EvInv, Gated, InFixpoint
<1>4. q["intQ"] = <<>> /\ \A r \in RecvRules : q[r] = <<>>
  BY <1>3 DEF Empty, Inner
<1>5. state'["Switch"] # "ACTIVE"
  <2>1. DOMAIN Wake(state, {"intQ"}) = Runnables
    BY DEF Wake
  <2>. QED BY <1>2, <2>1 DEF RunSwitch
<1>6. AbsTable' = AbsTable
  BY <1>1 DEF AbsTable, InFixpoint
<1>7. CASE q["extQ"] = <<>>
  <2>1. (IF Len(q["extQ"]) < NTuple THEN Len(q["extQ"]) ELSE NTuple) = 0
    BY <1>7 DEF NTuple
  <2>2. /\ q' = [q EXCEPT !["extQ"] = SubSeq(@, 0 + 1, Len(@)),
                          !["intQ"] = @ \o [i \in 1 .. 0 |-> T(q["extQ"][i].name, events + i)]]
        /\ taken' = taken \o [i \in 1 .. 0 |-> T(q["extQ"][i].name, events + i)]
    BY <2>1, Zenon DEF RunSwitch
  <2>3. [i \in 1 .. 0 |-> T(q["extQ"][i].name, events + i)] = <<>>
    OBVIOUS
  <2>4. <<>> \o <<>> = <<>> /\ SubSeq(<<>>, 1, Len(<<>>)) = <<>>
    OBVIOUS
  <2>5. taken' = taken
    BY <1>3, <2>2, <2>3, <2>4
  <2>6. \A x \in Queues : q'[x] = q[x]
    BY <1>2, <1>4, <1>7, <2>2, <2>3, <2>4
  <2>7. Steady
    BY DEF EvInv
  <2>8. /\ [Abs!Next]_<<AbsTable, AbsInbox>> /\ \A n \in Tuples : IsFiniteSet(Noticed(n)')
    BY <1>1, <1>2, <2>5, <2>6, <2>7, Quiet
  <2>9. Steady'
    BY <1>1, <2>7, <2>8 DEF Steady
  <2>10. Gated'
    <3>1. \A x \in Inner : q'[x] = <<>>
      BY <1>3, <2>6, Parts DEF Empty
    <3>2. Empty(Inner)'
      BY <3>1 DEF Empty
    <3>. QED BY <1>1, <1>3, <2>5, <3>2 DEF Gated, InFixpoint
  <2>11. Sound' /\ Answered' /\ Commits'
    BY <1>1, <1>3, <2>5 DEF Sound, Answered, Commits
  <2>. QED BY <2>8, <2>9, <2>10, <2>11 DEF EvInv
<1>8. CASE q["extQ"] # <<>>
  <2>. DEFINE h == Head(q["extQ"])
              t == T(h.name, events + 1)
  <2>1. /\ Len(q["extQ"]) \in Nat \ {0} /\ h = q["extQ"][1] /\ h \in Tup
        /\ SubSeq(q["extQ"], 2, Len(q["extQ"])) = Tail(q["extQ"])
    BY <1>2, <1>8
  <2>2. (IF Len(q["extQ"]) < NTuple THEN Len(q["extQ"]) ELSE NTuple) = 1
    BY <2>1 DEF NTuple
  <2>3. /\ q' = [q EXCEPT !["extQ"] = SubSeq(@, 1 + 1, Len(@)),
                          !["intQ"] = @ \o [i \in 1 .. 1 |-> T(q["extQ"][i].name, events + i)]]
        /\ taken' = taken \o [i \in 1 .. 1 |-> T(q["extQ"][i].name, events + i)]
    BY <2>2, Zenon DEF RunSwitch
  <2>4. t \in Tup /\ t.name = h.name /\ h.name \in Tuples
    BY <1>2, <2>1 DEF T, Tup
  <2>5. [i \in 1 .. 1 |-> T(q["extQ"][i].name, events + i)] = <<t>>
    BY <2>1
  <2>. HIDE DEF t, h
  <2>6. <<>> \o <<t>> = <<t>> /\ Append(<<>>, t) = <<t>> /\ <<t>> # <<>> /\ <<t>>[1] = t
        /\ Len(<<t>>) = 1 /\ <<>> \in Seq(Tup)
    BY <2>4
  <2>7. taken' = <<t>> /\ q'["intQ"] = <<t>> /\ q'["extQ"] = Tail(q["extQ"])
        /\ \A x \in Queues \ {"extQ", "intQ"} : q'[x] = q[x]
    <3>. DEFINE new == [i \in 1 .. 1 |-> T(q["extQ"][i].name, events + i)]
    <3>1. new = <<t>>
      BY <2>5
    <3>2. q' = [q EXCEPT !["extQ"] = SubSeq(@, 1 + 1, Len(@)), !["intQ"] = @ \o new]
          /\ taken' = taken \o new
      BY <2>3
    <3>. HIDE DEF new
    <3>3. taken' = <<t>>
      BY <1>3, <2>6, <3>1, <3>2
    <3>4. /\ q'["intQ"] = q["intQ"] \o new /\ q'["extQ"] = SubSeq(q["extQ"], 2, Len(q["extQ"]))
          /\ \A x \in Queues \ {"extQ", "intQ"} : q'[x] = q[x]
      BY <1>2, <3>2
    <3>. QED BY <1>4, <2>1, <2>6, <3>1, <3>3, <3>4, Zenon
  <2>8. \A n \in Tuples : Noticed(n)' = Noticed(n)
    BY <1>2, <2>7, NoticedSame
  <2>9. Steady'
    BY <1>1, <2>8 DEF EvInv, Steady
  <2>10. Gated'
    BY <1>1, <1>3, <1>5, <2>6, <2>7 DEF Gated, InFixpoint
  <2>11. NamesOf(q'["intQ"]) = {h.name} /\ Event' = h.name
    <3>1. NamesOf(<<>>) = {}
      BY DEF NamesOf
    <3>2. NamesOf(Append(<<>>, t)) = NamesOf(<<>>) \cup {t.name}
      BY <2>4, <2>6, NamesAppend
    <3>3. NamesOf(q'["intQ"]) = {h.name}
      BY <2>4, <2>6, <2>7, <3>1, <3>2
    <3>4. Event' = h.name
      BY <2>4, <2>6, <2>7 DEF Event
    <3>. QED BY <3>3, <3>4
  <2>12. Sound'
    <3>1. h.name \in Abs!Reach(h.name, snap)
      BY ReachLeast
    <3>. QED BY <1>1, <1>2, <1>3, <1>4, <2>7, <2>11, <3>1 DEF Sound
  <2>13. Answered'
    BY <1>1, <1>3, <2>11 DEF Answered
  <2>14. Commits'
    BY <1>1 DEF Commits
  <2>15. ASSUME NEW n \in Tuples
         PROVE  Outer(n)' + Passing(n)' + Waiting(n)' = Outer(n) + Passing(n) + Waiting(n)
    <3>1. /\ Count(q["defrag"], n) \in Nat /\ Count(q["netQ"], n) \in Nat
          /\ Count(q["extQ"], n) \in Nat /\ Count(q'["extQ"], n) \in Nat
      <4>1. Tail(q["extQ"]) \in Seq(Tup)
        BY <1>2, <1>8
      <4>. QED BY <1>2, <2>7, <4>1, CountType
    <3>2. Count(q["extQ"], n) = Count(q'["extQ"], n) + (IF h.name = n THEN 1 ELSE 0)
      BY <1>2, <1>8, <2>7, CountTail DEF h
    <3>3. Count(taken', n) = (IF h.name = n THEN 1 ELSE 0) /\ Count(taken, n) = 0
      <4>1. Count(<<>>, n) = 0
        BY CountEmpty
      <4>2. Count(Append(<<>>, t), n) = Count(<<>>, n) + (IF t.name = n THEN 1 ELSE 0)
        BY <2>4, <2>6, CountAppend
      <4>. QED BY <1>3, <2>4, <2>6, <2>7, <4>1, <4>2
    <3>4. /\ Passing(n) = 0 /\ Passing(n)' = (IF h.name = n THEN 1 ELSE 0)
          /\ Waiting(n)' = Waiting(n) /\ Waiting(n) \in Nat
      BY <1>1, <2>8, <3>3, CardinalityType DEF Passing, Waiting, InFixpoint, Count, EvInv, Steady
    <3>5. /\ Outer(n) = Count(q["defrag"], n) + Count(q["netQ"], n) + Count(q["extQ"], n)
          /\ Outer(n)' = Count(q["defrag"], n) + Count(q["netQ"], n) + Count(q'["extQ"], n)
      BY <1>2, <2>7 DEF Outer, Count
    <3>. QED BY <3>1, <3>2, <3>4, <3>5
  <2>16. [Abs!Next]_<<AbsTable, AbsInbox>>
    BY <1>6, <2>15, Stutters
  <2>. QED BY <2>9, <2>10, <2>12, <2>13, <2>14, <2>16 DEF EvInv
<1>. QED BY <1>7, <1>8
=============================================================================
