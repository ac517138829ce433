--------------------------- MODULE ElementProofs ---------------------------
(***************************************************************************)
(* Proofs about the elements that join and split flows of tuples, for      *)
(* every number of ports, every capacity of the queues around them and     *)
(* every bound on the traffic: the round robins of RoundRobin never lose   *)
(* a wake-up, and one whose inputs stay fails no assertion and serves in   *)
(* turn; the duplicating and demultiplexing elements of Fanout and the Mux *)
(* lose no tuple and call back everyone they pushed back.                  *)
(*                                                                         *)
(* The module extends RoundRobin and instantiates the other two; what two  *)
(* elements name alike is declared once, and no theorem speaks of two      *)
(* elements.                                                               *)
(***************************************************************************)
EXTENDS RoundRobin, FiniteSetTheorems, TLAPS

\* The indices of a vector of at most MaxPorts elements.
Vector(D) == \E n \in 0 .. MaxPorts : D = 0 .. n - 1

Flagged == {i \in DOMAIN flags : flags[i]}
Inputs == {i \in DOMAIN live : live[i]}

\* The vectors of inputs and flags: flags are shorter, and a port without a flag is a hole.
Shape ==
  /\ live \in [DOMAIN live -> BOOLEAN] /\ Vector(DOMAIN live)
  /\ flags \in [DOMAIN flags -> BOOLEAN] /\ Vector(DOMAIN flags)
  /\ DOMAIN flags \subseteq DOMAIN live
  /\ Inputs \subseteq DOMAIN flags
  /\ Flagged \subseteq Inputs

\* The rest of the state.
Types ==
  /\ removes \in BOOLEAN /\ failed \in BOOLEAN
  /\ next \in Ports /\ pullCB \in BOOLEAN /\ puller \in BOOLEAN
  /\ q \in [Ports -> 0 .. MaxQueue] /\ cb \subseteq Ports /\ timers \subseteq Ports
  /\ served \in Ports \cup {None} /\ skipped \in [Ports -> 0 .. MaxPorts]

\* Flags are counted, and a flag stands for an empty queue with a callback or for a timer.
Blocked ==
  /\ count = Cardinality(Flagged)
  /\ \A i \in Flagged : i \in timers \/ (i \in cb /\ q[i] = 0)

\* The PullPush sleeps exactly while its callback is kept, and then every input is blocked.
Asleep ==
  /\ pullCB <=> ~puller
  /\ ~puller => Inputs \subseteq Flagged

\* The number of visits before the turn of port j.
Turn(j) == IF j >= next THEN j - next ELSE j - next + ninputs

\* No input was removed: there are no holes, and an input that was passed over has a tuple
\* and has its turn after at most as many others as there are left.
Steady ==
  ~removes =>
    /\ ~failed
    /\ Inputs = DOMAIN live
    /\ next < ninputs
    /\ timers \subseteq DOMAIN live
    /\ \A j \in Ports : skipped[j] > 0 => j \in DOMAIN live /\ Unblocked(j) /\ q[j] > 0
    /\ \A j \in DOMAIN live : skipped[j] + Turn(j) < ninputs

RRInv == Shape /\ Types /\ Blocked /\ Asleep /\ Steady

-----------------------------------------------------------------------------
(* Numbers of ports.                                                       *)

\* The indices of a vector are finitely many.
LEMMA VectorSize ==
  ASSUME Bounds, NEW D, Vector(D)
  PROVE  IsFiniteSet(D) /\ D \subseteq Ports /\ D = 0 .. Cardinality(D) - 1
         /\ Cardinality(D) \in 0 .. MaxPorts
<1>1. PICK n \in 0 .. MaxPorts : D = 0 .. n - 1
  BY DEF Vector
<1>2. n \in Nat /\ n - 1 \in Int /\ MaxPorts \in Nat
  BY <1>1 DEF Bounds
<1>3. IsFiniteSet(0 .. n - 1) /\ Cardinality(0 .. n - 1) = n
  BY <1>2, FS_Interval
<1> QED
  BY <1>1, <1>2, <1>3 DEF Ports

\* There are at most as many flags as inputs, and at most as many inputs as ports; all
\* inputs are blocked when the numbers are equal.
LEMMA Sizes ==
  ASSUME Bounds, Shape
  PROVE  /\ IsFiniteSet(Inputs) /\ IsFiniteSet(Flagged)
         /\ ninputs = Cardinality(Inputs)
         /\ ninputs \in 0 .. MaxPorts /\ Cardinality(Flagged) \in 0 .. ninputs
         /\ Cardinality(Flagged) = ninputs => Flagged = Inputs
         /\ 0 .. ninputs - 1 \subseteq DOMAIN live
         /\ DOMAIN live \subseteq Ports /\ Inputs \subseteq Ports
         /\ Inputs = DOMAIN live => DOMAIN live = 0 .. ninputs - 1
<1>1. /\ IsFiniteSet(DOMAIN live) /\ DOMAIN live \subseteq Ports
      /\ DOMAIN live = 0 .. Cardinality(DOMAIN live) - 1
      /\ Cardinality(DOMAIN live) \in 0 .. MaxPorts
  BY VectorSize DEF Shape
<1>2. Inputs \subseteq DOMAIN live /\ Flagged \subseteq Inputs
  BY DEF Inputs, Shape
<1>3. /\ IsFiniteSet(Inputs) /\ Cardinality(Inputs) \in Nat
      /\ Cardinality(Inputs) <= Cardinality(DOMAIN live)
  BY <1>1, <1>2, FS_Subset, FS_CardinalityType
<1>4. /\ IsFiniteSet(Flagged) /\ Cardinality(Flagged) \in Nat
      /\ Cardinality(Flagged) <= Cardinality(Inputs)
      /\ Cardinality(Flagged) = Cardinality(Inputs) => Flagged = Inputs
  BY <1>2, <1>3, FS_Subset, FS_CardinalityType
<1>5. ninputs = Cardinality(Inputs)
  BY DEF ninputs, Inputs
<1>6. MaxPorts \in Nat
  BY DEF Bounds
<1>7. ninputs \in 0 .. MaxPorts /\ 0 .. ninputs - 1 \subseteq DOMAIN live
  BY <1>1, <1>3, <1>5, <1>6
<1> QED
  BY <1>1, <1>2, <1>3, <1>4, <1>5, <1>7

\* The remainder of a number below twice the divisor.
LEMMA Wrap ==
  ASSUME NEW n \in Nat, NEW a \in 0 .. 2 * n - 1, n > 0
  PROVE  a % n = IF a < n THEN a ELSE a - n
OBVIOUS

\* The visits of a pull are visits of ports.
LEMMA CurrentPort ==
  ASSUME Bounds, Shape, Types, ninputs > 0, NEW k \in Nat
  PROVE  Current(k) \in 0 .. ninputs - 1 /\ Current(k) \in DOMAIN live
<1>1. ninputs \in Nat /\ next \in Nat /\ 0 .. ninputs - 1 \subseteq DOMAIN live
  BY Sizes DEF Types, Ports, Bounds
<1>2. \A a, n \in Nat : n > 0 => a % n \in 0 .. n - 1
  OBVIOUS
<1> QED
  BY <1>1, <1>2 DEF Current

-----------------------------------------------------------------------------
(* Every step preserves the invariant.                                     *)

\* Init establishes it.
LEMMA RRInit == ASSUME Bounds, Init PROVE RRInv
<1>1. PICK n \in 1 .. MaxPorts : live = [i \in 0 .. n - 1 |-> TRUE]
  BY DEF Init
<1>2. MaxPorts \in Nat /\ MaxQueue \in Nat /\ n \in Nat /\ n > 0 /\ n <= MaxPorts
  BY <1>1 DEF Bounds
<1>3. /\ DOMAIN live = 0 .. n - 1 /\ DOMAIN flags = 0 .. n - 1
      /\ flags = [i \in 0 .. n - 1 |-> FALSE]
  BY <1>1 DEF Init
<1>4. Flagged = {} /\ Inputs = DOMAIN live
  BY <1>1, <1>3 DEF Flagged, Inputs
<1>5. Vector(0 .. n - 1)
  BY <1>2 DEF Vector
<1>6. Shape
  BY <1>1, <1>3, <1>4, <1>5 DEF Shape
<1>7. ninputs = n
  <2>1. n - 1 \in Int /\ (n - 1) - 0 + 1 = n /\ 0 <= n - 1
    BY <1>2
  <2>2. Cardinality(0 .. n - 1) = n
    BY <2>1, FS_Interval
  <2> QED
    BY <1>3, <1>4, <2>2, Zenon DEF ninputs, Inputs
<1>8. Types
  <2>1. /\ next \in Ports /\ q \in [Ports -> 0 .. MaxQueue]
        /\ skipped \in [Ports -> 0 .. MaxPorts]
    BY <1>2 DEF Init, Ports
  <2> QED
    BY <2>1, Zenon DEF Init, Types
<1>9. Blocked /\ Asleep
  <2>1. Cardinality({}) = 0
    BY FS_EmptySet
  <2> QED
    BY <1>4, <2>1 DEF Init, Blocked, Asleep
<1>10. Steady
  BY <1>2, <1>3, <1>4, <1>7 DEF Init, Steady, Turn, Ports
<1> QED
  BY <1>6, <1>8, <1>9, <1>10 DEF RRInv

\* unblock takes a flag and its count away, and wakes the PullPush up if the input is there.
LEMMA UnblockFlags ==
  ASSUME Bounds, RRInv, NEW i \in DOMAIN flags, unblock(i)
  PROVE  /\ Shape' /\ Flagged' = Flagged \ {i} /\ Inputs' = Inputs
         /\ count' = Cardinality(Flagged')
         /\ Asleep' /\ pullCB' \in BOOLEAN /\ puller' \in BOOLEAN
         /\ next' = next /\ ninputs' = ninputs /\ DOMAIN live' = DOMAIN live
         /\ \A j \in DOMAIN flags : Unblocked(j) => Unblocked(j)'
<1>1. /\ live' = live /\ next' = next /\ flags' = [flags EXCEPT ![i] = FALSE]
      /\ count' = Uncount(i) /\ pullCB' = KeptCB(i) /\ puller' = (puller \/ Wakes(i))
  BY DEF unblock
<1>2. Shape /\ flags \in [DOMAIN flags -> BOOLEAN] /\ DOMAIN flags' = DOMAIN flags
  BY <1>1 DEF RRInv, Shape
<1>3. Flagged' = Flagged \ {i} /\ Inputs' = Inputs
  BY <1>1, <1>2 DEF Flagged, Inputs
<1>4. Shape'
  BY <1>1, <1>2, <1>3 DEF Shape, Vector
<1>5. count' = Cardinality(Flagged')
  <2>1. IsFiniteSet(Flagged) /\ count = Cardinality(Flagged) /\ (flags[i] <=> i \in Flagged)
    BY <1>2, Sizes DEF RRInv, Blocked, Flagged
  <2>2. CASE flags[i]
    <3>1. Cardinality(Flagged \ {i}) = Cardinality(Flagged) - 1
      BY <2>1, <2>2, FS_RemoveElement
    <3> QED
      BY <1>1, <1>3, <2>1, <2>2, <3>1 DEF Uncount
  <2>3. CASE ~flags[i]
    <3>1. Flagged \ {i} = Flagged
      BY <2>1, <2>3
    <3> QED
      BY <1>1, <1>3, <2>1, <2>3, <3>1 DEF Uncount
  <2> QED
    BY <2>2, <2>3
<1>6. pullCB \in BOOLEAN /\ puller \in BOOLEAN /\ live[i] \in BOOLEAN
  BY <1>2 DEF RRInv, Types, Shape
<1>7. pullCB' \in BOOLEAN /\ puller' \in BOOLEAN
  BY <1>1, <1>6 DEF KeptCB, Wakes
<1>8. Asleep'
  <2>1. pullCB <=> ~puller
    BY DEF RRInv, Asleep
  <2>2. pullCB' <=> ~puller'
    BY <1>1, <1>6, <2>1 DEF KeptCB, Wakes
  <2>3. ASSUME ~puller' PROVE Inputs' \subseteq Flagged'
    <3>1. ~puller /\ ~live[i]
      BY <1>1, <1>6, <2>1, <2>3 DEF Wakes
    <3>2. i \notin Inputs /\ Inputs \subseteq Flagged
      BY <3>1 DEF Inputs, RRInv, Asleep
    <3> QED
      BY <1>3, <3>2
  <2> QED
    BY <2>2, <2>3 DEF Asleep
<1>9. ninputs' = ninputs
  BY <1>1 DEF ninputs
<1>10. \A j \in DOMAIN flags : Unblocked(j) => Unblocked(j)'
  BY <1>1, <1>2 DEF Unblocked
<1> QED
  BY <1>1, <1>3, <1>4, <1>5, <1>7, <1>8, <1>9, <1>10

\* A tuple arrives.
LEMMA ArriveInv ==
  ASSUME Bounds, RRInv, NEW i \in Ports, Arrive(i), removes' = removes
  PROVE  RRInv'
<1>0. /\ Shape /\ Types /\ Blocked /\ Asleep /\ Steady
      /\ i \in DOMAIN live /\ ~failed /\ q[i] < MaxQueue
      /\ q \in [Ports -> 0 .. MaxQueue] /\ MaxQueue \in Nat
  BY DEF RRInv, Arrive, Types, Bounds
<1>1. CASE i \in cb /\ i \notin DOMAIN flags
  <2>1. /\ failed' = TRUE /\ served' = None
        /\ UNCHANGED <<live, flags, count, next, pullCB, q, cb, timers, puller, skipped>>
    BY <1>1 DEF Arrive, Abort, element, world
  <2>2. removes
    BY <1>0, <1>1 DEF Steady, Shape
  <2> QED
    BY <1>0, <2>1, <2>2, Zenon
       DEF RRInv, Shape, Types, Blocked, Asleep, Steady, Flagged, Inputs, None, Vector
<1>2. CASE ~(i \in cb /\ i \notin DOMAIN flags)
  <2>1. /\ q' = [q EXCEPT ![i] = @ + 1] /\ cb' = cb \ {i} /\ served' = None
        /\ UNCHANGED <<timers, failed, skipped>>
    BY <1>2 DEF Arrive
  <2>2. /\ Shape' /\ Flagged' = (IF i \in cb THEN Flagged \ {i} ELSE Flagged)
        /\ Inputs' = Inputs /\ count' = Cardinality(Flagged') /\ Asleep'
        /\ pullCB' \in BOOLEAN /\ puller' \in BOOLEAN
        /\ next' = next /\ ninputs' = ninputs /\ DOMAIN live' = DOMAIN live
        /\ \A j \in DOMAIN flags : Unblocked(j) => Unblocked(j)'
    <3>1. CASE i \in cb
      <4>1. i \in DOMAIN flags /\ unblock(i)
        BY <1>2, <3>1 DEF Arrive
      <4> QED
        BY <3>1, <4>1, UnblockFlags
    <3>2. CASE i \notin cb
      <4>1. UNCHANGED <<live, flags, count, next, pullCB, puller>>
        BY <3>2 DEF Arrive, element
      <4> QED
        BY <1>0, <3>2, <4>1
           DEF Shape, Types, Blocked, Asleep, Flagged, Inputs, ninputs, Unblocked, Vector
    <3> QED
      BY <3>1, <3>2
  <2>3. /\ q' \in [Ports -> 0 .. MaxQueue] /\ q'[i] > 0
        /\ \A j \in Ports \ {i} : q'[j] = q[j]
    BY <1>0, <2>1
  <2>4. Types'
    BY <1>0, <2>1, <2>2, <2>3, Zenon DEF Types, Ports
  <2>5. Blocked'
    <3>1. ASSUME NEW j \in Flagged' PROVE j \in timers' \/ (j \in cb' /\ q'[j] = 0)
      <4>1. j \in Flagged /\ j \in Ports /\ (j = i => i \notin cb)
        BY <1>0, <2>2, Sizes DEF Flagged, Shape
      <4>2. j \in timers \/ (j \in cb /\ q[j] = 0)
        BY <1>0, <4>1 DEF Blocked
      <4> QED
        BY <2>1, <2>3, <4>1, <4>2
    <3> QED
      BY <2>2, <3>1 DEF Blocked
  <2>6. Steady'
    <3> SUFFICES ASSUME ~removes PROVE Steady'
      BY DEF Steady
    <3>1. /\ ~failed /\ Inputs = DOMAIN live /\ next < ninputs /\ timers \subseteq DOMAIN live
          /\ \A j \in Ports : skipped[j] > 0 => j \in DOMAIN live /\ Unblocked(j) /\ q[j] > 0
          /\ \A j \in DOMAIN live : skipped[j] + Turn(j) < ninputs
      BY <1>0 DEF Steady
    <3>2. \A j : Turn(j)' = Turn(j)
      BY <2>2 DEF Turn
    <3>3. DOMAIN live \subseteq DOMAIN flags
      BY <1>0, <3>1 DEF Shape
    <3>4. \A j \in Ports : skipped'[j] > 0 => j \in DOMAIN live' /\ Unblocked(j)' /\ q'[j] > 0
      BY <2>1, <2>2, <2>3, <3>1, <3>3
    <3> QED
      BY <2>1, <2>2, <3>1, <3>2, <3>4 DEF Steady
  <2> QED
    BY <2>2, <2>4, <2>5, <2>6 DEF RRInv
<1> QED
  BY <1>1, <1>2

\* An assertion that fails when inputs are removed changes nothing else.
LEMMA AbortInv ==
  ASSUME RRInv, Abort, removes, removes' = removes
  PROVE  RRInv'
<1>1. /\ failed' = TRUE /\ served' = None
      /\ UNCHANGED <<live, flags, count, next, pullCB, q, cb, timers, puller, skipped>>
  BY DEF Abort, element, world
<1> QED
  BY <1>1 DEF RRInv, Shape, Types, Blocked, Asleep, Steady, Flagged, Inputs, None, Vector

\* The timer of an input that was added.
LEMMA TimerInv ==
  ASSUME Bounds, RRInv, NEW i \in timers, Timer(i), removes' = removes
  PROVE  RRInv'
<1>0. Shape /\ Types /\ Blocked /\ Asleep /\ Steady /\ ~failed
  BY DEF RRInv, Timer
<1>1. CASE i \notin DOMAIN flags
  <2>1. removes
    BY <1>0, <1>1 DEF Steady, Shape
  <2> QED
    BY <1>1, <2>1, AbortInv DEF Timer
<1>2. CASE i \in DOMAIN flags
  <2>1. unblock(i) /\ timers' = timers \ {i} /\ served' = None
        /\ UNCHANGED <<q, cb, failed, skipped>>
    BY <1>2 DEF Timer
  <2>2. /\ Shape' /\ Flagged' = Flagged \ {i}
        /\ Inputs' = Inputs /\ count' = Cardinality(Flagged') /\ Asleep'
        /\ pullCB' \in BOOLEAN /\ puller' \in BOOLEAN
        /\ next' = next /\ ninputs' = ninputs /\ DOMAIN live' = DOMAIN live
        /\ \A j \in DOMAIN flags : Unblocked(j) => Unblocked(j)'
    BY <1>2, <2>1, UnblockFlags
  <2>3. Types'
    BY <1>0, <2>1, <2>2 DEF Types, Ports
  <2>4. Blocked'
    BY <1>0, <2>1, <2>2 DEF Blocked
  <2>5. Steady'
    <3> SUFFICES ASSUME ~removes PROVE Steady'
      BY DEF Steady
    <3>1. /\ ~failed /\ Inputs = DOMAIN live /\ next < ninputs /\ timers \subseteq DOMAIN live
          /\ \A j \in Ports : skipped[j] > 0 => j \in DOMAIN live /\ Unblocked(j) /\ q[j] > 0
          /\ \A j \in DOMAIN live : skipped[j] + Turn(j) < ninputs
      BY <1>0 DEF Steady
    <3>2. \A j : Turn(j)' = Turn(j)
      BY <2>2 DEF Turn
    <3>3. DOMAIN live \subseteq DOMAIN flags
      BY <1>0, <3>1 DEF Shape
    <3>4. \A j \in Ports : skipped'[j] > 0 => j \in DOMAIN live' /\ Unblocked(j)' /\ q'[j] > 0
      BY <2>1, <2>2, <3>1, <3>3
    <3> QED
      BY <2>1, <2>2, <3>1, <3>2, <3>4 DEF Steady
  <2> QED
    BY <2>2, <2>3, <2>4, <2>5 DEF RRInv
<1> QED
  BY <1>1, <1>2

\* Inputs that had no tuple are flagged, are counted, and have a callback.
LEMMA BlockFlags ==
  ASSUME Bounds, RRInv, NEW S, Block(S), S \subseteq DOMAIN live, live' = live,
         \A i \in S : ~(Unblocked(i) /\ q[i] > 0)
  PROVE  /\ Shape' /\ Inputs' = Inputs /\ ninputs' = ninputs
         /\ Flagged' = Flagged \cup {i \in S : Unblocked(i)}
         /\ Cardinality(Flagged') = count + Cardinality({i \in S : Unblocked(i)})
         /\ count' = Cardinality(Flagged')
         /\ cb \subseteq cb' /\ cb' \subseteq Ports
         /\ \A i \in Flagged' : i \in timers \/ (i \in cb' /\ q[i] = 0)
         /\ \A i \in DOMAIN flags \ S : Unblocked(i) => Unblocked(i)'
<1> DEFINE B == {i \in S : Unblocked(i)}
<1>1. /\ flags' = [i \in DOMAIN flags |-> flags[i] \/ i \in B]
      /\ count' = count + Cardinality(B) /\ cb' = cb \cup B
  BY DEF Block
<1>2. Shape /\ Types /\ Blocked
  BY DEF RRInv
<1>3. B \subseteq Inputs /\ B \cap Flagged = {} /\ B \subseteq S
  BY DEF Inputs, Flagged, Unblocked
<1>4. /\ IsFiniteSet(Inputs) /\ IsFiniteSet(Flagged) /\ Inputs \subseteq Ports
      /\ Cardinality(Flagged) \in Nat
  BY <1>2, Sizes, FS_CardinalityType
<1>5. Inputs' = Inputs /\ ninputs' = ninputs
  BY DEF Inputs, ninputs
<1> HIDE DEF B
<1>6. Flagged' = Flagged \cup B
  BY <1>1, <1>2, <1>3, Zenon DEF Flagged, Shape
<1>7. Shape'
  BY <1>1, <1>2, <1>3, <1>5, <1>6 DEF Shape, Vector
<1>8. Cardinality(Flagged') = count + Cardinality(B)
  <2>1. IsFiniteSet(B) /\ Cardinality(B) \in Nat
    BY <1>3, <1>4, FS_Subset, FS_CardinalityType
  <2>2. Cardinality(Flagged \cup B) = Cardinality(Flagged) + Cardinality(B)
    <3>1. Cardinality(Flagged \cap B) = 0
      <4>1. Flagged \cap B = {}
        BY <1>3
      <4> QED
        BY <4>1, FS_EmptySet
    <3>2. Cardinality(Flagged \cup B) =
            Cardinality(Flagged) + Cardinality(B) - Cardinality(Flagged \cap B)
      BY <1>4, <2>1, FS_Union
    <3> QED
      BY <1>4, <2>1, <3>1, <3>2
  <2> QED
    BY <1>2, <1>6, <2>2 DEF Blocked
<1>9. cb \subseteq cb' /\ cb' \subseteq Ports
  BY <1>1, <1>2, <1>3, <1>4 DEF Types
<1>10. \A i \in B : q[i] = 0
  BY <1>2, <1>3, <1>4 DEF B, Types, Bounds
<1>11. \A i \in Flagged' : i \in timers \/ (i \in cb' /\ q[i] = 0)
  BY <1>1, <1>2, <1>6, <1>10 DEF Blocked
<1>12. \A i \in DOMAIN flags \ S : Unblocked(i) => Unblocked(i)'
  BY <1>1, <1>3, Zenon DEF Unblocked
<1> QED
  BY <1>1, <1>5, <1>6, <1>7, <1>8, <1>9, <1>11, <1>12 DEF B

\* How far port y is ahead of port z in a circle of n.
Ahead(y, z, n) == IF y >= z THEN y - z ELSE y - z + n

\* In a circle of n, the k-th visit from x is to i, and the next search begins at z.
Visits(n, x, k, i, z) ==
  /\ n \in Nat /\ n > 0 /\ x \in 0 .. n - 1 /\ k \in 0 .. n - 1
  /\ i = (x + k) % n /\ z = (i + 1) % n

\* Without holes, the turn of a port is the visit that reaches it, and what serves the
\* k-th visit takes k + 1 off the turns of the ports after it.
LEMMA Turns ==
  ASSUME NEW n, NEW x, NEW k, NEW i, NEW z, Visits(n, x, k, i, z), NEW j \in 0 .. n - 1
  PROVE  /\ i \in 0 .. n - 1 /\ z \in 0 .. n - 1 /\ Ahead(i, x, n) = k
         /\ Ahead(j, x, n) \in 0 .. n - 1 /\ (x + Ahead(j, x, n)) % n = j
         /\ Ahead(j, z, n) \in 0 .. n - 1
         /\ Ahead(j, x, n) > k => Ahead(j, z, n) = Ahead(j, x, n) - k - 1
<1>0. /\ n \in Nat /\ n > 0 /\ x \in 0 .. n - 1 /\ k \in 0 .. n - 1
      /\ i = (x + k) % n /\ z = (i + 1) % n
  BY DEF Visits
<1>1. i = IF x + k < n THEN x + k ELSE x + k - n
  BY <1>0, Wrap
<1>2. i \in 0 .. n - 1
  BY <1>0, <1>1
<1>3. z = IF i + 1 < n THEN i + 1 ELSE 0
  <2>1. i + 1 \in 0 .. 2 * n - 1
    BY <1>0, <1>2
  <2> QED
    BY <1>0, <1>2, <2>1, Wrap
<1>4. Ahead(j, x, n) \in 0 .. n - 1
  BY <1>0 DEF Ahead
<1>5. (x + Ahead(j, x, n)) % n = j
  <2> DEFINE y == x + Ahead(j, x, n)
  <2>1. y \in 0 .. 2 * n - 1 /\ j = IF y < n THEN y ELSE y - n
    BY <1>0 DEF Ahead
  <2> HIDE DEF y
  <2>2. y % n = IF y < n THEN y ELSE y - n
    BY <1>0, <2>1, Wrap
  <2> QED
    BY <2>1, <2>2 DEF y
<1>6. z \in 0 .. n - 1 /\ Ahead(i, x, n) = k /\ Ahead(j, z, n) \in 0 .. n - 1
  BY <1>0, <1>1, <1>2, <1>3 DEF Ahead
<1>7. Ahead(j, x, n) > k => Ahead(j, z, n) = Ahead(j, x, n) - k - 1
  BY <1>0, <1>1, <1>2, <1>3 DEF Ahead
<1> QED
  BY <1>2, <1>4, <1>5, <1>6, <1>7

\* The same of the element.
LEMMA SteadyTurns ==
  ASSUME Bounds, RRInv, ~removes, NEW k \in 0 .. ninputs - 1, NEW j \in DOMAIN live
  PROVE  /\ DOMAIN live = 0 .. ninputs - 1 /\ ninputs \in Nat /\ ninputs > 0
         /\ Current(k) \in DOMAIN live /\ Turn(Current(k)) = k
         /\ Turn(j) \in 0 .. ninputs - 1 /\ Current(Turn(j)) = j
         /\ Successor(Current(k)) \in 0 .. ninputs - 1
         /\ ninputs' = ninputs /\ next' = Successor(Current(k)) =>
              /\ Turn(j)' \in 0 .. ninputs - 1
              /\ Turn(j) > k => Turn(j)' = Turn(j) - k - 1
<1>1. /\ DOMAIN live = 0 .. ninputs - 1 /\ ninputs \in Nat /\ ninputs > 0
      /\ next \in 0 .. ninputs - 1
  <2>1. Shape /\ Inputs = DOMAIN live /\ next < ninputs /\ next \in Ports
    BY DEF RRInv, Steady, Types
  <2>2. ninputs \in 0 .. MaxPorts /\ DOMAIN live = 0 .. ninputs - 1
    BY <2>1, Sizes
  <2>3. MaxPorts \in Nat /\ next \in 0 .. MaxPorts - 1
    BY <2>1 DEF Bounds, Ports
  <2> QED
    BY <2>1, <2>2, <2>3
<1>2. j \in 0 .. ninputs - 1
  BY <1>1
<1> DEFINE n == ninputs
           i == (next + k) % n
           z == (i + 1) % n
<1>3. /\ i \in 0 .. n - 1 /\ z \in 0 .. n - 1 /\ Ahead(i, next, n) = k
      /\ Ahead(j, next, n) \in 0 .. n - 1 /\ (next + Ahead(j, next, n)) % n = j
      /\ Ahead(j, z, n) \in 0 .. n - 1
      /\ Ahead(j, next, n) > k => Ahead(j, z, n) = Ahead(j, next, n) - k - 1
  <2>1. n \in Nat /\ n > 0 /\ next \in 0 .. n - 1 /\ k \in 0 .. n - 1 /\ j \in 0 .. n - 1
    BY <1>1, <1>2
  <2>2. Visits(n, next, k, i, z)
    BY <2>1 DEF Visits
  <2> HIDE DEF n, i, z
  <2> QED
    BY <2>1, <2>2, Turns
<1>4. /\ Current(k) = i /\ Successor(i) = z
      /\ Turn(j) = Ahead(j, next, n) /\ Turn(i) = Ahead(i, next, n)
  BY DEF Current, Successor, Turn, Ahead
<1>5. Current(Turn(j)) = (next + Ahead(j, next, n)) % n
  BY <1>4 DEF Current
<1>6. ninputs' = ninputs /\ next' = z => Turn(j)' = Ahead(j, z, n)
  BY DEF Turn, Ahead
<1> HIDE DEF i, z, n
<1> QED
  BY <1>1, <1>3, <1>4, <1>5, <1>6 DEF n

\* A tuple is served.
LEMMA ServeInv ==
  ASSUME Bounds, RRInv, puller, ~failed, ~pullCB, ninputs > 0, removes' = removes,
         NEW k \in 0 .. ninputs - 1, Serve(k)
  PROVE  RRInv'
<1> DEFINE i == Current(k)
           S == Visited(k) \ {i}
<1>0. Shape /\ Types /\ Blocked /\ Asleep /\ Steady
  BY DEF RRInv
<1>1. /\ ninputs \in Nat /\ ninputs <= MaxPorts /\ MaxPorts \in Nat /\ MaxQueue \in Nat
      /\ q \in [Ports -> 0 .. MaxQueue] /\ skipped \in [Ports -> 0 .. MaxPorts]
      /\ DOMAIN live \subseteq Ports
  BY <1>0, Sizes DEF Types, Bounds
<1>2. i \in DOMAIN live /\ i \in 0 .. ninputs - 1 /\ i \in Ports
  BY <1>0, <1>1, CurrentPort
<1>3. /\ Unblocked(i) /\ q[i] > 0
      /\ \A j \in 0 .. k - 1 : ~(Unblocked(Current(j)) /\ q[Current(j)] > 0)
      /\ Block(S) /\ next' = Successor(i) /\ q' = [q EXCEPT ![i] = @ - 1] /\ served' = i
      /\ skipped' = [j \in Ports |->
           IF j # i /\ j \in DOMAIN flags /\ Unblocked(j) /\ q[j] > 0
           THEN (IF skipped[j] < MaxPorts THEN skipped[j] + 1 ELSE MaxPorts) ELSE 0]
      /\ UNCHANGED <<live, pullCB, puller, timers, failed>>
  BY DEF Serve
<1>4. S \subseteq DOMAIN live /\ \A x \in S : ~(Unblocked(x) /\ q[x] > 0)
  <2> SUFFICES ASSUME NEW x \in S
               PROVE  x \in DOMAIN live /\ ~(Unblocked(x) /\ q[x] > 0)
    OBVIOUS
  <2>1. PICK j \in 0 .. k : x = Current(j)
    BY DEF Visited
  <2>2. j \in 0 .. k - 1 /\ j \in Nat
    BY <2>1
  <2> QED
    BY <1>0, <1>3, <2>1, <2>2, CurrentPort
<1> HIDE DEF i, S
<1>5. /\ Shape' /\ Inputs' = Inputs /\ ninputs' = ninputs
      /\ Flagged' = Flagged \cup {x \in S : Unblocked(x)}
      /\ count' = Cardinality(Flagged') /\ cb' \subseteq Ports
      /\ \A x \in Flagged' : x \in timers \/ (x \in cb' /\ q[x] = 0)
      /\ \A x \in DOMAIN flags \ S : Unblocked(x) => Unblocked(x)'
  BY <1>3, <1>4, BlockFlags, Zenon
<1>6. q' \in [Ports -> 0 .. MaxQueue] /\ \A x \in Ports \ {i} : q'[x] = q[x]
  BY <1>1, <1>2, <1>3
<1>7. next' \in 0 .. ninputs - 1
  <2>1. \A a, n \in Nat : n > 0 => a % n \in 0 .. n - 1
    OBVIOUS
  <2>2. i + 1 \in Nat
    BY <1>1, <1>2
  <2> QED
    BY <1>1, <1>3, <2>1, <2>2 DEF Successor
<1>8. skipped' \in [Ports -> 0 .. MaxPorts]
  BY <1>1, <1>3
<1>9. Types'
  <2>1. next' \in Ports
    BY <1>1, <1>7 DEF Ports
  <2> QED
    BY <1>0, <1>2, <1>3, <1>5, <1>6, <1>8, <2>1 DEF Types, Ports
<1>10. Blocked'
  <2>1. i \notin Flagged'
    BY <1>3, <1>5 DEF S, i, Unblocked, Flagged
  <2>2. \A x \in Flagged' : x \in Ports /\ x # i
    BY <1>1, <1>5, <2>1 DEF Shape, Flagged, Inputs
  <2> QED
    BY <1>3, <1>5, <1>6, <2>2 DEF Blocked
<1>11. Asleep'
  BY <1>3 DEF Asleep
<1>12. Steady'
  <2> SUFFICES ASSUME ~removes PROVE Steady'
    BY DEF Steady
  <2>1. /\ ~failed /\ Inputs = DOMAIN live /\ timers \subseteq DOMAIN live
        /\ \A j \in DOMAIN live : skipped[j] + Turn(j) < ninputs
    BY <1>0 DEF Steady
  <2>2. \A j \in DOMAIN live :
          /\ Turn(j) \in 0 .. ninputs - 1 /\ Current(Turn(j)) = j
          /\ Turn(j)' \in 0 .. ninputs - 1
          /\ Turn(j) > k => Turn(j)' = Turn(j) - k - 1
    BY <1>3, <1>5, SteadyTurns DEF i
  <2>3. \A j \in Ports : skipped'[j] > 0 => j \in DOMAIN live' /\ Unblocked(j)' /\ q'[j] > 0
    <3> SUFFICES ASSUME NEW j \in Ports, skipped'[j] > 0
                 PROVE  j \in DOMAIN live' /\ Unblocked(j)' /\ q'[j] > 0
      OBVIOUS
    <3>1. j # i /\ j \in DOMAIN flags /\ Unblocked(j) /\ q[j] > 0
      BY <1>3
    <3>2. j \notin S /\ j \in DOMAIN live
      BY <1>0, <1>4, <3>1 DEF Shape
    <3> QED
      BY <1>3, <1>5, <1>6, <3>1, <3>2
  <2>4. ASSUME NEW j \in DOMAIN live PROVE skipped'[j] + Turn(j)' < ninputs
    <3>1. CASE skipped'[j] = 0
      BY <1>1, <2>2, <3>1
    <3>2. CASE skipped'[j] # 0
      <4>1. /\ j # i /\ Unblocked(j) /\ q[j] > 0 /\ skipped[j] \in Nat /\ skipped[j] < MaxPorts
            /\ skipped'[j] = skipped[j] + 1
        BY <1>1, <1>3, <2>1, <2>2, <3>2
      <4>2. Turn(j) \notin 0 .. k - 1
        BY <1>3, <2>2, <4>1
      <4>3. Turn(j) # k
        BY <2>2, <4>1 DEF i
      <4>4. Turn(j) > k
        BY <1>1, <2>2, <4>2, <4>3
      <4> QED
        BY <1>1, <2>1, <2>2, <4>1, <4>4
    <3> QED
      BY <3>1, <3>2
  <2>5. next' < ninputs'
    BY <1>1, <1>5, <1>7
  <2>6. ~failed' /\ Inputs' = DOMAIN live' /\ timers' \subseteq DOMAIN live'
    BY <1>3, <1>5, <2>1
  <2>7. \A j \in DOMAIN live' : skipped'[j] + Turn(j)' < ninputs'
    BY <1>3, <1>5, <2>4
  <2> QED
    BY <2>3, <2>5, <2>6, <2>7, Zenon DEF Steady
<1> QED
  BY <1>5, <1>9, <1>10, <1>11, <1>12 DEF RRInv

\* No input has a tuple.
LEMMA RunsDryInv ==
  ASSUME Bounds, RRInv, puller, ~failed, ~pullCB, ninputs > 0, removes' = removes, RunsDry
  PROVE  RRInv'
<1> DEFINE V == Visited(ninputs - 1)
           B == {i \in V : Unblocked(i)}
<1>0. Shape /\ Types /\ Blocked /\ Asleep /\ Steady
  BY DEF RRInv
<1>1. /\ ninputs \in Nat /\ ninputs <= MaxPorts /\ MaxPorts \in Nat
      /\ IsFiniteSet(Inputs) /\ IsFiniteSet(Flagged) /\ ninputs = Cardinality(Inputs)
      /\ count = Cardinality(Flagged) /\ Cardinality(Flagged) \in Nat
      /\ Flagged \subseteq Inputs
  BY <1>0, Sizes, FS_CardinalityType DEF Bounds, Blocked, Shape
<1>2. V \subseteq DOMAIN live
  BY <1>0, <1>1, CurrentPort DEF Visited
<1>3. \A i \in V : ~(Unblocked(i) /\ q[i] > 0)
  BY DEF RunsDry
<1>4. ~removes => V = DOMAIN live
  <2> SUFFICES ASSUME ~removes, NEW j \in DOMAIN live PROVE j \in V
    BY <1>2
  <2>1. 0 \in 0 .. ninputs - 1
    BY <1>1
  <2>2. Turn(j) \in 0 .. ninputs - 1 /\ Current(Turn(j)) = j
    BY <2>1, SteadyTurns
  <2> QED
    BY <2>2 DEF Visited
<1>5. CASE count + Cardinality(B) # ninputs
  <2>1. Abort
    BY <1>5 DEF RunsDry
  <2>2. ASSUME ~removes PROVE FALSE
    <3>1. V = DOMAIN live /\ Inputs = DOMAIN live
      BY <1>0, <1>4, <2>2 DEF Steady
    <3>2. B = Inputs \ Flagged
      BY <1>0, <3>1 DEF Unblocked, Inputs, Flagged, Shape
    <3>3. Inputs \cap Flagged = Flagged
      BY <1>1
    <3> HIDE DEF B
    <3>4. Cardinality(B) = Cardinality(Inputs) - Cardinality(Flagged)
      BY <1>1, <3>2, <3>3, FS_Difference
    <3> QED
      BY <1>1, <1>5, <3>4
  <2> QED
    BY <2>1, <2>2, AbortInv
<1>6. CASE count + Cardinality(B) = ninputs
  <2>1. /\ Block(V) /\ pullCB' = TRUE /\ puller' = FALSE /\ served' = None
        /\ UNCHANGED <<live, q, timers, failed, skipped>>
        /\ \E k \in 0 .. ninputs - 1 : next' = Successor(Current(k))
    BY <1>6 DEF RunsDry
  <2>2. PICK k \in 0 .. ninputs - 1 : next' = Successor(Current(k))
    BY <2>1
  <2> HIDE DEF V
  <2>3. /\ Shape' /\ Inputs' = Inputs /\ ninputs' = ninputs
        /\ Cardinality(Flagged') = count + Cardinality(B)
        /\ count' = Cardinality(Flagged') /\ cb' \subseteq Ports
        /\ \A x \in Flagged' : x \in timers \/ (x \in cb' /\ q[x] = 0)
    BY <1>2, <1>3, <2>1, BlockFlags, Zenon
  <2>4. next' \in 0 .. ninputs - 1
    <3>1. \A a, n \in Nat : n > 0 => a % n \in 0 .. n - 1
      OBVIOUS
    <3>2. Current(k) \in 0 .. ninputs - 1
      BY <1>0, <2>2, CurrentPort
    <3>3. Current(k) + 1 \in Nat
      BY <1>1, <3>2
    <3> QED
      BY <1>1, <2>2, <3>1, <3>3 DEF Successor
  <2>5. Types'
    <3>1. next' \in Ports
      BY <1>1, <2>4 DEF Ports
    <3> QED
      BY <1>0, <2>1, <2>3, <3>1, Zenon DEF Types, Ports
  <2>6. Blocked'
    BY <2>1, <2>3 DEF Blocked
  <2>7. Asleep'
    <3>1. Shape' => (Cardinality(Flagged') = ninputs' => Flagged' = Inputs')
      <4>1. Flagged' \subseteq Inputs' /\ IsFiniteSet(Inputs') /\ ninputs' = Cardinality(Inputs')
        BY <1>1, <2>3 DEF Shape
      <4> QED
        BY <4>1, FS_Subset
    <3> QED
      BY <1>6, <2>1, <2>3, <3>1 DEF Asleep
  <2>8. Steady'
    <3> SUFFICES ASSUME ~removes PROVE Steady'
      BY DEF Steady
    <3>1. /\ ~failed /\ Inputs = DOMAIN live /\ timers \subseteq DOMAIN live
          /\ \A j \in Ports : skipped[j] > 0 => j \in DOMAIN live /\ Unblocked(j) /\ q[j] > 0
      BY <1>0 DEF Steady
    <3>2. \A j \in Ports : skipped[j] = 0
      BY <1>0, <1>3, <1>4, <3>1 DEF Types, Bounds
    <3>3. \A j \in DOMAIN live : Turn(j)' \in 0 .. ninputs - 1
      BY <2>2, <2>3, SteadyTurns
    <3>4. DOMAIN live \subseteq Ports
      BY <1>0, Sizes
    <3>5. \A j \in DOMAIN live : skipped'[j] + Turn(j)' < ninputs
      BY <1>1, <2>1, <3>2, <3>3, <3>4
    <3>6. next' < ninputs'
      BY <1>1, <2>3, <2>4
    <3> QED
      BY <2>1, <2>3, <3>1, <3>2, <3>5, <3>6 DEF Steady
  <2> QED
    BY <2>3, <2>5, <2>6, <2>7, <2>8 DEF RRInv
<1> QED
  BY <1>5, <1>6

\* pull.
LEMMA PullInv ==
  ASSUME Bounds, RRInv, Pull, removes' = removes
  PROVE  RRInv'
<1>0. Shape /\ Types /\ Blocked /\ Asleep /\ Steady
  BY DEF RRInv
<1>1. puller /\ ~failed /\ ~pullCB
  BY <1>0 DEF Pull, Asleep
<1>2. /\ count = Cardinality(Flagged) /\ count \in 0 .. ninputs /\ ninputs \in Nat
      /\ count = ninputs => Flagged = Inputs
  BY <1>0, Sizes DEF Blocked, Bounds
<1>3. CASE count = ninputs
  <2>1. /\ pullCB' = TRUE /\ puller' = FALSE /\ served' = None
        /\ UNCHANGED <<live, flags, count, next, q, cb, timers, failed, skipped>>
    BY <1>3 DEF Pull, Refuse
  <2>2. UNCHANGED <<Flagged, Inputs, ninputs>>
    BY <2>1 DEF Flagged, Inputs, ninputs
  <2>3. Shape'
    BY <1>0, <2>1, <2>2 DEF Shape, Vector
  <2>4. Types' /\ Blocked'
    BY <1>0, <2>1, <2>2, Zenon DEF Types, Blocked, Ports
  <2>5. Asleep'
    BY <1>2, <1>3, <2>1, <2>2 DEF Asleep
  <2>6. Steady'
    BY <1>0, <2>1, <2>2 DEF Steady, Turn, Unblocked
  <2> QED
    BY <2>3, <2>4, <2>5, <2>6 DEF RRInv
<1>4. CASE count # ninputs
  <2>1. ninputs > 0
    BY <1>2, <1>4
  <2>2. RunsDry \/ \E k \in 0 .. ninputs - 1 : Serve(k)
    BY <1>1, <1>4 DEF Pull
  <2> QED
    BY <1>1, <2>1, <2>2, RunsDryInv, ServeInv
<1> QED
  BY <1>3, <1>4

\* A vector with one more index, or with its last one removed, is a vector.
LEMMA VectorGrows ==
  ASSUME Bounds, NEW D, Vector(D), NEW i \in Ports, 0 .. i - 1 \subseteq D
  PROVE  Vector(D \cup {i})
<1>1. PICK n \in 0 .. MaxPorts : D = 0 .. n - 1
  BY DEF Vector
<1>2. n \in Nat /\ MaxPorts \in Nat /\ i \in Nat /\ i + 1 <= MaxPorts
  BY <1>1 DEF Bounds, Ports
<1>3. i <= n
  BY <1>1, <1>2
<1>4. CASE i < n
  <2>1. D \cup {i} = 0 .. n - 1
    BY <1>1, <1>2, <1>4
  <2> QED
    BY <2>1 DEF Vector
<1>5. CASE i = n
  <2>1. D \cup {i} = 0 .. (i + 1) - 1 /\ i + 1 \in 0 .. MaxPorts
    BY <1>1, <1>2, <1>5
  <2> QED
    BY <2>1 DEF Vector
<1> QED
  BY <1>2, <1>3, <1>4, <1>5

\* The last port of a vector may go (remove_input trims it).
LEMMA VectorShrinks ==
  ASSUME Bounds, NEW D, Vector(D), NEW i \in D, i + 1 = Cardinality(D)
  PROVE  Vector(D \ {i})
<1>1. D = 0 .. Cardinality(D) - 1 /\ Cardinality(D) \in 0 .. MaxPorts /\ MaxPorts \in Nat
  BY VectorSize DEF Bounds
<1>2. i \in Nat /\ i \in 0 .. MaxPorts /\ D \ {i} = 0 .. i - 1
  BY <1>1
<1> QED
  BY <1>2 DEF Vector

\* An input is added, in a hole or at the end.
LEMMA AddInputInv ==
  ASSUME Bounds, RRInv, NEW i \in Ports, add_input(i), removes' = removes
  PROVE  RRInv'
<1>0. Shape /\ Types /\ Blocked /\ Asleep /\ Steady
  BY DEF RRInv
<1>1. /\ ~failed /\ FreePort(i)
      /\ live' = [j \in DOMAIN live \cup {i} |-> j = i \/ live[j]]
      /\ flags' = [j \in DOMAIN flags \cup {i} |-> j = i \/ flags[j]]
      /\ count' = count + 1 /\ q' = [q EXCEPT ![i] = 0] /\ cb' = cb \ {i}
      /\ timers' = timers \cup {i}
      /\ served' = None /\ skipped' = [skipped EXCEPT ![i] = 0]
      /\ UNCHANGED <<next, pullCB, puller, failed>>
  BY DEF add_input, Schedules
<1>2. /\ DOMAIN live = 0 .. Cardinality(DOMAIN live) - 1
      /\ Cardinality(DOMAIN live) \in Nat /\ i \in Nat
      /\ Inputs \subseteq DOMAIN flags /\ DOMAIN flags \subseteq DOMAIN live
      /\ MaxPorts \in Nat
  BY <1>0, VectorSize DEF Shape, Bounds, Ports
<1>3. i \notin Inputs /\ 0 .. i - 1 \subseteq Inputs
  <2>1. CASE i \in DOMAIN live /\ ~live[i] /\ \A j \in 0 .. i - 1 : live[j]
    BY <1>2, <2>1 DEF Inputs
  <2>2. CASE i = Cardinality(DOMAIN live) /\ \A j \in DOMAIN live : live[j]
    BY <1>2, <2>2 DEF Inputs
  <2> QED
    BY <1>1, <2>1, <2>2 DEF FreePort
<1>4. Inputs' = Inputs \cup {i} /\ Flagged' = Flagged \cup {i}
  BY <1>1, Zenon DEF Inputs, Flagged
<1>5. Shape'
  <2>1. Vector(DOMAIN live \cup {i}) /\ Vector(DOMAIN flags \cup {i})
    BY <1>0, <1>2, <1>3, VectorGrows DEF Shape
  <2>2. DOMAIN live' = DOMAIN live \cup {i} /\ DOMAIN flags' = DOMAIN flags \cup {i}
    BY <1>1
  <2>3. Vector(DOMAIN live)' /\ Vector(DOMAIN flags)'
    BY <2>1, <2>2 DEF Vector
  <2>4. live' \in [DOMAIN live' -> BOOLEAN] /\ flags' \in [DOMAIN flags' -> BOOLEAN]
    BY <1>0, <1>1, <2>2 DEF Shape
  <2>5. Flagged \subseteq Inputs
    BY <1>0 DEF Shape
  <2> QED
    BY <1>2, <1>4, <2>2, <2>3, <2>4, <2>5 DEF Shape
<1>6. /\ IsFiniteSet(Inputs) /\ IsFiniteSet(Flagged) /\ Flagged \subseteq Inputs
      /\ ninputs = Cardinality(Inputs) /\ count = Cardinality(Flagged)
  BY <1>0, Sizes DEF Blocked, Shape
<1>7. ninputs' = ninputs + 1
  <2>1. ninputs' = Cardinality(Inputs')
    BY DEF ninputs, Inputs
  <2>2. Cardinality(Inputs \cup {i}) = Cardinality(Inputs) + 1
    BY <1>3, <1>6, FS_AddElement, Zenon
  <2> QED
    BY <1>4, <1>6, <2>1, <2>2
<1>8. count' = Cardinality(Flagged')
  <2>1. Cardinality(Flagged \cup {i}) = Cardinality(Flagged) + 1
    BY <1>3, <1>6, FS_AddElement, Zenon
  <2> QED
    BY <1>1, <1>4, <1>6, <2>1
<1>9. q' \in [Ports -> 0 .. MaxQueue] /\ skipped' \in [Ports -> 0 .. MaxPorts]
  BY <1>0, <1>1, <1>2 DEF Types, Bounds
<1>10. Types'
  BY <1>0, <1>1, <1>9 DEF Types, Ports
<1>11. Blocked'
  <2>1. ASSUME NEW j \in Flagged' PROVE j \in timers' \/ (j \in cb' /\ q'[j] = 0)
    <3>1. CASE j = i
      BY <1>1, <3>1
    <3>2. CASE j # i
      <4>1. j \in Flagged /\ j \in Ports
        BY <1>0, <1>4, <3>2, Sizes DEF Shape
      <4> QED
        BY <1>0, <1>1, <3>2, <4>1 DEF Blocked, Types
    <3> QED
      BY <3>1, <3>2
  <2> QED
    BY <1>8, <2>1 DEF Blocked
<1>12. Asleep'
  BY <1>0, <1>1, <1>4 DEF Asleep
<1>13. Steady'
  <2> SUFFICES ASSUME ~removes PROVE Steady'
    BY DEF Steady
  <2>1. /\ Inputs = DOMAIN live /\ next < ninputs /\ timers \subseteq DOMAIN live
        /\ \A j \in Ports : skipped[j] > 0 => j \in DOMAIN live /\ Unblocked(j) /\ q[j] > 0
        /\ \A j \in DOMAIN live : skipped[j] + Turn(j) < ninputs
    BY <1>0 DEF Steady
  <2>2. /\ DOMAIN live = 0 .. ninputs - 1 /\ ninputs \in Nat /\ DOMAIN live \subseteq Ports
        /\ i = ninputs /\ next \in Nat
    <3>1. DOMAIN live = 0 .. ninputs - 1 /\ ninputs \in Nat /\ DOMAIN live \subseteq Ports
      BY <1>0, <2>1, Sizes DEF Bounds
    <3>2. next \in Nat
      BY <1>0 DEF Types, Ports
    <3>3. i \notin 0 .. ninputs - 1 /\ 0 .. i - 1 \subseteq 0 .. ninputs - 1
      BY <1>3, <2>1, <3>1
    <3>4. i = ninputs
      BY <1>2, <3>1, <3>3
    <3> QED
      BY <3>1, <3>2, <3>4
  <2>3. DOMAIN live' = DOMAIN live \cup {i} /\ Inputs' = DOMAIN live'
    BY <1>1, <1>4, <2>1
  <2>4. ASSUME NEW j \in Ports, skipped'[j] > 0
        PROVE  j \in DOMAIN live' /\ Unblocked(j)' /\ q'[j] > 0
    <3>1. j # i /\ skipped[j] > 0
      BY <1>0, <1>1, <2>4 DEF Types
    <3>2. j \in DOMAIN live /\ Unblocked(j) /\ q[j] > 0 /\ j \in DOMAIN flags
      BY <1>2, <2>1, <3>1
    <3>3. q'[j] = q[j]
      BY <1>0, <1>1, <3>1 DEF Types
    <3> QED
      BY <1>1, <2>3, <3>1, <3>2, <3>3, Zenon DEF Unblocked
  <2>5. ASSUME NEW j \in DOMAIN live' PROVE skipped'[j] + Turn(j)' < ninputs'
    <3>1. j \in Ports /\ skipped[j] \in Nat
      BY <1>0, <1>2, <2>2, <2>3 DEF Types
    <3>2. Turn(j)' = IF j >= next THEN j - next ELSE j - next + ninputs + 1
      BY <1>1, <1>7, <2>2, <3>1 DEF Turn, Ports
    <3>3. CASE j = i
      <4>1. skipped'[j] = 0
        BY <1>0, <1>1, <3>3 DEF Types
      <4> QED
        BY <1>7, <2>1, <2>2, <3>2, <3>3, <4>1
    <3>4. CASE j # i
      <4>1. j \in DOMAIN live /\ skipped'[j] = skipped[j]
        BY <1>0, <1>1, <2>3, <3>1, <3>4 DEF Types
      <4>2. skipped[j] + Turn(j) < ninputs
        BY <2>1, <4>1
      <4> QED
        BY <1>7, <2>2, <3>1, <3>2, <4>1, <4>2 DEF Turn
    <3> QED
      BY <3>3, <3>4
  <2> QED
    BY <1>1, <1>7, <2>1, <2>2, <2>3, <2>4, <2>5 DEF Steady
<1> QED
  BY <1>5, <1>10, <1>11, <1>12, <1>13 DEF RRInv

\* An input is removed; the vector of flags is cut when it was the last.
LEMMA RemoveInputInv ==
  ASSUME Bounds, RRInv, NEW i \in Ports, remove_input(i), removes' = removes
  PROVE  RRInv'
<1>0. Shape /\ Types /\ Blocked /\ Asleep
  BY DEF RRInv
<1>1. /\ removes /\ i \in DOMAIN live /\ live[i]
      /\ live' = [live EXCEPT ![i] = FALSE] /\ count' = Uncount(i)
      /\ flags' = IF i + 1 = Cardinality(DOMAIN flags)
                  THEN Restrict(flags, DOMAIN flags \ {i})
                  ELSE [flags EXCEPT ![i] = FALSE]
      /\ served' = None /\ skipped' = [skipped EXCEPT ![i] = 0]
      /\ UNCHANGED <<next, pullCB, q, cb, timers, puller, failed>>
  BY DEF remove_input, world
<1>2. i \in Inputs /\ i \in DOMAIN flags /\ DOMAIN live' = DOMAIN live
  BY <1>0, <1>1 DEF Inputs, Shape
<1>3. Inputs' = Inputs \ {i}
  BY <1>0, <1>1 DEF Inputs, Shape
<1>4. /\ flags' \in [DOMAIN flags' -> BOOLEAN] /\ Vector(DOMAIN flags)'
      /\ DOMAIN flags \ {i} \subseteq DOMAIN flags' /\ DOMAIN flags' \subseteq DOMAIN flags
      /\ Flagged' = Flagged \ {i}
  <2>1. CASE i + 1 = Cardinality(DOMAIN flags)
    <3>1. flags' = [j \in DOMAIN flags \ {i} |-> flags[j]]
      BY <1>1, <2>1 DEF Restrict
    <3>2. Vector(DOMAIN flags \ {i})
      BY <1>0, <1>2, <2>1, VectorShrinks DEF Shape
    <3> QED
      BY <1>0, <3>1, <3>2, Zenon DEF Vector, Flagged, Shape
  <2>2. CASE i + 1 # Cardinality(DOMAIN flags)
    <3>1. flags' = [flags EXCEPT ![i] = FALSE]
      BY <1>1, <2>2
    <3> QED
      BY <1>0, <1>2, <3>1 DEF Vector, Flagged, Shape
  <2> QED
    BY <2>1, <2>2
<1>5. Shape'
  <2>1. live' \in [DOMAIN live' -> BOOLEAN] /\ Vector(DOMAIN live)'
    BY <1>0, <1>1, <1>2 DEF Shape, Vector
  <2> QED
    BY <1>0, <1>2, <1>3, <1>4, <2>1 DEF Shape
<1>6. count' = Cardinality(Flagged')
  <2>1. IsFiniteSet(Flagged) /\ count = Cardinality(Flagged) /\ (flags[i] <=> i \in Flagged)
    BY <1>0, <1>2, Sizes DEF Blocked, Flagged
  <2>2. Cardinality(Flagged \ {i}) = IF i \in Flagged THEN Cardinality(Flagged) - 1
                                     ELSE Cardinality(Flagged)
    BY <2>1, FS_RemoveElement, Zenon
  <2> QED
    BY <1>1, <1>4, <2>1, <2>2 DEF Uncount
<1>7. Types'
  <2>1. skipped' \in [Ports -> 0 .. MaxPorts]
    BY <1>0, <1>1 DEF Types, Bounds
  <2> QED
    BY <1>0, <1>1, <2>1 DEF Types, Ports
<1>8. Blocked'
  BY <1>0, <1>1, <1>4, <1>6 DEF Blocked
<1>9. Asleep'
  BY <1>0, <1>1, <1>3, <1>4 DEF Asleep
<1>10. Steady'
  BY <1>1 DEF Steady
<1> QED
  BY <1>5, <1>7, <1>8, <1>9, <1>10 DEF RRInv

\* Every step.
LEMMA RRNext == ASSUME Bounds, RRInv, [Next]_vars PROVE RRInv'
<1>1. CASE Next
  <2>1. Step /\ removes' = removes
    BY <1>1 DEF Next
  <2>2. CASE Pull
    BY <2>1, <2>2, PullInv
  <2>3. CASE \E i \in Ports : Arrive(i) \/ add_input(i) \/ remove_input(i)
    <3>1. PICK i \in Ports : Arrive(i) \/ add_input(i) \/ remove_input(i)
      BY <2>3
    <3> QED
      BY <2>1, <3>1, ArriveInv, AddInputInv, RemoveInputInv
  <2>4. CASE \E i \in timers : Timer(i)
    BY <2>1, <2>4, TimerInv
  <2>5. \/ Pull
        \/ \E i \in Ports : Arrive(i) \/ add_input(i) \/ remove_input(i)
        \/ \E i \in timers : Timer(i)
    BY <2>1 DEF Step
  <2> QED
    BY <2>2, <2>3, <2>4, <2>5
<1>2. CASE UNCHANGED vars
  BY <1>2, Zenon
     DEF RRInv, Shape, Vector, Types, Ports, Blocked, Asleep, Steady, Turn, Flagged, Inputs,
              ninputs, Unblocked, vars, element, world
<1> QED
  BY <1>1, <1>2

-----------------------------------------------------------------------------
(* What holds of every round robin.                                        *)

\* The invariant of roundRobin.C and dRoundRobin.C.
THEOREM RoundRobinInvariant == ASSUME Bounds PROVE Spec => []RRInv
<1>1. Init => RRInv
  BY RRInit
<1>2. RRInv /\ [Next]_vars => RRInv'
  BY RRNext
<1> QED
  BY <1>1, <1>2, PTL DEF Spec

\* An input that has a tuple waits for at most one tuple of every other input, as long as
\* no input is removed (the loop of RoundRobin::pull and _nextInput).
THEOREM InputsServedInTurn == ASSUME Bounds PROVE Spec => []BoundedBypass
<1>1. RRInv => BoundedBypass
  <2> SUFFICES ASSUME RRInv, ~removes, NEW j \in Ports PROVE skipped[j] < MaxPorts
    BY DEF BoundedBypass
  <2>1. /\ Shape /\ skipped[j] \in Nat /\ MaxPorts \in Nat /\ next \in Nat /\ next < ninputs
        /\ skipped[j] > 0 => j \in DOMAIN live
        /\ j \in DOMAIN live => skipped[j] + Turn(j) < ninputs
    <3>1. Shape /\ Types /\ Steady /\ MaxPorts \in Nat
      BY DEF RRInv, Bounds
    <3>2. skipped[j] \in Nat /\ next \in Nat
      BY <3>1 DEF Types, Ports
    <3> QED
      BY <3>1, <3>2 DEF Steady
  <2>2. ninputs \in 0 .. MaxPorts
    BY <2>1, Sizes
  <2>3. j \in DOMAIN live => Turn(j) >= 0
    BY <2>1, <2>2 DEF Turn, Ports
  <2>4. j \in DOMAIN live => Turn(j) \in Int
    BY <2>1, <2>2 DEF Turn, Ports
  <2> QED
    BY <2>1, <2>2, <2>3, <2>4 DEF Ports
<1> QED
  BY <1>1, RoundRobinInvariant, PTL

\* Types; and no assertion of roundRobin.C or dRoundRobin.C fails as long as no input is
\* removed, "We should never reach this point" among them.
THEOREM RoundRobinAssertions == ASSUME Bounds PROVE Spec => [](TypeOK /\ AssertionsHold)
<1>1. ASSUME RRInv PROVE TypeOK /\ AssertionsHold
  <2>1. Shape /\ Types /\ count = Cardinality(Flagged)
    BY <1>1 DEF RRInv, Blocked
  <2>2. DOMAIN live \subseteq Ports /\ count \in 0 .. MaxPorts
    BY <2>1, Sizes DEF Bounds
  <2>3. TypeOK
    BY <2>1, <2>2 DEF TypeOK, Shape, Types
  <2> QED
    BY <1>1, <2>3 DEF RRInv, Steady, AssertionsHold
<1> QED
  BY <1>1, RoundRobinInvariant, PTL

\* _block_flag_count counts the flags, and every blocked input has a callback or a timer
\* that unblocks it, inputs that come and go included.
THEOREM BlockedInputsUnblock == ASSUME Bounds PROVE Spec => []BlockedWillUnblock
<1>1. RRInv => BlockedWillUnblock
  BY DEF RRInv, Blocked, Flagged, BlockedWillUnblock
<1> QED
  BY <1>1, RoundRobinInvariant, PTL

\* While the PullPush sleeps, _pull_cb holds its callback and no input has a tuple but new
\* ones whose timer has yet to fire, inputs that come and go included.
THEOREM PullerNotForgotten == ASSUME Bounds PROVE Spec => []NoLostWakeup
<1>1. RRInv => NoLostWakeup
  <2> SUFFICES ASSUME RRInv, ~puller
               PROVE  pullCB /\ \A i \in DOMAIN live : live[i] /\ q[i] > 0 => i \in timers
    BY DEF NoLostWakeup
  <2>1. pullCB /\ Inputs \subseteq Flagged /\ \A i \in Flagged : i \in timers \/ q[i] = 0
    BY DEF RRInv, Asleep, Blocked
  <2> QED
    BY <2>1 DEF Inputs
<1> QED
  BY <1>1, RoundRobinInvariant, PTL

-----------------------------------------------------------------------------
(* The elements with several outputs (Fanout).                             *)

CONSTANTS Capacity, Configurations, NKeys
VARIABLES sink, conf, portMap, pushCB, ready, missed, removed

Fanout == INSTANCE Fanout

\* The elements: each of the six classes, with or without a polite pusher; only the two
\* dynamic ones get and lose outputs.
Dynamic == {"DDuplicateConservative", "DDemux"}

FanoutClasses ==
  Fanout!Duplicates \cup {"Demux", "DemuxConservative", "DDemux"}

FanoutPorts ==
  /\ NKeys \in Nat /\ Capacity \in Nat \ {0}
  /\ Configurations \subseteq
       {c \in [kind : FanoutClasses, keys : 0 .. NKeys, polite : BOOLEAN, adds : BOOLEAN,
               removes : BOOLEAN] : c.adds \/ c.removes => c.kind \in Dynamic}

FlaggedOutputs == {i \in DOMAIN flags : flags[i]}

\* The vectors of ports and of flags have the same length, but in a DDemux that forgot a
\* port; a key leads to a port that has a flag and was not removed.
OutShape ==
  /\ conf \in Configurations
  /\ \E m \in 0 .. NKeys : live \in [0 .. m -> BOOLEAN]
  /\ \E m \in 0 .. NKeys : flags \in [0 .. m -> BOOLEAN]
  /\ DOMAIN flags \subseteq DOMAIN live
  /\ conf.kind # "DDemux" => DOMAIN flags = DOMAIN live
  /\ DOMAIN portMap \subseteq Fanout!PortKeys
  /\ portMap \in [DOMAIN portMap -> DOMAIN flags]
  /\ removed \subseteq DOMAIN live /\ missed \subseteq Fanout!Ports
  /\ removed # {} => conf.kind \in Dynamic
  /\ \A i \in DOMAIN live : ~live[i] => i \in removed /\ conf.kind = "DDuplicateConservative"
  /\ conf.kind = "DDemux" => 0 \notin removed /\ \A k \in DOMAIN portMap : portMap[k] \notin removed

\* An output is flagged while its queue is full and holds the callback; a port that a
\* DDemux forgot keeps the callback only.
OutFlags ==
  /\ count = Cardinality(FlaggedOutputs)
  /\ sink \in [Fanout!Ports -> 0 .. Capacity] /\ cb \subseteq Fanout!Ports
  /\ \A i \in Fanout!Ports : i \in cb <=> sink[i] = Capacity
  /\ FlaggedOutputs \subseteq cb
  /\ \A i \in cb : i \in FlaggedOutputs \/ (conf.kind = "DDemux" /\ i \in removed)

\* The callback of the pusher is stored while the policy keeps it out.
OutBack ==
  /\ pushCB \in BOOLEAN /\ ready \in BOOLEAN /\ (~ready => pushCB)
  /\ Fanout!Conservative => (pushCB <=> count > 0) /\ (ready => count = 0)
  /\ conf.kind = "DemuxConservative" => count <= 1
  /\ conf.kind \in {"Duplicate", "Demux"} => (pushCB => count = Fanout!noutputs)
  /\ conf.kind = "DDemux" => (~ready => 0 \in FlaggedOutputs)

FanoutInv ==
  OutShape /\ OutFlags /\ OutBack /\ Fanout!AssertionsHold /\ Fanout!NothingMissed

-----------------------------------------------------------------------------
\* The instance counts as this module does.
LEMMA FanoutCounts == \A S : Fanout!Cardinality(S) = Cardinality(S)
BY Zenon DEF Fanout!Cardinality, Cardinality, Fanout!IsFiniteSet, IsFiniteSet

\* The six classes, and which of them add and remove outputs.
LEMMA KindFacts ==
  ASSUME FanoutPorts, conf \in Configurations
  PROVE  /\ conf.kind \in {"Duplicate", "DuplicateConservative", "DDuplicateConservative",
                           "Demux", "DemuxConservative", "DDemux"}
         /\ conf.keys \in 0 .. NKeys
         /\ conf.adds \/ conf.removes => conf.kind \in Dynamic
BY DEF FanoutPorts, FanoutClasses, Fanout!Duplicates

\* The vectors.
LEMMA VectorFacts ==
  ASSUME FanoutPorts, OutShape
  PROVE  /\ IsFiniteSet(DOMAIN live) /\ IsFiniteSet(DOMAIN flags)
         /\ Cardinality(DOMAIN live) \in Nat \ {0} /\ Cardinality(DOMAIN flags) \in Nat \ {0}
         /\ DOMAIN live = 0 .. Cardinality(DOMAIN live) - 1
         /\ DOMAIN flags = 0 .. Cardinality(DOMAIN flags) - 1
         /\ Cardinality(DOMAIN live) <= NKeys + 1
         /\ DOMAIN flags \subseteq Fanout!Ports /\ DOMAIN live \subseteq Fanout!Ports
         /\ 0 \in DOMAIN flags /\ 0 \in DOMAIN live
         /\ live \in [DOMAIN live -> BOOLEAN] /\ flags \in [DOMAIN flags -> BOOLEAN]
<1>1. PICK m \in 0 .. NKeys : live \in [0 .. m -> BOOLEAN]
  BY DEF OutShape
<1>2. PICK k \in 0 .. NKeys : flags \in [0 .. k -> BOOLEAN]
  BY DEF OutShape
<1>3. NKeys \in Nat /\ m \in Nat /\ k \in Nat /\ m <= NKeys /\ k <= NKeys
  BY DEF FanoutPorts
<1>4. DOMAIN live = 0 .. m /\ DOMAIN flags = 0 .. k
  BY <1>1, <1>2
<1>5. /\ IsFiniteSet(0 .. m) /\ IsFiniteSet(0 .. k)
      /\ Cardinality(0 .. m) = m + 1 /\ Cardinality(0 .. k) = k + 1
  <2>1. ASSUME NEW l \in Nat PROVE IsFiniteSet(0 .. l) /\ Cardinality(0 .. l) = l + 1
    BY FS_Interval
  <2>. QED BY <1>3, <2>1
<1>6. Fanout!Ports = 0 .. NKeys
  BY DEF Fanout!Ports
<1>7. /\ Cardinality(DOMAIN live) = m + 1 /\ Cardinality(DOMAIN flags) = k + 1
  BY <1>4, <1>5
<1>8. /\ 0 .. m \subseteq 0 .. NKeys /\ 0 .. k \subseteq 0 .. NKeys /\ 0 \in 0 .. m /\ 0 \in 0 .. k
  BY <1>3
<1>9. m + 1 \in Nat \ {0} /\ k + 1 \in Nat \ {0} /\ m = m + 1 - 1 /\ k = k + 1 - 1 /\ m + 1 <= NKeys + 1
  BY <1>3
<1>. QED BY <1>1, <1>2, <1>4, <1>5, <1>6, <1>7, <1>8, <1>9

\* noutputs counts the ports that are there.
LEMMA NoutputsFacts ==
  ASSUME FanoutPorts, OutShape
  PROVE  /\ Fanout!noutputs \in Nat /\ Fanout!noutputs <= Cardinality(DOMAIN live)
         /\ (\A i \in DOMAIN live : live[i]) => Fanout!noutputs = Cardinality(DOMAIN live)
         /\ 0 .. Fanout!noutputs - 1 \subseteq DOMAIN live
<1>. DEFINE S == {i \in DOMAIN live : live[i]}
<1>1. Fanout!noutputs = Cardinality(S)
  BY FanoutCounts DEF Fanout!noutputs
<1>2. S \in SUBSET DOMAIN live /\ ((\A i \in DOMAIN live : live[i]) => S = DOMAIN live)
  OBVIOUS
<1>. HIDE DEF S
<1>3. Cardinality(S) \in Nat /\ Cardinality(S) <= Cardinality(DOMAIN live)
  BY <1>2, VectorFacts, FS_Subset, FS_CardinalityType
<1>4. DOMAIN live = 0 .. Cardinality(DOMAIN live) - 1 /\ Cardinality(DOMAIN live) \in Nat
  BY VectorFacts
<1>5. \A i \in 0 .. Cardinality(S) - 1 : i \in 0 .. Cardinality(DOMAIN live) - 1
  BY <1>3, <1>4
<1>. QED BY <1>1, <1>2, <1>3, <1>4, <1>5

\* The outputs of a tuple have flags, and were not forgotten.
LEMMA TargetFacts ==
  ASSUME FanoutPorts, OutShape, NEW k
  PROVE  /\ Fanout!Targets(k) \subseteq DOMAIN flags
         /\ conf.kind = "DDemux" => Fanout!Targets(k) \cap removed = {}
<1>1. CASE conf.kind \in Fanout!Duplicates
  <2>1. conf.kind # "DDemux"
    BY <1>1 DEF Fanout!Duplicates
  <2>. QED BY <1>1, <2>1, NoutputsFacts DEF Fanout!Targets, OutShape
<1>2. CASE conf.kind \notin Fanout!Duplicates
  <2>1. 0 \in DOMAIN flags
    BY VectorFacts
  <2>. QED BY <1>2, <2>1 DEF Fanout!Targets, OutShape
<1>. QED BY <1>1, <1>2

\* The count of the flags.
LEMMA FlagCount ==
  ASSUME FanoutPorts, OutShape, OutFlags
  PROVE  /\ IsFiniteSet(FlaggedOutputs) /\ FlaggedOutputs \subseteq DOMAIN flags
         /\ count \in Nat /\ count <= Cardinality(DOMAIN flags)
         /\ count = 0 <=> FlaggedOutputs = {}
         /\ count = Cardinality(DOMAIN flags) => FlaggedOutputs = DOMAIN flags
<1>1. FlaggedOutputs \in SUBSET DOMAIN flags
  BY DEF FlaggedOutputs
<1>2. IsFiniteSet(FlaggedOutputs) /\ Cardinality(FlaggedOutputs) <= Cardinality(DOMAIN flags)
  BY <1>1, VectorFacts, FS_Subset
<1>3. Cardinality(FlaggedOutputs) \in Nat
  BY <1>2, FS_CardinalityType
<1>4. Cardinality(FlaggedOutputs) = 0 <=> FlaggedOutputs = {}
  BY <1>2, FS_EmptySet
<1>5. Cardinality(DOMAIN flags) = Cardinality(FlaggedOutputs) => DOMAIN flags = FlaggedOutputs
  BY <1>1, VectorFacts, FS_Subset
<1>. QED BY <1>1, <1>2, <1>3, <1>4, <1>5 DEF OutFlags

\* The constructors.
LEMMA FanoutInit == ASSUME FanoutPorts, Fanout!Init PROVE FanoutInv
<1>1. /\ conf \in Configurations /\ conf.keys \in 0 .. NKeys /\ NKeys \in Nat /\ conf.keys \in Nat
      /\ Capacity \in Nat \ {0}
  BY KindFacts DEF Fanout!Init, FanoutPorts
<1>2. /\ live = [i \in 0 .. conf.keys |-> TRUE] /\ flags = [i \in 0 .. conf.keys |-> FALSE]
      /\ portMap = [k \in 1 .. conf.keys |-> k]
  BY DEF Fanout!Init
<1>3. FlaggedOutputs = {}
  BY <1>2 DEF FlaggedOutputs
<1>4. 1 .. conf.keys \subseteq 0 .. conf.keys /\ 1 .. conf.keys \subseteq 1 .. NKeys
  BY <1>1
<1>5. OutShape
  <2>1. \E m \in 0 .. NKeys : live \in [0 .. m -> BOOLEAN]
    BY <1>1, <1>2
  <2>2. \E m \in 0 .. NKeys : flags \in [0 .. m -> BOOLEAN]
    BY <1>1, <1>2
  <2>3. /\ DOMAIN flags = DOMAIN live /\ DOMAIN portMap \subseteq Fanout!PortKeys
        /\ portMap \in [DOMAIN portMap -> DOMAIN flags]
    BY <1>2, <1>4 DEF Fanout!PortKeys
  <2>. QED BY <1>1, <1>2, <2>1, <2>2, <2>3 DEF Fanout!Init, OutShape
<1>6. OutFlags
  BY <1>1, <1>3, FS_EmptySet DEF Fanout!Init, OutFlags
<1>7. OutBack
  <2>1. ~(0 > 0) /\ 0 <= 1
    OBVIOUS
  <2>. QED BY <2>1 DEF Fanout!Init, OutBack
<1>8. Fanout!AssertionsHold /\ Fanout!NothingMissed
  BY DEF Fanout!Init, Fanout!AssertionsHold, Fanout!NothingMissed
<1>. QED BY <1>5, <1>6, <1>7, <1>8 DEF FanoutInv

\* An assertion that fails changes nothing else.
LEMMA FanoutAbort ==
  ASSUME FanoutInv, Fanout!Abort, UNCHANGED conf, conf.kind = "DDemux" \/ removed # {}
  PROVE  FanoutInv'
<1>1. UNCHANGED <<conf, live, portMap, flags, count, pushCB, sink, cb, ready, missed, removed>>
  BY DEF Fanout!Abort, Fanout!element, Fanout!world
<1>2. OutShape'
  BY <1>1 DEF FanoutInv, OutShape
<1>3. OutFlags' /\ FlaggedOutputs' = FlaggedOutputs
  BY <1>1 DEF FanoutInv, OutFlags, FlaggedOutputs
<1>4. Fanout!Conservative' = Fanout!Conservative /\ Fanout!noutputs' = Fanout!noutputs
  BY <1>1 DEF Fanout!Conservative, Fanout!noutputs
<1>5. OutBack'
  BY <1>1, <1>3, <1>4 DEF FanoutInv, OutBack
<1>6. Fanout!AssertionsHold' /\ Fanout!NothingMissed'
  BY <1>1, <1>4 DEF FanoutInv, Fanout!AssertionsHold, Fanout!NothingMissed
<1>. QED BY <1>2, <1>3, <1>5, <1>6 DEF FanoutInv

\* The six classes and their policies.
LEMMA PolicyFacts ==
  /\ Fanout!Conservative <=> conf.kind \in {"DuplicateConservative", "DDuplicateConservative",
                                            "DemuxConservative"}
  /\ conf.kind \in Fanout!Duplicates <=> conf.kind \in {"Duplicate", "DuplicateConservative",
                                                        "DDuplicateConservative"}
BY DEF Fanout!Conservative, Fanout!Duplicates

\* A full element has a flagged output, so that whoever waits will be called.
LEMMA FullFacts ==
  ASSUME FanoutPorts, FanoutInv, Fanout!Full
  PROVE  /\ Fanout!Conservative => pushCB /\ ~ready
         /\ count > 0
         /\ conf.kind = "DDemux" => 0 \in FlaggedOutputs
         /\ ~Fanout!Conservative => count = Fanout!noutputs
<1>1. count \in Nat
  BY FlagCount DEF FanoutInv
<1>2. CASE Fanout!Conservative
  <2>1. count > 0 /\ conf.kind # "DDemux"
    BY <1>2, PolicyFacts DEF Fanout!Full
  <2>. QED BY <1>1, <1>2, <2>1 DEF FanoutInv, OutBack
<1>3. CASE ~Fanout!Conservative
  <2>1. count = Fanout!noutputs
    BY <1>3 DEF Fanout!Full
  <2>2. \A i \in DOMAIN live : live[i]
    BY <1>3, PolicyFacts DEF FanoutInv, OutShape
  <2>3. Fanout!noutputs = Cardinality(DOMAIN live) /\ Cardinality(DOMAIN live) \in Nat \ {0}
    BY <2>2, NoutputsFacts, VectorFacts DEF FanoutInv
  <2>4. count > 0
    BY <2>1, <2>3
  <2>5. Cardinality(DOMAIN flags) <= Cardinality(DOMAIN live) /\ Cardinality(DOMAIN flags) \in Nat
    BY VectorFacts, FS_Subset DEF FanoutInv, OutShape
  <2>6. count = Cardinality(DOMAIN flags)
    BY <1>1, <2>1, <2>3, <2>5, FlagCount DEF FanoutInv
  <2>7. 0 \in FlaggedOutputs
    BY <2>6, FlagCount, VectorFacts DEF FanoutInv
  <2>. QED BY <1>3, <2>1, <2>4, <2>7
<1>. QED BY <1>2, <1>3

\* A push to an element that pushed back: its tuple is dropped, and the outputs miss it (push).
LEMMA FanoutOverrun ==
  ASSUME FanoutPorts, FanoutInv, UNCHANGED conf, NEW k \in Fanout!Ports, Fanout!Full,
         Fanout!Overrun(k), conf.polite => ready
  PROVE  FanoutInv'
<1>1. /\ pushCB' = TRUE /\ ready' = FALSE /\ missed' = missed \cup Fanout!Targets(k)
      /\ UNCHANGED <<live, portMap, flags, count, sink, cb, failed, removed>>
  BY FullFacts DEF Fanout!Overrun
<1>2. FlaggedOutputs' = FlaggedOutputs /\ Fanout!Conservative' = Fanout!Conservative
      /\ Fanout!noutputs' = Fanout!noutputs
  BY <1>1 DEF FlaggedOutputs, Fanout!Conservative, Fanout!noutputs
<1>3. missed' \subseteq Fanout!Ports
  BY <1>1, TargetFacts, VectorFacts DEF FanoutInv, OutShape
<1>4. OutShape'
  BY <1>1, <1>3 DEF FanoutInv, OutShape
<1>5. OutFlags'
  BY <1>1, <1>2 DEF FanoutInv, OutFlags
<1>6. OutBack'
  <2>1. conf.kind \in {"Duplicate", "Demux"} => count = Fanout!noutputs
    BY FullFacts, PolicyFacts
  <2>2. conf.kind = "DDemux" => 0 \in FlaggedOutputs
    BY FullFacts
  <2>3. Fanout!Conservative => count > 0
    BY FullFacts
  <2>. QED BY <1>1, <1>2, <2>1, <2>2, <2>3 DEF FanoutInv, OutBack
<1>7. Fanout!AssertionsHold'
  BY <1>1 DEF FanoutInv, Fanout!AssertionsHold
<1>8. Fanout!NothingMissed'
  <2>1. ~(Fanout!Conservative /\ conf.polite)
    BY FullFacts
  <2>. QED BY <1>2, <2>1 DEF Fanout!NothingMissed
<1>. QED BY <1>4, <1>5, <1>6, <1>7, <1>8 DEF FanoutInv

\* The outputs that may take the tuple have room for it.
LEMMA OpenFacts ==
  ASSUME FanoutPorts, FanoutInv, NEW k, NEW open, open = {i \in Fanout!Targets(k) : ~flags[i]}
  PROVE  /\ open \subseteq DOMAIN flags /\ open \cap FlaggedOutputs = {} /\ open \cap cb = {}
         /\ open \subseteq Fanout!Ports
         /\ \A i \in open : sink[i] + 1 \in 0 .. Capacity
<1>1. open \subseteq DOMAIN flags /\ open \cap FlaggedOutputs = {} /\ open \subseteq Fanout!Ports
  BY TargetFacts, VectorFacts DEF FanoutInv, FlaggedOutputs
<1>2. open \cap cb = {}
  BY <1>1, TargetFacts DEF FanoutInv, OutFlags
<1>3. ASSUME NEW i \in open PROVE sink[i] + 1 \in 0 .. Capacity
  <2>1. sink[i] \in 0 .. Capacity /\ sink[i] # Capacity
    BY <1>1, <1>2 DEF FanoutInv, OutFlags
  <2>. QED BY <2>1 DEF FanoutPorts
<1>. QED BY <1>1, <1>2, <1>3

\* Which flags are set after the outputs new blocked.
LEMMA FlagsSet ==
  ASSUME FanoutPorts, FanoutInv, NEW new \in SUBSET DOMAIN flags, new \cap FlaggedOutputs = {},
         flags' = [i \in DOMAIN flags |-> flags[i] \/ i \in new]
  PROVE  /\ FlaggedOutputs' = FlaggedOutputs \cup new
         /\ Cardinality(FlaggedOutputs') = count + Cardinality(new)
         /\ IsFiniteSet(new) /\ Cardinality(new) \in Nat
         /\ DOMAIN flags' = DOMAIN flags /\ flags' \in [DOMAIN flags -> BOOLEAN]
<1>1. DOMAIN flags' = DOMAIN flags /\ flags' \in [DOMAIN flags -> BOOLEAN]
  BY VectorFacts DEF FanoutInv
<1>2. FlaggedOutputs' = FlaggedOutputs \cup new
  BY <1>1 DEF FlaggedOutputs
<1>3. IsFiniteSet(new) /\ IsFiniteSet(FlaggedOutputs) /\ Cardinality(new) \in Nat
  BY VectorFacts, FlagCount, FS_Subset, FS_CardinalityType DEF FanoutInv
<1>4. count = Cardinality(FlaggedOutputs) /\ count \in Nat
  BY FlagCount DEF FanoutInv, OutFlags
<1>5. FlaggedOutputs \cap new = {}
  OBVIOUS
<1>6. Cardinality(FlaggedOutputs \cup new) = Cardinality(FlaggedOutputs) + Cardinality(new)
  BY <1>3, <1>4, <1>5, FS_Union, FS_EmptySet
<1>. QED BY <1>1, <1>2, <1>3, <1>4, <1>6

\* No assertion of Deliver fails, but in a DDemux and after a removal.
LEMMA DeliverAsserts ==
  ASSUME FanoutPorts, FanoutInv, NEW k, ~Fanout!Full, NEW open,
         open = {i \in Fanout!Targets(k) : ~flags[i]},
         \/ \E i \in open : ~live[i]
         \/ conf.kind \in Fanout!Duplicates /\ Fanout!Conservative /\ pushCB
         \/ pushCB # Fanout!CallbackExpected(Fanout!Targets(k))
  PROVE  conf.kind = "DDemux" \/ removed # {}
<1>1. CASE \E i \in open : ~live[i]
  BY <1>1, OpenFacts DEF FanoutInv, OutShape
<1>2. Fanout!Conservative => ~pushCB
  BY DEF Fanout!Full, FanoutInv, OutBack
<1>3. conf.kind \in {"Duplicate", "Demux"} => ~pushCB
  BY PolicyFacts DEF Fanout!Full, FanoutInv, OutBack
<1>4. CASE pushCB # Fanout!CallbackExpected(Fanout!Targets(k))
  <2>1. SUFFICES ASSUME conf.kind # "DDemux" PROVE FALSE
    OBVIOUS
  <2>2. Fanout!CallbackExpected(Fanout!Targets(k)) = FALSE
    BY <2>1 DEF Fanout!CallbackExpected
  <2>3. pushCB = TRUE
    BY <1>4, <2>2 DEF FanoutInv, OutBack
  <2>4. Fanout!Conservative \/ conf.kind \in {"Duplicate", "Demux"}
    BY <2>1, KindFacts, PolicyFacts DEF FanoutInv, OutShape
  <2>. QED BY <1>2, <1>3, <2>3, <2>4
<1>. QED BY <1>1, <1>2, <1>4

\* A push that reaches the outputs that are not blocked; those that refuse are flagged.
LEMMA FanoutDeliver ==
  ASSUME FanoutPorts, FanoutInv, UNCHANGED conf, NEW k \in Fanout!Ports, ~Fanout!Full,
         Fanout!Deliver(k), conf.polite => ready
  PROVE  FanoutInv'
<1>. DEFINE open == {i \in Fanout!Targets(k) : ~flags[i]}
            new == Fanout!Blocks(open)
            n == count + Cardinality(new)
            back == new # {} /\ Fanout!PushesBack(n)
            aborts == \/ \E i \in open : ~live[i]
                      \/ conf.kind \in Fanout!Duplicates /\ Fanout!Conservative /\ pushCB
                      \/ back /\ pushCB # Fanout!CallbackExpected(Fanout!Targets(k))
<1>1. CASE aborts /\ Fanout!Abort
  <2>1. conf.kind = "DDemux" \/ removed # {}
    BY <1>1, DeliverAsserts
  <2>. QED BY <1>1, <2>1, FanoutAbort
<1>2. CASE /\ sink' = [i \in Fanout!Ports |-> IF i \in open THEN sink[i] + 1 ELSE sink[i]]
           /\ cb' = cb \cup new
           /\ flags' = [i \in DOMAIN flags |-> flags[i] \/ i \in new]
           /\ count' = n /\ pushCB' = (pushCB \/ back) /\ ready' = ~back
           /\ missed' = missed \cup (Fanout!Targets(k) \ open)
           /\ UNCHANGED <<live, portMap, failed, removed>>
  <2>1. /\ open \subseteq DOMAIN flags /\ open \cap FlaggedOutputs = {} /\ open \cap cb = {}
        /\ open \subseteq Fanout!Ports /\ \A i \in open : sink[i] + 1 \in 0 .. Capacity
    BY OpenFacts
  <2>2. new = {i \in open : sink[i] + 1 = Capacity} /\ new \subseteq open
    BY DEF Fanout!Blocks
  <2>3. \A i \in Fanout!Targets(k) \ open : i \in FlaggedOutputs
    BY TargetFacts DEF FlaggedOutputs, FanoutInv
  <2>4. Fanout!Targets(k) \subseteq Fanout!Ports
    BY TargetFacts, VectorFacts DEF FanoutInv
  <2>5. conf.kind = "DemuxConservative" => \E x : Fanout!Targets(k) = {x}
    BY PolicyFacts DEF Fanout!Targets
  <2>6. back => new # {} /\ Fanout!PushesBack(n)
    OBVIOUS
  <2>7. new # {} /\ Fanout!PushesBack(n) => back
    OBVIOUS
  <2>8. open \subseteq Fanout!Targets(k) /\ back \in BOOLEAN
    OBVIOUS
  <2>. HIDE DEF open, new, back
  <2>9. /\ FlaggedOutputs' = FlaggedOutputs \cup new
        /\ Cardinality(FlaggedOutputs') = n
        /\ IsFiniteSet(new) /\ Cardinality(new) \in Nat
        /\ DOMAIN flags' = DOMAIN flags /\ flags' \in [DOMAIN flags -> BOOLEAN]
    BY <1>2, <2>1, <2>2, FlagsSet
  <2>10. Fanout!Conservative' = Fanout!Conservative /\ Fanout!noutputs' = Fanout!noutputs
    BY <1>2 DEF Fanout!Conservative, Fanout!noutputs
  <2>11. OutShape'
    <3>1. \E m \in 0 .. NKeys : flags' \in [0 .. m -> BOOLEAN]
      BY <2>9 DEF FanoutInv, OutShape
    <3>2. missed' \subseteq Fanout!Ports
      BY <1>2, <2>4 DEF FanoutInv, OutShape
    <3>. QED BY <1>2, <2>9, <3>1, <3>2 DEF FanoutInv, OutShape
  <2>12. OutFlags'
    <3>1. ASSUME NEW i \in Fanout!Ports
          PROVE  sink'[i] \in 0 .. Capacity /\ (i \in cb' <=> sink'[i] = Capacity)
      <4>1. CASE i \in open
        BY <1>2, <2>1, <2>2, <4>1
      <4>2. CASE i \notin open
        <5>1. sink'[i] = sink[i] /\ i \notin new
          BY <1>2, <2>2, <4>2
        <5>. QED BY <1>2, <5>1 DEF FanoutInv, OutFlags
      <4>. QED BY <4>1, <4>2
    <3>2. sink' \in [Fanout!Ports -> 0 .. Capacity]
      BY <1>2, <3>1
    <3>3. cb' \subseteq Fanout!Ports /\ FlaggedOutputs' \subseteq cb'
      BY <1>2, <2>1, <2>2, <2>9 DEF FanoutInv, OutFlags
    <3>4. \A i \in cb' : i \in FlaggedOutputs' \/ (conf.kind = "DDemux" /\ i \in removed)
      BY <1>2, <2>9 DEF FanoutInv, OutFlags
    <3>5. count' = Cardinality(FlaggedOutputs')
      BY <1>2, <2>9
    <3>. QED BY <1>2, <3>1, <3>2, <3>3, <3>4, <3>5 DEF OutFlags
  <2>13. OutBack'
    <3>. HIDE DEF n
    <3>1. n = count + Cardinality(new) /\ count \in Nat /\ n \in Nat /\ (new # {} => n > 0)
      <4>1. count \in Nat
        BY FlagCount DEF FanoutInv
      <4>2. new # {} => Cardinality(new) # 0
        BY <2>9, FS_EmptySet
      <4>. QED BY <2>9, <4>1, <4>2 DEF n
    <3>2. pushCB' \in BOOLEAN /\ ready' \in BOOLEAN /\ (~ready' => pushCB')
      BY <1>2, <2>8 DEF FanoutInv, OutBack
    <3>3. ASSUME Fanout!Conservative PROVE (pushCB' <=> count' > 0) /\ (ready' => count' = 0)
      <4>1. count = 0 /\ ~pushCB
        BY <3>1, <3>3 DEF Fanout!Full, FanoutInv, OutBack
      <4>2. new = {} => n = 0
        BY <3>1, <4>1, FS_EmptySet
      <4>3. back <=> n > 0
        BY <2>6, <2>7, <3>1, <3>3, <4>2 DEF Fanout!PushesBack
      <4>4. count' = n /\ (pushCB' <=> back) /\ (ready' <=> ~back)
        BY <1>2, <4>1
      <4>5. ~(n > 0) => n = 0
        BY <3>1
      <4>. QED BY <4>3, <4>4, <4>5
    <3>4. ASSUME conf.kind = "DemuxConservative" PROVE count' <= 1
      <4>1. count = 0
        BY <3>1, <3>4, PolicyFacts DEF Fanout!Full
      <4>2. PICK x : Fanout!Targets(k) = {x}
        BY <2>5, <3>4
      <4>3. new \in SUBSET {x}
        BY <2>2, <2>8, <4>2
      <4>. DEFINE X == {x}
      <4>4. IsFiniteSet(X) /\ Cardinality(X) = 1 /\ new \in SUBSET X
        BY <4>3, FS_Singleton
      <4>. HIDE DEF X
      <4>5. Cardinality(new) <= Cardinality(X)
        BY <4>4, FS_Subset
      <4>6. Cardinality(new) <= 1
        BY <4>4, <4>5
      <4>. QED BY <1>2, <2>9, <3>1, <4>1, <4>6
    <3>5. ASSUME conf.kind \in {"Duplicate", "Demux"}, pushCB' PROVE count' = Fanout!noutputs
      <4>1. ~Fanout!Conservative /\ count # Fanout!noutputs
        BY <3>5, PolicyFacts DEF Fanout!Full
      <4>2. ~pushCB
        BY <3>5, <4>1 DEF FanoutInv, OutBack
      <4>. QED BY <1>2, <2>6, <3>5, <4>1, <4>2 DEF Fanout!PushesBack
    <3>6. ASSUME conf.kind = "DDemux", ~ready' PROVE 0 \in FlaggedOutputs'
      <4>1. n = Fanout!noutputs
        BY <1>2, <2>6, <3>6, PolicyFacts DEF Fanout!PushesBack
      <4>2. \A i \in DOMAIN live : live[i]
        BY <3>6 DEF FanoutInv, OutShape
      <4>3. Fanout!noutputs = Cardinality(DOMAIN live)
        BY <4>2, NoutputsFacts DEF FanoutInv
      <4>4. FlaggedOutputs' \in SUBSET DOMAIN live
        BY <2>1, <2>2, <2>9 DEF FlaggedOutputs, FanoutInv, OutShape
      <4>. DEFINE F == FlaggedOutputs'
      <4>5. F \in SUBSET DOMAIN live /\ Cardinality(F) = Cardinality(DOMAIN live)
        BY <2>9, <4>1, <4>3, <4>4 DEF n
      <4>. HIDE DEF F
      <4>6. F = DOMAIN live
        BY <4>5, VectorFacts, FS_Subset DEF FanoutInv
      <4>. QED BY <4>6, VectorFacts DEF F, FanoutInv
    <3>. QED BY <2>10, <3>2, <3>3, <3>4, <3>5, <3>6 DEF OutBack
  <2>14. Fanout!AssertionsHold'
    BY <1>2 DEF FanoutInv, Fanout!AssertionsHold
  <2>15. Fanout!NothingMissed'
    <3>1. ASSUME Fanout!Conservative, conf.polite PROVE missed' = {}
      <4>1. count = 0
        BY <3>1 DEF FanoutInv, OutBack
      <4>2. FlaggedOutputs = {}
        BY <4>1, FlagCount DEF FanoutInv
      <4>. QED BY <1>2, <2>3, <3>1, <4>2 DEF FanoutInv, Fanout!NothingMissed
    <3>. QED BY <2>10, <3>1 DEF Fanout!NothingMissed
  <2>. QED BY <2>11, <2>12, <2>13, <2>14, <2>15 DEF FanoutInv
<1>. QED BY <1>1, <1>2, FanoutCounts DEF Fanout!Deliver

\* Which flags are set after output i unblocked.
LEMMA FlagCleared ==
  ASSUME FanoutPorts, FanoutInv, NEW i \in DOMAIN flags, flags' = [flags EXCEPT ![i] = FALSE]
  PROVE  /\ FlaggedOutputs' = FlaggedOutputs \ {i}
         /\ Cardinality(FlaggedOutputs') = IF flags[i] THEN count - 1 ELSE count
         /\ DOMAIN flags' = DOMAIN flags /\ flags' \in [DOMAIN flags -> BOOLEAN]
<1>1. DOMAIN flags' = DOMAIN flags /\ flags' \in [DOMAIN flags -> BOOLEAN]
  BY VectorFacts DEF FanoutInv
<1>2. FlaggedOutputs' = FlaggedOutputs \ {i}
  BY <1>1, VectorFacts DEF FanoutInv, FlaggedOutputs
<1>3. Cardinality(FlaggedOutputs \ {i}) = IF i \in FlaggedOutputs THEN count - 1 ELSE count
  BY FlagCount, FS_RemoveElement DEF FanoutInv, OutFlags
<1>4. i \in FlaggedOutputs <=> flags[i]
  BY DEF FlaggedOutputs
<1>. QED BY <1>1, <1>2, <1>3, <1>4

\* _block_flag_count after output i unblocked.
Remaining(i) == IF flags[i] THEN count - 1 ELSE count

\* The pusher is called back exactly when the policy lets it in.
LEMMA CallFacts ==
  ASSUME FanoutPorts, FanoutInv, NEW i \in cb, i \in DOMAIN flags
  PROVE  /\ Fanout!Calls(i, Remaining(i)) \in BOOLEAN
         /\ conf.kind \in {"DuplicateConservative", "DDuplicateConservative"} =>
              (Fanout!Calls(i, Remaining(i)) <=> Remaining(i) = 0)
         /\ conf.kind = "DemuxConservative" => Fanout!Calls(i, Remaining(i)) /\ Remaining(i) = 0
         /\ ~Fanout!Conservative => (Fanout!Calls(i, Remaining(i)) <=> pushCB)
         /\ Fanout!Conservative => flags[i] /\ count > 0 /\ pushCB /\ ~ready /\ Remaining(i) \in Nat
<1>1. pushCB \in BOOLEAN /\ flags[i] \in BOOLEAN /\ count \in Nat
  BY VectorFacts, FlagCount DEF FanoutInv, OutBack
<1>2. conf.kind # "DDemux" => flags[i] /\ count > 0
  <2>1. conf.kind # "DDemux" => i \in FlaggedOutputs
    BY DEF FanoutInv, OutFlags
  <2>. QED BY <1>1, <2>1, FlagCount DEF FanoutInv, FlaggedOutputs
<1>3. Fanout!Conservative => flags[i] /\ count > 0 /\ pushCB /\ ~ready /\ Remaining(i) \in Nat
  BY <1>1, <1>2, PolicyFacts DEF FanoutInv, OutBack, Remaining
<1>4. CASE conf.kind \in {"DuplicateConservative", "DDuplicateConservative"}
  BY <1>3, <1>4, PolicyFacts DEF Fanout!Calls
<1>5. CASE conf.kind = "DemuxConservative"
  <2>1. Fanout!Calls(i, Remaining(i)) = (flags[i] /\ pushCB)
    BY <1>5 DEF Fanout!Calls
  <2>2. Remaining(i) = 0
    BY <1>1, <1>3, <1>5, PolicyFacts DEF FanoutInv, OutBack, Remaining
  <2>. QED BY <1>3, <1>5, <2>1, <2>2, PolicyFacts
<1>6. CASE conf.kind = "DDemux"
  <2>1. live[i] = TRUE
    BY <1>6, VectorFacts DEF FanoutInv, OutShape
  <2>2. Fanout!Calls(i, Remaining(i)) = (pushCB /\ live[i])
    BY <1>6 DEF Fanout!Calls
  <2>. QED BY <1>1, <1>6, <2>1, <2>2, PolicyFacts
<1>7. CASE conf.kind \in {"Duplicate", "Demux"}
  <2>1. Fanout!Calls(i, Remaining(i)) = pushCB
    BY <1>7 DEF Fanout!Calls
  <2>. QED BY <1>1, <1>7, <2>1, PolicyFacts
<1>. QED BY <1>4, <1>5, <1>6, <1>7, KindFacts DEF FanoutInv, OutShape

\* The callback of an output: its flag is cleared, and whoever was pushed back is called.
LEMMA FanoutUnblock ==
  ASSUME FanoutPorts, FanoutInv, UNCHANGED conf, NEW i \in cb, i \in DOMAIN flags,
         Fanout!unblock(i)
  PROVE  FanoutInv'
<1>. DEFINE n == IF flags[i] THEN count - 1 ELSE count
            calls == Fanout!Calls(i, n)
<1>1. CASE /\ (conf.kind # "DDemux" /\ i > Fanout!noutputs) \/ (calls /\ ~pushCB)
           /\ Fanout!Abort
  <2>1. SUFFICES ASSUME conf.kind # "DDemux", removed = {} PROVE FALSE
    BY <1>1, FanoutAbort
  <2>2. \A j \in DOMAIN live : live[j]
    BY <2>1 DEF FanoutInv, OutShape
  <2>3. ~(i > Fanout!noutputs)
    <3>1. /\ Fanout!noutputs = Cardinality(DOMAIN live) /\ Cardinality(DOMAIN live) \in Nat
          /\ i \in 0 .. Cardinality(DOMAIN live) - 1
      BY <2>2, NoutputsFacts, VectorFacts DEF FanoutInv, OutShape
    <3>. QED BY <3>1
  <2>4. calls => pushCB
    BY CallFacts, PolicyFacts DEF Remaining
  <2>. QED BY <1>1, <2>3, <2>4
<1>2. CASE /\ sink' = [sink EXCEPT ![i] = @ - 1] /\ cb' = cb \ {i}
           /\ flags' = Fanout!Unflagged(i) /\ count' = n
           /\ pushCB' = Fanout!KeptCB(i, n) /\ ready' = (ready \/ calls)
           /\ UNCHANGED <<live, portMap, failed, missed, removed>>
  <2>1. flags' = [flags EXCEPT ![i] = FALSE]
    BY <1>2 DEF Fanout!Unflagged
  <2>2. /\ FlaggedOutputs' = FlaggedOutputs \ {i} /\ Cardinality(FlaggedOutputs') = n
        /\ DOMAIN flags' = DOMAIN flags /\ flags' \in [DOMAIN flags -> BOOLEAN]
    BY <2>1, FlagCleared
  <2>3. Fanout!Conservative' = Fanout!Conservative /\ Fanout!noutputs' = Fanout!noutputs
    BY <1>2 DEF Fanout!Conservative, Fanout!noutputs
  <2>4. OutShape'
    <3>1. \E m \in 0 .. NKeys : flags' \in [0 .. m -> BOOLEAN]
      BY <2>2 DEF FanoutInv, OutShape
    <3>. QED BY <1>2, <2>2, <3>1 DEF FanoutInv, OutShape
  <2>5. OutFlags'
    <3>1. i \in Fanout!Ports /\ sink[i] = Capacity /\ Capacity \in Nat \ {0}
      BY DEF FanoutInv, OutFlags, FanoutPorts
    <3>2. sink' \in [Fanout!Ports -> 0 .. Capacity] /\ sink'[i] # Capacity
          /\ \A j \in Fanout!Ports \ {i} : sink'[j] = sink[j]
      BY <1>2, <3>1 DEF FanoutInv, OutFlags
    <3>3. \A j \in Fanout!Ports : j \in cb' <=> sink'[j] = Capacity
      BY <1>2, <3>2 DEF FanoutInv, OutFlags
    <3>4. cb' \subseteq Fanout!Ports /\ FlaggedOutputs' \subseteq cb'
      BY <1>2, <2>2 DEF FanoutInv, OutFlags
    <3>5. \A j \in cb' : j \in FlaggedOutputs' \/ (conf.kind = "DDemux" /\ j \in removed)
      BY <1>2, <2>2 DEF FanoutInv, OutFlags
    <3>6. count' = Cardinality(FlaggedOutputs')
      BY <1>2, <2>2
    <3>. QED BY <1>2, <3>2, <3>3, <3>4, <3>5, <3>6 DEF OutFlags
  <2>6. OutBack'
    <3>1. pushCB' = (pushCB /\ ~calls) /\ ready' = (ready \/ calls) /\ count' = n
      BY <1>2 DEF Fanout!KeptCB
    <3>2. /\ calls \in BOOLEAN
          /\ conf.kind \in {"DuplicateConservative", "DDuplicateConservative"} => (calls <=> n = 0)
          /\ conf.kind = "DemuxConservative" => calls /\ n = 0
          /\ ~Fanout!Conservative => (calls <=> pushCB)
          /\ Fanout!Conservative => pushCB /\ ~ready /\ n \in Nat
      BY CallFacts DEF Remaining
    <3>. HIDE DEF n, calls
    <3>3. pushCB' \in BOOLEAN /\ ready' \in BOOLEAN /\ (~ready' => pushCB')
      BY <3>1, <3>2 DEF FanoutInv, OutBack
    <3>4. ASSUME Fanout!Conservative PROVE (pushCB' <=> count' > 0) /\ (ready' => count' = 0)
      <4>1. calls <=> n = 0
        BY <3>2, <3>4, PolicyFacts
      <4>2. n > 0 <=> n # 0
        BY <3>2, <3>4
      <4>. QED BY <3>1, <3>2, <3>4, <4>1, <4>2
    <3>5. conf.kind = "DemuxConservative" => count' <= 1
      BY <3>1, <3>2
    <3>6. ~Fanout!Conservative => ~pushCB' /\ ready'
      BY <3>1, <3>2 DEF FanoutInv, OutBack
    <3>. QED BY <2>3, <3>3, <3>4, <3>5, <3>6, PolicyFacts DEF OutBack
  <2>7. Fanout!AssertionsHold' /\ Fanout!NothingMissed'
    BY <1>2, <2>3 DEF FanoutInv, Fanout!AssertionsHold, Fanout!NothingMissed
  <2>. QED BY <2>4, <2>5, <2>6, <2>7 DEF FanoutInv
<1>. QED BY <1>1, <1>2 DEF Fanout!unblock

\* A queue below takes a tuple out and calls the callback it holds, if any.
LEMMA FanoutDrain ==
  ASSUME FanoutPorts, FanoutInv, UNCHANGED conf, NEW i \in Fanout!Ports, Fanout!Drain(i)
  PROVE  FanoutInv'
<1>1. CASE i \in cb /\ i \in DOMAIN flags
  BY <1>1, FanoutUnblock DEF Fanout!Drain
<1>2. CASE i \in cb /\ i \notin DOMAIN flags
  <2>1. conf.kind = "DDemux"
    BY <1>2 DEF FanoutInv, OutFlags, FlaggedOutputs
  <2>. QED BY <1>2, <2>1, FanoutAbort DEF Fanout!Drain
<1>3. CASE i \notin cb
  <2>1. /\ sink' = [sink EXCEPT ![i] = @ - 1] /\ sink[i] > 0
        /\ UNCHANGED <<live, portMap, flags, count, pushCB, cb, ready, failed, missed, removed>>
    BY <1>3 DEF Fanout!Drain, Fanout!element
  <2>2. FlaggedOutputs' = FlaggedOutputs /\ Fanout!Conservative' = Fanout!Conservative
        /\ Fanout!noutputs' = Fanout!noutputs
    BY <2>1 DEF FlaggedOutputs, Fanout!Conservative, Fanout!noutputs
  <2>3. OutShape' /\ OutBack'
    BY <2>1, <2>2 DEF FanoutInv, OutShape, OutBack
  <2>4. sink' \in [Fanout!Ports -> 0 .. Capacity] /\ sink'[i] # Capacity
        /\ \A j \in Fanout!Ports \ {i} : sink'[j] = sink[j]
    BY <2>1 DEF FanoutInv, OutFlags, FanoutPorts
  <2>5. \A j \in Fanout!Ports : j \in cb' <=> sink'[j] = Capacity
    BY <1>3, <2>1, <2>4 DEF FanoutInv, OutFlags
  <2>6. OutFlags'
    BY <2>1, <2>2, <2>4, <2>5 DEF FanoutInv, OutFlags
  <2>7. Fanout!AssertionsHold' /\ Fanout!NothingMissed'
    BY <2>1, <2>2 DEF FanoutInv, Fanout!AssertionsHold, Fanout!NothingMissed
  <2>. QED BY <2>3, <2>6, <2>7 DEF FanoutInv
<1>. QED BY <1>1, <1>2, <1>3

\* add_output: the new output is the last, and is not blocked.
LEMMA FanoutAdd ==
  ASSUME FanoutPorts, FanoutInv, UNCHANGED conf, NEW k \in Fanout!PortKeys, Fanout!add_output(k)
  PROVE  FanoutInv'
<1>. DEFINE i == Cardinality(DOMAIN live)
<1>1. /\ conf.kind \in Dynamic /\ i \in Fanout!Ports
      /\ \/ i # Cardinality(DOMAIN flags) /\ Fanout!Abort
         \/ /\ i = Cardinality(DOMAIN flags)
            /\ live' = [j \in 0 .. i |-> j = i \/ live[j]]
            /\ portMap' = [j \in DOMAIN portMap \cup {k} |-> IF j = k THEN i ELSE portMap[j]]
            /\ flags' = [j \in 0 .. i |-> j # i /\ flags[j]]
            /\ UNCHANGED <<count, pushCB, sink, cb, ready, failed, missed, removed>>
  <2>1. /\ i = Fanout!Cardinality(DOMAIN live)
        /\ Cardinality(DOMAIN flags) = Fanout!Cardinality(DOMAIN flags)
    BY FanoutCounts
  <2>2. conf.adds
    BY DEF Fanout!add_output
  <2>3. conf.kind \in Dynamic
    BY <2>2, KindFacts DEF FanoutInv, OutShape
  <2>. HIDE DEF i
  <2>. QED BY <2>1, <2>3 DEF Fanout!add_output, Fanout!world
<1>2. CASE i # Cardinality(DOMAIN flags) /\ Fanout!Abort
  <2>1. conf.kind = "DDemux"
    BY <1>2 DEF FanoutInv, OutShape
  <2>. QED BY <1>2, <2>1, FanoutAbort
<1>3. CASE /\ i = Cardinality(DOMAIN flags)
           /\ live' = [j \in 0 .. i |-> j = i \/ live[j]]
           /\ portMap' = [j \in DOMAIN portMap \cup {k} |-> IF j = k THEN i ELSE portMap[j]]
           /\ flags' = [j \in 0 .. i |-> j # i /\ flags[j]]
           /\ UNCHANGED <<count, pushCB, sink, cb, ready, failed, missed, removed>>
  <2>1. /\ i \in Nat \ {0} /\ DOMAIN live = 0 .. i - 1 /\ DOMAIN flags = 0 .. i - 1
        /\ live \in [DOMAIN live -> BOOLEAN] /\ flags \in [DOMAIN flags -> BOOLEAN]
        /\ NKeys \in Nat
    BY <1>3, VectorFacts DEF FanoutInv, FanoutPorts
  <2>2. i \in 0 .. NKeys
    BY <1>1 DEF Fanout!Ports
  <2>. HIDE DEF i
  <2>3. \A j \in 0 .. i : j = i \/ j \in 0 .. i - 1
    BY <2>1
  <2>4. \A j \in 0 .. i - 1 : j \in 0 .. i /\ j # i
    BY <2>1
  <2>5. i \in 0 .. i
    BY <2>1
  <2>6. live' \in [0 .. i -> BOOLEAN] /\ flags' \in [0 .. i -> BOOLEAN]
    BY <1>3, <2>1, <2>3
  <2>7. FlaggedOutputs' = FlaggedOutputs
    BY <1>3, <2>1, <2>3, <2>4 DEF FlaggedOutputs
  <2>8. OutShape'
    <3>1. portMap' \in [DOMAIN portMap' -> 0 .. i] /\ DOMAIN portMap' = DOMAIN portMap \cup {k}
      BY <1>3, <2>1, <2>4, <2>5 DEF FanoutInv, OutShape
    <3>2. \A j \in DOMAIN live' : ~live'[j] =>
             j \in removed /\ conf.kind = "DDuplicateConservative"
      BY <1>3, <2>1, <2>3 DEF FanoutInv, OutShape
    <3>3. i \notin removed /\ removed \subseteq 0 .. i
      BY <2>1, <2>4 DEF FanoutInv, OutShape
    <3>4. \A j \in DOMAIN portMap' : portMap'[j] = i \/ (j \in DOMAIN portMap /\ portMap'[j] = portMap[j])
      BY <1>3
    <3>5. conf.kind = "DDemux" =>
            0 \notin removed /\ \A j \in DOMAIN portMap' : portMap'[j] \notin removed
      BY <3>3, <3>4 DEF FanoutInv, OutShape
    <3>6. /\ \E m \in 0 .. NKeys : live' \in [0 .. m -> BOOLEAN]
          /\ \E m \in 0 .. NKeys : flags' \in [0 .. m -> BOOLEAN]
      BY <2>2, <2>6
    <3>7. DOMAIN live' = 0 .. i /\ DOMAIN flags' = 0 .. i
      BY <2>6
    <3>. QED BY <1>1, <1>3, <3>1, <3>2, <3>3, <3>5, <3>6, <3>7 DEF FanoutInv, OutShape
  <2>9. OutFlags'
    BY <1>3, <2>7 DEF FanoutInv, OutFlags
  <2>10. Fanout!Conservative' = Fanout!Conservative
    BY DEF Fanout!Conservative
  <2>11. OutBack'
    <3>1. conf.kind \notin {"Duplicate", "Demux"}
      BY <1>1 DEF Dynamic
    <3>. QED BY <1>3, <2>7, <2>10, <3>1 DEF FanoutInv, OutBack
  <2>12. Fanout!AssertionsHold' /\ Fanout!NothingMissed'
    BY <1>3, <2>10 DEF FanoutInv, Fanout!AssertionsHold, Fanout!NothingMissed
  <2>. QED BY <2>8, <2>9, <2>11, <2>12 DEF FanoutInv
<1>. QED BY <1>1, <1>2, <1>3

\* DDuplicateConservative deletes a port and keeps its flag.
LEMMA FanoutDelete ==
  ASSUME FanoutPorts, FanoutInv, UNCHANGED conf, NEW i \in Fanout!Ports, Fanout!remove_output(i),
         conf.kind # "DDemux"
  PROVE  FanoutInv'
<1>1. /\ conf.kind \in Dynamic /\ i \in DOMAIN live
      /\ live' = [live EXCEPT ![i] = FALSE]
      /\ portMap' = Fanout!Restrict(portMap, {k \in DOMAIN portMap : portMap[k] # i})
      /\ removed' = removed \cup {i}
      /\ UNCHANGED <<flags, count, pushCB, sink, cb, ready, failed, missed>>
  BY KindFacts DEF Fanout!remove_output, Fanout!DeletePort, Fanout!world, FanoutInv, OutShape
<1>2. conf.kind = "DDuplicateConservative"
  BY <1>1 DEF Dynamic
<1>3. /\ DOMAIN portMap' \subseteq DOMAIN portMap
      /\ portMap' \in [DOMAIN portMap' -> DOMAIN flags]
  BY <1>1 DEF Fanout!Restrict, FanoutInv, OutShape
<1>4. /\ DOMAIN live' = DOMAIN live /\ live' \in [DOMAIN live -> BOOLEAN]
      /\ \A j \in DOMAIN live : ~live'[j] => j = i \/ ~live[j]
  BY <1>1, VectorFacts DEF FanoutInv
<1>5. \E m \in 0 .. NKeys : live' \in [0 .. m -> BOOLEAN]
  BY <1>4 DEF FanoutInv, OutShape
<1>6. OutShape'
  BY <1>1, <1>2, <1>3, <1>4, <1>5 DEF FanoutInv, OutShape
<1>7. FlaggedOutputs' = FlaggedOutputs /\ Fanout!Conservative' = Fanout!Conservative
  BY <1>1 DEF FlaggedOutputs, Fanout!Conservative
<1>8. OutFlags'
  BY <1>1, <1>2, <1>7 DEF FanoutInv, OutFlags
<1>9. OutBack'
  BY <1>1, <1>2, <1>7 DEF FanoutInv, OutBack
<1>10. Fanout!AssertionsHold' /\ Fanout!NothingMissed'
  BY <1>1, <1>7 DEF FanoutInv, Fanout!AssertionsHold, Fanout!NothingMissed
<1>. QED BY <1>6, <1>8, <1>9, <1>10 DEF FanoutInv

\* A DDemux forgets the key and the flag of a port, which stays.
LEMMA FanoutForget ==
  ASSUME FanoutPorts, FanoutInv, UNCHANGED conf, NEW i \in Fanout!Ports, Fanout!remove_output(i),
         conf.kind = "DDemux"
  PROVE  FanoutInv'
<1>1. /\ i \in DOMAIN live /\ i # 0 /\ i \in DOMAIN flags
      /\ portMap' = Fanout!Restrict(portMap, {k \in DOMAIN portMap : portMap[k] # i})
      /\ count' = IF flags[i] THEN count - 1 ELSE count
      /\ flags' = IF i + 1 = Cardinality(DOMAIN flags)
                  THEN Fanout!Restrict(flags, DOMAIN flags \ {i})
                  ELSE [flags EXCEPT ![i] = FALSE]
      /\ removed' = removed \cup {i}
      /\ UNCHANGED <<live, pushCB, sink, cb, ready, failed, missed>>
  BY FanoutCounts DEF Fanout!remove_output, Fanout!ForgetPort, Fanout!world, FanoutInv, OutShape
<1>2. /\ DOMAIN portMap' \subseteq DOMAIN portMap
      /\ \A k \in DOMAIN portMap' : portMap'[k] = portMap[k] /\ portMap'[k] # i
      /\ portMap' = [k \in DOMAIN portMap' |-> portMap'[k]]
  BY <1>1 DEF Fanout!Restrict
<1>3. /\ DOMAIN flags' = DOMAIN flags \/ DOMAIN flags' = DOMAIN flags \ {i}
      /\ FlaggedOutputs' = FlaggedOutputs \ {i}
      /\ \E m \in 0 .. NKeys : flags' \in [0 .. m -> BOOLEAN]
  <2>1. /\ DOMAIN flags = 0 .. Cardinality(DOMAIN flags) - 1 /\ Cardinality(DOMAIN flags) \in Nat
        /\ flags \in [DOMAIN flags -> BOOLEAN]
        /\ NKeys \in Nat /\ i \in 0 .. NKeys
    BY VectorFacts DEF FanoutInv, FanoutPorts, Fanout!Ports
  <2>2. CASE i + 1 # Cardinality(DOMAIN flags)
    <3>1. flags' = [flags EXCEPT ![i] = FALSE]
      BY <1>1, <2>2
    <3>2. FlaggedOutputs' = FlaggedOutputs \ {i} /\ DOMAIN flags' = DOMAIN flags
          /\ flags' \in [DOMAIN flags -> BOOLEAN]
      BY <1>1, <3>1, FlagCleared
    <3>. QED BY <3>2 DEF FanoutInv, OutShape
  <2>3. CASE i + 1 = Cardinality(DOMAIN flags)
    <3>1. flags' = [j \in DOMAIN flags \ {i} |-> flags[j]]
      BY <1>1, <2>3 DEF Fanout!Restrict
    <3>2. DOMAIN flags' = DOMAIN flags \ {i} /\ flags' \in [DOMAIN flags \ {i} -> BOOLEAN]
      BY <2>1, <3>1
    <3>3. FlaggedOutputs' = FlaggedOutputs \ {i}
      BY <3>1, <3>2 DEF FlaggedOutputs
    <3>4. DOMAIN flags = 0 .. i
      BY <2>1, <2>3
    <3>5. (0 .. i) \ {i} = 0 .. i - 1 /\ i - 1 \in 0 .. NKeys
      BY <1>1, <2>1
    <3>6. flags' \in [0 .. i - 1 -> BOOLEAN]
      BY <3>2, <3>4, <3>5
    <3>. QED BY <3>2, <3>3, <3>5, <3>6
  <2>. QED BY <2>2, <2>3
<1>4. OutShape'
  <2>1. portMap' \in [DOMAIN portMap' -> DOMAIN flags']
    BY <1>2, <1>3 DEF FanoutInv, OutShape
  <2>2. DOMAIN flags' \subseteq DOMAIN live'
    BY <1>1, <1>3 DEF FanoutInv, OutShape
  <2>3. 0 \notin removed' /\ \A k \in DOMAIN portMap' : portMap'[k] \notin removed'
    BY <1>1, <1>2 DEF FanoutInv, OutShape
  <2>. QED BY <1>1, <1>2, <1>3, <2>1, <2>2, <2>3 DEF FanoutInv, OutShape, Dynamic
<1>5. count' = Cardinality(FlaggedOutputs')
  <2>1. Cardinality(FlaggedOutputs \ {i}) = IF i \in FlaggedOutputs THEN count - 1 ELSE count
    BY FlagCount, FS_RemoveElement DEF FanoutInv, OutFlags
  <2>2. i \in FlaggedOutputs <=> flags[i]
    BY <1>1 DEF FlaggedOutputs
  <2>. QED BY <1>1, <1>3, <2>1, <2>2
<1>6. OutFlags'
  <2>1. FlaggedOutputs' \subseteq cb'
    BY <1>1, <1>3 DEF FanoutInv, OutFlags
  <2>2. \A j \in cb' : j \in FlaggedOutputs' \/ (conf.kind = "DDemux" /\ j \in removed')
    BY <1>1, <1>3 DEF FanoutInv, OutFlags
  <2>. QED BY <1>1, <1>5, <2>1, <2>2 DEF FanoutInv, OutFlags
<1>7. ~Fanout!Conservative /\ ~Fanout!Conservative'
  BY DEF Fanout!Conservative
<1>8. OutBack'
  BY <1>1, <1>3, <1>7 DEF FanoutInv, OutBack
<1>9. Fanout!AssertionsHold' /\ Fanout!NothingMissed'
  BY <1>1, <1>7 DEF FanoutInv, Fanout!AssertionsHold, Fanout!NothingMissed
<1>. QED BY <1>4, <1>6, <1>8, <1>9 DEF FanoutInv

\* Every step of an element with several outputs preserves its invariant.
LEMMA FanoutNext == ASSUME FanoutPorts, FanoutInv, [Fanout!Next]_(Fanout!vars) PROVE FanoutInv'
<1>1. CASE UNCHANGED Fanout!vars
  <2>1. UNCHANGED <<conf, live, portMap, flags, count, pushCB, sink, cb, ready, failed, missed, removed>>
    BY <1>1 DEF Fanout!vars, Fanout!element, Fanout!world
  <2>2. FlaggedOutputs' = FlaggedOutputs /\ Fanout!Conservative' = Fanout!Conservative
        /\ Fanout!noutputs' = Fanout!noutputs
    BY <2>1 DEF FlaggedOutputs, Fanout!Conservative, Fanout!noutputs
  <2>. QED BY <2>1, <2>2 DEF FanoutInv, OutShape, OutFlags, OutBack, Fanout!AssertionsHold,
       Fanout!NothingMissed
<1>2. ASSUME NEW k \in Fanout!Ports, Fanout!push(k), UNCHANGED conf PROVE FanoutInv'
  BY <1>2, FanoutOverrun, FanoutDeliver DEF Fanout!push
<1>3. ASSUME NEW i \in Fanout!Ports, Fanout!remove_output(i), UNCHANGED conf PROVE FanoutInv'
  BY <1>3, FanoutDelete, FanoutForget
<1>. QED BY <1>1, <1>2, <1>3, FanoutDrain, FanoutAdd DEF Fanout!Next, Fanout!Step

(* For each of the six classes, any number of outputs and any size of the queues below   *)
(* them: no assertion fails but in a DDemux and after a removal; the block flags are     *)
(* right and counted; whoever was pushed back is called when an output unblocks; and the *)
(* block-one-block-all policy loses nothing (push and unblock of duplicate.C,            *)
(* duplicateConservative.C, dDuplicateConservative.C, demux.C, demuxConservative.C and   *)
(* ddemux.C, with add_output and remove_output).                                         *)
THEOREM FanoutSafe ==
  ASSUME FanoutPorts
  PROVE  Fanout!Spec => [](/\ Fanout!TypeOK /\ Fanout!AssertionsHold /\ Fanout!FlagsMatchOutputs
                           /\ Fanout!PushedBackWillBeCalled /\ Fanout!NothingMissed)
<1>1. ASSUME FanoutInv PROVE Fanout!TypeOK
  <2>1. count \in 0 .. Fanout!Cardinality(Fanout!Ports)
    <3>1. Cardinality(Fanout!Ports) = NKeys + 1 /\ NKeys \in Nat /\ IsFiniteSet(Fanout!Ports)
      BY FS_Interval DEF Fanout!Ports, FanoutPorts
    <3>2. count \in Nat /\ count <= Cardinality(DOMAIN flags)
      BY <1>1, FlagCount DEF FanoutInv
    <3>3. Cardinality(DOMAIN flags) <= Cardinality(Fanout!Ports) /\ Cardinality(DOMAIN flags) \in Nat
      BY <1>1, <3>1, VectorFacts, FS_Subset DEF FanoutInv
    <3>4. count \in 0 .. Cardinality(Fanout!Ports)
      BY <3>1, <3>2, <3>3
    <3>. QED BY <3>4, FanoutCounts
  <2>2. /\ DOMAIN live \subseteq Fanout!Ports /\ DOMAIN flags \subseteq Fanout!Ports
        /\ live \in [DOMAIN live -> BOOLEAN] /\ flags \in [DOMAIN flags -> BOOLEAN]
    BY <1>1, VectorFacts DEF FanoutInv
  <2>3. portMap \in [DOMAIN portMap -> Fanout!Ports] /\ DOMAIN portMap \subseteq Fanout!PortKeys
    BY <1>1, <2>2 DEF FanoutInv, OutShape
  <2>. QED BY <1>1, <2>1, <2>2, <2>3 DEF FanoutInv, OutShape, OutFlags, OutBack, Fanout!TypeOK
<1>2. ASSUME FanoutInv PROVE Fanout!FlagsMatchOutputs
  <2>1. count = Fanout!Cardinality({i \in DOMAIN flags : flags[i]})
    BY <1>2, FanoutCounts DEF FanoutInv, OutFlags, FlaggedOutputs
  <2>2. \A i \in cb : sink[i] = Capacity
    BY <1>2 DEF FanoutInv, OutFlags
  <2>3. removed = {} => \A i \in DOMAIN flags : flags[i] <=> i \in cb
    BY <1>2 DEF FanoutInv, OutFlags, FlaggedOutputs
  <2>. QED BY <2>1, <2>2, <2>3 DEF Fanout!FlagsMatchOutputs
<1>3. ASSUME FanoutInv PROVE Fanout!PushedBackWillBeCalled
  <2>1. ASSUME ~ready PROVE pushCB /\ FlaggedOutputs # {}
    <3>1. pushCB
      BY <1>3, <2>1 DEF FanoutInv, OutBack
    <3>2. CASE conf.kind = "DDemux"
      BY <1>3, <2>1, <3>1, <3>2 DEF FanoutInv, OutBack
    <3>3. CASE conf.kind # "DDemux"
      <4>1. count # 0
        <5>1. CASE Fanout!Conservative
          BY <1>3, <3>1, <5>1 DEF FanoutInv, OutBack
        <5>2. CASE ~Fanout!Conservative
          <6>1. conf.kind \in {"Duplicate", "Demux"}
            BY <1>3, <3>3, <5>2, KindFacts, PolicyFacts DEF FanoutInv, OutShape
          <6>2. count = Fanout!noutputs /\ \A i \in DOMAIN live : live[i]
            BY <1>3, <3>1, <6>1 DEF FanoutInv, OutBack, OutShape
          <6>. QED BY <1>3, <6>2, NoutputsFacts, VectorFacts DEF FanoutInv
        <5>. QED BY <5>1, <5>2
      <4>. QED BY <1>3, <3>1, <4>1, FlagCount DEF FanoutInv
    <3>. QED BY <3>2, <3>3
  <2>. QED BY <1>3, <2>1 DEF FanoutInv, OutFlags, FlaggedOutputs, Fanout!PushedBackWillBeCalled
<1>4. FanoutInv => Fanout!AssertionsHold /\ Fanout!NothingMissed
  BY DEF FanoutInv
<1>. QED BY <1>1, <1>2, <1>3, <1>4, FanoutInit, FanoutNext, PTL DEF Fanout!Spec

-----------------------------------------------------------------------------
(* The Mux with its buffered tuples (Mux).                                 *)

CONSTANTS MuxInputs, MaxPushes
VARIABLES blocked, callbacks, buffered, timer, sinkCB, waiting, muxFailed, pushed, delivered

Mux == INSTANCE Mux WITH Inputs <- MuxInputs, failed <- muxFailed

\* The ports of a mux are numbered, and the queue downstream takes something.
MuxPorts ==
  MuxInputs \subseteq Int /\ IsFiniteSet(MuxInputs) /\ Capacity \in Nat \ {0} /\ MaxPushes \in Nat

\* Who is pushed back has its callback stored, in a mux that is blocked; a tuple is
\* buffered only of such an input.
Held ==
  /\ waiting = callbacks /\ buffered \subseteq callbacks
  /\ ~blocked => callbacks = {}

\* Either the queue or the timer will let a blocked mux go on: the queue while it is full,
\* and the timer once it has room.
Unlocks ==
  /\ blocked <=> sinkCB \/ timer
  /\ ~(sinkCB /\ timer)
  /\ sinkCB <=> sink = Capacity

Histories ==
  /\ pushed \in [MuxInputs -> 0 .. MaxPushes] /\ delivered \in [MuxInputs -> Nat]

MuxInv == Mux!TypeOK /\ ~muxFailed /\ Held /\ Unlocks /\ Histories /\ Mux!NothingLost

\* The instance counts as the library does.
LEMMA SameCardinality == \A S : Mux!Cardinality(S) = Cardinality(S)
BY Zenon DEF Mux!Cardinality, Cardinality, Mux!IsFiniteSet, IsFiniteSet

\* The number of members of B below i.
Rank(B, i) == Cardinality({j \in B : j < i})

\* A set of natural numbers has a least one.
LEMMA LeastOf ==
  ASSUME NEW T \in SUBSET Nat, T # {}
  PROVE  \E x \in T : \A y \in T : x <= y
<1>. DEFINE R == OpToRel(<, Nat)
<1>1. IsWellFoundedOn(R, Nat)
  BY NatLessThanWellFounded, Zenon
<1>2. \A x, y \in Nat : <<y, x>> \in R <=> y < x
  BY DEF OpToRel
<1>. HIDE DEF R
<1>3. PICK x \in T : \A y \in T : ~(<<y, x>> \in R)
  BY <1>1, WFMin, Zenon
<1>4. \A y \in T : ~(y < x)
  BY <1>2, <1>3, Zenon
<1>. QED BY <1>4

\* Ranks are at most the size of the set, and a larger member has a larger rank.
LEMMA RankFacts ==
  ASSUME NEW B \in SUBSET Int, IsFiniteSet(B)
  PROVE  /\ Cardinality(B) \in Nat
         /\ \A i \in Int : Rank(B, i) \in Nat /\ Rank(B, i) <= Cardinality(B)
         /\ \A i, j \in B : i < j => Rank(B, i) < Rank(B, j)
<1>1. \A T \in SUBSET B : IsFiniteSet(T) /\ Cardinality(T) \in Nat /\ Cardinality(T) <= Cardinality(B)
  BY FS_Subset, FS_CardinalityType
<1>2. Cardinality(B) \in Nat
  BY FS_CardinalityType
<1>3. \A i \in Int : {j \in B : j < i} \in SUBSET B
  OBVIOUS
<1>4. ASSUME NEW i \in B, NEW j \in B, i < j PROVE Rank(B, i) < Rank(B, j)
  <2>. DEFINE S == {k \in B : k < i}
              T == {k \in B : k < j}
  <2>1. S \subseteq T /\ S # T
    <3>1. i \in T /\ i \notin S
      BY <1>4
    <3>2. \A k \in B : k < i => k < j
      BY <1>4
    <3>. QED BY <3>1, <3>2
  <2>2. IsFiniteSet(T)
    BY <1>1
  <2>. HIDE DEF S, T
  <2>3. Cardinality(S) < Cardinality(T)
    BY <2>1, <2>2, FS_Subset, FS_CardinalityType
  <2>. QED BY <2>3 DEF Rank, S, T
<1>. QED BY <1>1, <1>2, <1>3, <1>4 DEF Rank

\* The members of B that have fewer than k below them are k in number, if there are k.
LEMMA FirstOnes ==
  ASSUME NEW B \in SUBSET Int, IsFiniteSet(B), NEW k \in Nat \ {0}, Cardinality(B) >= k
  PROVE  Cardinality({i \in B : Rank(B, i) < k}) = k
<1>. DEFINE P == {i \in B : Rank(B, i) < k}
<1>1. IsFiniteSet(P) /\ Cardinality(P) \in Nat /\ P \subseteq B
  BY FS_Subset, FS_CardinalityType
<1>2. ASSUME Cardinality(P) < k PROVE FALSE
  <2>. DEFINE T == {Rank(B, i) : i \in B \ P}
  <2>1. P # B /\ Cardinality(B) \in Nat
    BY <1>2, RankFacts
  <2>2. T \in SUBSET Nat /\ T # {}
    BY <1>1, <2>1, RankFacts
  <2>3. PICK x \in T : \A y \in T : x <= y
    <3>. HIDE DEF T
    <3>. QED BY <2>2, LeastOf
  <2>4. PICK m \in B \ P : x = Rank(B, m)
    OBVIOUS
  <2>5. ASSUME NEW j \in B, j < m PROVE j \in P
    <3>1. Rank(B, j) < Rank(B, m) /\ Rank(B, j) \in Nat /\ Rank(B, m) \in Nat
      BY <2>4, <2>5, RankFacts
    <3>. QED BY <2>3, <2>4, <3>1
  <2>6. {j \in B : j < m} \in SUBSET P
    BY <2>5
  <2>7. Rank(B, m) <= Cardinality(P)
    <3>. DEFINE S == {j \in B : j < m}
    <3>1. S \in SUBSET P
      BY <2>6
    <3>. HIDE DEF S, P
    <3>2. Cardinality(S) <= Cardinality(P)
      BY <1>1, <3>1, FS_Subset
    <3>. QED BY <3>2 DEF Rank, S
  <2>8. Rank(B, m) \in Nat /\ ~(Rank(B, m) < k)
    BY <2>4, RankFacts
  <2>. QED BY <1>1, <1>2, <2>7, <2>8
<1>3. ASSUME Cardinality(P) > k PROVE FALSE
  <2>. DEFINE T == {Cardinality(B) - Rank(B, i) : i \in P}
  <2>1. P # {}
    <3>. HIDE DEF P
    <3>. QED BY <1>3, FS_EmptySet
  <2>2. T \in SUBSET Nat /\ T # {}
    <3>1. \A i \in P : Cardinality(B) - Rank(B, i) \in Nat
      BY RankFacts
    <3>. QED BY <2>1, <3>1
  <2>3. PICK x \in T : \A y \in T : x <= y
    <3>. HIDE DEF T
    <3>. QED BY <2>2, LeastOf
  <2>4. PICK m \in P : x = Cardinality(B) - Rank(B, m)
    OBVIOUS
  <2>5. ASSUME NEW j \in P, j # m PROVE j < m
    <3>1. j \in Int /\ m \in Int /\ j \in B /\ m \in B
      BY <1>1, <2>4
    <3>2. Rank(B, j) \in Nat /\ Rank(B, m) \in Nat /\ Cardinality(B) \in Nat
      BY <3>1, RankFacts
    <3>3. Cardinality(B) - Rank(B, m) <= Cardinality(B) - Rank(B, j)
      BY <2>3, <2>4
    <3>4. m < j => Rank(B, m) < Rank(B, j)
      BY <3>1, RankFacts
    <3>. QED BY <2>5, <3>1, <3>2, <3>3, <3>4
  <2>. DEFINE S == {j \in B : j < m}
  <2>6. P \ {m} \in SUBSET S
    BY <1>1, <2>5
  <2>7. IsFiniteSet(S)
    <3>1. S \in SUBSET B
      OBVIOUS
    <3>. QED BY <3>1, FS_Subset
  <2>8. Cardinality(S) < k /\ Cardinality(S) \in Nat
    BY <2>4, <2>7, FS_CardinalityType DEF Rank
  <2>. HIDE DEF S, P
  <2>9. Cardinality(P \ {m}) <= Cardinality(S)
    BY <2>6, <2>7, FS_Subset
  <2>10. Cardinality(P \ {m}) = Cardinality(P) - 1
    BY <1>1, <2>4, FS_RemoveElement
  <2>. QED BY <1>1, <1>3, <2>8, <2>9, <2>10
<1>. QED BY <1>1, <1>2, <1>3

(* What catchUp pushes: all that is buffered when the queue keeps room, and else as much  *)
(* as fills the queue (mux.C, catchUp).                                                  *)
LEMMA CatchUpPushes ==
  ASSUME MuxPorts, Mux!TypeOK, sink < Capacity
  PROVE  /\ Mux!Pushes \subseteq buffered /\ Mux!Rest \subseteq buffered
         /\ buffered \ Mux!Pushes \subseteq Mux!Rest
         /\ Cardinality(Mux!Pushes) \in Nat
         /\ \/ /\ Mux!Pushes = buffered /\ Mux!Rest = {}
               /\ sink + Cardinality(Mux!Pushes) < Capacity /\ Cardinality(Mux!Pushes) # Mux!Room
            \/ /\ buffered # {} /\ Cardinality(Mux!Pushes) = Mux!Room
               /\ sink + Cardinality(Mux!Pushes) = Capacity
<1>1. buffered \in SUBSET Int /\ IsFiniteSet(buffered) /\ Cardinality(buffered) \in Nat
  BY FS_Subset, FS_CardinalityType DEF MuxPorts, Mux!TypeOK
<1>2. Mux!Room \in Nat \ {0} /\ sink + Mux!Room = Capacity /\ sink \in Nat /\ Capacity \in Nat
  BY DEF MuxPorts, Mux!TypeOK, Mux!Room
<1>3. /\ Mux!Pushes \subseteq buffered /\ Mux!Rest \subseteq buffered
      /\ buffered \ Mux!Pushes \subseteq Mux!Rest
  BY DEF Mux!Pushes, Mux!Rest, Mux!Stuck
<1>4. Cardinality(Mux!Pushes) \in Nat
  BY <1>1, <1>3, FS_Subset, FS_CardinalityType
<1>5. CASE Cardinality(buffered) < Mux!Room
  <2>1. Mux!Pushes = buffered
    BY <1>5, SameCardinality DEF Mux!Pushes
  <2>2. ASSUME NEW i \in buffered PROVE Cardinality({j \in buffered : j <= i}) # Mux!Room
    <3>. DEFINE S == {j \in buffered : j <= i}
    <3>1. S \in SUBSET buffered
      OBVIOUS
    <3>. HIDE DEF S
    <3>2. Cardinality(S) \in Nat /\ Cardinality(S) <= Cardinality(buffered)
      BY <1>1, <3>1, FS_Subset, FS_CardinalityType
    <3>3. Cardinality(S) # Mux!Room
      BY <1>1, <1>2, <1>5, <3>2
    <3>. QED BY <3>3 DEF S
  <2>3. Mux!Rest = {}
    BY <2>1, <2>2, SameCardinality DEF Mux!Rest, Mux!Stuck
  <2>4. sink + Cardinality(buffered) < Capacity
    BY <1>1, <1>2, <1>5
  <2>. QED BY <1>1, <1>2, <1>3, <1>4, <1>5, <2>1, <2>3, <2>4
<1>6. CASE ~(Cardinality(buffered) < Mux!Room)
  <2>1. Mux!Pushes = {i \in buffered : Rank(buffered, i) < Mux!Room}
    BY <1>6, SameCardinality DEF Mux!Pushes, Rank
  <2>2. Cardinality(buffered) >= Mux!Room
    BY <1>1, <1>2, <1>6
  <2>. DEFINE k == Mux!Room
              B == buffered
  <2>. HIDE DEF k, B
  <2>3. Cardinality({i \in B : Rank(B, i) < k}) = k
    BY <1>1, <1>2, <2>2, FirstOnes DEF k, B
  <2>4. Cardinality(Mux!Pushes) = Mux!Room
    BY <2>1, <2>3 DEF k, B
  <2>5. buffered # {}
    BY <1>2, <2>2, FS_EmptySet
  <2>. QED BY <1>2, <1>3, <1>4, <2>4, <2>5
<1>. QED BY <1>5, <1>6

\* A new Mux is not blocked and holds nothing.
LEMMA MuxInit == ASSUME MuxPorts, Mux!Init PROVE MuxInv
<1>1. Mux!TypeOK
  <2>1. sink \in 0 .. Capacity
    BY DEF MuxPorts, Mux!Init
  <2>. QED BY <2>1 DEF Mux!Init, Mux!TypeOK
<1>2. Held /\ ~muxFailed
  BY DEF Mux!Init, Held
<1>3. Unlocks
  BY DEF MuxPorts, Mux!Init, Unlocks
<1>4. Histories /\ Mux!NothingLost
  BY DEF MuxPorts, Mux!Init, Histories, Mux!NothingLost
<1>. QED BY <1>1, <1>2, <1>3, <1>4 DEF MuxInv

\* The numbers of tuples stay in step when one of input i is delivered.
LEMMA CountedFacts ==
  ASSUME MuxPorts, NEW n \in Nat, NEW p \in 0 .. MaxPushes
  PROVE  Mux!Counted(n) \in Nat /\ (p <= n + 1 => p <= Mux!Counted(n))
BY DEF MuxPorts, Mux!Counted

\* Mux::push: the tuple goes to the queue, or is buffered while the Mux is blocked.
LEMMA MuxPush ==
  ASSUME MuxPorts, MuxInv, NEW i \in MuxInputs, Mux!push(i)
  PROVE  MuxInv'
<1>1. i \notin callbacks /\ i \notin buffered /\ i \notin waiting
  BY DEF MuxInv, Held, Mux!push
<1>2. /\ pushed' = [pushed EXCEPT ![i] = @ + 1] /\ pushed[i] < MaxPushes
      /\ blocked => Mux!Buffer(i)
      /\ ~blocked => Mux!Forward(i)
  BY <1>1 DEF Mux!push
<1>3. /\ pushed' \in [MuxInputs -> 0 .. MaxPushes] /\ pushed'[i] = pushed[i] + 1
      /\ \A j \in MuxInputs \ {i} : pushed'[j] = pushed[j]
      /\ \A j \in MuxInputs : pushed[j] \in Nat /\ delivered[j] \in Nat
  BY <1>2 DEF MuxInv, Histories, MuxPorts
<1>4. pushed[i] <= delivered[i]
  <2>1. pushed[i] <= delivered[i] + 0
    BY <1>1 DEF MuxInv, Mux!NothingLost
  <2>. QED BY <1>3, <2>1
<1>5. CASE blocked
  <2>1. /\ buffered' = buffered \cup {i} /\ callbacks' = callbacks \cup {i}
        /\ waiting' = waiting \cup {i}
        /\ UNCHANGED <<blocked, timer, sink, sinkCB, muxFailed, delivered>>
    BY <1>2, <1>5 DEF Mux!Buffer, Mux!queue
  <2>2. Mux!TypeOK'
    BY <2>1 DEF MuxInv, Mux!TypeOK
  <2>3. Held' /\ ~muxFailed'
    BY <1>5, <2>1 DEF MuxInv, Held
  <2>4. Unlocks'
    BY <2>1 DEF MuxInv, Unlocks
  <2>5. Histories'
    BY <1>3, <2>1 DEF MuxInv, Histories
  <2>6. pushed'[i] <= delivered'[i] + 1 /\ i \in buffered'
    BY <1>3, <1>4, <2>1
  <2>7. Mux!NothingLost'
    BY <1>3, <2>1, <2>6 DEF MuxInv, Mux!NothingLost
  <2>. QED BY <2>2, <2>3, <2>4, <2>5, <2>7 DEF MuxInv
<1>6. CASE ~blocked
  <2>1. /\ sink' = sink + 1 /\ UNCHANGED <<buffered, timer, muxFailed>>
        /\ delivered' = [delivered EXCEPT ![i] = Mux!Counted(@)]
        /\ \/ /\ sink + 1 = Capacity /\ blocked' = TRUE /\ sinkCB' = TRUE
              /\ callbacks' = callbacks \cup {i} /\ waiting' = waiting \cup {i}
           \/ sink + 1 # Capacity /\ UNCHANGED <<blocked, sinkCB, callbacks, waiting>>
    BY <1>2, <1>6 DEF Mux!Forward, Mux!Refuses
  <2>2. callbacks = {} /\ buffered = {} /\ waiting = {} /\ ~sinkCB /\ ~timer /\ sink # Capacity
    BY <1>6 DEF MuxInv, Held, Unlocks, Mux!TypeOK
  <2>3. sink' \in 0 .. Capacity
    BY <2>1, <2>2 DEF MuxInv, Mux!TypeOK, MuxPorts
  <2>4. Mux!TypeOK'
    BY <2>1, <2>3 DEF MuxInv, Mux!TypeOK
  <2>5. Held' /\ ~muxFailed'
    BY <1>6, <2>1, <2>2 DEF MuxInv, Held
  <2>6. Unlocks'
    BY <1>6, <2>1, <2>2 DEF Unlocks
  <2>7. Mux!Counted(delivered[i]) \in Nat /\ pushed'[i] <= Mux!Counted(delivered[i])
    BY <1>3, <1>4, CountedFacts
  <2>8. Histories'
    <3>1. delivered \in [MuxInputs -> Nat]
      BY DEF MuxInv, Histories
    <3>2. delivered' \in [MuxInputs -> Nat]
      BY <2>1, <2>7, <3>1
    <3>. QED BY <1>3, <3>2 DEF Histories
  <2>9. Mux!NothingLost'
    <3>1. delivered'[i] = Mux!Counted(delivered[i])
          /\ \A j \in MuxInputs \ {i} : delivered'[j] = delivered[j]
      BY <2>1 DEF MuxInv, Histories
    <3>2. \A j \in MuxInputs : pushed'[j] <= delivered'[j]
      <4>1. ASSUME NEW j \in MuxInputs \ {i} PROVE pushed'[j] <= delivered'[j]
        <5>1. pushed[j] <= delivered[j] + 0
          BY <2>2 DEF MuxInv, Mux!NothingLost
        <5>2. pushed'[j] = pushed[j] /\ delivered'[j] = delivered[j] /\ delivered[j] \in Nat
          BY <1>3, <3>1
        <5>. QED BY <5>1, <5>2
      <4>. QED BY <2>7, <3>1, <4>1
    <3>3. delivered' \in [MuxInputs -> Nat] /\ buffered' = {}
      BY <2>1, <2>2, <2>8 DEF Histories
    <3>. QED BY <3>2, <3>3 DEF Mux!NothingLost
  <2>. QED BY <2>4, <2>5, <2>6, <2>8, <2>9 DEF MuxInv
<1>. QED BY <1>5, <1>6

\* A pull from the queue below: its callback makes the Mux start the timer of catchUp.
LEMMA MuxPull ==
  ASSUME MuxPorts, MuxInv, Mux!Pull
  PROVE  MuxInv'
<1>1. /\ sink > 0 /\ sink' = sink - 1 /\ sinkCB' = FALSE /\ timer' = (timer \/ sinkCB)
      /\ UNCHANGED <<blocked, callbacks, buffered, waiting, muxFailed, pushed, delivered>>
  BY DEF Mux!Pull, Mux!history, MuxInv, Unlocks
<1>2. sink' \in 0 .. Capacity /\ sink' # Capacity
  BY <1>1 DEF MuxInv, Mux!TypeOK, MuxPorts
<1>3. Mux!TypeOK'
  BY <1>1, <1>2 DEF MuxInv, Mux!TypeOK
<1>4. Unlocks'
  BY <1>1, <1>2 DEF MuxInv, Unlocks
<1>5. Held' /\ Histories' /\ Mux!NothingLost' /\ ~muxFailed'
  BY <1>1 DEF MuxInv, Held, Histories, Mux!NothingLost
<1>. QED BY <1>3, <1>4, <1>5 DEF MuxInv

\* Mux::catchUp: what was buffered is pushed while the queue takes it, and inputs are called.
LEMMA MuxCatchUp ==
  ASSUME MuxPorts, MuxInv, Mux!catchUp
  PROVE  MuxInv'
<1>. DEFINE P == Mux!Pushes
            R == Mux!Rest
<1>1. blocked /\ buffered \subseteq callbacks /\ timer /\ ~sinkCB /\ sink < Capacity
  BY DEF Mux!catchUp, MuxInv, Held, Unlocks, Mux!TypeOK, MuxPorts
<1>2. /\ timer' = FALSE /\ sink' = sink + Cardinality(P) /\ buffered' = R
      /\ delivered' = [i \in MuxInputs |-> IF i \in P THEN Mux!Counted(delivered[i]) ELSE delivered[i]]
      /\ UNCHANGED <<muxFailed, pushed>>
  BY <1>1, SameCardinality DEF Mux!catchUp
<1>3. \/ /\ buffered # {} /\ Cardinality(P) = Mux!Room
         /\ sinkCB' = TRUE /\ UNCHANGED <<blocked, callbacks, waiting>>
      \/ /\ ~(buffered # {} /\ Cardinality(P) = Mux!Room)
         /\ callbacks' = {} /\ waiting' = waiting \ callbacks /\ blocked' = FALSE /\ sinkCB' = sinkCB
  BY <1>1, SameCardinality DEF Mux!catchUp, Mux!Callbacks, Mux!Woken
<1>4. /\ P \subseteq buffered /\ R \subseteq buffered /\ buffered \ P \subseteq R
      /\ Cardinality(P) \in Nat
      /\ \/ /\ P = buffered /\ R = {} /\ sink + Cardinality(P) < Capacity
            /\ Cardinality(P) # Mux!Room
         \/ /\ buffered # {} /\ Cardinality(P) = Mux!Room
            /\ sink + Cardinality(P) = Capacity
  BY <1>1, CatchUpPushes DEF MuxInv
<1>. HIDE DEF P, R
<1>5. buffered \subseteq MuxInputs /\ callbacks \subseteq MuxInputs /\ waiting = callbacks
      /\ sink \in Nat /\ Capacity \in Nat
  BY DEF MuxInv, Mux!TypeOK, Held, MuxPorts
<1>6. ASSUME sink' = Capacity, sinkCB' = TRUE, UNCHANGED <<blocked, callbacks, waiting>>
      PROVE  Mux!TypeOK' /\ Held' /\ Unlocks'
  <2>1. Mux!TypeOK'
    <3>1. sink' \in 0 .. Capacity
      BY <1>5, <1>6
    <3>2. buffered' \subseteq MuxInputs
      BY <1>2, <1>4, <1>5
    <3>. QED BY <1>2, <1>6, <3>1, <3>2 DEF MuxInv, Mux!TypeOK
  <2>2. Held'
    BY <1>1, <1>2, <1>4, <1>6 DEF MuxInv, Held
  <2>3. Unlocks'
    BY <1>1, <1>2, <1>6 DEF MuxInv, Unlocks
  <2>. QED BY <2>1, <2>2, <2>3
<1>7. ASSUME R = {}, sink' < Capacity, callbacks' = {}, waiting' = {}, blocked' = FALSE,
             sinkCB' = sinkCB
      PROVE  Mux!TypeOK' /\ Held' /\ Unlocks'
  <2>1. sink' \in 0 .. Capacity /\ sink' # Capacity
    BY <1>2, <1>4, <1>5, <1>7
  <2>2. Mux!TypeOK'
    BY <1>1, <1>2, <1>7, <2>1 DEF MuxInv, Mux!TypeOK
  <2>3. Held'
    BY <1>2, <1>7 DEF Held
  <2>4. Unlocks'
    BY <1>1, <1>2, <1>7, <2>1 DEF Unlocks
  <2>. QED BY <2>2, <2>3, <2>4
<1>8. Mux!TypeOK' /\ Held' /\ Unlocks'
  BY <1>2, <1>3, <1>4, <1>5, <1>6, <1>7
<1>9. ASSUME NEW i \in MuxInputs
      PROVE  /\ delivered'[i] \in Nat
             /\ pushed[i] <= delivered'[i] + (IF i \in buffered' THEN 1 ELSE 0)
  <2>1. delivered[i] \in Nat /\ pushed[i] \in 0 .. MaxPushes /\ pushed[i] \in Nat
    BY DEF MuxInv, Histories, MuxPorts
  <2>2. pushed[i] <= delivered[i] + (IF i \in buffered THEN 1 ELSE 0)
    BY DEF MuxInv, Mux!NothingLost
  <2>3. CASE i \in P
    <3>1. delivered'[i] = Mux!Counted(delivered[i])
      BY <1>2, <2>3
    <3>2. pushed[i] <= delivered[i] + 1
      BY <2>1, <2>2
    <3>3. delivered'[i] \in Nat /\ pushed[i] <= delivered'[i]
      BY <2>1, <3>1, <3>2, CountedFacts
    <3>. QED BY <2>1, <3>3
  <2>4. CASE i \notin P
    <3>1. delivered'[i] = delivered[i]
      BY <1>2, <2>4
    <3>2. i \in buffered => i \in buffered'
      BY <1>2, <1>4, <2>4
    <3>. QED BY <2>1, <2>2, <3>1, <3>2
  <2>. QED BY <2>3, <2>4
<1>10. Histories'
  BY <1>2, <1>9 DEF MuxInv, Histories
<1>11. Mux!NothingLost' /\ ~muxFailed'
  BY <1>2, <1>9 DEF MuxInv, Mux!NothingLost
<1>. QED BY <1>8, <1>10, <1>11 DEF MuxInv

\* Every step of the Mux preserves its invariant.
LEMMA MuxNext == ASSUME MuxPorts, MuxInv, [Mux!Next]_(Mux!vars) PROVE MuxInv'
<1>1. CASE UNCHANGED Mux!vars
  BY <1>1 DEF Mux!vars, Mux!mux, Mux!queue, Mux!history, MuxInv, Mux!TypeOK, Held, Unlocks,
     Histories, Mux!NothingLost
<1>. QED BY <1>1, MuxPull, MuxCatchUp, MuxPush DEF Mux!Next

(* Whatever the number of inputs and the size of the queue: no assertion of mux.C fails  *)
(* and the queue is never overrun; an input that was pushed back has its callback stored *)
(* in a blocked mux that the queue or the timer will call; and every tuple pushed gets   *)
(* to the queue or is buffered (Mux::push, callback, catchUp).                           *)
THEOREM MuxSafe ==
  ASSUME MuxPorts
  PROVE  Mux!Spec => [](/\ Mux!TypeOK /\ Mux!AssertionsHold
                        /\ Mux!WaitingWillBeCalled /\ Mux!NothingLost)
<1>1. MuxInv => Mux!TypeOK /\ Mux!AssertionsHold /\ Mux!WaitingWillBeCalled /\ Mux!NothingLost
  BY DEF MuxInv, Held, Unlocks, Mux!AssertionsHold, Mux!WaitingWillBeCalled
<1>. QED BY <1>1, MuxInit, MuxNext, PTL DEF Mux!Spec
=============================================================================
