---------------------------- MODULE Table2Proofs ----------------------------
(***************************************************************************)
(* Proofs that the invariants of Table2 hold for every set of tuples and   *)
(* entries, every key, grouping and aggregate function, every size limit   *)
(* and lifetime, and every bound on the clock and the queue.               *)
(***************************************************************************)
EXTENDS Table2, FiniteSetTheorems, TLAPS

-----------------------------------------------------------------------------
(* What commonInsertTuple and removeTupleOfEntry preserve.                 *)

\* The rows of a group are a set of tuples, so the aggregate has a result.
LEMMA GroupRowsType ==
  ASSUME NEW S, NEW tup, NEW g, \A e \in S : tup[e] \in Tuples
  PROVE  GroupRows(S, tup, g) \in SUBSET Tuples
BY DEF GroupRows

-----------------------------------------------------------------------------
(* A row that leaves or enters the table takes the secondary index, the    *)
(* listeners and the aggregate with it.                                    *)

\* removeTupleOfEntry followed by the erase from the primary index.
LEMMA RowLeaves ==
  ASSUME CommonTypeOK, IndicesAgree, ListenersKnowRows, AggregatesCurrent,
         NEW e \in primary, RemoveTupleOfEntry(e),
         primary' = primary \ {e}, tuple' = [tuple EXCEPT ![e] = NULL],
         primary' \subseteq live'
  PROVE  /\ IndicesAgree' /\ ListenersKnowRows' /\ AggregatesCurrent'
         /\ agg' \in [Groups -> Results] /\ view' \in [Tuples -> Int]
         /\ secondary' \subseteq Entries
<1> DEFINE t == tuple[e]
           g == Group(t)
<1>1. /\ primary \subseteq Entries /\ e \in Entries
      /\ tuple \in [Entries -> Tuples \cup {NULL}]
      /\ agg \in [Groups -> Results]
      /\ view \in [Tuples -> Int]
  BY DEF CommonTypeOK
<1>2. t \in Tuples /\ g \in Groups
  BY DEF IndicesAgree, Groups
<1>3. /\ secondary' = secondary \ {e}
      /\ view' = [view EXCEPT ![t] = @ - 1]
      /\ agg' = [agg EXCEPT ![g] = AggFn(GroupRows(secondary', tuple, g))]
  BY DEF RemoveTupleOfEntry, AggUpdate
<1>4. \A f \in primary' : tuple'[f] = tuple[f]
  BY <1>1
<1>5. IndicesAgree'
  BY <1>1, <1>3, <1>4 DEF IndicesAgree
<1>6. Rows' = Rows \ {t}
  BY <1>1, <1>4 DEF Rows, IndicesAgree
<1>7. ListenersKnowRows'
  <2>1. t \in Rows
    BY DEF Rows
  <2>2. \A u \in Tuples : view[u] = IF u \in Rows THEN 1 ELSE 0
    BY DEF ListenersKnowRows
  <2> HIDE DEF t
  <2>3. \A u \in Tuples : view'[u] = IF u \in Rows \ {t} THEN 1 ELSE 0
    BY <1>1, <1>2, <1>3, <2>1, <2>2
  <2> QED
    BY <1>6, <2>3 DEF ListenersKnowRows
<1>8. GroupRows(secondary', tuple, g) = {u \in Rows' : Group(u) = g}
  <2>1. secondary' = primary'
    BY <1>5 DEF IndicesAgree
  <2>2. Rows' = {tuple[f] : f \in primary'}
    BY <1>4 DEF Rows
  <2> HIDE DEF g
  <2> QED
    BY <2>1, <2>2 DEF GroupRows
<1>9. GroupRows(secondary', tuple, g) \in SUBSET Tuples
  BY <1>4, <1>5, GroupRowsType DEF IndicesAgree
<1>10. agg' \in [Groups -> Results] /\ agg'[g] # Unseen
  BY <1>1, <1>2, <1>3, <1>9, AggFnAssumption DEF Results
<1>11. AggregatesCurrent'
  <2> SUFFICES ASSUME NEW k \in Groups
               PROVE  LET rows == {u \in Rows' : Group(u) = k}
                      IN  IF agg'[k] = Unseen THEN rows = {}
                                              ELSE agg'[k] = AggFn(rows)
    BY DEF AggregatesCurrent
  <2>1. CASE k = g
    BY <1>1, <1>2, <1>3, <1>8, <1>10, <2>1
  <2>2. CASE k # g
    <3>1. {u \in Rows' : Group(u) = k} = {u \in Rows : Group(u) = k}
      BY <1>6, <2>2
    <3>2. agg'[k] = agg[k]
      BY <1>1, <1>3, <2>2
    <3> QED
      BY <3>1, <3>2 DEF AggregatesCurrent
  <2> QED
    BY <2>1, <2>2
<1>12. view' \in [Tuples -> Int]
  BY <1>1, <1>2, <1>3
<1> QED
  BY <1>1, <1>3, <1>5, <1>7, <1>10, <1>11, <1>12 DEF IndicesAgree

\* insertTuple of a tuple whose key no row has.
LEMMA RowEnters ==
  ASSUME CommonTypeOK, IndicesAgree, ListenersKnowRows, AggregatesCurrent,
         NEW t \in Tuples, Find(t) = {}, NEW e \in Entries \ live, NEW n, NEW rc,
         NewEntry(e, t, n, rc), CommonInsertTuple(e, t)
  PROVE  /\ IndicesAgree' /\ ListenersKnowRows' /\ AggregatesCurrent'
         /\ agg' \in [Groups -> Results] /\ view' \in [Tuples -> Int]
         /\ secondary' \subseteq Entries
<1> DEFINE g == Group(t)
<1>1. /\ primary \subseteq Entries /\ e \in Entries /\ e \notin primary
      /\ tuple \in [Entries -> Tuples \cup {NULL}]
      /\ agg \in [Groups -> Results]
      /\ view \in [Tuples -> Int]
      /\ g \in Groups
  BY DEF CommonTypeOK, IndicesAgree, Groups
<1>2. /\ live' = live \cup {e}
      /\ tuple' = [tuple EXCEPT ![e] = t]
      /\ primary' = primary \cup {e}
      /\ secondary' = secondary \cup {e}
      /\ view' = [view EXCEPT ![t] = @ + 1]
      /\ agg' = [agg EXCEPT ![g] = AggFn(GroupRows(secondary', tuple', g))]
  BY DEF NewEntry, CommonInsertTuple, AggUpdate
<1>3. tuple'[e] = t /\ \A f \in primary : tuple'[f] = tuple[f]
  BY <1>1, <1>2
<1>4. IndicesAgree'
  BY <1>1, <1>2, <1>3 DEF IndicesAgree, Find
<1>5. Rows' = Rows \cup {t}
  BY <1>1, <1>2, <1>3 DEF Rows
<1>6. t \notin Rows
  BY DEF Rows, Find
<1>7. ListenersKnowRows'
  <2>1. \A u \in Tuples : view[u] = IF u \in Rows THEN 1 ELSE 0
    BY DEF ListenersKnowRows
  <2>2. \A u \in Tuples : view'[u] = IF u \in Rows \cup {t} THEN 1 ELSE 0
    BY <1>1, <1>2, <1>6, <2>1
  <2> QED
    BY <1>5, <2>2 DEF ListenersKnowRows
<1>8. GroupRows(secondary', tuple', g) = {u \in Rows' : Group(u) = g}
  <2>1. secondary' = primary'
    BY <1>4 DEF IndicesAgree
  <2> HIDE DEF g
  <2> QED
    BY <2>1 DEF GroupRows, Rows
<1>9. GroupRows(secondary', tuple', g) \in SUBSET Tuples
  BY <1>4, GroupRowsType DEF IndicesAgree
<1>10. agg' \in [Groups -> Results] /\ agg'[g] # Unseen
  BY <1>1, <1>2, <1>9, AggFnAssumption DEF Results
<1>11. AggregatesCurrent'
  <2> SUFFICES ASSUME NEW k \in Groups
               PROVE  LET rows == {u \in Rows' : Group(u) = k}
                      IN  IF agg'[k] = Unseen THEN rows = {}
                                              ELSE agg'[k] = AggFn(rows)
    BY DEF AggregatesCurrent
  <2>1. CASE k = g
    BY <1>1, <1>2, <1>8, <1>10, <2>1
  <2>2. CASE k # g
    <3>1. {u \in Rows' : Group(u) = k} = {u \in Rows : Group(u) = k}
      BY <1>5, <2>2
    <3>2. agg'[k] = agg[k]
      BY <1>1, <1>2, <2>2
    <3> QED
      BY <3>1, <3>2 DEF AggregatesCurrent
  <2> QED
    BY <2>1, <2>2
<1>12. view' \in [Tuples -> Int]
  BY <1>1, <1>2
<1> QED
  BY <1>1, <1>2, <1>4, <1>7, <1>10, <1>11, <1>12 DEF IndicesAgree

-----------------------------------------------------------------------------
(* How the operations on the queue change the instances of an entry.       *)

\* The instances of an entry in a queue are finitely many.
LEMMA PositionsFinite ==
  ASSUME NEW q \in Seq(Entries), NEW e
  PROVE  IsFiniteSet(Positions(q, e)) /\ Cardinality(Positions(q, e)) \in Nat
<1>1. Len(q) \in Nat
  OBVIOUS
<1>2. IsFiniteSet(1..Len(q))
  BY <1>1, FS_Interval
<1>3. Positions(q, e) \in SUBSET (1..Len(q))
  BY DEF Positions
<1> QED
  BY <1>2, <1>3, FS_Subset, FS_CardinalityType

\* pop_back takes one instance of the entry at the back and no other.
LEMMA PositionsTail ==
  ASSUME NEW q \in Seq(Entries), q # << >>, NEW e
  PROVE  Cardinality(Positions(Tail(q), e)) =
           IF e = Head(q) THEN Cardinality(Positions(q, e)) - 1
                          ELSE Cardinality(Positions(q, e))
<1> DEFINE A == Positions(Tail(q), e)
           B == Positions(q, e) \ {1}
           f == [i \in A |-> i + 1]
<1>1. /\ Tail(q) \in Seq(Entries)
      /\ Len(Tail(q)) = Len(q) - 1
      /\ \A i \in 1..Len(Tail(q)) : Tail(q)[i] = q[i+1]
      /\ Len(q) \in Nat \ {0}
  OBVIOUS
<1>2. f \in [A -> B]
  BY <1>1 DEF Positions
<1>3. \A i, j \in A : f[i] = f[j] => i = j
  BY <1>1 DEF Positions
<1>4. \A k \in B : \E i \in A : f[i] = k
  <2> TAKE k \in B
  <2>1. k - 1 \in A /\ f[k - 1] = k
    BY <1>1 DEF Positions
  <2> QED
    BY <2>1
<1>5. f \in Bijection(A, B)
  <2> HIDE DEF A, B, f
  <2> QED
    BY <1>2, <1>3, <1>4 DEF Bijection, Injection, Surjection, IsInjective
<1>6. IsFiniteSet(A) /\ ExistsBijection(A, B)
  BY <1>1, <1>5, PositionsFinite, Zenon DEF ExistsBijection
<1>7. Cardinality(B) = Cardinality(A)
  <2> HIDE DEF A, B
  <2> QED
    BY <1>6, FS_Bijection
<1>8. 1 \in Positions(q, e) <=> e = Head(q)
  BY <1>1 DEF Positions
<1> QED
  BY <1>7, <1>8, PositionsFinite, FS_RemoveElement, Zenon

\* push_front adds one instance of the entry pushed and no other.
LEMMA PositionsAppend ==
  ASSUME NEW q \in Seq(Entries), NEW x \in Entries, NEW e
  PROVE  Cardinality(Positions(Append(q, x), e)) =
           IF e = x THEN Cardinality(Positions(q, e)) + 1
                    ELSE Cardinality(Positions(q, e))
<1>1. Len(q) \in Nat /\ Len(Append(q, x)) = Len(q) + 1
  OBVIOUS
<1>2. /\ Append(q, x)[Len(q) + 1] = x
      /\ \A i \in 1..Len(q) : Append(q, x)[i] = q[i]
  BY <1>1
<1>3. Len(q) + 1 \notin Positions(q, e)
  BY <1>1 DEF Positions
<1>4. CASE e = x
  <2>1. Positions(Append(q, x), e) = Positions(q, e) \cup {Len(q) + 1}
    <3>1. \A i \in 1..Len(q) + 1 : i \in 1..Len(q) \/ i = Len(q) + 1
      BY <1>1
    <3>2. Positions(Append(q, x), e) \subseteq Positions(q, e) \cup {Len(q) + 1}
      BY <1>1, <1>2, <3>1 DEF Positions
    <3>3. Positions(q, e) \cup {Len(q) + 1} \subseteq Positions(Append(q, x), e)
      BY <1>1, <1>2, <1>4 DEF Positions
    <3> QED
      BY <3>2, <3>3
  <2> DEFINE P == Positions(q, e)
             k == Len(q) + 1
  <2>2. IsFiniteSet(P) /\ k \notin P
    BY <1>3, PositionsFinite
  <2>3. Cardinality(P \cup {k}) = Cardinality(P) + 1
    <3> HIDE DEF P, k
    <3> QED
      BY <2>2, FS_AddElement
  <2> QED
    BY <1>4, <2>1, <2>3
<1>5. CASE e # x
  <2>1. Positions(Append(q, x), e) = Positions(q, e)
    BY <1>1, <1>2, <1>5 DEF Positions
  <2> QED
    BY <1>5, <2>1
<1> QED
  BY <1>4, <1>5
-----------------------------------------------------------------------------
(* Facts about entries that the steps of flush and of the bodies use.      *)

\* The queue holds only allocated entries.
LEMMA QueueLive ==
  ASSUME TypeOK, RefCountsExact, Flushing, queue # << >>
  PROVE  /\ Head(queue) \in live
         /\ Head(queue) \in Entries
         /\ Tail(queue) \in Seq(Entries)
<1> DEFINE h == Head(queue)
<1>1. /\ h \in Entries
      /\ Tail(queue) \in Seq(Entries)
      /\ Len(queue) \in Nat \ {0}
      /\ queue \in Seq(Entries)
  BY DEF TypeOK, CommonTypeOK
<1>2. 1 \in Positions(queue, h)
  BY <1>1 DEF Positions
<1>3. Cardinality(Positions(queue, h)) # 0
  BY <1>1, <1>2, PositionsFinite, FS_EmptySet
<1> QED
  BY <1>1, <1>3 DEF RefCountsExact, Instances

\* An allocated entry of a flushing table is in the queue.
LEMMA LiveQueued ==
  ASSUME TypeOK, RefCountsExact, Flushing, queue = << >>
  PROVE  live = {}
<1> SUFFICES ASSUME NEW e \in live PROVE FALSE
  OBVIOUS
<1>1. Positions(queue, e) = {}
  BY DEF Positions
<1>2. Cardinality(Positions(queue, e)) = 0
  BY <1>1, FS_EmptySet
<1> QED
  BY <1>2 DEF TypeOK, CommonTypeOK, RefCountsExact, Instances

\* flushEntry pops one instance: counts stay exact.
LEMMA PopCounts ==
  ASSUME TypeOK, RefCountsExact, Flushing, queue # << >>,
         queue' = Tail(queue),
         IF refCount[Head(queue)] > 0
         THEN /\ refCount' = [refCount EXCEPT ![Head(queue)] = @ - 1]
              /\ live' = live
         ELSE /\ refCount' = refCount
              /\ live' = live \ {Head(queue)}
  PROVE  RefCountsExact'
<1> DEFINE h == Head(queue)
<1>1. h \in live /\ h \in Entries /\ queue \in Seq(Entries)
  BY QueueLive DEF TypeOK, CommonTypeOK
<1>2. SUFFICES ASSUME NEW e \in Entries
               PROVE  Cardinality(Positions(Tail(queue), e)) =
                        IF e \in live' THEN refCount'[e] + 1 ELSE 0
  BY DEF RefCountsExact, Instances
<1>3. Cardinality(Positions(queue, e)) = IF e \in live THEN refCount[e] + 1 ELSE 0
  BY DEF RefCountsExact, Instances
<1>4. Cardinality(Positions(Tail(queue), e)) =
        IF e = h THEN Cardinality(Positions(queue, e)) - 1
                 ELSE Cardinality(Positions(queue, e))
  BY <1>1, PositionsTail
<1>5. refCount \in [Entries -> Nat]
  BY DEF TypeOK, CommonTypeOK
<1> HIDE DEF h
<1>6. CASE refCount[h] > 0
  BY <1>1, <1>3, <1>4, <1>5, <1>6 DEF h
<1>7. CASE ~(refCount[h] > 0)
  BY <1>1, <1>3, <1>4, <1>5, <1>7 DEF h
<1> QED
  BY <1>6, <1>7
-----------------------------------------------------------------------------
(* Every step preserves the invariant.                                     *)

\* Init establishes it.
LEMMA InitInv == Init => TableInv
<1> SUFFICES ASSUME Init PROVE TableInv
  OBVIOUS
<1> USE DEF Init, CommonInit
<1>1. TypeOK
  <2>1. arg \in Tuples
    BY TuplesAssumption
  <2>2. queue \in Seq(Entries)
    OBVIOUS
  <2>3. agg \in [Groups -> Results]
    BY DEF Results
  <2>4. posted \in BOOLEAN /\ ret \in BOOLEAN
    BY Zenon
  <2>5. /\ live \subseteq Entries /\ primary \subseteq Entries
        /\ secondary \subseteq Entries /\ found \subseteq Tuples
    OBVIOUS
  <2>6. /\ tuple \in [Entries -> Tuples \cup {NULL}]
        /\ time \in [Entries -> Nat]
        /\ refCount \in [Entries -> Nat]
        /\ view \in [Tuples -> Int]
    OBVIOUS
  <2>7. now \in Nat /\ expiry \in Int /\ pc = "idle" /\ op = "lookup"
    OBVIOUS
  <2> HIDE DEF Init
  <2> QED
    BY <2>1, <2>2, <2>3, <2>4, <2>5, <2>6, <2>7 DEF TypeOK, CommonTypeOK, Ops
<1>2. IndicesOK
  BY DEF IndicesOK, IndicesAgree
<1>3. Rows = {}
  BY DEF Rows
<1>4. RefCountsExact
  <2>1. \A e \in Entries : Positions(queue, e) = {}
    BY DEF Positions
  <2>2. \A e \in Entries : Cardinality(Positions(queue, e)) = 0
    BY <2>1, FS_EmptySet
  <2> QED
    BY <2>2 DEF RefCountsExact, Instances
<1>5. IsFiniteSet(primary) /\ Cardinality(primary) = 0
  BY FS_EmptySet
<1>6. StepsOK
  BY <1>5, LimitsAssumption DEF StepsOK, Alive
<1>7. SizeBounded
  BY <1>5, LimitsAssumption DEF SizeBounded
<1>8. ListenersOK
  BY <1>3 DEF ListenersOK, ListenersKnowRows
<1>9. AggregatesOK
  BY <1>3 DEF AggregatesOK, AggregatesCurrent
<1> QED
  BY <1>1, <1>2, <1>4, <1>6, <1>7, <1>8, <1>9 DEF TableInv

\* A step that only moves the control of a call.
LEMMA ControlStep ==
  ASSUME TableInv, UNCHANGED <<commonVars, queue>>, TypeOK', Alive, Alive',
         pc' # "insert", pc' \in {"expire", "evict"} => Flushing,
         (pc' \in {"idle", "flushed"} /\ MaxSize > 0)
            => Cardinality(primary) <= MaxSize
  PROVE  TableInv'
<1> USE DEF commonVars
<1>1. Rows' = Rows
  BY DEF Rows
<1>2. IndicesOK'
  BY DEF TableInv, IndicesOK, IndicesAgree
<1>3. RefCountsExact'
  BY DEF TableInv, RefCountsExact, Instances, Flushing
<1>4. StepsOK'
  BY DEF TableInv, StepsOK, Alive, Flushing
<1>5. SizeBounded'
  BY DEF SizeBounded
<1>6. ListenersOK'
  BY <1>1 DEF TableInv, ListenersOK, ListenersKnowRows
<1>7. AggregatesOK'
  BY <1>1 DEF TableInv, AggregatesOK, AggregatesCurrent
<1> QED
  BY <1>2, <1>3, <1>4, <1>5, <1>6, <1>7 DEF TableInv

\* The clock and the return values are no part of it.
LEMMA TickInv ==
  ASSUME TableInv, Tick
  PROVE  TableInv'
<1> USE DEF Tick, commonVars
<1>1. TypeOK'
  BY DEF TableInv, TypeOK, CommonTypeOK
<1>2. Rows' = Rows /\ (Alive' <=> Alive) /\ Find(arg)' = Find(arg)
  BY DEF Rows, Alive, Find
<1>3. IndicesOK'
  BY <1>2 DEF TableInv, IndicesOK, IndicesAgree
<1>4. RefCountsExact'
  BY DEF TableInv, RefCountsExact, Instances, Flushing
<1>5. StepsOK'
  BY <1>2 DEF TableInv, StepsOK, Flushing
<1>6. SizeBounded'
  BY DEF TableInv, SizeBounded
<1>7. ListenersOK'
  BY <1>2 DEF TableInv, ListenersOK, ListenersKnowRows
<1>8. AggregatesOK'
  BY <1>2 DEF TableInv, AggregatesOK, AggregatesCurrent
<1> QED
  BY <1>1, <1>3, <1>4, <1>5, <1>6, <1>7, <1>8 DEF TableInv

\* flushEntry: an old instance, a tombstone, or the last instance of a row.
LEMMA FlushEntryInv ==
  ASSUME TableInv, pc \in {"expire", "evict"}, queue # << >>, FlushEntry,
         UNCHANGED <<now, pc, op, arg, expiry, posted, ret, found>>
  PROVE  TableInv'
<1> DEFINE h == Head(queue)
<1>1. Flushing /\ TypeOK /\ RefCountsExact
  BY DEF TableInv, StepsOK
<1>2. h \in live /\ h \in Entries /\ Tail(queue) \in Seq(Entries)
  BY <1>1, QueueLive
<1>3. /\ Alive /\ Alive'
      /\ IndicesAgree /\ ListenersKnowRows /\ AggregatesCurrent
      /\ IsFiniteSet(primary)
      /\ \A e \in live : tuple[e] # NULL <=> e \in primary
  BY DEF TableInv, StepsOK, IndicesOK, ListenersOK, AggregatesOK, Alive
<1>4. queue' = Tail(queue)
  BY DEF FlushEntry, PopBack, OtherInstances, Free
<1>5. RefCountsExact'
  BY <1>1, PopCounts DEF FlushEntry, PopBack, OtherInstances, Free
<1>6. SizeBounded'
  BY DEF SizeBounded
<1>7. CASE refCount[h] > 0
  <2>1. /\ refCount' = [refCount EXCEPT ![h] = @ - 1]
        /\ UNCHANGED <<live, tuple, time, primary, secondary, agg, view>>
    BY <1>7 DEF FlushEntry, PopBack, OtherInstances, Free
  <2>2. TypeOK'
    BY <1>1, <1>2, <1>4, <1>7, <2>1 DEF TypeOK, CommonTypeOK
  <2>3. Rows' = Rows
    BY <2>1 DEF Rows
  <2>4. IndicesOK' /\ ListenersOK' /\ AggregatesOK'
    BY <1>3, <2>1, <2>3 DEF IndicesOK, IndicesAgree, ListenersOK,
       ListenersKnowRows, AggregatesOK, AggregatesCurrent
  <2>5. StepsOK'
    BY <1>1, <1>3, <2>1 DEF StepsOK, Flushing
  <2> QED
    BY <1>5, <1>6, <2>2, <2>4, <2>5 DEF TableInv
<1>8. CASE ~(refCount[h] > 0) /\ tuple[h] = NULL
  <2>1. /\ live' = live \ {h}
        /\ tuple' = [tuple EXCEPT ![h] = NULL]
        /\ time' = [time EXCEPT ![h] = 0]
        /\ UNCHANGED <<refCount, primary, secondary, agg, view>>
    BY <1>8 DEF FlushEntry, PopBack, OtherInstances, Free
  <2>2. TypeOK'
    BY <1>1, <1>2, <1>4, <2>1 DEF TypeOK, CommonTypeOK
  <2>3. tuple' = tuple /\ h \notin primary
    BY <1>1, <1>2, <1>3, <1>8, <2>1 DEF TypeOK, CommonTypeOK
  <2>4. Rows' = Rows
    BY <2>1, <2>3 DEF Rows
  <2>5. IndicesOK' /\ ListenersOK' /\ AggregatesOK'
    BY <1>3, <2>1, <2>3, <2>4 DEF IndicesOK, IndicesAgree, ListenersOK,
       ListenersKnowRows, AggregatesOK, AggregatesCurrent
  <2>6. StepsOK'
    BY <1>1, <1>3, <2>1, <2>3 DEF StepsOK, Flushing
  <2> QED
    BY <1>5, <1>6, <2>2, <2>5, <2>6 DEF TableInv
<1>9. CASE ~(refCount[h] > 0) /\ tuple[h] # NULL
  <2>1. /\ live' = live \ {h}
        /\ tuple' = [tuple EXCEPT ![h] = NULL]
        /\ time' = [time EXCEPT ![h] = 0]
        /\ refCount' = refCount
        /\ RemoveTupleOfEntry(h)
        /\ primary' = primary \ {h}
    BY <1>9 DEF FlushEntry, PopBack, OtherInstances, Free
  <2>2. h \in primary /\ primary' \subseteq live'
    BY <1>2, <1>3, <1>9, <2>1 DEF IndicesAgree
  <2>3. /\ IndicesAgree' /\ ListenersKnowRows' /\ AggregatesCurrent'
        /\ agg' \in [Groups -> Results] /\ view' \in [Tuples -> Int]
        /\ secondary' \subseteq Entries
    BY <1>1, <1>3, <2>1, <2>2, RowLeaves, Zenon DEF TypeOK
  <2>4. TypeOK'
    BY <1>1, <1>2, <1>4, <2>1, <2>3 DEF TypeOK, CommonTypeOK
  <2>5. IsFiniteSet(primary')
    BY <1>3, <2>1, FS_RemoveElement
  <2>6. \A e \in live' : tuple'[e] # NULL <=> e \in primary'
    BY <1>1, <1>3, <2>1 DEF TypeOK, CommonTypeOK
  <2>7. StepsOK'
    BY <1>1, <2>5, <2>6 DEF StepsOK, Flushing
  <2> QED
    BY <1>5, <1>6, <2>3, <2>4, <2>7
       DEF TableInv, IndicesOK, ListenersOK, AggregatesOK
<1> QED
  BY <1>7, <1>8, <1>9
\* The steps that only move the control of a call.
LEMMA ControlInv ==
  ASSUME TableInv,
         \/ \E o \in Ops, t \in Tuples : Call(o, t)
         \/ ExpireDone \/ EvictDone \/ InsertReturn \/ RemoveNothing \/ Lookup
  PROVE  TableInv'
<1> USE DEF commonVars
<1>1. /\ TypeOK /\ RefCountsExact /\ StepsOK /\ SizeBounded /\ IndicesOK
  BY DEF TableInv
<1>2. CASE \E o \in Ops, t \in Tuples : Call(o, t)
  <2> PICK o \in Ops, t \in Tuples : Call(o, t)
    BY <1>2
  <2>1. TypeOK'
    <3>1. posted' \in BOOLEAN /\ ret' \in BOOLEAN
      BY Zenon DEF Call
    <3>2. expiry' \in Int
      BY <1>1, LimitsAssumption DEF Call, StartFlush, TypeOK, CommonTypeOK, NO_EXPIRATION
    <3>3. pc' \in {"expire", "flushed"} /\ op' \in Ops /\ arg' \in Tuples
      BY DEF Call, StartFlush
    <3>4. found' \subseteq Tuples
      BY DEF Call
    <3>5. UNCHANGED <<commonVars, now, queue>>
      BY DEF Call
    <3> QED
      BY <1>1, <3>1, <3>2, <3>3, <3>4, <3>5 DEF TypeOK, CommonTypeOK
  <2> QED
    BY <1>1, <2>1, ControlStep DEF Call, StartFlush, Alive, SizeBounded
<1>3. CASE ExpireDone
  <2>1. TypeOK'
    BY <1>1, <1>3 DEF ExpireDone, TypeOK, CommonTypeOK
  <2> QED
    BY <1>1, <1>3, <2>1, ControlStep DEF ExpireDone, Alive, StepsOK
<1>4. CASE EvictDone
  <2>1. TypeOK'
    BY <1>1, <1>4 DEF EvictDone, TypeOK, CommonTypeOK
  <2>2. MaxSize > 0 => Cardinality(primary) <= MaxSize
    <3>1. CASE queue = << >>
      <4>1. primary = {}
        BY <1>1, <1>4, <3>1, LiveQueued
           DEF EvictDone, StepsOK, IndicesOK, IndicesAgree, Alive
      <4> QED
        BY <4>1, FS_EmptySet, LimitsAssumption
    <3>2. CASE queue # << >>
      <4>1. Cardinality(primary) \in Nat
        BY <1>1, FS_CardinalityType DEF StepsOK
      <4> QED
        BY <1>4, <3>2, <4>1, LimitsAssumption DEF EvictDone, Supernumerary
    <3> QED
      BY <3>1, <3>2
  <2> QED
    BY <1>4, <2>1, <2>2, ControlStep DEF EvictDone, Alive
<1>5. CASE InsertReturn
  <2>1. TypeOK'
    BY <1>1, <1>5 DEF InsertReturn, TypeOK, CommonTypeOK
  <2> QED
    BY <1>1, <1>5, <2>1, ControlStep DEF InsertReturn, Alive, StepsOK
<1>6. CASE RemoveNothing
  <2>1. TypeOK'
    BY <1>1, <1>6, Zenon DEF RemoveNothing, TypeOK, CommonTypeOK
  <2> QED
    BY <1>1, <1>6, <2>1, ControlStep DEF RemoveNothing, Alive, StepsOK
<1>7. CASE Lookup
  <2>1. Alive
    BY <1>7, Zenon DEF Lookup, Alive
  <2>2. found' \in SUBSET Tuples
    <3>1. secondary = primary /\ \A e \in primary : tuple[e] \in Tuples
      BY <1>1, <2>1 DEF IndicesOK, IndicesAgree
    <3>2. {tuple[e] : e \in Find(arg)} \in SUBSET Tuples /\ Rows \in SUBSET Tuples
      BY <3>1 DEF Find, Rows
    <3>3. GroupRows(secondary, tuple, Group(arg)) \in SUBSET Tuples
      BY <3>1, GroupRowsType
    <3> QED
      BY <1>7, <3>2, <3>3, Zenon DEF Lookup
  <2>3. TypeOK'
    BY <1>1, <1>7, <2>2 DEF Lookup, TypeOK, CommonTypeOK
  <2> QED
    BY <1>1, <1>7, <2>1, <2>3, ControlStep DEF Lookup, Alive, StepsOK
<1> QED
  BY <1>2, <1>3, <1>4, <1>5, <1>6, <1>7

\* removeTuple, whichever call makes it and whatever it does next.
LEMMA RemoveTupleInv ==
  ASSUME TableInv, pc = "flushed", NEW e \in Find(arg), RemoveTuple(e),
         pc' \in {"idle", "insert"}, ret' \in BOOLEAN,
         UNCHANGED <<now, op, arg, expiry, posted, found>>
  PROVE  TableInv'
<1>1. /\ TypeOK /\ RefCountsExact /\ StepsOK /\ IsFiniteSet(primary)
      /\ Alive /\ Alive'
      /\ IndicesAgree /\ ListenersKnowRows /\ AggregatesCurrent
      /\ \A f \in live : tuple[f] # NULL <=> f \in primary
  BY DEF TableInv, StepsOK, IndicesOK, ListenersOK, AggregatesOK, Alive
<1>2. /\ RemoveTupleOfEntry(e)
      /\ primary' = primary \ {e}
      /\ tuple' = [tuple EXCEPT ![e] = NULL]
      /\ refCount' = refCount /\ queue' = queue
      /\ IF Flushing THEN live' = live /\ time' = time
         ELSE live' = live \ {e} /\ time' = [time EXCEPT ![e] = 0]
  BY DEF RemoveTuple, Empty, Free
<1>3. e \in primary /\ e \in Entries /\ Key(tuple[e]) = Key(arg)
      /\ primary' \subseteq live'
  BY <1>1, <1>2 DEF Find, TypeOK, CommonTypeOK, IndicesAgree
<1>4. /\ IndicesAgree' /\ ListenersKnowRows' /\ AggregatesCurrent'
      /\ agg' \in [Groups -> Results] /\ view' \in [Tuples -> Int]
      /\ secondary' \subseteq Entries
  BY <1>1, <1>2, <1>3, RowLeaves, Zenon DEF TypeOK
<1>5. TypeOK'
  BY <1>1, <1>2, <1>3, <1>4 DEF TypeOK, CommonTypeOK
<1>6. RefCountsExact'
  BY <1>1, <1>2 DEF RefCountsExact, Instances, Flushing
<1>7. /\ IsFiniteSet(primary') /\ Cardinality(primary') <= Cardinality(primary)
      /\ Cardinality(primary) \in Nat /\ Cardinality(primary') \in Nat
  <2>1. IsFiniteSet(primary) /\ Cardinality(primary) \in Nat
    BY <1>1, FS_CardinalityType
  <2>2. /\ IsFiniteSet(primary \ {e})
        /\ Cardinality(primary \ {e}) =
             IF e \in primary THEN Cardinality(primary) - 1
                              ELSE Cardinality(primary)
    BY <2>1, FS_RemoveElement
  <2>3. Cardinality(primary \ {e}) \in Nat
    BY <2>2, FS_CardinalityType
  <2> QED
    BY <1>2, <2>1, <2>2, <2>3
<1>8. \A f \in live' : tuple'[f] # NULL <=> f \in primary'
  BY <1>1, <1>2 DEF TypeOK, CommonTypeOK
<1>9. Find(arg)' = {}
  BY <1>1, <1>2, <1>3 DEF Find, IndicesAgree, TypeOK, CommonTypeOK
<1>10. ~Flushing => queue' = << >> /\ live' \subseteq primary'
  BY <1>1, <1>2 DEF StepsOK
<1>11. StepsOK'
  BY <1>1, <1>7, <1>8, <1>9, <1>10 DEF StepsOK, Flushing
<1>12. SizeBounded'
  BY <1>1, <1>7, LimitsAssumption DEF SizeBounded, StepsOK
<1> QED
  BY <1>1, <1>4, <1>5, <1>6, <1>11, <1>12
     DEF TableInv, IndicesOK, ListenersOK, AggregatesOK
\* updateTime: one more instance and one more reference.
LEMMA InsertDuplicateInv ==
  ASSUME TableInv, InsertDuplicate
  PROVE  TableInv'
<1>1. /\ TypeOK /\ RefCountsExact /\ StepsOK /\ Alive /\ Alive'
      /\ IndicesAgree /\ ListenersKnowRows /\ AggregatesCurrent
  BY DEF TableInv, IndicesOK, ListenersOK, AggregatesOK, Alive, InsertDuplicate
<1>2. PICK e \in Find(arg) :
        IF Flushing
        THEN /\ refCount' = [refCount EXCEPT ![e] = @ + 1]
             /\ time' = [time EXCEPT ![e] = now]
             /\ queue' = Append(queue, e)
        ELSE UNCHANGED <<refCount, time, queue>>
  BY DEF InsertDuplicate, UpdateTime, PushFront
<1>3. /\ UNCHANGED <<live, tuple, primary, secondary, agg, view>>
      /\ UNCHANGED <<now, op, arg, expiry, posted, found>>
      /\ pc = "flushed" /\ pc' = "idle" /\ ret' = FALSE
  BY DEF InsertDuplicate
<1>4. e \in primary /\ e \in live /\ e \in Entries
  BY <1>1 DEF Find, IndicesAgree, TypeOK, CommonTypeOK
<1>5. TypeOK'
  <2>1. /\ refCount' \in [Entries -> Nat] /\ time' \in [Entries -> Nat]
        /\ queue' \in Seq(Entries)
    <3>1. /\ refCount \in [Entries -> Nat] /\ time \in [Entries -> Nat]
          /\ queue \in Seq(Entries) /\ now \in Nat
      BY <1>1 DEF TypeOK, CommonTypeOK
    <3>2. CASE Flushing
      <4>1. refCount' = [refCount EXCEPT ![e] = @ + 1]
            /\ time' = [time EXCEPT ![e] = now]
            /\ queue' = Append(queue, e)
        BY <1>2, <3>2
      <4>2. refCount[e] + 1 \in Nat
        BY <1>4, <3>1
      <4>3. refCount' \in [Entries -> Nat] /\ time' \in [Entries -> Nat]
        BY <3>1, <4>1, <4>2, Zenon
      <4>4. queue' \in Seq(Entries)
        BY <1>4, <3>1, <4>1
      <4> QED
        BY <4>3, <4>4
    <3>3. CASE ~Flushing
      BY <1>2, <3>1, <3>3
    <3> QED
      BY <3>2, <3>3
  <2>2. ret' \in BOOLEAN
    BY <1>3, Zenon
  <2> QED
    BY <1>1, <1>3, <2>1, <2>2 DEF TypeOK, CommonTypeOK
<1>6. RefCountsExact'
  <2> SUFFICES ASSUME Flushing, NEW f \in Entries
               PROVE  Cardinality(Positions(Append(queue, e), f)) =
                        IF f \in live THEN refCount'[f] + 1 ELSE 0
    BY <1>2, <1>3, Zenon DEF RefCountsExact, Instances, Flushing
  <2>1. Cardinality(Positions(queue, f)) = IF f \in live THEN refCount[f] + 1 ELSE 0
    BY <1>1 DEF RefCountsExact, Instances
  <2>2. Cardinality(Positions(Append(queue, e), f)) =
          IF f = e THEN Cardinality(Positions(queue, f)) + 1
                   ELSE Cardinality(Positions(queue, f))
    BY <1>1, <1>4, PositionsAppend DEF TypeOK, CommonTypeOK
  <2>3. refCount \in [Entries -> Nat] /\ refCount' = [refCount EXCEPT ![e] = @ + 1]
    BY <1>1, <1>2 DEF TypeOK, CommonTypeOK
  <2> QED
    BY <1>4, <2>1, <2>2, <2>3
<1>7. Rows' = Rows
  BY <1>3 DEF Rows
<1>8. IndicesOK' /\ ListenersOK' /\ AggregatesOK'
  BY <1>1, <1>3, <1>7 DEF IndicesOK, IndicesAgree, ListenersOK,
     ListenersKnowRows, AggregatesOK, AggregatesCurrent
<1>9. StepsOK'
  BY <1>1, <1>2, <1>3 DEF StepsOK, Flushing
<1>10. SizeBounded'
  BY <1>1, <1>3 DEF SizeBounded, StepsOK
<1> QED
  BY <1>5, <1>6, <1>8, <1>9, <1>10 DEF TableInv

\* insertTuple: a fresh entry with one instance.
LEMMA InsertTupleInv ==
  ASSUME TableInv, InsertTuple
  PROVE  TableInv'
<1>1. /\ TypeOK /\ RefCountsExact /\ StepsOK /\ Alive
      /\ IndicesAgree /\ ListenersKnowRows /\ AggregatesCurrent
  BY DEF TableInv, IndicesOK, ListenersOK, AggregatesOK, Alive, InsertTuple
<1>2. Find(arg) = {} /\ arg \in Tuples
  BY <1>1 DEF InsertTuple, StepsOK, TypeOK, CommonTypeOK
<1>3. PICK e \in Entries \ live :
        /\ NewEntry(e, arg, now, 0)
        /\ CommonInsertTuple(e, arg)
        /\ queue' = IF Flushing THEN Append(queue, e) ELSE queue
  BY DEF InsertTuple, PushFront
<1>4. /\ UNCHANGED <<now, op, arg, ret, found>> /\ posted' = TRUE
      /\ pc' = (IF Flushing THEN "expire" ELSE "flushed")
      /\ expiry' = (IF Lifetime = NO_EXPIRATION THEN 0 ELSE now - Lifetime)
  BY DEF InsertTuple, StartFlush
<1>5. /\ IndicesAgree' /\ ListenersKnowRows' /\ AggregatesCurrent'
      /\ agg' \in [Groups -> Results] /\ view' \in [Tuples -> Int]
      /\ secondary' \subseteq Entries
  BY <1>1, <1>2, <1>3, RowEnters DEF TypeOK
<1>6. /\ live' = live \cup {e}
      /\ tuple' = [tuple EXCEPT ![e] = arg]
      /\ time' = [time EXCEPT ![e] = now]
      /\ refCount' = [refCount EXCEPT ![e] = 0]
      /\ primary' = primary \cup {e}
  BY <1>3 DEF NewEntry, CommonInsertTuple
<1>7. TypeOK'
  <2>1. /\ tuple' \in [Entries -> Tuples \cup {NULL}]
        /\ time' \in [Entries -> Nat] /\ refCount' \in [Entries -> Nat]
        /\ live' \subseteq Entries /\ primary' \subseteq Entries
        /\ queue' \in Seq(Entries)
    BY <1>1, <1>2, <1>3, <1>6 DEF TypeOK, CommonTypeOK
  <2>2. posted' \in BOOLEAN
    BY <1>4
  <2>3. expiry' \in Int
    BY <1>1, <1>4, LimitsAssumption DEF TypeOK, CommonTypeOK, NO_EXPIRATION
  <2> QED
    BY <1>1, <1>4, <1>5, <2>1, <2>2, <2>3 DEF TypeOK, CommonTypeOK
<1>8. RefCountsExact'
  <2> SUFFICES ASSUME Flushing, NEW f \in Entries
               PROVE  Cardinality(Positions(Append(queue, e), f)) =
                        IF f \in live' THEN refCount'[f] + 1 ELSE 0
    BY <1>3 DEF RefCountsExact, Instances, Flushing
  <2>1. Cardinality(Positions(queue, f)) = IF f \in live THEN refCount[f] + 1 ELSE 0
    BY <1>1 DEF RefCountsExact, Instances
  <2>2. Cardinality(Positions(Append(queue, e), f)) =
          IF f = e THEN Cardinality(Positions(queue, f)) + 1
                   ELSE Cardinality(Positions(queue, f))
    BY <1>1, PositionsAppend DEF TypeOK, CommonTypeOK
  <2>3. refCount \in [Entries -> Nat]
    BY <1>1 DEF TypeOK, CommonTypeOK
  <2> QED
    BY <1>6, <2>1, <2>2, <2>3
<1>9. IsFiniteSet(primary')
  BY <1>1, <1>6, FS_AddElement DEF StepsOK
<1>10. \A f \in live' : tuple'[f] # NULL <=> f \in primary'
  <2>1. \A f \in live : tuple[f] # NULL <=> f \in primary
    BY <1>1 DEF StepsOK
  <2>2. tuple'[e] = arg /\ arg # NULL
    BY <1>1, <1>2, <1>6, TuplesAssumption DEF TypeOK, CommonTypeOK
  <2>3. \A f \in live : f # e /\ tuple'[f] = tuple[f]
    BY <1>1, <1>6 DEF TypeOK, CommonTypeOK
  <2> QED
    BY <1>6, <2>1, <2>2, <2>3
<1>11. ~Flushing => queue' = << >> /\ live' \subseteq primary'
  BY <1>1, <1>3, <1>6 DEF StepsOK
<1>12. StepsOK'
  <2>1. ~Flushing => MaxSize = 0
    BY LimitsAssumption DEF Flushing
  <2> QED
    BY <1>4, <1>9, <1>10, <1>11, <2>1, LimitsAssumption DEF StepsOK, Alive, Flushing
<1>13. SizeBounded'
  BY <1>4 DEF SizeBounded
<1>14. Alive'
  BY <1>4 DEF Alive
<1> QED
  BY <1>5, <1>7, <1>8, <1>12, <1>13 DEF TableInv, IndicesOK, ListenersOK, AggregatesOK
\* The destructor drops the derivatives of the rows and then the rows.
LEMMA DestroyInv ==
  ASSUME TableInv, Destroy \/ DestroyEntry \/ DestroyDone
  PROVE  TableInv'
<1>1. TypeOK /\ RefCountsExact /\ StepsOK
  BY DEF TableInv
<1>2. ~Alive'
  BY DEF Destroy, DestroyEntry, DestroyDone, Alive
<1>3. IndicesOK' /\ ListenersOK' /\ AggregatesOK'
  BY <1>2 DEF IndicesOK, ListenersOK, AggregatesOK
<1>4. SizeBounded'
  BY <1>2 DEF Alive, SizeBounded, Destroy, DestroyEntry, DestroyDone
<1>5. CASE Destroy
  <2>1. TypeOK'
    <3>1. /\ agg' \in [Groups -> Results] /\ view' \in [Tuples -> Int]
          /\ secondary' \subseteq Entries
      BY <1>5 DEF Destroy, Results
    <3> QED
      BY <1>1, <1>5, <3>1 DEF Destroy, TypeOK, CommonTypeOK
  <2>2. RefCountsExact'
    BY <1>1, <1>5 DEF Destroy, RefCountsExact, Instances, Flushing
  <2>3. StepsOK'
    BY <1>1, <1>2, <1>5 DEF Destroy, StepsOK, Flushing
  <2> QED
    BY <1>3, <1>4, <2>1, <2>2, <2>3 DEF TableInv
<1>6. CASE DestroyEntry /\ Flushing
  <2> DEFINE h == Head(queue)
  <2>1. /\ queue # << >> /\ queue' = Tail(queue)
        /\ IF refCount[h] > 0
           THEN /\ refCount' = [refCount EXCEPT ![h] = @ - 1]
                /\ UNCHANGED <<live, tuple, time>>
           ELSE /\ live' = live \ {h} /\ refCount' = refCount
                /\ tuple' = [tuple EXCEPT ![h] = NULL]
                /\ time' = [time EXCEPT ![h] = 0]
        /\ UNCHANGED <<primary, secondary, agg, view>>
        /\ UNCHANGED <<now, pc, op, arg, expiry, posted, ret, found>>
        /\ pc = "destroy"
    BY <1>6 DEF DestroyEntry, Free, PopBack, OtherInstances
  <2>2. h \in Entries /\ Tail(queue) \in Seq(Entries)
    BY <1>1, <1>6, <2>1, QueueLive
  <2>3. RefCountsExact'
    BY <1>1, <1>6, <2>1, PopCounts
  <2>4. TypeOK'
    <3>1. /\ live' \subseteq Entries /\ queue' \in Seq(Entries)
          /\ UNCHANGED <<primary, secondary, agg, view>>
          /\ UNCHANGED <<now, pc, op, arg, expiry, posted, ret, found>>
      BY <1>1, <2>1, <2>2 DEF TypeOK, CommonTypeOK
    <3>2. /\ refCount \in [Entries -> Nat] /\ time \in [Entries -> Nat]
          /\ tuple \in [Entries -> Tuples \cup {NULL}]
      BY <1>1 DEF TypeOK, CommonTypeOK
    <3> HIDE DEF h
    <3>3. CASE refCount[h] > 0
      <4>1. refCount[h] - 1 \in Nat
        BY <2>2, <3>2, <3>3
      <4>2. refCount' \in [Entries -> Nat]
        BY <2>1, <3>2, <3>3, <4>1
      <4>3. UNCHANGED <<tuple, time>>
        BY <2>1, <3>3
      <4> QED
        BY <1>1, <3>1, <4>2, <4>3 DEF TypeOK, CommonTypeOK
    <3>4. CASE ~(refCount[h] > 0)
      <4>1. refCount' = refCount
        BY <2>1, <3>4
      <4>2. /\ time' = [time EXCEPT ![h] = 0]
            /\ tuple' = [tuple EXCEPT ![h] = NULL]
        BY <2>1, <3>4
      <4>3. /\ time' \in [Entries -> Nat]
            /\ tuple' \in [Entries -> Tuples \cup {NULL}]
        BY <3>2, <4>2, Zenon
      <4> QED
        BY <1>1, <3>1, <4>1, <4>3 DEF TypeOK, CommonTypeOK
    <3> QED
      BY <3>3, <3>4
  <2>5. StepsOK'
    BY <1>1, <1>2, <1>6, <2>1 DEF StepsOK, Flushing
  <2> QED
    BY <1>3, <1>4, <2>3, <2>4, <2>5 DEF TableInv
<1>7. CASE DestroyEntry /\ ~Flushing
  <2>1. PICK e \in primary : primary' = primary \ {e} /\ Free(e)
    BY <1>7 DEF DestroyEntry
  <2>2. /\ live' = live \ {e}
        /\ tuple' = [tuple EXCEPT ![e] = NULL]
        /\ time' = [time EXCEPT ![e] = 0]
        /\ UNCHANGED <<queue, refCount, secondary, agg, view>>
        /\ UNCHANGED <<now, pc, op, arg, expiry, posted, ret, found>>
        /\ pc = "destroy"
    BY <1>7, <2>1 DEF DestroyEntry, Free
  <2>3. TypeOK'
    BY <1>1, <2>1, <2>2 DEF TypeOK, CommonTypeOK
  <2>4. RefCountsExact'
    BY <1>7 DEF RefCountsExact, Flushing
  <2>5. IsFiniteSet(primary')
    BY <1>1, <2>1, FS_RemoveElement, Zenon DEF StepsOK
  <2>6. StepsOK'
    BY <1>1, <1>2, <1>7, <2>1, <2>2, <2>5 DEF StepsOK, Flushing
  <2> QED
    BY <1>3, <1>4, <2>3, <2>4, <2>6 DEF TableInv
<1>8. CASE DestroyDone
  <2>1. TypeOK'
    BY <1>1, <1>8 DEF DestroyDone, TypeOK, CommonTypeOK
  <2>2. RefCountsExact'
    BY <1>1, <1>8 DEF DestroyDone, RefCountsExact, Instances, Flushing
  <2>3. queue = << >> /\ live = {}
    <3>1. CASE Flushing
      BY <1>1, <1>8, <3>1, LiveQueued DEF DestroyDone
    <3>2. CASE ~Flushing
      BY <1>1, <1>8, <3>2 DEF DestroyDone, StepsOK
    <3> QED
      BY <3>1, <3>2
  <2>4. IsFiniteSet(primary')
    BY <1>8, FS_EmptySet DEF DestroyDone
  <2>5. StepsOK'
    BY <1>2, <1>8, <2>3, <2>4 DEF DestroyDone, StepsOK, Flushing
  <2> QED
    BY <1>3, <1>4, <2>1, <2>2, <2>5 DEF TableInv
<1> QED
  BY <1>5, <1>6, <1>7, <1>8

\* The invariant is inductive.
THEOREM TableInvInductive == TableInv /\ [Next]_vars => TableInv'
<1> SUFFICES ASSUME TableInv, [Next]_vars PROVE TableInv'
  OBVIOUS
<1>1. CASE Tick
  BY <1>1, TickInv
<1>2. CASE \/ \E o \in Ops, t \in Tuples : Call(o, t)
           \/ ExpireDone \/ EvictDone \/ InsertReturn \/ RemoveNothing \/ Lookup
  BY <1>2, ControlInv
<1>3. CASE FlushExpired
  BY <1>3, FlushEntryInv DEF FlushExpired, Expired
<1>4. CASE FlushSupernumerary
  BY <1>4, FlushEntryInv DEF FlushSupernumerary, Supernumerary
<1>5. CASE InsertDuplicate
  BY <1>5, InsertDuplicateInv
<1>6. CASE InsertReplace
  <2>1. PICK e \in Find(arg) : RemoveTuple(e)
    BY <1>6 DEF InsertReplace
  <2>2. ret' \in BOOLEAN
    BY <1>6 DEF InsertReplace, TableInv, TypeOK, CommonTypeOK
  <2> QED
    BY <1>6, <2>1, <2>2, RemoveTupleInv DEF InsertReplace
<1>7. CASE InsertTuple
  BY <1>7, InsertTupleInv
<1>8. CASE RemoveRow
  <2>1. PICK e \in Find(arg) : RemoveTuple(e)
    BY <1>8 DEF RemoveRow
  <2>2. ret' \in BOOLEAN
    BY <1>8 DEF RemoveRow
  <2> QED
    BY <1>8, <2>1, <2>2, RemoveTupleInv DEF RemoveRow
<1>9. CASE Destroy \/ DestroyEntry \/ DestroyDone
  BY <1>9, DestroyInv
<1>10. CASE UNCHANGED vars
  <2> USE <1>10 DEF vars, commonVars
  <2>1. TypeOK' /\ IndicesOK'
    BY DEF TableInv, TypeOK, CommonTypeOK, IndicesOK, IndicesAgree, Alive
  <2>2. RefCountsExact' /\ SizeBounded'
    BY DEF TableInv, RefCountsExact, Instances, Flushing, SizeBounded
  <2>3. StepsOK'
    BY DEF TableInv, StepsOK, Flushing, Alive, Find
  <2>4. ListenersOK' /\ AggregatesOK'
    BY DEF TableInv, ListenersOK, ListenersKnowRows, AggregatesOK,
       AggregatesCurrent, Alive, Rows
  <2> QED
    BY <2>1, <2>2, <2>3, <2>4 DEF TableInv
<1> QED
  BY <1>1, <1>2, <1>3, <1>4, <1>5, <1>6, <1>7, <1>8, <1>9, <1>10
     DEF Next, Flush, Body
-----------------------------------------------------------------------------
(* The theorems.                                                           *)

\* TableInv is an invariant of every Table2.
THEOREM TableInvariant == Spec => []TableInv
BY InitInv, TableInvInductive, PTL DEF Spec

\* Every variable of a Table2 keeps its type.
THEOREM TypeCorrect == Spec => []TypeOK
<1>1. TableInv => TypeOK
  BY DEF TableInv
<1> QED
  BY <1>1, TableInvariant, PTL

\* The primary and secondary index of every Table2 agree, the update and removal listeners
\* know the rows, and the aggregate of every group is current, at every step and for every
\* aggregate function.
THEOREM DerivativesCorrect == Spec => []DerivativesOK
<1>1. TableInv => DerivativesOK
  BY DEF TableInv, DerivativesOK
<1> QED
  BY <1>1, TableInvariant, PTL

\* The reference counts are exact: flushEntry frees an entry exactly when it
\* pops its last instance, so no freed entry is ever reached from the queue.
THEOREM RefCountsCorrect == Spec => []RefCountsExact
<1>1. TableInv => RefCountsExact
  BY DEF TableInv
<1> QED
  BY <1>1, TableInvariant, PTL

\* A table is within its size limit between calls, for every limit.
THEOREM SizeCorrect == Spec => []SizeBounded
<1>1. TableInv => SizeBounded
  BY DEF TableInv
<1> QED
  BY <1>1, TableInvariant, PTL

\* The destructor frees every entry.
THEOREM NoLeaks == Spec => []NothingLeaked
<1>1. TableInv => NothingLeaked
  BY DEF TableInv, StepsOK, NothingLeaked
<1> QED
  BY <1>1, TableInvariant, PTL

\* Entries are freed exactly when nothing refers to them any more: the last
\* instance that flushEntry pops, and the destructor, free them.
THEOREM EntriesCorrect == Spec => []EntriesFreedInTime
<1>1. RefCountsExact /\ NothingLeaked => EntriesFreedInTime
  BY DEF EntriesFreedInTime
<1> QED
  BY <1>1, RefCountsCorrect, NoLeaks, PTL

-----------------------------------------------------------------------------
(* The order of the entries in the queue.                                  *)

\* In queue q, the last instance of e comes before that of f.
Before(q, e, f) == \E j \in Positions(q, f) : \A i \in Positions(q, e) : i < j

\* pop_back moves every other instance one place.
LEMMA TailPositions ==
  ASSUME NEW q \in Seq(Entries), q # << >>, NEW e, NEW i \in Nat
  PROVE  i \in Positions(Tail(q), e) <=> i >= 1 /\ i + 1 \in Positions(q, e)
<1>1. /\ Len(q) \in Nat /\ Len(q) >= 1 /\ Len(Tail(q)) = Len(q) - 1
      /\ \A k \in 1..(Len(q) - 1) : Tail(q)[k] = q[k + 1]
  OBVIOUS
<1>2. i \in 1..(Len(q) - 1) <=> i >= 1 /\ i + 1 \in 1..Len(q)
  BY <1>1
<1> QED
  BY <1>1, <1>2 DEF Positions

\* It does not change the order of entries in the queue.
LEMMA TailBefore ==
  ASSUME NEW q \in Seq(Entries), q # << >>, NEW e, NEW f, Positions(q, e) # {}
  PROVE  Before(Tail(q), e, f) <=> Before(q, e, f)
<1>1. Tail(q) \in Seq(Entries) /\ Len(q) \in Nat
  OBVIOUS
<1>2. \A x : Positions(q, x) \subseteq Nat \ {0} /\ Positions(Tail(q), x) \subseteq Nat \ {0}
  BY <1>1 DEF Positions
<1>3. ASSUME Before(q, e, f) PROVE Before(Tail(q), e, f)
  <2>1. PICK j \in Positions(q, f) : \A i \in Positions(q, e) : i < j
    BY <1>3 DEF Before
  <2>2. PICK k \in Positions(q, e) : TRUE
    OBVIOUS
  <2>3. j \in Nat /\ k \in Nat /\ k >= 1 /\ j > k
    BY <1>2, <2>1, <2>2
  <2>4. j - 1 \in Nat /\ j - 1 >= 1 /\ (j - 1) + 1 = j
    BY <2>3
  <2>5. j - 1 \in Positions(Tail(q), f)
    BY <2>1, <2>4, TailPositions
  <2>6. \A i \in Positions(Tail(q), e) : i < j - 1
    <3> SUFFICES ASSUME NEW i \in Positions(Tail(q), e) PROVE i < j - 1
      OBVIOUS
    <3>1. i \in Nat /\ i + 1 \in Positions(q, e)
      BY <1>2, TailPositions
    <3> QED
      BY <2>1, <2>3, <3>1
  <2> QED
    BY <2>5, <2>6 DEF Before
<1>4. ASSUME Before(Tail(q), e, f) PROVE Before(q, e, f)
  <2>1. PICK j \in Positions(Tail(q), f) : \A i \in Positions(Tail(q), e) : i < j
    BY <1>4 DEF Before
  <2>2. j \in Nat /\ j >= 1 /\ j + 1 \in Positions(q, f)
    BY <1>2, <2>1, TailPositions
  <2>3. \A i \in Positions(q, e) : i < j + 1
    <3> SUFFICES ASSUME NEW i \in Positions(q, e), i # 1 PROVE i < j + 1
      BY <2>2
    <3>1. i \in Nat /\ i - 1 \in Nat /\ i - 1 >= 1 /\ (i - 1) + 1 = i
      BY <1>2
    <3>2. i - 1 \in Positions(Tail(q), e)
      BY <3>1, TailPositions
    <3> QED
      BY <2>1, <2>2, <3>1, <3>2
  <2> QED
    BY <2>2, <2>3 DEF Before
<1> QED
  BY <1>3, <1>4

\* push_front makes the entry the last and keeps the order of the others.
LEMMA AppendBefore ==
  ASSUME NEW q \in Seq(Entries), NEW x \in Entries, NEW e, NEW f
  PROVE  Before(Append(q, x), e, f) <=> e # x /\ (f = x \/ Before(q, e, f))
<1>1. Len(q) \in Nat /\ Len(Append(q, x)) = Len(q) + 1
  OBVIOUS
<1>2. \A y : /\ Positions(q, y) \subseteq 1..Len(q)
             /\ Positions(Append(q, x), y) =
                  IF y = x THEN Positions(q, y) \cup {Len(q) + 1} ELSE Positions(q, y)
  <2> SUFFICES ASSUME NEW y
               PROVE  /\ Positions(q, y) \subseteq 1..Len(q)
                      /\ Positions(Append(q, x), y) =
                           IF y = x THEN Positions(q, y) \cup {Len(q) + 1} ELSE Positions(q, y)
    OBVIOUS
  <2>1. 1..(Len(q) + 1) = 1..Len(q) \cup {Len(q) + 1}
    BY <1>1
  <2>2. \A i \in 1..Len(q) : Append(q, x)[i] = q[i] /\ i # Len(q) + 1
    BY <1>1
  <2>3. Append(q, x)[Len(q) + 1] = x
    BY <1>1
  <2> QED
    BY <1>1, <2>1, <2>2, <2>3 DEF Positions
<1>3. CASE e = x
  <2>1. Len(q) + 1 \in Positions(Append(q, x), e)
    BY <1>2, <1>3
  <2>2. \A j \in Positions(Append(q, x), f) : j \in Nat /\ j <= Len(q) + 1
    BY <1>1, <1>2
  <2> QED
    BY <1>1, <1>3, <2>1, <2>2 DEF Before
<1>4. CASE e # x /\ f = x
  <2>1. Len(q) + 1 \in Positions(Append(q, x), f)
    BY <1>2, <1>4
  <2>2. \A i \in Positions(Append(q, x), e) : i < Len(q) + 1
    BY <1>1, <1>2, <1>4
  <2> QED
    BY <1>4, <2>1, <2>2 DEF Before
<1>5. CASE e # x /\ f # x
  BY <1>2, <1>5 DEF Before
<1> QED
  BY <1>3, <1>4, <1>5

\* The order of the table is that of its queue.
LEMMA PrecedesBefore ==
  ASSUME NEW e, NEW f
  PROVE  Precedes(e, f) <=> Before(queue, e, f)
BY DEF Precedes, Before, Instances

\* An allocated entry of a flushing table has an instance, and the entry at the
\* back has no other if it has no further reference.
LEMMA LiveInstances ==
  ASSUME TableInv, Flushing, NEW e \in live
  PROVE  /\ Positions(queue, e) # {}
         /\ queue # << >> /\ e = Head(queue) /\ refCount[e] = 0 => Positions(queue, e) = {1}
<1> DEFINE P == Positions(queue, e)
<1>1. /\ queue \in Seq(Entries) /\ e \in Entries /\ refCount[e] \in Nat
      /\ Cardinality(P) = refCount[e] + 1
  BY DEF TableInv, TypeOK, CommonTypeOK, RefCountsExact, Instances
<1>2. IsFiniteSet(P)
  BY <1>1, PositionsFinite
<1>3. P # {}
  <2>1. Cardinality(P) # 0
    BY <1>1
  <2> HIDE DEF P
  <2> QED
    BY <1>2, <2>1, FS_EmptySet
<1>4. ASSUME queue # << >>, e = Head(queue), refCount[e] = 0 PROVE P = {1}
  <2>1. 1 \in P
    BY <1>1, <1>4 DEF Positions
  <2>2. Cardinality(P) = 1
    BY <1>1, <1>4
  <2> HIDE DEF P
  <2>3. PICK x : P = {x}
    BY <1>2, <2>2, FS_Singleton, Zenon
  <2> QED
    BY <2>1, <2>3
<1> QED
  BY <1>3, <1>4

-----------------------------------------------------------------------------
(* What a table shows.                                                     *)

\* The rows, their stamps and their order are those of their entries.
Shown ==
  /\ AbsStamp = [t \in Tuples |-> AbsStamp[t]]
  /\ \A t \in Tuples \ AbsRows : AbsStamp[t] = 0
  /\ AbsOlder \subseteq AbsRows \X AbsRows
  /\ Alive =>
       /\ AbsRows = Rows
       /\ \A e \in primary : AbsStamp[tuple[e]] = time[e]
       /\ \A e, f \in primary :
            <<tuple[e], tuple[f]>> \in AbsOlder <=> Before(queue, e, f)
       /\ Cardinality(AbsRows) = Cardinality(primary)

\* No two rows are the same tuple, so the entry of a row is the one chosen.
LEMMA ShownRows == TableInv => Shown
<1> SUFFICES ASSUME TableInv PROVE Shown
  OBVIOUS
<1>1. /\ AbsStamp = [t \in Tuples |-> AbsStamp[t]]
      /\ \A t \in Tuples \ AbsRows : AbsStamp[t] = 0
      /\ AbsOlder \subseteq AbsRows \X AbsRows
  BY DEF AbsStamp, AbsOlder
<1> SUFFICES ASSUME Alive
             PROVE  /\ AbsRows = Rows
                    /\ \A e \in primary : AbsStamp[tuple[e]] = time[e]
                    /\ \A e, f \in primary :
                         <<tuple[e], tuple[f]>> \in AbsOlder <=> Before(queue, e, f)
                    /\ Cardinality(AbsRows) = Cardinality(primary)
  BY <1>1 DEF Shown
<1>2. AbsRows = Rows
  BY DEF AbsRows
<1>3. /\ \A e \in primary : tuple[e] \in Tuples
      /\ \A e, f \in primary : tuple[e] = tuple[f] => e = f
  BY DEF TableInv, IndicesOK, IndicesAgree
<1>4. ASSUME NEW e \in primary PROVE EntryOf(tuple[e]) = e
  BY <1>3 DEF EntryOf
<1>5. \A e \in primary : AbsStamp[tuple[e]] = time[e]
  BY <1>2, <1>3, <1>4 DEF AbsStamp, Rows
<1>6. ASSUME NEW e \in primary, NEW f \in primary
      PROVE  <<tuple[e], tuple[f]>> \in AbsOlder <=> Before(queue, e, f)
  <2>1. EntryOf(tuple[e]) = e /\ EntryOf(tuple[f]) = f
    BY <1>4
  <2>2. <<tuple[e], tuple[f]>> \in AbsRows \X AbsRows
    BY <1>2 DEF Rows
  <2>3. <<tuple[e], tuple[f]>> \in AbsOlder <=> Precedes(e, f)
    BY <2>1, <2>2 DEF AbsOlder
  <2> QED
    BY <2>3, PrecedesBefore
<1>7. Cardinality(Rows) = Cardinality(primary)
  <2> DEFINE g == [e \in primary |-> tuple[e]]
  <2>1. g \in Surjection(primary, Rows)
    BY DEF Surjection, Rows
  <2>2. g \in Injection(primary, Rows)
    BY <1>3 DEF Injection, IsInjective, Rows
  <2>3. IsFiniteSet(primary)
    BY DEF TableInv, StepsOK
  <2> HIDE DEF g
  <2> QED
    BY <2>1, <2>2, <2>3, FS_Surjection
<1> QED
  BY <1>2, <1>5, <1>6, <1>7

\* The same after a step.
LEMMA ShownRowsNext == TableInv' => Shown'
BY ShownRows, PTL

\* A step that keeps the rows, their stamps and their order.
LEMMA SameRows ==
  ASSUME Shown, Shown', Alive, Alive', primary' = primary,
         \A e \in primary : tuple'[e] = tuple[e] /\ time'[e] = time[e],
         \A e, f \in primary : Before(queue', e, f) <=> Before(queue, e, f)
  PROVE  AbsRows' = AbsRows /\ AbsStamp' = AbsStamp /\ AbsOlder' = AbsOlder
<1>1. AbsRows' = AbsRows /\ AbsRows = Rows
  <2>1. AbsRows = Rows /\ AbsRows' = Rows'
    BY DEF Shown
  <2>2. Rows' = Rows
    BY DEF Rows
  <2> QED
    BY <2>1, <2>2
<1>2. AbsStamp' = AbsStamp
  <2>1. ASSUME NEW t \in Tuples PROVE AbsStamp'[t] = AbsStamp[t]
    <3>1. CASE t \in AbsRows
      <4>1. PICK e \in primary : tuple[e] = t
        BY <1>1, <3>1 DEF Rows
      <4> QED
        BY <4>1 DEF Shown
    <3>2. CASE t \notin AbsRows
      BY <1>1, <3>2 DEF Shown
    <3> QED
      BY <3>1, <3>2
  <2> QED
    BY <2>1 DEF Shown
<1>3. ASSUME NEW p \in AbsRows \X AbsRows PROVE p \in AbsOlder' <=> p \in AbsOlder
  <2>1. PICK e \in primary, f \in primary : p = <<tuple[e], tuple[f]>>
    BY <1>1 DEF Rows
  <2>2. p = <<tuple'[e], tuple'[f]>> /\ e \in primary' /\ f \in primary'
    BY <2>1
  <2>3. p \in AbsOlder <=> Before(queue, e, f)
    BY <2>1 DEF Shown
  <2>4. p \in AbsOlder' <=> Before(queue', e, f)
    BY <2>2 DEF Shown
  <2> QED
    BY <2>3, <2>4, Zenon
<1>4. AbsOlder \subseteq AbsRows \X AbsRows /\ AbsOlder' \subseteq AbsRows \X AbsRows
  BY <1>1 DEF Shown
<1> QED
  BY <1>1, <1>2, <1>3, <1>4

\* A row leaves.
LEMMA RowGone ==
  ASSUME Shown, Shown', Alive, Alive', NEW e \in primary, primary' = primary \ {e},
         TableInv, \A f \in primary' : tuple'[f] = tuple[f] /\ time'[f] = time[f],
         \A f, g \in primary' : Before(queue', f, g) <=> Before(queue, f, g)
  PROVE  tuple[e] \in Tuples /\ tuple[e] \in AbsRows /\ Abs!Forget(tuple[e])
<1> DEFINE t == tuple[e]
<1>1. /\ \A f \in primary : tuple[f] \in Tuples
      /\ \A f, g \in primary : tuple[f] = tuple[g] => f = g
  BY Zenon DEF TableInv, IndicesOK, IndicesAgree
<1>2. AbsRows = Rows /\ AbsRows' = Rows' /\ t \in Tuples /\ t \in Rows
  BY <1>1 DEF Shown, Rows
<1>3. AbsRows' = AbsRows \ {t}
  <2>1. \A f \in primary' : tuple'[f] = tuple[f] /\ tuple'[f] # t
    BY <1>1
  <2>2. ASSUME NEW u \in Rows' PROVE u \in Rows /\ u # t
    <3>1. PICK f \in primary' : u = tuple'[f]
      BY DEF Rows
    <3>2. f \in primary
      BY <3>1
    <3> QED
      BY <2>1, <3>1, <3>2 DEF Rows
  <2>3. ASSUME NEW u \in Rows, u # t PROVE u \in Rows'
    <3>1. PICK f \in primary : u = tuple[f]
      BY DEF Rows
    <3>2. f \in primary' /\ tuple'[f] = u
      BY <2>1, <2>3, <3>1
    <3> QED
      BY <3>2 DEF Rows
  <2> QED
    BY <1>2, <2>2, <2>3
<1>4. AbsStamp' = [AbsStamp EXCEPT ![t] = 0]
  <2>1. ASSUME NEW u \in Tuples \ {t} PROVE AbsStamp'[u] = AbsStamp[u]
    <3>1. CASE u \in AbsRows
      <4>1. PICK f \in primary : tuple[f] = u
        BY <1>2, <3>1, Zenon DEF Rows
      <4>2. f \in primary' /\ tuple'[f] = u /\ time'[f] = time[f]
        BY <4>1
      <4> QED
        BY <4>1, <4>2 DEF Shown
    <3>2. CASE u \notin AbsRows
      BY <1>3, <3>2 DEF Shown
    <3> QED
      BY <3>1, <3>2
  <2>2. AbsStamp'[t] = 0
    BY <1>2, <1>3 DEF Shown
  <2> QED
    BY <1>2, <2>1, <2>2 DEF Shown
<1>5. ASSUME NEW p \in AbsRows' \X AbsRows' PROVE p \in AbsOlder' <=> p \in AbsOlder
  <2>1. \A u \in AbsRows' : \E f \in primary' : u = tuple'[f]
    BY <1>2, Zenon DEF Rows
  <2>2. p[1] \in AbsRows' /\ p[2] \in AbsRows' /\ p = <<p[1], p[2]>>
    OBVIOUS
  <2>3. PICK f \in primary' : p[1] = tuple'[f]
    BY <2>1, <2>2, Zenon
  <2>4. PICK g \in primary' : p[2] = tuple'[g]
    BY <2>1, <2>2, Zenon
  <2>5. f \in primary' /\ g \in primary' /\ p = <<tuple'[f], tuple'[g]>>
    BY <2>2, <2>3, <2>4, Zenon
  <2>6. p = <<tuple[f], tuple[g]>> /\ f \in primary /\ g \in primary
    BY <2>5
  <2>7. p \in AbsOlder <=> Before(queue, f, g)
    BY <2>6 DEF Shown
  <2>8. p \in AbsOlder' <=> Before(queue', f, g)
    BY <2>5 DEF Shown
  <2> QED
    BY <2>5, <2>7, <2>8, Zenon
<1>6. AbsOlder \subseteq AbsRows \X AbsRows /\ AbsOlder' \subseteq AbsRows' \X AbsRows'
  BY DEF Shown
<1>7. AbsOlder' = {p \in AbsOlder : t \notin {p[1], p[2]}}
  <2>1. \A p \in AbsRows \X AbsRows : p \in AbsRows' \X AbsRows' <=> t \notin {p[1], p[2]}
    BY <1>3
  <2> HIDE DEF t
  <2>2. AbsRows' \X AbsRows' \subseteq AbsRows \X AbsRows
    BY <1>3
  <2> QED
    BY <1>5, <1>6, <2>1, <2>2
<1> QED
  BY <1>2, <1>3, <1>4, <1>7, Zenon DEF Abs!Forget

-----------------------------------------------------------------------------
(* Every step is one of a SoftStateTable.                                  *)

\* The clock, the entries and the flush in progress.
Clocked ==
  /\ \A e \in live : time[e] <= now
  /\ pc = "expire" /\ Lifetime # NO_EXPIRATION => expiry <= now - Lifetime

\* The initial states.
LEMMA ShownInit == Init => Abs!Init /\ Clocked
<1> SUFFICES ASSUME Init PROVE Abs!Init /\ Clocked
  OBVIOUS
<1>1. AbsRows = {}
  BY DEF Init, CommonInit, AbsRows, Rows, Alive
<1>2. AbsStamp = [t \in Tuples |-> 0] /\ AbsOlder = {}
  BY <1>1 DEF AbsStamp, AbsOlder
<1>3. arg \in Tuples
  BY TuplesAssumption DEF Init
<1> QED
  BY <1>1, <1>2, <1>3, Zenon DEF Init, CommonInit, AbsPhase, Clocked, Abs!Init, Abs!Keys

\* The clock never runs ahead of an entry or behind a flush.
LEMMA ClockedNext ==
  ASSUME TableInv, Clocked, [Next]_vars
  PROVE  Clocked'
<1> USE LimitsAssumption DEF NO_EXPIRATION
<1>1. /\ now \in Nat /\ expiry \in Int /\ time \in [Entries -> Nat] /\ live \subseteq Entries
      /\ pc \notin {"expire", "evict"} \/ Flushing
  BY DEF TableInv, TypeOK, CommonTypeOK, StepsOK
<1>2. CASE Tick
  BY <1>1, <1>2 DEF Tick, Clocked, commonVars
<1>3. CASE \E o \in Ops, t \in Tuples : Call(o, t)
  BY <1>1, <1>3 DEF Call, StartFlush, Clocked, commonVars
<1>4. CASE FlushExpired \/ FlushSupernumerary
  <2> DEFINE h == Head(queue)
  <2>1. /\ UNCHANGED <<now, pc, expiry>> /\ live' \subseteq live
        /\ \A e \in live' : time'[e] = time[e]
    BY <1>1, <1>4 DEF FlushExpired, FlushSupernumerary, FlushEntry, Free
  <2> QED
    BY <1>1, <2>1 DEF Clocked
<1>5. CASE ExpireDone \/ EvictDone \/ InsertReturn \/ RemoveNothing \/ Lookup
  BY <1>1, <1>5, Zenon
     DEF ExpireDone, EvictDone, InsertReturn, RemoveNothing, Lookup, Clocked, commonVars
<1>6. CASE InsertDuplicate
  <2>1. PICK e \in Find(arg) : IF Flushing THEN UpdateTime(e)
                               ELSE UNCHANGED <<refCount, time, queue>>
    BY <1>6 DEF InsertDuplicate
  <2>2. live' = live /\ now' = now /\ pc' = "idle"
    BY <1>6 DEF InsertDuplicate
  <2> QED
    BY <1>1, <2>1, <2>2 DEF Clocked, UpdateTime
<1>7. CASE InsertReplace \/ RemoveRow
  <2>1. PICK e \in Find(arg) : RemoveTuple(e)
    BY <1>7 DEF InsertReplace, RemoveRow
  <2>2. /\ now' = now /\ pc' \in {"insert", "idle"} /\ live' \subseteq live
        /\ \A f \in live' : time'[f] = time[f]
    BY <1>1, <1>7, <2>1 DEF InsertReplace, RemoveRow, RemoveTuple, Empty, Free
  <2> QED
    BY <1>1, <2>2 DEF Clocked
<1>8. CASE InsertTuple
  <2>1. PICK e \in Entries \ live : NewEntry(e, arg, now, 0)
    BY <1>8 DEF InsertTuple
  <2>2. now' = now /\ StartFlush
    BY <1>8 DEF InsertTuple
  <2>3. \A f \in live' : time'[f] <= now
    BY <1>1, <2>1 DEF Clocked, NewEntry
  <2> QED
    BY <1>1, <2>2, <2>3 DEF Clocked, StartFlush
<1>9. CASE Destroy \/ DestroyEntry \/ DestroyDone
  <2>1. /\ now' = now /\ pc' \in {"destroy", "dead"} /\ live' \subseteq live
        /\ \A f \in live' : time'[f] = time[f]
    BY <1>1, <1>9, Zenon DEF Destroy, DestroyEntry, DestroyDone, Free
  <2> QED
    BY <1>1, <2>1 DEF Clocked
<1>10. CASE UNCHANGED vars
  BY <1>10 DEF vars, commonVars, Clocked
<1> QED
  BY <1>2, <1>3, <1>4, <1>5, <1>6, <1>7, <1>8, <1>9, <1>10 DEF Next, Flush, Body

\* flushEntry shows nothing, or takes the row inserted least recently.
LEMMA FlushEntryShown ==
  ASSUME TableInv, TableInv', pc \in {"expire", "evict"}, pc' = pc, queue # << >>, FlushEntry
  PROVE  \/ AbsRows' = AbsRows /\ AbsStamp' = AbsStamp /\ AbsOlder' = AbsOlder
         \/ \E t \in Tuples : /\ Abs!Oldest(t) /\ Abs!Forget(t)
                              /\ AbsStamp[t] = time[Head(queue)]
<1> DEFINE e == Head(queue)
<1>0. Shown /\ Shown' /\ TypeOK /\ RefCountsExact /\ StepsOK /\ Alive /\ Alive' /\ IndicesOK
  BY ShownRows, ShownRowsNext DEF TableInv, Alive
<1>1. /\ Flushing /\ Alive /\ Alive' /\ Shown /\ Shown'
      /\ queue \in Seq(Entries) /\ tuple \in [Entries -> Tuples \cup {NULL}]
      /\ time \in [Entries -> Nat] /\ refCount \in [Entries -> Nat]
      /\ primary \subseteq live /\ live \subseteq Entries
      /\ \A f \in primary : tuple[f] \in Tuples
      /\ \A f \in live : tuple[f] # NULL <=> f \in primary
  BY <1>0 DEF TypeOK, CommonTypeOK, StepsOK, IndicesOK, IndicesAgree
<1>2. e \in Entries /\ e \in live /\ queue' = Tail(queue)
  BY <1>0, <1>1, QueueLive DEF FlushEntry, PopBack
<1>3. \A f \in live : Positions(queue, f) # {}
  BY <1>1, LiveInstances
<1>4. \A f \in primary : \A g : Before(queue', f, g) <=> Before(queue, f, g)
  BY <1>1, <1>2, <1>3, TailBefore
<1>5. CASE refCount[e] > 0
  <2>1. UNCHANGED <<live, tuple, time, primary>>
    BY <1>5 DEF FlushEntry, OtherInstances
  <2> QED
    BY <1>1, <1>4, <2>1, SameRows
<1>6. CASE refCount[e] = 0 /\ tuple[e] = NULL
  <2>1. e \notin primary
    BY <1>1, <1>2, <1>6
  <2>2. /\ primary' = primary /\ tuple' = [tuple EXCEPT ![e] = NULL]
        /\ time' = [time EXCEPT ![e] = 0]
    BY <1>6 DEF FlushEntry, OtherInstances, Free
  <2>3. \A f \in primary : tuple'[f] = tuple[f] /\ time'[f] = time[f]
    BY <1>1, <2>1, <2>2
  <2> QED
    BY <1>1, <1>4, <2>2, <2>3, SameRows, Zenon
<1>7. CASE refCount[e] = 0 /\ tuple[e] # NULL
  <2>1. e \in primary
    BY <1>1, <1>2, <1>7
  <2>2. /\ primary' = primary \ {e} /\ tuple' = [tuple EXCEPT ![e] = NULL]
        /\ time' = [time EXCEPT ![e] = 0]
    BY <1>7 DEF FlushEntry, OtherInstances, Free
  <2>3. \A f \in primary' : tuple'[f] = tuple[f] /\ time'[f] = time[f]
    BY <1>1, <2>2
  <2>4. \A f, g \in primary' : Before(queue', f, g) <=> Before(queue, f, g)
    BY <1>4, <2>2
  <2>5. tuple[e] \in Tuples /\ tuple[e] \in AbsRows /\ Abs!Forget(tuple[e])
    BY <1>1, <2>1, <2>2, <2>3, <2>4, RowGone, Zenon
  <2>6. Abs!Oldest(tuple[e])
    <3>1. Positions(queue, e) = {1}
      BY <1>1, <1>2, <1>7, LiveInstances
    <3>2. ASSUME NEW u \in AbsRows PROVE <<u, tuple[e]>> \notin AbsOlder
      <4>1. PICK f \in primary : tuple[f] = u
        BY <1>1 DEF Shown, Rows
      <4>2. PICK i \in Positions(queue, f) : TRUE
        BY <1>1, <1>3
      <4>3. i \in Nat /\ i >= 1
        BY <1>1 DEF Positions
      <4>4. ~Before(queue, f, e)
        BY <3>1, <4>2, <4>3 DEF Before
      <4> QED
        BY <1>1, <2>1, <4>1, <4>4 DEF Shown
    <3> QED
      BY <2>5, <3>2 DEF Abs!Oldest
  <2>7. AbsStamp[tuple[e]] = time[e]
    BY <1>1, <2>1 DEF Shown
  <2> QED
    BY <2>5, <2>6, <2>7
<1> QED
  BY <1>1, <1>2, <1>5, <1>6, <1>7

\* SoftStateTable counts rows as Table2 does.
LEMMA SameCardinality == ASSUME NEW S PROVE Abs!Cardinality(S) = Cardinality(S)
BY DEF Abs!Cardinality, Cardinality

\* Expiration and eviction.
LEMMA FlushShown ==
  ASSUME TableInv, TableInv', Clocked, Flush
  PROVE  [Abs!Next]_(Abs!vars)
<1> USE LimitsAssumption DEF NO_EXPIRATION
<1>1. TypeOK /\ Shown /\ arg' = arg /\ now' = now
  BY ShownRows
     DEF TableInv, Flush, FlushExpired, ExpireDone, FlushSupernumerary, EvictDone
<1>2. CASE FlushExpired
  <2>1. /\ AbsPhase = "cleaning" /\ AbsPhase' = "cleaning"
        /\ Lifetime >= 0 /\ queue # << >> /\ pc = "expire" /\ pc' = pc /\ FlushEntry
    BY <1>2 DEF FlushExpired, Expired, AbsPhase
  <2>2. ASSUME NEW t \in Tuples, AbsStamp[t] = time[Head(queue)], Abs!Oldest(t), Abs!Forget(t)
        PROVE  Abs!Expire(t)
    <3>1. Head(queue) \in Entries /\ time[Head(queue)] \in Nat
      BY <1>1, <2>1 DEF TypeOK, CommonTypeOK
    <3>2. now - AbsStamp[t] > Lifetime
      BY <1>1, <1>2, <2>2, <3>1
         DEF FlushExpired, Expired, Clocked, TypeOK
    <3> QED
      BY <1>1, <2>1, <2>2, <3>2 DEF Abs!Expire
  <2> QED
    BY <1>1, <2>1, <2>2, FlushEntryShown, Zenon DEF Abs!Next, Abs!vars
<1>3. CASE FlushSupernumerary
  <2>1. /\ AbsPhase = "cleaning" /\ AbsPhase' = "cleaning"
        /\ MaxSize > 0 /\ queue # << >> /\ pc = "evict" /\ pc' = pc /\ FlushEntry
    BY <1>3 DEF FlushSupernumerary, Supernumerary, AbsPhase
  <2>2. Cardinality(AbsRows) > MaxSize
    <3>1. Alive
      BY <2>1 DEF Alive
    <3> QED
      BY <1>1, <1>3, <3>1 DEF FlushSupernumerary, Supernumerary, Shown
  <2>3. ASSUME NEW t \in Tuples, Abs!Oldest(t), Abs!Forget(t)
        PROVE  Abs!Evict(t)
    BY <1>1, <2>1, <2>2, <2>3, SameCardinality DEF Abs!Evict
  <2> QED
    BY <1>1, <2>1, <2>3, FlushEntryShown, Zenon DEF Abs!Next, Abs!vars
<1>4. CASE ExpireDone \/ EvictDone
  <2>1. UNCHANGED <<primary, tuple, time, queue>> /\ Alive /\ Alive'
    BY <1>4 DEF ExpireDone, EvictDone, commonVars, Alive
  <2>2. AbsRows' = AbsRows /\ AbsStamp' = AbsStamp /\ AbsOlder' = AbsOlder
    BY <1>1, <2>1, ShownRowsNext, SameRows, Zenon
  <2>3. \/ AbsPhase' = AbsPhase
        \/ AbsPhase = "cleaning" /\ AbsPhase' = "serving"
    BY <1>4 DEF ExpireDone, EvictDone, AbsPhase
  <2> QED
    BY <1>1, <2>2, <2>3 DEF Abs!Next, Abs!Serve, Abs!vars
<1> QED
  BY <1>2, <1>3, <1>4 DEF Flush

\* The clock, the calls and the steps of their bodies that change no row.
LEMMA ControlShown ==
  ASSUME TableInv, TableInv',
         \/ Tick \/ (\E o \in Ops, t \in Tuples : Call(o, t))
         \/ InsertReturn \/ RemoveNothing \/ Lookup
  PROVE  [Abs!Next]_(Abs!vars)
<1>1. Shown /\ Shown'
  BY ShownRows, ShownRowsNext
<1>2. CASE Tick
  <2>1. /\ UNCHANGED <<primary, tuple, time, queue, pc, arg>> /\ now' = now + 1
    BY <1>2 DEF Tick, commonVars
  <2>2. AbsRows' = AbsRows /\ AbsStamp' = AbsStamp /\ AbsOlder' = AbsOlder
    <3>1. CASE Alive
      BY <1>1, <2>1, <3>1, SameRows, Zenon DEF Alive
    <3>2. CASE ~Alive
      <4>1. AbsRows = {} /\ AbsRows' = {}
        BY <2>1, <3>2 DEF AbsRows, Alive
      <4> QED
        BY <4>1 DEF AbsStamp, AbsOlder
    <3> QED
      BY <3>1, <3>2
  <2>3. AbsPhase' = AbsPhase
    BY <2>1 DEF AbsPhase
  <2> QED
    BY <2>1, <2>2, <2>3 DEF Abs!Next, Abs!Tick
<1>3. CASE \E o \in Ops, t \in Tuples : Call(o, t)
  <2>1. PICK o \in Ops, t \in Tuples : Call(o, t)
    BY <1>3
  <2>2. /\ UNCHANGED <<primary, tuple, time, queue, now>> /\ arg' = t
        /\ pc = "idle" /\ pc' \in {"expire", "flushed"}
    BY <2>1 DEF Call, StartFlush, commonVars
  <2>3. AbsRows' = AbsRows /\ AbsStamp' = AbsStamp /\ AbsOlder' = AbsOlder
    BY <1>1, <2>2, SameRows DEF Alive
  <2>4. AbsPhase = "idle" /\ AbsPhase' \in {"cleaning", "serving"}
    BY <2>2 DEF AbsPhase
  <2>5. Key(t) \in Abs!Keys
    BY DEF Abs!Keys
  <2> QED
    BY <2>2, <2>3, <2>4, <2>5 DEF Abs!Next, Abs!Request
<1>4. CASE InsertReturn \/ RemoveNothing \/ Lookup
  <2>1. /\ UNCHANGED <<primary, tuple, time, queue, now, arg>>
        /\ pc = "flushed" /\ pc' = "idle"
    BY <1>4, Zenon DEF InsertReturn, RemoveNothing, Lookup, commonVars
  <2>2. AbsRows' = AbsRows /\ AbsStamp' = AbsStamp /\ AbsOlder' = AbsOlder
    BY <1>1, <2>1, SameRows, Zenon DEF Alive
  <2>3. AbsPhase = "serving" /\ AbsPhase' = "idle"
    BY <2>1 DEF AbsPhase
  <2>4. Alive
    BY <2>1 DEF Alive
  <2>5. MaxSize > 0 => Cardinality(AbsRows) <= MaxSize
    BY <1>1, <2>1, <2>4, Zenon DEF TableInv, StepsOK, Shown
  <2> QED
    BY <2>1, <2>2, <2>3, <2>5, SameCardinality DEF Abs!Next, Abs!Reply
<1> QED
  BY <1>2, <1>3, <1>4

\* remove, and the first half of an insert that replaces a row.
LEMMA RemoveShown ==
  ASSUME TableInv, TableInv', InsertReplace \/ RemoveRow
  PROVE  [Abs!Next]_(Abs!vars)
<1>1. PICK e \in Find(arg) : RemoveTuple(e)
  BY DEF InsertReplace, RemoveRow
<1>2. /\ pc = "flushed" /\ pc' \in {"insert", "idle"} /\ now' = now /\ arg' = arg
      /\ queue' = queue /\ primary' = primary \ {e}
  BY <1>1 DEF InsertReplace, RemoveRow, RemoveTuple
<1>3. Shown /\ Shown' /\ Alive /\ Alive' /\ TypeOK
  BY <1>2, ShownRows, ShownRowsNext DEF TableInv, Alive
<1>4. e \in primary /\ Key(tuple[e]) = Key(arg)
  BY DEF Find
<1>5. \A f \in primary' : tuple'[f] = tuple[f] /\ time'[f] = time[f]
  BY <1>1, <1>2, <1>3 DEF RemoveTuple, Empty, Free, TypeOK, CommonTypeOK
<1>6. tuple[e] \in Tuples /\ tuple[e] \in AbsRows /\ Abs!Forget(tuple[e])
  BY <1>2, <1>3, <1>4, <1>5, RowGone, Zenon
<1>7. AbsPhase = "serving" /\ AbsPhase' \in {"serving", "idle"}
  BY <1>2 DEF AbsPhase
<1>8. Abs!Delete(tuple[e])
  BY <1>2, <1>4, <1>6, <1>7 DEF Abs!Delete
<1> QED
  BY <1>6, <1>8 DEF Abs!Next

\* insert of a row that is there makes it the one inserted most recently.
LEMMA DuplicateShown ==
  ASSUME TableInv, TableInv', InsertDuplicate
  PROVE  [Abs!Next]_(Abs!vars)
<1>1. PICK e \in Find(arg) : /\ tuple[e] = arg
                             /\ IF Flushing THEN UpdateTime(e)
                                ELSE UNCHANGED <<refCount, time, queue>>
  BY DEF InsertDuplicate
<1>2. /\ pc = "flushed" /\ pc' = "idle" /\ now' = now /\ arg' = arg
      /\ primary' = primary /\ tuple' = tuple
  BY DEF InsertDuplicate
<1>3. Shown /\ Shown' /\ Alive /\ Alive' /\ TypeOK /\ IndicesOK
  BY <1>2, ShownRows, ShownRowsNext DEF TableInv, Alive
<1>4. AbsPhase = "serving" /\ AbsPhase' = "idle"
  BY <1>2 DEF AbsPhase
<1>5. CASE ~Flushing
  <2>1. AbsRows' = AbsRows /\ AbsStamp' = AbsStamp /\ AbsOlder' = AbsOlder
    BY <1>1, <1>2, <1>3, <1>5, SameRows, Zenon
  <2>2. MaxSize > 0 => Cardinality(AbsRows) <= MaxSize
    BY <1>5 DEF Flushing
  <2> QED
    BY <1>2, <1>4, <2>1, <2>2, SameCardinality DEF Abs!Next, Abs!Reply
<1>6. CASE Flushing
  <2>1. e \in primary /\ e \in Entries /\ arg \in Tuples /\ queue \in Seq(Entries)
    BY <1>3 DEF Find, TypeOK, CommonTypeOK
  <2>2. queue' = Append(queue, e) /\ time' = [time EXCEPT ![e] = now]
    BY <1>1, <1>6 DEF UpdateTime, PushFront
  <2>3. AbsRows' = AbsRows /\ AbsRows = Rows /\ arg \in AbsRows /\ Rows \subseteq Tuples
    <3>1. AbsRows' = Rows' /\ AbsRows = Rows
      BY <1>3 DEF Shown
    <3>2. Rows' = Rows /\ arg \in Rows
      BY <1>1, <1>2, <2>1 DEF Rows
    <3>3. Rows \subseteq Tuples
      BY <1>3 DEF Rows, IndicesOK, IndicesAgree
    <3> QED
      BY <3>1, <3>2, <3>3
  <2>4. \A f, g \in primary : tuple[f] = tuple[g] => f = g
    BY <1>3 DEF IndicesOK, IndicesAgree
  <2>5. AbsStamp' = [AbsStamp EXCEPT ![arg] = now]
    <3>1. AbsStamp'[arg] = now
      BY <1>1, <1>2, <1>3, <2>1, <2>2, Zenon DEF Shown, TypeOK, CommonTypeOK
    <3>2. ASSUME NEW u \in Tuples \ {arg} PROVE AbsStamp'[u] = AbsStamp[u]
      <4>1. CASE u \in AbsRows
        <5>1. PICK f \in primary : tuple[f] = u
          BY <2>3, <4>1, Zenon DEF Rows
        <5>2. time'[f] = time[f]
          BY <1>1, <1>3, <2>2, <5>1 DEF TypeOK, CommonTypeOK
        <5> QED
          BY <1>2, <1>3, <5>1, <5>2 DEF Shown
      <4>2. CASE u \notin AbsRows
        BY <1>3, <2>3, <4>2 DEF Shown
      <4> QED
        BY <4>1, <4>2
    <3>3. AbsStamp = [t \in Tuples |-> AbsStamp[t]] /\ AbsStamp' = [t \in Tuples |-> AbsStamp'[t]]
      BY <1>3 DEF Shown
    <3>4. ASSUME NEW u \in Tuples
          PROVE  AbsStamp'[u] = IF u = arg THEN now ELSE AbsStamp[u]
      BY <3>1, <3>2
    <3> QED
      BY <2>1, <3>3, <3>4
  <2>6. ASSUME NEW p \in AbsRows \X AbsRows
        PROVE  p \in AbsOlder' <=> p[1] # arg /\ (p[2] = arg \/ p \in AbsOlder)
    <3>1. PICK f \in primary, g \in primary : p = <<tuple[f], tuple[g]>>
      BY <2>3 DEF Rows
    <3>2. p \in AbsOlder <=> Before(queue, f, g)
      BY <1>3, <3>1 DEF Shown
    <3>3. p \in AbsOlder' <=> Before(queue', f, g)
      <4>1. p = <<tuple'[f], tuple'[g]>> /\ f \in primary' /\ g \in primary'
        BY <1>2, <3>1
      <4> QED
        BY <1>3, <4>1 DEF Shown
    <3>4. Before(queue', f, g) <=> f # e /\ (g = e \/ Before(queue, f, g))
      BY <2>1, <2>2, AppendBefore
    <3>5. (p[1] = arg <=> f = e) /\ (p[2] = arg <=> g = e)
      BY <1>1, <2>1, <2>4, <3>1
    <3> QED
      BY <3>2, <3>3, <3>4, <3>5
  <2>7. AbsOlder \subseteq AbsRows \X AbsRows /\ AbsOlder' \subseteq AbsRows \X AbsRows
    BY <1>3, <2>3 DEF Shown
  <2>8. AbsOlder' = {p \in AbsOlder : p[1] # arg} \cup ((AbsRows \ {arg}) \X {arg})
    BY <2>3, <2>6, <2>7
  <2>9. Abs!Renew(arg)
    BY <1>2, <1>4, <1>6, <2>3, <2>5, <2>8 DEF Abs!Renew
  <2> QED
    BY <2>1, <2>9 DEF Abs!Next
<1> QED
  BY <1>5, <1>6

\* insertTuple.
LEMMA InsertTupleShown ==
  ASSUME TableInv, TableInv', InsertTuple
  PROVE  [Abs!Next]_(Abs!vars)
<1>1. PICK e \in Entries \ live : /\ NewEntry(e, arg, now, 0) /\ CommonInsertTuple(e, arg)
                                  /\ IF Flushing THEN PushFront(e) ELSE UNCHANGED queue
  BY DEF InsertTuple
<1>2. /\ pc \in {"flushed", "insert"} /\ pc' \in {"expire", "flushed"} /\ Find(arg) = {}
      /\ now' = now /\ arg' = arg
  BY Zenon DEF InsertTuple, StartFlush, TableInv, StepsOK
<1>3. Shown /\ Shown' /\ Alive /\ Alive' /\ TypeOK /\ IndicesOK /\ StepsOK
  BY <1>2, ShownRows, ShownRowsNext DEF TableInv, Alive
<1>4. /\ primary' = primary \cup {e} /\ tuple' = [tuple EXCEPT ![e] = arg]
      /\ time' = [time EXCEPT ![e] = now] /\ e \notin primary /\ e \in Entries
  BY <1>1, <1>3 DEF NewEntry, CommonInsertTuple, IndicesOK, IndicesAgree
<1>5. /\ arg \in Tuples /\ queue \in Seq(Entries)
      /\ tuple'[e] = arg /\ time'[e] = now
      /\ \A f \in primary : tuple'[f] = tuple[f] /\ time'[f] = time[f] /\ f # e
  BY <1>3, <1>4 DEF TypeOK, CommonTypeOK
<1>6. AbsRows = Rows /\ AbsRows' = AbsRows \cup {arg}
  BY <1>3, <1>4, <1>5 DEF Shown, Rows
<1>7. /\ \A f \in primary : Key(tuple[f]) # Key(arg)
      /\ \A u \in AbsRows : Key(u) # Key(arg)
      /\ arg \notin AbsRows
  BY <1>2, <1>6, Zenon DEF Find, Rows
<1>8. AbsStamp' = [AbsStamp EXCEPT ![arg] = now]
  <2>1. AbsStamp'[arg] = now
    BY <1>3, <1>4, <1>5 DEF Shown
  <2>2. ASSUME NEW u \in Tuples \ {arg} PROVE AbsStamp'[u] = AbsStamp[u]
    <3>1. CASE u \in AbsRows
      <4>1. PICK f \in primary : tuple[f] = u
        BY <1>6, <3>1 DEF Rows
      <4> QED
        BY <1>3, <1>4, <1>5, <4>1 DEF Shown
    <3>2. CASE u \notin AbsRows
      BY <1>3, <1>6, <3>2 DEF Shown
    <3> QED
      BY <3>1, <3>2
  <2> QED
    BY <1>3, <1>5, <2>1, <2>2 DEF Shown
<1>9. \A f \in primary', g \in primary' :
        Before(queue', f, g) <=> f # e /\ ((Flushing /\ g = e) \/ (g # e /\ Before(queue, f, g)))
  <2> TAKE f \in primary', g \in primary'
  <2>1. CASE Flushing
    <3>1. queue' = Append(queue, e)
      BY <1>1, <2>1 DEF PushFront
    <3>2. Before(Append(queue, e), f, g) <=> f # e /\ (g = e \/ Before(queue, f, g))
      BY <1>4, <1>5, AppendBefore
    <3> QED
      BY <2>1, <3>1, <3>2
  <2>2. CASE ~Flushing
    <3>1. queue' = << >> /\ queue = << >>
      BY <1>1, <1>3, <2>2 DEF StepsOK
    <3>2. Positions(<< >>, g) = {}
      BY DEF Positions
    <3> QED
      BY <2>2, <3>1, <3>2 DEF Before
  <2> QED
    BY <2>1, <2>2
<1>10. ASSUME NEW p \in AbsRows' \X AbsRows'
       PROVE  p \in AbsOlder' <=> \/ p \in AbsOlder
                                  \/ Flushing /\ p[1] \in AbsRows /\ p[2] = arg
  <2>1. PICK f \in primary', g \in primary' : p = <<tuple'[f], tuple'[g]>>
    BY <1>3 DEF Shown, Rows
  <2>2. p \in AbsOlder' <=> Before(queue', f, g)
    BY <1>3, <2>1 DEF Shown
  <2>3. (p[1] = arg <=> f = e) /\ (p[2] = arg <=> g = e)
    BY <1>4, <1>5, <1>7, <2>1
  <2>4. p[1] \in AbsRows \cup {arg} /\ p[2] \in AbsRows \cup {arg} /\ p = <<p[1], p[2]>>
    BY <1>6
  <2>5. p \in AbsOlder => p[1] # arg /\ p[2] # arg
    BY <1>3, <1>7 DEF Shown
  <2>6. f # e /\ g # e => (p \in AbsOlder <=> Before(queue, f, g))
    <3> SUFFICES ASSUME f # e, g # e PROVE p \in AbsOlder <=> Before(queue, f, g)
      OBVIOUS
    <3>1. f \in primary /\ g \in primary /\ p = <<tuple[f], tuple[g]>>
      BY <1>4, <1>5, <2>1
    <3> QED
      BY <1>3, <3>1 DEF Shown
  <2>7. Before(queue', f, g) <=> f # e /\ ((Flushing /\ g = e) \/ (g # e /\ Before(queue, f, g)))
    BY <1>9
  <2>8. CASE f # e /\ g # e
    BY <2>2, <2>3, <2>6, <2>7, <2>8
  <2>9. CASE f = e \/ g = e
    BY <1>7, <2>2, <2>3, <2>4, <2>5, <2>7, <2>9
  <2> QED
    BY <2>8, <2>9
<1>11. AbsOlder \subseteq AbsRows \X AbsRows /\ AbsOlder' \subseteq AbsRows' \X AbsRows'
  BY <1>3 DEF Shown
<1>12. AbsOlder' = IF Flushing THEN AbsOlder \cup (AbsRows \X {arg}) ELSE AbsOlder
  BY <1>6, <1>10, <1>11
<1>13. AbsPhase = "serving" /\ AbsPhase' \in {"cleaning", "serving"}
  BY <1>2 DEF AbsPhase
<1>14. Abs!Put(arg)
  BY <1>2, <1>6, <1>7, <1>8, <1>12, <1>13 DEF Abs!Put
<1> QED
  BY <1>5, <1>14, Zenon DEF Abs!Next

\* The destructor drops the rows at once, and frees entries unseen.
LEMMA DestroyShown ==
  ASSUME TableInv, Destroy \/ DestroyEntry \/ DestroyDone
  PROVE  [Abs!Next]_(Abs!vars)
<1>1. UNCHANGED <<now, arg>> /\ pc' \in {"destroy", "dead"}
  BY DEF Destroy, DestroyEntry, DestroyDone
<1>2. AbsRows' = {} /\ AbsPhase' = "gone"
  BY <1>1 DEF AbsRows, Alive, AbsPhase
<1>3. AbsStamp' = [t \in Tuples |-> 0] /\ AbsOlder' = {}
  BY <1>2 DEF AbsStamp, AbsOlder
<1>4. CASE Destroy
  <2>1. AbsPhase = "idle"
    BY <1>4 DEF Destroy, AbsPhase
  <2> QED
    BY <1>1, <1>2, <1>3, <2>1 DEF Abs!Next, Abs!Drop
<1>5. CASE DestroyEntry \/ DestroyDone
  <2>1. AbsRows = {} /\ AbsPhase = "gone"
    BY <1>5 DEF DestroyEntry, DestroyDone, AbsRows, Alive, AbsPhase
  <2>2. AbsStamp = [t \in Tuples |-> 0] /\ AbsOlder = {}
    BY <2>1 DEF AbsStamp, AbsOlder
  <2> QED
    BY <1>1, <1>2, <1>3, <2>1, <2>2 DEF Abs!vars
<1> QED
  BY <1>4, <1>5

\* Every step of a Table2 is a step of a SoftStateTable or none at all.
LEMMA StepShown ==
  ASSUME TableInv, TableInv', Clocked, [Next]_vars
  PROVE  [Abs!Next]_(Abs!vars)
<1>1. CASE UNCHANGED vars
  <2>1. AbsRows' = AbsRows /\ AbsPhase' = AbsPhase /\ now' = now /\ arg' = arg
    BY <1>1 DEF vars, commonVars, AbsRows, Rows, Alive, AbsPhase
  <2>2. \A t : EntryOf(t)' = EntryOf(t)
    BY <1>1 DEF vars, commonVars, EntryOf
  <2>3. AbsStamp' = AbsStamp
    BY <1>1, <2>1, <2>2 DEF vars, commonVars, AbsStamp
  <2>4. \A e, f : Precedes(e, f)' <=> Precedes(e, f)
    BY <1>1 DEF vars, Precedes, Instances
  <2>5. AbsOlder' = AbsOlder
    BY <2>1, <2>2, <2>4 DEF AbsOlder
  <2> QED
    BY <2>1, <2>3, <2>5 DEF Abs!vars
<1> QED
  BY <1>1, FlushShown, ControlShown, RemoveShown, DuplicateShown, InsertTupleShown, DestroyShown
     DEF Next, Body

-----------------------------------------------------------------------------
(* Expired rows hide only behind refreshed ones.                           *)

\* The queue is ordered by time: the last instance of an entry stands where
\* the latest of its insertions put it.
TimesOrdered ==
  Flushing => \A e, f \in live : Before(queue, e, f) => time[e] <= time[f]

\* Every step keeps it.
LEMMA TimesOrderedNext ==
  ASSUME TableInv, Clocked, TimesOrdered, [Next]_vars
  PROVE  TimesOrdered'
<1> SUFFICES ASSUME Flushing PROVE TimesOrdered'
  BY DEF TimesOrdered, Flushing
<1>1. /\ now \in Nat /\ time \in [Entries -> Nat] /\ live \subseteq Entries
      /\ queue \in Seq(Entries) /\ primary \subseteq Entries
  BY DEF TableInv, TypeOK, CommonTypeOK
<1>2. CASE UNCHANGED <<live, time, queue>>
  BY <1>2 DEF TimesOrdered
<1>3. ASSUME queue # << >>, queue' = Tail(queue), live' \subseteq live,
             \A e \in live' : time'[e] = time[e]
      PROVE  TimesOrdered'
  <2> SUFFICES ASSUME NEW e \in live', NEW f \in live', Before(queue', e, f)
               PROVE  time'[e] <= time'[f]
    BY DEF TimesOrdered
  <2>1. Positions(queue, e) # {}
    BY <1>3, LiveInstances
  <2>2. Before(queue, e, f)
    BY <1>1, <1>3, <2>1, TailBefore
  <2> QED
    BY <1>3, <2>2 DEF TimesOrdered
<1>4. ASSUME NEW x \in Entries, queue' = Append(queue, x), live' = live \cup {x},
             time' = [time EXCEPT ![x] = now]
      PROVE  TimesOrdered'
  <2> SUFFICES ASSUME NEW e \in live', NEW f \in live', Before(queue', e, f)
               PROVE  time'[e] <= time'[f]
    BY DEF TimesOrdered
  <2>1. e # x /\ (f = x \/ Before(queue, e, f))
    BY <1>1, <1>4, AppendBefore
  <2>2. e \in live /\ e \in Entries /\ time'[e] = time[e] /\ time[e] <= now
    BY <1>1, <1>4, <2>1 DEF Clocked
  <2>3. CASE f = x
    BY <1>1, <1>4, <2>2, <2>3
  <2>4. CASE f # x
    <3>1. f \in live /\ time'[f] = time[f]
      BY <1>1, <1>4, <2>4
    <3> QED
      BY <2>1, <2>2, <2>4, <3>1, Zenon DEF TimesOrdered
  <2> QED
    BY <2>3, <2>4
<1>5. CASE FlushExpired \/ FlushSupernumerary
  <2>1. queue # << >> /\ FlushEntry
    BY <1>5 DEF FlushExpired, FlushSupernumerary, Expired, Supernumerary
  <2>2. /\ queue' = Tail(queue) /\ live' \subseteq live
        /\ \A e \in live' : time'[e] = time[e]
    BY <1>1, <2>1 DEF FlushEntry, PopBack, Free
  <2> QED
    BY <1>3, <2>1, <2>2
<1>6. CASE DestroyEntry
  <2>1. /\ queue # << >> /\ queue' = Tail(queue) /\ live' \subseteq live
        /\ \A e \in live' : time'[e] = time[e]
    BY <1>1, <1>6 DEF DestroyEntry, PopBack, Free
  <2> QED
    BY <1>3, <2>1
<1>7. CASE InsertDuplicate
  <2>1. PICK e \in Find(arg) : UpdateTime(e)
    BY <1>7 DEF InsertDuplicate
  <2>2. e \in Entries /\ e \in live /\ live' = live
    BY <1>1, <1>7 DEF Find, InsertDuplicate, TableInv, IndicesOK, IndicesAgree, Alive
  <2> QED
    BY <1>4, <2>1, <2>2, Zenon DEF UpdateTime, PushFront
<1>8. CASE InsertTuple
  BY <1>4, <1>8, Zenon DEF InsertTuple, NewEntry, PushFront
<1>9. CASE InsertReplace \/ RemoveRow
  BY <1>2, <1>9 DEF InsertReplace, RemoveRow, RemoveTuple, Empty
<1>10. CASE \/ Tick \/ (\E o \in Ops, t \in Tuples : Call(o, t)) \/ ExpireDone \/ EvictDone
            \/ InsertReturn \/ RemoveNothing \/ Lookup \/ Destroy \/ DestroyDone
            \/ UNCHANGED vars
  BY <1>2, <1>10, Zenon
     DEF Tick, Call, ExpireDone, EvictDone, InsertReturn, RemoveNothing, Lookup, Destroy,
         DestroyDone, vars, commonVars
<1> QED
  BY <1>5, <1>6, <1>7, <1>8, <1>9, <1>10 DEF Next, Flush, Body

\* When the expiration loop ends, the back of the queue, if it has no further
\* instance, is the entry inserted least recently.
LEMMA StaleBehind ==
  ASSUME TableInv, TimesOrdered, ExpireDone, Flushing, Lifetime # NO_EXPIRATION,
         NEW e \in primary, time[e] < expiry
  PROVE  Head(queue) # e /\ refCount[Head(queue)] > 0
<1> DEFINE h == Head(queue)
<1>1. /\ TypeOK /\ RefCountsExact /\ e \in live
      /\ queue \in Seq(Entries) /\ time \in [Entries -> Nat] /\ refCount \in [Entries -> Nat]
      /\ live \subseteq Entries /\ expiry \in Int
  BY Zenon DEF TableInv, TypeOK, CommonTypeOK, IndicesOK, IndicesAgree, ExpireDone, Alive
<1>2. PICK i \in Positions(queue, e) : TRUE
  BY <1>1, LiveInstances
<1>3. queue # << >> /\ i \in 1..Len(queue) /\ queue[i] = e
  BY <1>1, <1>2 DEF Positions
<1>4. h \in live /\ h \in Entries
  BY <1>1, <1>3, QueueLive
<1>5. time[h] >= expiry
  BY <1>1, <1>3, <1>4 DEF ExpireDone, Expired
<1>6. h # e
  BY <1>1, <1>4, <1>5
<1>7. ASSUME refCount[h] = 0 PROVE FALSE
  <2>1. Positions(queue, h) = {1}
    BY <1>3, <1>4, <1>7, LiveInstances
  <2>2. i > 1
    BY <1>1, <1>3, <1>6
  <2>3. Before(queue, h, e)
    BY <1>2, <2>1, <2>2 DEF Before
  <2>4. time[h] <= time[e]
    BY <1>1, <1>4, <2>3 DEF TimesOrdered
  <2> QED
    BY <1>1, <1>4, <1>5, <2>4
<1> QED
  BY <1>1, <1>4, <1>6, <1>7

\* A Table2 is a SoftStateTable, whatever calls are made and whenever the
\* clock ticks: flush takes only the row inserted least recently, only if its
\* lifetime is over or the table is over its size, insert and remove touch only
\* their own key, and flush leaves an expired row only behind the old
\* instance of a row inserted again (table2.C).
THEOREM SoftStateCorrect == Spec => ImplementsSoftState
<1> DEFINE Inv == TableInv /\ Clocked /\ TimesOrdered
<1>1. Init => Inv
  <2>1. Init => TimesOrdered
    BY DEF Init, CommonInit, TimesOrdered
  <2> QED
    BY <2>1, InitInv, ShownInit
<1>2. Inv /\ [Next]_vars => Inv'
  BY TableInvInductive, ClockedNext, TimesOrderedNext
<1>3. Spec => []Inv
  <2> HIDE DEF Inv
  <2> QED
    BY <1>1, <1>2, PTL DEF Spec
<1>4. Init => Abs!Init
  BY ShownInit
<1>5. Inv /\ Inv' /\ [Next]_vars => [Abs!Next]_(Abs!vars)
  BY StepShown
<1>6. Inv /\ [Next]_vars =>
        [(ExpireDone /\ Flushing /\ Lifetime # NO_EXPIRATION) =>
            \A e \in primary :
              time[e] < expiry => /\ Head(queue) # e
                                  /\ refCount[Head(queue)] > 0]_vars
  BY StaleBehind
<1> HIDE DEF Inv
<1>7. Spec => StaleOnlyBehindRefreshed
  BY <1>3, <1>6, PTL DEF Spec, StaleOnlyBehindRefreshed
<1>8. Spec => Abs!Spec
  BY <1>3, <1>4, <1>5, PTL DEF Spec, Abs!Spec
<1> QED
  BY <1>7, <1>8 DEF ImplementsSoftState

-----------------------------------------------------------------------------
(* insert makes its tuple a row.                                           *)

\* While the second flush of an insert runs, the new row is the last that it
\* would take.
Visible ==
  Lifetime = NO_EXPIRATION /\ op = "insert" =>
    /\ posted /\ pc \in {"expire", "evict", "flushed"} =>
         \E e \in primary :
           tuple[e] = arg /\ (Flushing => queue # << >> /\ queue[Len(queue)] = e)
    /\ pc = "idle" => arg \in Rows

\* A table over its size has at least two instances in its queue.
LEMMA TwoInstances ==
  ASSUME TableInv, pc = "evict", Supernumerary
  PROVE  Len(queue) >= 2
<1>1. /\ queue \in Seq(Entries) /\ queue # << >> /\ Flushing /\ primary \subseteq live
      /\ MaxSize \in Nat /\ MaxSize > 0 /\ Cardinality(primary) > MaxSize
  BY LimitsAssumption, Zenon
     DEF TableInv, TypeOK, CommonTypeOK, StepsOK, IndicesOK, IndicesAgree, Alive, Supernumerary
<1> SUFFICES ASSUME Len(queue) = 1 PROVE FALSE
  BY <1>1
<1>2. \A e \in live : e = queue[1]
  BY <1>1, LiveInstances DEF Positions
<1>3. primary \subseteq {queue[1]}
  BY <1>1, <1>2
<1>4. IsFiniteSet({queue[1]}) /\ Cardinality({queue[1]}) = 1
  BY FS_Singleton, Zenon
<1>5. Cardinality(primary) <= 1 /\ Cardinality(primary) \in Nat
  BY <1>3, <1>4, FS_Subset, FS_CardinalityType
<1> QED
  BY <1>1, <1>5

\* Eviction stops before it.
LEMMA EvictVisible ==
  ASSUME TableInv, Visible, FlushSupernumerary
  PROVE  Visible'
<1> SUFFICES ASSUME Lifetime = NO_EXPIRATION, op = "insert", posted
             PROVE  \E e \in primary' :
                      /\ tuple'[e] = arg
                      /\ queue' # << >> /\ queue'[Len(queue')] = e
  BY DEF Visible, FlushSupernumerary
<1> DEFINE h == Head(queue)
<1>1. /\ pc = "evict" /\ Supernumerary /\ FlushEntry /\ Flushing
      /\ queue \in Seq(Entries) /\ tuple \in [Entries -> Tuples \cup {NULL}]
      /\ refCount \in [Entries -> Nat] /\ primary \subseteq live /\ primary \subseteq Entries
      /\ TypeOK /\ RefCountsExact
  BY Zenon DEF TableInv, TypeOK, CommonTypeOK, StepsOK, IndicesOK, IndicesAgree, Alive,
         FlushSupernumerary
<1>2. PICK e \in primary : tuple[e] = arg /\ queue # << >> /\ queue[Len(queue)] = e
  BY <1>1 DEF Visible
<1>3. Len(queue) \in Nat /\ Len(queue) >= 2
  BY <1>1, TwoInstances
<1>4. queue' # << >> /\ queue'[Len(queue')] = e
  <2>1. queue' = Tail(queue)
    BY <1>1 DEF FlushEntry, PopBack
  <2>2. /\ Tail(queue) \in Seq(Entries) /\ Len(Tail(queue)) = Len(queue) - 1
        /\ \A k \in 1..(Len(queue) - 1) : Tail(queue)[k] = queue[k + 1]
    BY <1>1, <1>2
  <2>3. Len(queue) - 1 \in 1..(Len(queue) - 1) /\ (Len(queue) - 1) + 1 = Len(queue)
    BY <1>3
  <2>4. Tail(queue)[Len(queue) - 1] = queue[Len(queue)]
    BY <2>2, <2>3
  <2>5. Tail(queue) # << >>
    <3>1. Len(Tail(queue)) # 0
      BY <1>3, <2>2
    <3> QED
      BY <2>2, <3>1
  <2> QED
    BY <1>2, <2>1, <2>2, <2>4, <2>5
<1>5. CASE refCount[h] > 0
  BY <1>1, <1>2, <1>4, <1>5 DEF FlushEntry, OtherInstances
<1>6. CASE ~(refCount[h] > 0)
  <2>1. h \in live /\ h \in Entries
    BY <1>1, <1>2, QueueLive
  <2>2. Positions(queue, h) = {1}
    BY <1>1, <1>2, <1>6, <2>1, LiveInstances
  <2>3. e # h
    <3>1. e = h => Len(queue) \in Positions(queue, h)
      BY <1>2, <1>3 DEF Positions
    <3> QED
      BY <1>3, <2>2, <3>1
  <2>4. e \in primary' /\ tuple'[e] = tuple[e]
    BY <1>1, <1>2, <1>6, <2>1, <2>3 DEF FlushEntry, OtherInstances, Free
  <2> QED
    BY <1>2, <1>4, <2>4
<1> QED
  BY <1>5, <1>6

\* Every step keeps it.
LEMMA VisibleNext ==
  ASSUME TableInv, Visible, [Next]_vars
  PROVE  Visible'
<1>1. /\ arg \in Tuples /\ queue \in Seq(Entries) /\ tuple \in [Entries -> Tuples \cup {NULL}]
      /\ Flushing' = Flushing /\ primary \subseteq Entries
  BY DEF TableInv, TypeOK, CommonTypeOK, Flushing
<1>2. CASE \/ Tick \/ ExpireDone \/ EvictDone \/ UNCHANGED vars
  BY <1>1, <1>2, Zenon DEF Tick, ExpireDone, EvictDone, vars, commonVars, Visible, Rows
<1>3. CASE FlushExpired
  BY <1>3, Zenon DEF FlushExpired, Expired, Visible
<1>4. CASE FlushSupernumerary
  BY <1>4, EvictVisible
<1>5. CASE \E o \in Ops, t \in Tuples : Call(o, t)
  BY <1>5 DEF Call, StartFlush, Visible
<1>6. CASE InsertDuplicate
  <2>1. PICK e \in Find(arg) : tuple[e] = arg
    BY <1>6 DEF InsertDuplicate
  <2>2. e \in primary' /\ tuple'[e] = arg' /\ pc' = "idle"
    BY <1>6, <2>1 DEF InsertDuplicate, Find
  <2> QED
    BY <2>2 DEF Visible, Rows
<1>7. CASE InsertTuple
  <2>1. PICK e \in Entries \ live : /\ NewEntry(e, arg, now, 0) /\ CommonInsertTuple(e, arg)
                                    /\ IF Flushing THEN PushFront(e) ELSE UNCHANGED queue
    BY <1>7 DEF InsertTuple
  <2>2. e \in primary' /\ tuple'[e] = arg' /\ pc' # "idle"
    BY <1>1, <1>7, <2>1, Zenon DEF InsertTuple, NewEntry, CommonInsertTuple, StartFlush
  <2>3. Flushing => queue' # << >> /\ queue'[Len(queue')] = e
    BY <1>1, <2>1 DEF PushFront
  <2> QED
    BY <1>1, <2>2, <2>3 DEF Visible
<1>8. CASE InsertReturn
  <2>1. UNCHANGED <<primary, tuple, queue, op, arg>> /\ pc = "flushed" /\ posted /\ pc' = "idle"
    BY <1>8 DEF InsertReturn, commonVars
  <2> QED
    BY <2>1 DEF Visible, Rows
<1>9. CASE InsertReplace \/ RemoveRow \/ RemoveNothing \/ Lookup
  BY <1>9, Zenon DEF InsertReplace, RemoveRow, RemoveNothing, Lookup, Visible
<1>10. CASE Destroy \/ DestroyEntry \/ DestroyDone
  BY <1>10, Zenon DEF Destroy, DestroyEntry, DestroyDone, Visible
<1> QED
  BY <1>2, <1>3, <1>4, <1>5, <1>6, <1>7, <1>8, <1>9, <1>10 DEF Next, Flush, Body

\* In a table whose rows do not expire, the tuple given to insert is a row when
\* insert returns: the eviction that follows the insertion never takes it
\* (Table2::insert).
THEOREM InsertsVisible == Spec => []InsertVisible
<1>1. Init => TableInv /\ Visible
  BY InitInv DEF Init, Visible
<1>2. TableInv /\ Visible /\ [Next]_vars => (TableInv /\ Visible)'
  BY TableInvInductive, VisibleNext
<1>3. Visible => InsertVisible
  BY DEF Visible, InsertVisible
<1> QED
  BY <1>1, <1>2, <1>3, PTL DEF Spec
=============================================================================
