--------------------------- MODULE RefTableProofs ---------------------------
(***************************************************************************)
(* Proof that the invariants of RefTable hold for every set of tuples and  *)
(* entries, every key, grouping and aggregate function and every bound on  *)
(* the counters.                                                           *)
(***************************************************************************)
EXTENDS RefTable, TLAPS

-----------------------------------------------------------------------------
(* What commonInsertTuple and removeTupleOfEntry preserve.                 *)

\* The rows of a group are a set of tuples, so the aggregate has a result.
LEMMA GroupRowsType ==
  ASSUME NEW S, NEW tup, NEW g, \A e \in S : tup[e] \in Tuples
  PROVE  GroupRows(S, tup, g) \in SUBSET Tuples
BY DEF GroupRows

-----------------------------------------------------------------------------
(* A row that leaves or enters the table takes the secondary index, the    *)
(* listeners and the aggregate with it.                                    *)

\* removeTupleOfEntry followed by the erase from the primary index.
LEMMA RowLeaves ==
  ASSUME CommonTypeOK, IndicesAgree, ListenersKnowRows, AggregatesCurrent,
         NEW e \in primary, RemoveTupleOfEntry(e),
         primary' = primary \ {e}, tuple' = [tuple EXCEPT ![e] = NULL],
         primary' \subseteq live'
  PROVE  /\ IndicesAgree' /\ ListenersKnowRows' /\ AggregatesCurrent'
         /\ agg' \in [Groups -> Results] /\ view' \in [Tuples -> Int]
         /\ secondary' \subseteq Entries
<1> DEFINE t == tuple[e]
           g == Group(t)
<1>1. /\ primary \subseteq Entries /\ e \in Entries
      /\ tuple \in [Entries -> Tuples \cup {NULL}]
      /\ agg \in [Groups -> Results]
      /\ view \in [Tuples -> Int]
  BY DEF CommonTypeOK
<1>2. t \in Tuples /\ g \in Groups
  BY DEF IndicesAgree, Groups
<1>3. /\ secondary' = secondary \ {e}
      /\ view' = [view EXCEPT ![t] = @ - 1]
      /\ agg' = [agg EXCEPT ![g] = AggFn(GroupRows(secondary', tuple, g))]
  BY DEF RemoveTupleOfEntry, AggUpdate
<1>4. \A f \in primary' : tuple'[f] = tuple[f]
  BY <1>1
<1>5. IndicesAgree'
  BY <1>1, <1>3, <1>4 DEF IndicesAgree
<1>6. Rows' = Rows \ {t}
  BY <1>1, <1>4 DEF Rows, IndicesAgree
<1>7. ListenersKnowRows'
  <2>1. t \in Rows
    BY DEF Rows
  <2>2. \A u \in Tuples : view[u] = IF u \in Rows THEN 1 ELSE 0
    BY DEF ListenersKnowRows
  <2> HIDE DEF t
  <2>3. \A u \in Tuples : view'[u] = IF u \in Rows \ {t} THEN 1 ELSE 0
    BY <1>1, <1>2, <1>3, <2>1, <2>2
  <2> QED
    BY <1>6, <2>3 DEF ListenersKnowRows
<1>8. GroupRows(secondary', tuple, g) = {u \in Rows' : Group(u) = g}
  <2>1. secondary' = primary'
    BY <1>5 DEF IndicesAgree
  <2>2. Rows' = {tuple[f] : f \in primary'}
    BY <1>4 DEF Rows
  <2> HIDE DEF g
  <2> QED
    BY <2>1, <2>2 DEF GroupRows
<1>9. GroupRows(secondary', tuple, g) \in SUBSET Tuples
  BY <1>4, <1>5, GroupRowsType DEF IndicesAgree
<1>10. agg' \in [Groups -> Results] /\ agg'[g] # Unseen
  BY <1>1, <1>2, <1>3, <1>9, AggFnAssumption DEF Results
<1>11. AggregatesCurrent'
  <2> SUFFICES ASSUME NEW k \in Groups
               PROVE  LET rows == {u \in Rows' : Group(u) = k}
                      IN  IF agg'[k] = Unseen THEN rows = {}
                                              ELSE agg'[k] = AggFn(rows)
    BY DEF AggregatesCurrent
  <2>1. CASE k = g
    BY <1>1, <1>2, <1>3, <1>8, <1>10, <2>1
  <2>2. CASE k # g
    <3>1. {u \in Rows' : Group(u) = k} = {u \in Rows : Group(u) = k}
      BY <1>6, <2>2
    <3>2. agg'[k] = agg[k]
      BY <1>1, <1>3, <2>2
    <3> QED
      BY <3>1, <3>2 DEF AggregatesCurrent
  <2> QED
    BY <2>1, <2>2
<1>12. view' \in [Tuples -> Int]
  BY <1>1, <1>2, <1>3
<1> QED
  BY <1>1, <1>3, <1>5, <1>7, <1>10, <1>11, <1>12 DEF IndicesAgree

\* insertTuple of a tuple whose key no row has.
LEMMA RowEnters ==
  ASSUME CommonTypeOK, IndicesAgree, ListenersKnowRows, AggregatesCurrent,
         NEW t \in Tuples, Find(t) = {}, NEW e \in Entries \ live, NEW n, NEW rc,
         NewEntry(e, t, n, rc), CommonInsertTuple(e, t)
  PROVE  /\ IndicesAgree' /\ ListenersKnowRows' /\ AggregatesCurrent'
         /\ agg' \in [Groups -> Results] /\ view' \in [Tuples -> Int]
         /\ secondary' \subseteq Entries
<1> DEFINE g == Group(t)
<1>1. /\ primary \subseteq Entries /\ e \in Entries /\ e \notin primary
      /\ tuple \in [Entries -> Tuples \cup {NULL}]
      /\ agg \in [Groups -> Results]
      /\ view \in [Tuples -> Int]
      /\ g \in Groups
  BY DEF CommonTypeOK, IndicesAgree, Groups
<1>2. /\ live' = live \cup {e}
      /\ tuple' = [tuple EXCEPT ![e] = t]
      /\ primary' = primary \cup {e}
      /\ secondary' = secondary \cup {e}
      /\ view' = [view EXCEPT ![t] = @ + 1]
      /\ agg' = [agg EXCEPT ![g] = AggFn(GroupRows(secondary', tuple', g))]
  BY DEF NewEntry, CommonInsertTuple, AggUpdate
<1>3. tuple'[e] = t /\ \A f \in primary : tuple'[f] = tuple[f]
  BY <1>1, <1>2
<1>4. IndicesAgree'
  BY <1>1, <1>2, <1>3 DEF IndicesAgree, Find
<1>5. Rows' = Rows \cup {t}
  BY <1>1, <1>2, <1>3 DEF Rows
<1>6. t \notin Rows
  BY DEF Rows, Find
<1>7. ListenersKnowRows'
  <2>1. \A u \in Tuples : view[u] = IF u \in Rows THEN 1 ELSE 0
    BY DEF ListenersKnowRows
  <2>2. \A u \in Tuples : view'[u] = IF u \in Rows \cup {t} THEN 1 ELSE 0
    BY <1>1, <1>2, <1>6, <2>1
  <2> QED
    BY <1>5, <2>2 DEF ListenersKnowRows
<1>8. GroupRows(secondary', tuple', g) = {u \in Rows' : Group(u) = g}
  <2>1. secondary' = primary'
    BY <1>4 DEF IndicesAgree
  <2> HIDE DEF g
  <2> QED
    BY <2>1 DEF GroupRows, Rows
<1>9. GroupRows(secondary', tuple', g) \in SUBSET Tuples
  BY <1>4, GroupRowsType DEF IndicesAgree
<1>10. agg' \in [Groups -> Results] /\ agg'[g] # Unseen
  BY <1>1, <1>2, <1>9, AggFnAssumption DEF Results
<1>11. AggregatesCurrent'
  <2> SUFFICES ASSUME NEW k \in Groups
               PROVE  LET rows == {u \in Rows' : Group(u) = k}
                      IN  IF agg'[k] = Unseen THEN rows = {}
                                              ELSE agg'[k] = AggFn(rows)
    BY DEF AggregatesCurrent
  <2>1. CASE k = g
    BY <1>1, <1>2, <1>8, <1>10, <2>1
  <2>2. CASE k # g
    <3>1. {u \in Rows' : Group(u) = k} = {u \in Rows : Group(u) = k}
      BY <1>5, <2>2
    <3>2. agg'[k] = agg[k]
      BY <1>1, <1>2, <2>2
    <3> QED
      BY <3>1, <3>2 DEF AggregatesCurrent
  <2> QED
    BY <2>1, <2>2
<1>12. view' \in [Tuples -> Int]
  BY <1>1, <1>2
<1> QED
  BY <1>1, <1>2, <1>4, <1>7, <1>10, <1>11, <1>12 DEF IndicesAgree

-----------------------------------------------------------------------------
(* The operations keep the invariant.                                      *)

\* Init establishes the invariant.
LEMMA InitInv == Init => RefTableInv
<1> SUFFICES ASSUME Init PROVE RefTableInv
  OBVIOUS
<1> USE DEF Init, CommonInit
<1>1. TypeOK
  <2>1. arg \in Tuples
    BY TuplesAssumption
  <2>2. agg \in [Groups -> Results]
    BY DEF Results
  <2>3. ret \in BOOLEAN
    OBVIOUS
  <2>4. /\ live \subseteq Entries /\ primary \subseteq Entries
        /\ secondary \subseteq Entries
        /\ tuple \in [Entries -> Tuples \cup {NULL}]
        /\ time \in [Entries -> Nat]
        /\ refCount \in [Entries -> Nat]
        /\ view \in [Tuples -> Int]
        /\ pc = "idle"
    OBVIOUS
  <2> HIDE DEF Init
  <2> QED
    BY <2>1, <2>2, <2>3, <2>4 DEF TypeOK, CommonTypeOK
<1>2. Rows = {}
  BY DEF Rows
<1>3. IndicesAgree
  BY DEF IndicesAgree
<1>4. ListenersKnowRows /\ AggregatesCurrent
  BY <1>2 DEF ListenersKnowRows, AggregatesCurrent
<1>5. CountsPositive /\ StepsOK
  BY DEF CountsPositive, StepsOK
<1> QED
  BY <1>1, <1>3, <1>4, <1>5 DEF RefTableInv, DerivativesOK

\* A step that touches neither the rows nor the indices.
LEMMA RowsStay ==
  ASSUME DerivativesOK, Alive, 
         UNCHANGED <<live, tuple, primary, secondary, agg, view>>
  PROVE  DerivativesOK'
<1>1. Rows' = Rows
  BY DEF Rows
<1>2. IndicesAgree /\ ListenersKnowRows /\ AggregatesCurrent
  BY DEF DerivativesOK
<1>3. IndicesAgree'
  BY <1>2 DEF IndicesAgree
<1>4. ListenersKnowRows' /\ AggregatesCurrent'
  BY <1>1, <1>2 DEF ListenersKnowRows, AggregatesCurrent
<1> QED
  BY <1>3, <1>4 DEF DerivativesOK

\* removeTuple, by remove or by an insertion that displaces the row.
LEMMA RemoveTupleInv ==
  ASSUME RefTableInv, pc = "idle", NEW t \in Tuples, NEW e \in Find(t),
         RemoveTuple(e), pc' \in {"idle", "insert"},
         arg' \in Tuples, ret' \in BOOLEAN, pc' = "insert" => arg' = t
  PROVE  RefTableInv'
<1>1. /\ TypeOK /\ Alive /\ Alive' /\ live = primary
      /\ IndicesAgree /\ ListenersKnowRows /\ AggregatesCurrent
      /\ \A f \in primary : refCount[f] >= 1
      /\ e \in primary /\ e \in Entries
  BY DEF RefTableInv, DerivativesOK, CountsPositive, Alive, Find, TypeOK, CommonTypeOK
<1>2. /\ RemoveTupleOfEntry(e)
      /\ primary' = primary \ {e}
      /\ live' = live \ {e}
      /\ tuple' = [tuple EXCEPT ![e] = NULL]
      /\ refCount' = [refCount EXCEPT ![e] = 0]
      /\ time' = time
  BY DEF RemoveTuple, Free
<1>3. /\ IndicesAgree' /\ ListenersKnowRows' /\ AggregatesCurrent'
      /\ agg' \in [Groups -> Results] /\ view' \in [Tuples -> Int]
      /\ secondary' \subseteq Entries
  BY <1>1, <1>2, RowLeaves DEF TypeOK
<1>4. tuple' \in [Entries -> Tuples \cup {NULL}] /\ refCount' \in [Entries -> Nat]
  BY <1>1, <1>2 DEF TypeOK, CommonTypeOK
<1>5. TypeOK'
  BY <1>1, <1>2, <1>3, <1>4 DEF TypeOK, CommonTypeOK
<1>6. \A f \in primary' : tuple'[f] = tuple[f] /\ refCount'[f] = refCount[f]
  BY <1>1, <1>2 DEF TypeOK, CommonTypeOK
<1>7. CountsPositive'
  BY <1>1, <1>2, <1>6 DEF CountsPositive
<1>8. StepsOK'
  BY <1>1, <1>2, <1>6 DEF StepsOK, Find, IndicesAgree
<1> QED
  BY <1>3, <1>5, <1>7, <1>8 DEF RefTableInv, DerivativesOK

\* insertTuple of a tuple whose key no row has.
LEMMA InsertTupleInv ==
  ASSUME RefTableInv, Alive, NEW t \in Tuples, Find(t) = {}, InsertTuple(t)
  PROVE  RefTableInv'
<1> PICK e \in Entries \ live :
           NewEntry(e, t, 0, InitialCount) /\ CommonInsertTuple(e, t)
  BY DEF InsertTuple
<1>1. /\ TypeOK /\ Alive' /\ live = primary /\ pc' = "idle" /\ ret' = TRUE /\ arg' = arg
      /\ IndicesAgree /\ ListenersKnowRows /\ AggregatesCurrent
      /\ \A f \in primary : refCount[f] >= 1
  BY DEF RefTableInv, DerivativesOK, CountsPositive, Alive, InsertTuple
<1>2. /\ live' = live \cup {e}
      /\ primary' = primary \cup {e}
      /\ tuple' = [tuple EXCEPT ![e] = t]
      /\ time' = [time EXCEPT ![e] = 0]
      /\ refCount' = [refCount EXCEPT ![e] = 1]
  BY DEF NewEntry, CommonInsertTuple, InitialCount
<1>3. /\ IndicesAgree' /\ ListenersKnowRows' /\ AggregatesCurrent'
      /\ agg' \in [Groups -> Results] /\ view' \in [Tuples -> Int]
      /\ secondary' \subseteq Entries
  BY <1>1, RowEnters DEF TypeOK
<1>4. /\ tuple' \in [Entries -> Tuples \cup {NULL}]
      /\ time' \in [Entries -> Nat]
      /\ refCount' \in [Entries -> Nat]
  BY <1>1, <1>2 DEF TypeOK, CommonTypeOK
<1>5. ret' \in BOOLEAN
  BY <1>1
<1>6. TypeOK'
  BY <1>1, <1>2, <1>3, <1>4, <1>5 DEF TypeOK, CommonTypeOK
<1>7. CountsPositive'
  BY <1>1, <1>2 DEF CountsPositive, TypeOK, CommonTypeOK
<1>8. StepsOK'
  BY <1>1, <1>2 DEF StepsOK
<1> QED
  BY <1>3, <1>6, <1>7, <1>8 DEF RefTableInv, DerivativesOK

\* A call that only moves the counter of a row.
LEMMA CountInv ==
  ASSUME RefTableInv, pc = "idle", NEW e \in primary, NEW n \in Nat, n >= 1,
         refCount' = [refCount EXCEPT ![e] = n], ret' \in BOOLEAN,
         UNCHANGED <<live, tuple, time, primary, secondary, agg, view, pc, arg>>
  PROVE  RefTableInv'
<1>1. TypeOK /\ DerivativesOK /\ CountsPositive /\ StepsOK /\ Alive /\ Alive'
  BY DEF RefTableInv, Alive
<1>2. refCount \in [Entries -> Nat] /\ refCount' \in [Entries -> Nat]
  BY <1>1 DEF TypeOK, CommonTypeOK
<1>3. TypeOK'
  BY <1>1, <1>2 DEF TypeOK, CommonTypeOK
<1>4. CountsPositive'
  BY <1>1, <1>2 DEF CountsPositive, TypeOK, CommonTypeOK
<1>5. StepsOK'
  BY <1>1 DEF StepsOK
<1> QED
  BY <1>1, <1>3, <1>4, <1>5, RowsStay DEF RefTableInv

\* Inserting a tuple again, and removing one of several references.
LEMMA ReferencesInv ==
  ASSUME RefTableInv, NEW t \in Tuples, InsertDuplicate(t) \/ RemoveReference(t)
  PROVE  RefTableInv'
<1>1. /\ refCount \in [Entries -> Nat] /\ primary \subseteq Entries /\ pc = "idle"
      /\ \A e \in primary : refCount[e] >= 1
  BY DEF RefTableInv, TypeOK, CommonTypeOK, CountsPositive, Alive,
         InsertDuplicate, RemoveReference
<1>2. ret' \in BOOLEAN
  BY DEF InsertDuplicate, RemoveReference
<1>3. CASE InsertDuplicate(t)
  <2>1. PICK e \in Find(t) : refCount' = [refCount EXCEPT ![e] = @ + 1]
    BY <1>3 DEF InsertDuplicate
  <2>2. e \in primary /\ refCount[e] + 1 \in Nat /\ refCount[e] + 1 >= 1
    BY <1>1 DEF Find
  <2>3. UNCHANGED <<live, tuple, time, primary, secondary, agg, view, pc, arg>>
    BY <1>3 DEF InsertDuplicate
  <2> QED
    BY <1>1, <1>2, <2>1, <2>2, <2>3, CountInv
<1>4. CASE RemoveReference(t)
  <2>1. PICK e \in Find(t) : /\ ~LastReference(e)
                             /\ refCount' = [refCount EXCEPT ![e] = @ - 1]
    BY <1>4 DEF RemoveReference
  <2>2. e \in primary /\ refCount[e] - 1 \in Nat /\ refCount[e] - 1 >= 1
    BY <1>1, <2>1 DEF Find, LastReference
  <2>3. UNCHANGED <<live, tuple, time, primary, secondary, agg, view, pc, arg>>
    BY <1>4 DEF RemoveReference
  <2> QED
    BY <1>1, <1>2, <2>1, <2>2, <2>3, CountInv
<1> QED
  BY <1>3, <1>4

\* The destructor.
LEMMA DestroyInv ==
  ASSUME RefTableInv, Destroy \/ DestroyEntry \/ DestroyDone
  PROVE  RefTableInv'
<1>1. TypeOK /\ StepsOK
  BY DEF RefTableInv
<1>2. CASE Destroy
  <2>1. agg' \in [Groups -> Results] /\ view' \in [Tuples -> Int]
    BY <1>2 DEF Destroy, Results
  <2>2. TypeOK'
    BY <1>1, <1>2, <2>1 DEF Destroy, TypeOK, CommonTypeOK
  <2>3. StepsOK' /\ ~Alive'
    BY <1>1, <1>2 DEF Destroy, StepsOK, Alive
  <2> QED
    BY <2>2, <2>3 DEF RefTableInv, DerivativesOK, CountsPositive
<1>3. CASE DestroyEntry
  <2> PICK e \in primary : primary' = primary \ {e} /\ Free(e)
    BY <1>3 DEF DestroyEntry
  <2>1. /\ tuple' \in [Entries -> Tuples \cup {NULL}]
        /\ refCount' \in [Entries -> Nat]
    BY <1>1 DEF Free, TypeOK, CommonTypeOK
  <2>2. UNCHANGED <<time, secondary, agg, view, pc, arg, ret>> /\ pc = "destroy"
    BY <1>3 DEF DestroyEntry, Free
  <2>3. live' = live \ {e}
    BY DEF Free
  <2>4. TypeOK'
    BY <1>1, <2>1, <2>2, <2>3 DEF TypeOK, CommonTypeOK
  <2>5. StepsOK' /\ ~Alive'
    BY <1>1, <2>2, <2>3 DEF StepsOK, Alive
  <2> QED
    BY <2>4, <2>5 DEF RefTableInv, DerivativesOK, CountsPositive
<1>4. CASE DestroyDone
  <2>1. TypeOK'
    BY <1>1, <1>4 DEF DestroyDone, TypeOK, CommonTypeOK, commonVars
  <2>2. StepsOK' /\ ~Alive'
    BY <1>1, <1>4 DEF DestroyDone, StepsOK, Alive, commonVars
  <2> QED
    BY <2>1, <2>2 DEF RefTableInv, DerivativesOK, CountsPositive
<1> QED
  BY <1>2, <1>3, <1>4

\* The invariant is inductive.
THEOREM RefTableInvInductive == RefTableInv /\ [Next]_vars => RefTableInv'
<1> SUFFICES ASSUME RefTableInv, [Next]_vars PROVE RefTableInv'
  OBVIOUS
<1>1. arg \in Tuples /\ ret \in BOOLEAN
  BY DEF RefTableInv, TypeOK
<1>2. CASE \E t \in Tuples : InsertDuplicate(t) \/ RemoveReference(t)
  BY <1>2, ReferencesInv
<1>3. CASE \E t \in Tuples : InsertReplace(t)
  <2> PICK t \in Tuples : InsertReplace(t)
    BY <1>3
  <2> PICK e \in Find(t) : RemoveTuple(e)
    BY DEF InsertReplace
  <2>1. ret' \in BOOLEAN
    BY <1>1 DEF InsertReplace
  <2> QED
    BY <2>1, RemoveTupleInv DEF InsertReplace
<1>4. CASE \E t \in Tuples : RemoveRow(t)
  <2> PICK t \in Tuples : RemoveRow(t)
    BY <1>4
  <2> PICK e \in Find(t) : RemoveTuple(e)
    BY DEF RemoveRow
  <2>1. ret' \in BOOLEAN
    BY DEF RemoveRow
  <2> QED
    BY <1>1, <2>1, RemoveTupleInv DEF RemoveRow
<1>5. CASE \E t \in Tuples : InsertNew(t)
  BY <1>5, InsertTupleInv DEF InsertNew, Alive
<1>6. CASE InsertAfterRemove
  BY <1>1, <1>6, InsertTupleInv DEF InsertAfterRemove, Alive, RefTableInv, StepsOK
<1>7. CASE \E t \in Tuples : RemoveNothing(t)
  <2> PICK t \in Tuples : RemoveNothing(t)
    BY <1>7
  <2>1. ret' \in BOOLEAN
    BY DEF RemoveNothing
  <2>2. TypeOK'
    BY <2>1 DEF RemoveNothing, RefTableInv, TypeOK, CommonTypeOK, commonVars
  <2>3. CountsPositive' /\ StepsOK' /\ Alive
    BY DEF RemoveNothing, RefTableInv, CountsPositive, StepsOK, Alive, commonVars
  <2> QED
    BY <2>2, <2>3, RowsStay DEF RemoveNothing, RefTableInv, commonVars
<1>8. CASE Destroy \/ DestroyEntry \/ DestroyDone
  BY <1>8, DestroyInv
<1>9. CASE UNCHANGED vars
  <2>1. TypeOK'
    BY <1>9 DEF vars, commonVars, RefTableInv, TypeOK, CommonTypeOK
  <2>2. CountsPositive' /\ StepsOK'
    BY <1>9 DEF vars, commonVars, RefTableInv, CountsPositive, StepsOK, Alive, Find
  <2>3. DerivativesOK'
    <3>1. CASE Alive
      BY <1>9, <3>1, RowsStay DEF vars, commonVars, RefTableInv
    <3>2. CASE ~Alive
      BY <1>9, <3>2 DEF vars, DerivativesOK, Alive
    <3> QED
      BY <3>1, <3>2
  <2> QED
    BY <2>1, <2>2, <2>3 DEF RefTableInv
<1> QED
  BY <1>2, <1>3, <1>4, <1>5, <1>6, <1>7, <1>8, <1>9 DEF Next

\* Every reachable state of a RefTable satisfies the invariant.
THEOREM RefTableInvariant == Spec => []RefTableInv
BY InitInv, RefTableInvInductive, PTL DEF Spec

\* Indices, listeners and aggregate of a RefTable follow its rows.
THEOREM DerivativesCorrect == Spec => []DerivativesOK
<1>1. RefTableInv => DerivativesOK
  BY DEF RefTableInv
<1> QED
  BY <1>1, RefTableInvariant, PTL

\* The counter of a row is positive: the decrement of remove never wraps.
THEOREM CountsCorrect == Spec => []CountsPositive
<1>1. RefTableInv => CountsPositive
  BY DEF RefTableInv
<1> QED
  BY <1>1, RefTableInvariant, PTL

\* A destroyed RefTable has freed every entry.
THEOREM RefTableNoLeaks == Spec => []NothingLeaked
<1>1. RefTableInv => NothingLeaked
  BY DEF RefTableInv, StepsOK, NothingLeaked
<1> QED
  BY <1>1, RefTableInvariant, PTL

-----------------------------------------------------------------------------
(* A RefTable implements a CountedTable.                                   *)

\* The count of a row is the counter of its entry; other tuples count nothing.
Counted ==
  /\ AbsCount = [t \in Tuples |-> AbsCount[t]]
  /\ Alive => \A e \in primary : AbsCount[tuple[e]] = refCount[e]
  /\ \A t \in Tuples \ AbsRows : AbsCount[t] = 0

\* No two rows are the same tuple, so the entry of a row is the one chosen.
LEMMA CountedRows == RefTableInv => Counted
<1> SUFFICES ASSUME RefTableInv PROVE Counted
  OBVIOUS
<1>1. AbsCount = [t \in Tuples |-> AbsCount[t]] /\ \A t \in Tuples \ AbsRows : AbsCount[t] = 0
  BY DEF AbsCount
<1>2. ASSUME Alive, NEW e \in primary PROVE AbsCount[tuple[e]] = refCount[e]
  <2>1. IndicesAgree /\ tuple[e] \in Tuples /\ tuple[e] \in AbsRows
    BY <1>2 DEF RefTableInv, DerivativesOK, IndicesAgree, AbsRows, Rows
  <2>2. \A f \in primary : tuple[f] = tuple[e] => f = e
    BY <2>1 DEF IndicesAgree
  <2>3. (CHOOSE f \in primary : tuple[f] = tuple[e]) = e
    BY <2>2
  <2> QED
    BY <2>1, <2>3 DEF AbsCount
<1> QED
  BY <1>1, <1>2 DEF Counted

\* The same after a step.
LEMMA CountedRowsNext == RefTableInv' => Counted'
BY CountedRows, PTL

\* A step that keeps the counts of all tuples but u changes that of u only.
LEMMA CountChanges ==
  ASSUME Counted, Counted', NEW u \in Tuples, NEW n, AbsCount'[u] = n,
         \A t \in Tuples \ {u} : AbsCount'[t] = AbsCount[t]
  PROVE  AbsCount' = [AbsCount EXCEPT ![u] = n]
BY DEF Counted

\* The initial states.
LEMMA CountedInit == Init => Abs!Init
<1> SUFFICES ASSUME Init PROVE Abs!Init
  OBVIOUS
<1>1. AbsRows = {}
  BY DEF Init, CommonInit, AbsRows, Rows, Alive
<1> QED
  BY <1>1 DEF AbsCount, Abs!Init

\* A counter moves by one: Insert, or Remove of one of several references.
LEMMA CountStep ==
  ASSUME RefTableInv, RefTableInv', NEW t \in Tuples, InsertDuplicate(t) \/ RemoveReference(t)
  PROVE  Abs!Next
<1>1. /\ TypeOK /\ Alive /\ Alive' /\ IndicesAgree /\ Counted /\ Counted'
      /\ UNCHANGED <<tuple, primary>> /\ AbsRows' = AbsRows /\ AbsRows = Rows
  BY CountedRows, CountedRowsNext
     DEF RefTableInv, DerivativesOK, Alive, AbsRows, Rows, InsertDuplicate, RemoveReference
<1>2. PICK e \in Find(t) :
        \/ tuple[e] = t /\ refCount' = [refCount EXCEPT ![e] = @ + 1]
        \/ refCount[e] # 1 /\ refCount' = [refCount EXCEPT ![e] = @ - 1]
  BY DEF InsertDuplicate, RemoveReference, LastReference
<1> DEFINE u == tuple[e]
<1>3. e \in primary /\ e \in Entries /\ u \in Tuples /\ u \in AbsRows
  BY <1>1 DEF Find, IndicesAgree, TypeOK, CommonTypeOK, Rows
<1>4. \A f \in primary \ {e} : refCount'[f] = refCount[f]
  BY <1>1, <1>2 DEF TypeOK, CommonTypeOK
<1>5. AbsCount[u] = refCount[e] /\ AbsCount'[u] = refCount'[e]
  BY <1>1, <1>3 DEF Counted
<1>6. \A v \in Tuples \ {u} : AbsCount'[v] = AbsCount[v]
  <2> SUFFICES ASSUME NEW v \in Tuples \ {u} PROVE AbsCount'[v] = AbsCount[v]
    OBVIOUS
  <2>1. CASE v \notin AbsRows
    BY <1>1, <2>1 DEF Counted
  <2>2. CASE v \in AbsRows
    <3>1. PICK f \in primary : tuple[f] = v
      BY <1>1, <2>2 DEF Rows
    <3> QED
      BY <1>1, <1>4, <3>1 DEF Counted
  <2> QED
    BY <2>1, <2>2
<1>7. CASE u = t /\ refCount' = [refCount EXCEPT ![e] = @ + 1]
  <2>1. AbsCount' = [AbsCount EXCEPT ![t] = @ + 1]
    <3>1. refCount'[e] = refCount[e] + 1
      BY <1>1, <1>3, <1>7 DEF TypeOK, CommonTypeOK
    <3> QED
      BY <1>1, <1>3, <1>5, <1>6, <1>7, <3>1, CountChanges
  <2>2. \A v \in AbsRows : Key(v) = Key(t) => v = t
    BY <1>1, <1>3, <1>7 DEF IndicesAgree, Rows
  <2>3. Abs!Insert(t)
    BY <1>1, <1>3, <1>7, <2>1, <2>2 DEF Abs!Insert, Abs!SameKey
  <2> QED
    BY <2>3 DEF Abs!Next
<1>8. CASE refCount[e] # 1 /\ refCount' = [refCount EXCEPT ![e] = @ - 1]
  <2>1. AbsCount' = [AbsCount EXCEPT ![u] = @ - 1]
    <3>1. refCount'[e] = refCount[e] - 1
      BY <1>1, <1>3, <1>8 DEF TypeOK, CommonTypeOK
    <3> HIDE DEF u
    <3> QED
      BY <1>1, <1>3, <1>5, <1>6, <3>1, CountChanges
  <2>2. Abs!Remove(u)
    BY <1>1, <1>3, <1>5, <1>8, <2>1 DEF Abs!Remove
  <2> QED
    BY <1>3, <2>2 DEF Abs!Next
<1> QED
  BY <1>2, <1>7, <1>8

\* A row leaves with its count.
LEMMA RowStep ==
  ASSUME RefTableInv, RefTableInv', pc = "idle", pc' \in {"idle", "insert"},
         NEW e \in primary, RemoveTuple(e)
  PROVE  /\ tuple[e] \in Tuples /\ tuple[e] \in AbsRows
         /\ AbsCount[tuple[e]] = refCount[e]
         /\ AbsRows' = AbsRows \ {tuple[e]}
         /\ AbsCount' = [AbsCount EXCEPT ![tuple[e]] = 0]
<1>1. /\ TypeOK /\ Alive /\ Alive' /\ IndicesAgree /\ Counted /\ Counted'
      /\ AbsRows = Rows /\ AbsRows' = Rows' /\ e \in Entries
  BY CountedRows, CountedRowsNext
     DEF RefTableInv, DerivativesOK, Alive, AbsRows, TypeOK, CommonTypeOK
<1>2. /\ primary' = primary \ {e} /\ tuple' = [tuple EXCEPT ![e] = NULL]
      /\ refCount' = [refCount EXCEPT ![e] = 0]
  BY DEF RemoveTuple, Free
<1>3. \A f \in primary' : tuple'[f] = tuple[f] /\ refCount'[f] = refCount[f]
  BY <1>1, <1>2 DEF TypeOK, CommonTypeOK
<1> DEFINE u == tuple[e]
<1>4. u \in Tuples /\ u \in Rows /\ AbsCount[u] = refCount[e]
  BY <1>1 DEF IndicesAgree, Rows, Counted
<1>5. Rows' = Rows \ {u}
  <2>1. \A f \in primary' : tuple'[f] # u
    BY <1>1, <1>2, <1>3 DEF IndicesAgree
  <2>2. \A f \in primary : tuple[f] # u => f \in primary' /\ tuple'[f] = tuple[f]
    BY <1>2, <1>3
  <2> QED
    BY <1>2, <1>3, <2>1, <2>2 DEF Rows
<1>6. AbsCount'[u] = 0
  BY <1>1, <1>4, <1>5 DEF Counted
<1>7. \A v \in Tuples \ {u} : AbsCount'[v] = AbsCount[v]
  <2> SUFFICES ASSUME NEW v \in Tuples \ {u} PROVE AbsCount'[v] = AbsCount[v]
    OBVIOUS
  <2>1. CASE v \notin Rows
    BY <1>1, <1>5, <2>1 DEF Counted
  <2>2. CASE v \in Rows
    <3>1. PICK f \in primary : tuple[f] = v
      BY <2>2 DEF Rows
    <3>2. f \in primary' /\ tuple'[f] = v /\ refCount'[f] = refCount[f]
      BY <1>2, <1>3, <3>1
    <3> QED
      BY <1>1, <3>1, <3>2 DEF Counted
  <2> QED
    BY <2>1, <2>2
<1> HIDE DEF u
<1>8. AbsCount' = [AbsCount EXCEPT ![u] = 0]
  BY <1>1, <1>4, <1>6, <1>7, CountChanges
<1> QED
  BY <1>1, <1>4, <1>5, <1>8 DEF u

\* A tuple whose key no row has becomes a row that counts one insertion.
LEMMA EnterStep ==
  ASSUME RefTableInv, RefTableInv', Alive, NEW t \in Tuples, Find(t) = {}, InsertTuple(t)
  PROVE  Abs!Next
<1> PICK e \in Entries \ live :
           NewEntry(e, t, 0, InitialCount) /\ CommonInsertTuple(e, t)
  BY DEF InsertTuple
<1>1. /\ TypeOK /\ Alive' /\ IndicesAgree /\ Counted /\ Counted' /\ e \notin primary
      /\ AbsRows = Rows /\ AbsRows' = Rows'
  <2>1. TypeOK /\ IndicesAgree
    BY DEF RefTableInv, DerivativesOK
  <2>2. Alive'
    BY DEF Alive, InsertTuple
  <2>3. e \notin primary
    BY <2>1 DEF IndicesAgree
  <2>4. Counted /\ AbsRows = Rows
    BY CountedRows DEF AbsRows, Alive
  <2>5. Counted' /\ AbsRows' = Rows'
    BY <2>2, CountedRowsNext DEF AbsRows, Alive
  <2> QED
    BY <2>1, <2>2, <2>3, <2>4, <2>5
<1>2. /\ primary' = primary \cup {e} /\ tuple' = [tuple EXCEPT ![e] = t]
      /\ refCount' = [refCount EXCEPT ![e] = 1]
  BY DEF NewEntry, CommonInsertTuple, InitialCount
<1>3. /\ \A f \in primary : tuple'[f] = tuple[f] /\ refCount'[f] = refCount[f]
      /\ tuple'[e] = t /\ refCount'[e] = 1
  BY <1>1, <1>2 DEF TypeOK, CommonTypeOK
<1>4. Rows' = Rows \cup {t}
  BY <1>2, <1>3 DEF Rows
<1>5. \A v \in Rows : Key(v) # Key(t)
  BY DEF Find, Rows
<1>6. AbsCount[t] = 0 /\ AbsCount'[t] = 1
  BY <1>1, <1>2, <1>3, <1>5 DEF Counted
<1>7. \A v \in Tuples \ {t} : AbsCount'[v] = AbsCount[v]
  <2> SUFFICES ASSUME NEW v \in Tuples \ {t} PROVE AbsCount'[v] = AbsCount[v]
    OBVIOUS
  <2>1. CASE v \notin Rows
    BY <1>1, <1>4, <2>1 DEF Counted
  <2>2. CASE v \in Rows
    <3>1. PICK f \in primary : tuple[f] = v
      BY <2>2 DEF Rows
    <3> QED
      BY <1>1, <1>2, <1>3, <3>1 DEF Counted
  <2> QED
    BY <2>1, <2>2
<1>8. AbsCount' = [AbsCount EXCEPT ![t] = @ + 1]
  BY <1>1, <1>6, <1>7, CountChanges
<1>9. Abs!Insert(t)
  BY <1>1, <1>4, <1>5, <1>8 DEF Abs!Insert, Abs!SameKey
<1> QED
  BY <1>9 DEF Abs!Next

\* Every step is one of a CountedTable, or changes nothing that it shows.
LEMMA CountedNext ==
  ASSUME RefTableInv, [Next]_vars
  PROVE  [Abs!Next]_(Abs!vars)
<1>1. RefTableInv'
  BY RefTableInvInductive
<1>2. CASE \E t \in Tuples : InsertDuplicate(t) \/ RemoveReference(t)
  BY <1>1, <1>2, CountStep
<1>3. CASE \E t \in Tuples : InsertReplace(t)
  <2> PICK t \in Tuples : InsertReplace(t)
    BY <1>3
  <2> PICK e \in Find(t) : tuple[e] # t /\ RemoveTuple(e)
    BY DEF InsertReplace
  <2>1. e \in primary /\ Key(tuple[e]) = Key(t) /\ pc = "idle" /\ pc' = "insert"
    BY DEF Find, InsertReplace
  <2>2. /\ tuple[e] \in Tuples /\ tuple[e] \in AbsRows
        /\ AbsRows' = AbsRows \ {tuple[e]}
        /\ AbsCount' = [AbsCount EXCEPT ![tuple[e]] = 0]
    BY <1>1, <2>1, RowStep
  <2>3. Abs!Displace(tuple[e])
    BY <2>1, <2>2 DEF Abs!Displace
  <2> QED
    BY <2>2, <2>3 DEF Abs!Next
<1>4. CASE \E t \in Tuples : RemoveRow(t)
  <2> PICK t \in Tuples : RemoveRow(t)
    BY <1>4
  <2> PICK e \in Find(t) : refCount[e] = 1 /\ RemoveTuple(e)
    BY DEF RemoveRow, LastReference
  <2>1. e \in primary /\ pc = "idle" /\ pc' = "idle"
    BY DEF Find, RemoveRow
  <2>2. /\ tuple[e] \in Tuples /\ tuple[e] \in AbsRows /\ AbsCount[tuple[e]] = 1
        /\ AbsRows' = AbsRows \ {tuple[e]}
        /\ AbsCount' = [AbsCount EXCEPT ![tuple[e]] = 0]
    BY <1>1, <2>1, RowStep
  <2>3. AbsCount' = [AbsCount EXCEPT ![tuple[e]] = @ - 1]
    BY <2>2
  <2>4. Abs!Remove(tuple[e])
    BY <2>2, <2>3 DEF Abs!Remove
  <2> QED
    BY <2>2, <2>4 DEF Abs!Next
<1>5. CASE \E t \in Tuples : InsertNew(t)
  BY <1>1, <1>5, EnterStep DEF InsertNew, Alive
<1>6. CASE InsertAfterRemove
  <2>1. arg \in Tuples /\ Find(arg) = {} /\ Alive
    BY <1>6 DEF RefTableInv, TypeOK, StepsOK, InsertAfterRemove, Alive
  <2> QED
    BY <1>1, <1>6, <2>1, EnterStep DEF InsertAfterRemove
<1>7. CASE (\E t \in Tuples : RemoveNothing(t)) \/ UNCHANGED vars
  <2>1. UNCHANGED <<commonVars, pc>>
    BY <1>7 DEF RemoveNothing, vars
  <2>2. AbsRows' = AbsRows
    BY <2>1 DEF commonVars, AbsRows, Rows, Alive
  <2>3. AbsCount' = AbsCount
    BY <2>1, <2>2 DEF commonVars, AbsCount
  <2> QED
    BY <2>2, <2>3 DEF Abs!vars
<1>8. CASE Destroy
  <2>1. AbsRows' = {}
    BY <1>8 DEF Destroy, AbsRows, Alive
  <2>2. AbsCount' = [t \in Tuples |-> 0]
    BY <2>1 DEF AbsCount
  <2> QED
    BY <2>1, <2>2 DEF Abs!Next, Abs!Drop
<1>9. CASE DestroyEntry \/ DestroyDone
  <2>1. AbsRows' = {} /\ AbsRows = {}
    BY <1>9 DEF DestroyEntry, DestroyDone, AbsRows, Alive
  <2>2. AbsCount' = AbsCount
    BY <2>1 DEF AbsCount
  <2> QED
    BY <2>1, <2>2 DEF Abs!vars
<1> QED
  BY <1>2, <1>3, <1>4, <1>5, <1>6, <1>7, <1>8, <1>9 DEF Next

\* A RefTable counts the insertions of every row that removals have not undone,
\* and drops a row when its count is used up or when another tuple takes its key
\* (RefTable::insert, RefTable::remove, RefTable::removeTuple).
THEOREM RefTableCounts == Spec => ImplementsCountedTable
<1>1. Init => Abs!Init
  BY CountedInit
<1>2. RefTableInv /\ [Next]_vars => [Abs!Next]_(Abs!vars)
  BY CountedNext
<1> QED
  BY <1>1, <1>2, RefTableInvariant, PTL DEF Spec, ImplementsCountedTable, Abs!Spec
=============================================================================
