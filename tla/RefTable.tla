------------------------------ MODULE RefTable ------------------------------
(***************************************************************************)
(* The reference-counted table of src/p2core/refTable.C: no lifetime, no   *)
(* size limit and no queue; Entry::refCount counts the insertions of a row *)
(* that removals have not undone.                                          *)
(***************************************************************************)
EXTENDS CommonTable

CONSTANT MaxCount     \* bound on the insertions of a row not undone

VARIABLES
  pc,       \* "idle", "insert" after a row was displaced, "destroy" or "dead"
  arg,      \* the tuple of the insertion in progress
  ret       \* what insert or remove returned

vars == <<commonVars, pc, arg, ret>>

Init ==
  /\ CommonInit
  /\ pc = "idle"
  /\ arg = CHOOSE t \in Tuples : TRUE
  /\ ret = FALSE

\* delete e
Free(e) ==
  /\ live' = live \ {e}
  /\ tuple' = [tuple EXCEPT ![e] = NULL]
  /\ refCount' = [refCount EXCEPT ![e] = 0]
  /\ UNCHANGED time

RemoveTuple(e) ==
  /\ RemoveTupleOfEntry(e)
  /\ primary' = primary \ {e}
  /\ Free(e)

\* insert of a tuple that is already there.
InsertDuplicate(t) ==
  /\ pc = "idle"
  /\ \E e \in Find(t) :
       /\ tuple[e] = t
       /\ refCount[e] < MaxCount
       /\ refCount' = [refCount EXCEPT ![e] = @ + 1]
  /\ ret' = FALSE
  /\ UNCHANGED <<live, tuple, time, primary, secondary, agg, view, pc, arg>>

\* insert of a tuple that displaces another row, whatever its count.
InsertReplace(t) ==
  /\ pc = "idle"
  /\ \E e \in Find(t) : tuple[e] # t /\ RemoveTuple(e)
  /\ pc' = "insert"
  /\ arg' = t
  /\ UNCHANGED ret

\* The counter of a new row starts at 1.
InitialCount == 1

InsertTuple(t) ==
  /\ \E e \in Entries \ live :
       NewEntry(e, t, 0, InitialCount) /\ CommonInsertTuple(e, t)
  /\ ret' = TRUE
  /\ pc' = "idle"
  /\ UNCHANGED arg

InsertNew(t) ==
  /\ pc = "idle" /\ Find(t) = {}
  /\ InsertTuple(t)

InsertAfterRemove ==
  /\ pc = "insert"
  /\ InsertTuple(arg)

\* The removal takes the last reference of the row.
LastReference_OffByOne(e) == refCount[e] <= 2

LastReference(e) == refCount[e] = 1

\* remove, of the row with the key of the tuple, even if it differs.
RemoveReference(t) ==
  /\ pc = "idle"
  /\ \E e \in Find(t) :
       /\ ~LastReference(e)
       /\ refCount' = [refCount EXCEPT ![e] = @ - 1]
  /\ ret' = FALSE
  /\ UNCHANGED <<live, tuple, time, primary, secondary, agg, view, pc, arg>>

RemoveRow(t) ==
  /\ pc = "idle"
  /\ \E e \in Find(t) : LastReference(e) /\ RemoveTuple(e)
  /\ ret' = TRUE
  /\ UNCHANGED <<pc, arg>>

RemoveNothing(t) ==
  /\ pc = "idle" /\ Find(t) = {}
  /\ ret' = FALSE
  /\ UNCHANGED <<commonVars, pc, arg>>

\* ~RefTable
Destroy ==
  /\ pc = "idle"
  /\ pc' = "destroy"
  /\ secondary' = {}
  /\ agg' = [g \in Groups |-> Unseen]
  /\ view' = [t \in Tuples |-> 0]
  /\ UNCHANGED <<live, tuple, time, refCount, primary, arg, ret>>

DestroyEntry ==
  /\ pc = "destroy"
  /\ \E e \in primary : primary' = primary \ {e} /\ Free(e)
  /\ UNCHANGED <<secondary, agg, view, pc, arg, ret>>

DestroyDone ==
  /\ pc = "destroy" /\ primary = {}
  /\ pc' = "dead"
  /\ UNCHANGED <<commonVars, arg, ret>>

Next ==
  \/ \E t \in Tuples :
       \/ InsertDuplicate(t) \/ InsertReplace(t) \/ InsertNew(t)
       \/ RemoveReference(t) \/ RemoveRow(t) \/ RemoveNothing(t)
  \/ InsertAfterRemove
  \/ Destroy \/ DestroyEntry \/ DestroyDone

Spec == Init /\ [][Next]_vars

-----------------------------------------------------------------------------
(* Properties.                                                             *)

Alive == pc \notin {"destroy", "dead"}

\* Types of the state of a RefTable and of the call in progress.
TypeOK ==
  /\ CommonTypeOK
  /\ pc \in {"idle", "insert", "destroy", "dead"}
  /\ arg \in Tuples
  /\ ret \in BOOLEAN

\* Indices, listeners and the aggregate follow the rows and not the counters:
\* "Update and removed events are only issued when a tuple is first inserted
\* into the table or removed from the table" (refTable.h:25).
DerivativesOK ==
  Alive => IndicesAgree /\ ListenersKnowRows /\ AggregatesCurrent

\* Every row is owed at least one removal, so the unsigned counter of remove
\* never wraps below zero, and entries without a row are freed.
CountsPositive ==
  Alive => /\ live = primary
           /\ \A e \in primary : refCount[e] >= 1

\* What the insertion that displaced a row relies on, and the destructor.
StepsOK ==
  /\ live \subseteq primary
  /\ pc = "insert" => Find(arg) = {}
  /\ pc = "dead" => live = {}

\* The inductive invariant of the proofs.
RefTableInv == TypeOK /\ DerivativesOK /\ CountsPositive /\ StepsOK

\* The destructor frees every entry.
NothingLeaked == pc = "dead" => live = {}

AbsRows == IF Alive THEN Rows ELSE {}

AbsCount ==
  [t \in Tuples |-> IF t \in AbsRows
                    THEN refCount[CHOOSE e \in primary : tuple[e] = t] ELSE 0]

Abs == INSTANCE CountedTable WITH rows <- AbsRows, count <- AbsCount

\* "Reinsertions of a tuple into the table cause a counter associated with that
\* tuple to be incremented.  Removals of a tuple from the table cause that
\* counter to be decremented. A tuple is only removed when its counter reaches
\* 0" or when another tuple takes its key (refTable.h:20).
ImplementsCountedTable == Abs!Spec
=============================================================================
