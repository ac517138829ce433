---------------------------- MODULE CommonTable ----------------------------
(***************************************************************************)
(* The part of a table that src/p2core/commonTable.C gives to both kinds   *)
(* of tables (Table2 and RefTable): the heap of entries that wrap tuples,  *)
(* the primary index, a secondary index, an aggregate over that index, and *)
(* the update and removal listeners.                                       *)
(*                                                                         *)
(* A tuple is an element of Tuples.  Key(t) is its projection on the       *)
(* primary key and Group(t) its projection on the fields of the secondary  *)
(* index, which are also the group-by fields of the aggregate.             *)
(***************************************************************************)
EXTENDS Integers, FiniteSets

CONSTANTS
  Tuples,       \* the tuples that may be inserted
  Entries,      \* heap addresses of entries; freed addresses are reused
  Key(_),       \* primary-key projection of a tuple
  Group(_),     \* secondary-key (group-by) projection of a tuple
  AggFn(_),     \* aggregate function: a set of tuples to a value
  NULL,         \* the null tuple pointer
  Unseen        \* the aggregate of a group no tuple was seen of

ASSUME TuplesAssumption == Tuples # {} /\ NULL \notin Tuples

\* No aggregate function returns the marker of an unseen group.
ASSUME AggFnAssumption == \A S \in SUBSET Tuples : AggFn(S) # Unseen

VARIABLES
  live,         \* entries allocated on the heap
  tuple,        \* Entry::tuple; NULL once the tuple was removed
  time,         \* Entry::time
  refCount,     \* Entry::refCount
  primary,      \* _primaryIndex, as the set of entries it holds
  secondary,    \* a secondary index of _indices, as a set of entries
  agg,          \* _currentAggregates: latest result of each group seen
  view          \* per tuple, update minus removal notifications received

commonVars == <<live, tuple, time, refCount, primary, secondary, agg, view>>

Groups == {Group(t) : t \in Tuples}
Results == {AggFn(S) : S \in SUBSET Tuples} \cup {Unseen}

\* The tuples of the table, as a primary-index scan returns them.
Rows == {tuple[e] : e \in primary}

\* The entries of the primary index that _primaryIndex.find(t) may return.
Find(t) == {e \in primary : Key(tuple[e]) = Key(t)}

\* The tuples of group g in an index that holds the entries S.
GroupRows(S, tup, g) == {tup[e] : e \in {x \in S : Group(tup[x]) = g}}

\* AggregateObj::update, run after the secondary index became S: the result
\* is recomputed from the index, remembered, and sent if it changed.
AggUpdate(S, tup, t) ==
  agg' = [agg EXCEPT ![Group(t)] = AggFn(GroupRows(S, tup, Group(t)))]

\* Entry::Entry for entry e, at time n.
NewEntry(e, t, n, rc) ==
  /\ live' = live \cup {e}
  /\ tuple' = [tuple EXCEPT ![e] = t]
  /\ time' = [time EXCEPT ![e] = n]
  /\ refCount' = [refCount EXCEPT ![e] = rc]

\* commonInsertTuple: all the indices, then the aggregates, then the update
\* listeners.  It looks the table up in the catalog but changes only a clone
\* of the row it finds there.
CommonInsertTuple(e, t) ==
  /\ primary' = primary \cup {e}
  /\ secondary' = secondary \cup {e}
  /\ AggUpdate(secondary', tuple', t)
  /\ view' = [view EXCEPT ![t] = @ + 1]

\* Variants with a plausible slip, for the checks that the properties bite.
RemoveTupleOfEntry_NoListeners(e) ==
  /\ secondary' = secondary \ {e}
  /\ AggUpdate(secondary', tuple, tuple[e])
  /\ UNCHANGED view

\* removeTupleOfEntry and removeDerivatives: the secondary indices, the
\* aggregates and the removal listeners; the caller erases the primary index.
RemoveTupleOfEntry(e) ==
  /\ secondary' = secondary \ {e}
  /\ AggUpdate(secondary', tuple, tuple[e])
  /\ view' = [view EXCEPT ![tuple[e]] = @ - 1]

CommonInit ==
  /\ live = {}
  /\ tuple = [e \in Entries |-> NULL]
  /\ time = [e \in Entries |-> 0]
  /\ refCount = [e \in Entries |-> 0]
  /\ primary = {}
  /\ secondary = {}
  /\ agg = [g \in Groups |-> Unseen]
  /\ view = [t \in Tuples |-> 0]

-----------------------------------------------------------------------------
(* Properties shared by both kinds of tables.                              *)

\* Types of the heap, the indices, the aggregate and the listeners.
CommonTypeOK ==
  /\ live \subseteq Entries
  /\ tuple \in [Entries -> Tuples \cup {NULL}]
  /\ time \in [Entries -> Nat]
  /\ refCount \in [Entries -> Nat]
  /\ primary \subseteq Entries
  /\ secondary \subseteq Entries
  /\ agg \in [Groups -> Results]
  /\ view \in [Tuples -> Int]

\* The indices hold live entries with a tuple, the secondary index holds what
\* the primary one holds, and no two rows agree on the primary key, in every
\* state between two steps of a call, whichever rows a flush dropped on the way.
IndicesAgree ==
  /\ primary \subseteq live
  /\ secondary = primary
  /\ \A e \in primary : tuple[e] \in Tuples
  /\ \A e, f \in primary : Key(tuple[e]) = Key(tuple[f]) => e = f

\* A listener that adds what update listeners report and drops what removal
\* listeners report always knows exactly the rows of the table.
ListenersKnowRows ==
  \A t \in Tuples : view[t] = IF t \in Rows THEN 1 ELSE 0

\* The result AggregateObj last sent for a group is the aggregate function
\* applied to the rows of that group, and every group with rows was sent.
AggregatesCurrent ==
  \A g \in Groups :
    LET rows == {t \in Rows : Group(t) = g}
    IN  IF agg[g] = Unseen THEN rows = {} ELSE agg[g] = AggFn(rows)
=============================================================================
