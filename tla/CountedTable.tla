---------------------------- MODULE CountedTable ----------------------------
(***************************************************************************)
(* What a RefTable promises: for every primary key at most one row, with   *)
(* the number of insertions of it that no removal has undone.  A different *)
(* tuple with the same key takes the place of the row whatever its count.  *)
(***************************************************************************)
EXTENDS Integers

CONSTANTS Tuples, Key(_)

VARIABLES
  rows,     \* the rows of the table
  count     \* how many insertions of each row are not undone; 0 for others

vars == <<rows, count>>

SameKey(t) == {u \in rows : Key(u) = Key(t)}

Init == rows = {} /\ count = [t \in Tuples |-> 0]

Insert(t) ==
  /\ SameKey(t) \subseteq {t}
  /\ rows' = rows \cup {t}
  /\ count' = [count EXCEPT ![t] = @ + 1]

\* The first half of an insertion that replaces a row.
Displace(u) ==
  /\ u \in rows
  /\ \E t \in Tuples \ {u} : Key(t) = Key(u)
  /\ rows' = rows \ {u}
  /\ count' = [count EXCEPT ![u] = 0]

Remove(u) ==
  /\ u \in rows
  /\ count' = [count EXCEPT ![u] = @ - 1]
  /\ rows' = IF count[u] = 1 THEN rows \ {u} ELSE rows

Drop == rows' = {} /\ count' = [t \in Tuples |-> 0]

Next == Drop \/ \E t \in Tuples : Insert(t) \/ Displace(t) \/ Remove(t)

Spec == Init /\ [][Next]_vars
=============================================================================
