--------------------------- MODULE EventSemantics ---------------------------
(***************************************************************************)
(* What the runtime promises an OverLog program: external events are       *)
(* processed one at a time and atomically.  All rules an event triggers,   *)
(* directly or through the events they send to this node, read the tables  *)
(* as they were when the event was taken; then all the adds and deletes    *)
(* they ask for are applied at once, and the events on those changes are   *)
(* new external events.                                                    *)
(***************************************************************************)
EXTENDS Overlog

VARIABLES
  table,   \* rows
  inbox    \* external events that have not been taken, with multiplicities

Init == table = {} /\ inbox = [n \in Tuples |-> 0]

Arrive(n) ==
  /\ inbox' = [inbox EXCEPT ![n] = @ + 1]
  /\ UNCHANGED table

\* Take an event, fire its rules, commit.
Process(e) ==
  /\ inbox[e] > 0
  /\ LET w == Committed(Asked(e, table),
                        [table |-> table, inbox |-> [inbox EXCEPT ![e] = @ - 1]])[Len(Order)]
     IN table' = w.table /\ inbox' = w.inbox

Next == \E n \in Tuples : Arrive(n) \/ Process(n)

Spec == Init /\ [][Next]_<<table, inbox>>
=============================================================================
