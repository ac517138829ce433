------------------------------- MODULE Overlog -------------------------------
(***************************************************************************)
(* Programs of event-condition-action rules, as the planner receives them  *)
(* (src/lang/planner/plannerContext.C): what a rule waits for, the table   *)
(* row its condition probes, and what its head does.                       *)
(***************************************************************************)
EXTENDS Naturals, FiniteSets, Sequences, Functions

CONSTANTS
  Tuples,  \* names of events and of rows
  Rule,    \* rule ID |-> [on, event, probe, action, head]
  Remote,  \* rules whose head is sent to another node
  Order,   \* commit actions in the order of their registration
  NoProbe  \* the probe of a rule that reads no table

\* The rules of a program that the planner accepts: a rule on a table event
\* sends its head, and the events of a strand do not recur.
WellFormedProgram ==
  /\ \A r \in DOMAIN Rule :
       /\ Rule[r] \in [on : {"RECV", "INSERT", "REMOVE"}, event : Tuples,
                       probe : Tuples \cup {NoProbe},
                       action : {"SEND", "ADD", "DELETE"}, head : Tuples]
       /\ Rule[r].on # "RECV" => Rule[r].action = "SEND" /\ Rule[r].probe = NoProbe
  /\ IsFiniteSet(DOMAIN Rule)
  /\ Remote \subseteq DOMAIN Rule /\ NoProbe \notin Tuples

Rules == DOMAIN Rule

RecvRules == {r \in Rules : Rule[r].on = "RECV"}
SendRules == {r \in RecvRules : Rule[r].action = "SEND"}
ActionRules == RecvRules \ SendRules
TableRules == Rules \ RecvRules

\* The condition of a rule on the tables.
Holds(r, tab) == Rule[r].probe \in tab \cup {NoProbe}

\* Rule r fires for event e.
Fires(r, e, tab) == r \in RecvRules /\ Rule[r].event = e /\ Holds(r, tab)

\* The events that the rules for the events of S send to this node.
LocalRules == SendRules \ Remote
Sends(S, tab) == {Rule[r].head : r \in {s \in LocalRules : \E d \in S : Fires(s, d, tab)}}

\* The events of this node that e leads to, e included: the least set that has e and what
\* its events send.
Reach(e, tab) ==
  LET candidates == {e} \cup {Rule[r].head : r \in LocalRules}
      closed == {S \in SUBSET candidates : e \in S /\ Sends(S, tab) \subseteq S}
  IN {d \in candidates : \A S \in closed : d \in S}

\* The commit actions that e asks for.
Asked(e, tab) ==
  LET reach == Reach(e, tab) IN {r \in ActionRules : \E d \in reach : Fires(r, d, tab)}

\* The number of external events h that a change of row n causes.
Notices(on, n, h) ==
  Cardinality({r \in Rules : Rule[r].on = on /\ Rule[r].event = n /\ Rule[r].head = h})

\* Apply the commit of rule r to a table and the events on its changes.
Apply(r, w) ==
  LET n == Rule[r].head IN
    CASE Rule[r].action = "ADD" /\ n \notin w.table ->
           [table |-> w.table \cup {n},
            inbox |-> [h \in Tuples |-> w.inbox[h] + Notices("INSERT", n, h)]]
      [] Rule[r].action = "DELETE" /\ n \in w.table ->
           [table |-> w.table \ {n},
            inbox |-> [h \in Tuples |-> w.inbox[h] + Notices("REMOVE", n, h)]]
      [] OTHER -> w

\* The commits of the rules in S, in their order: what the first i actions leave.
Committed(S, start) ==
  LET w[i \in 0 .. Len(Order)] ==
        IF i = 0 THEN start
        ELSE IF Order[i] \in S THEN Apply(Order[i], w[i - 1]) ELSE w[i - 1]
  IN w
=============================================================================
