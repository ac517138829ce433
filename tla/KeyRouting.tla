----------------------------- MODULE KeyRouting -----------------------------
(***************************************************************************)
(* Lookups over SimpleKeyRouter (src/net/skr.C), made and answered by      *)
(* TrafficManager (src/net/tman.C), while sends between nodes may fail: a  *)
(* failed tuple comes back boxed as FAIL and goes by another route.  A     *)
(* node is its key.  One lookup is under way at a time.                    *)
(***************************************************************************)
EXTENDS Integers, Sequences, FiniteSets, SequencesExt, FiniteSetsExt

CONSTANTS
  Keys,       \* the nodes
  KeyRange,     \* key_range_: lookups are for the keys below it
  Links,      \* node |-> the set of nodes given to SimpleKeyRouter::route
  MaxFails    \* bound: failed sends of a lookup

VARIABLES
  lookup,     \* [at, key, from, tag, fails, kind], or None
  answered,   \* the nodes whose last lookup was answered
  failed      \* the assertion of TrafficManager::push failed

vars == <<lookup, answered, failed>>

None == [kind |-> "none"]
Init == lookup = None /\ answered = {} /\ failed = FALSE

-----------------------------------------------------------------------------
\* SimpleKeyRouter::route keeps routes_ in the order of their keys.
routes(n) == SetToSortSeq(Links[n], LAMBDA a, b : a < b)

\* SimpleKeyRouter::greedyRoute: -1 is this node; else an index from 0, the last key not
\* above k, or the last of all when k is outside the table.
greedyRoute_First(n, k) == IF k = n THEN -1 ELSE 0

greedyRoute(n, k) ==
  LET r == routes(n)
  IN IF k = n THEN -1
     ELSE IF k < Head(r) \/ k > Last(r) THEN Len(r) - 1
     ELSE Cardinality({i \in DOMAIN r : r[i] <= k}) - 1

\* SimpleKeyRouter::push: the route for a tuple, by port and by what happened to it.
Route(p) ==
  IF p.kind = "fail"
  THEN IF p.key = p.at THEN -1 ELSE IF p.tag - 1 < 0 THEN greedyRoute(p.at, p.key) ELSE p.tag - 1
  ELSE IF p.kind = "response" THEN -1
  ELSE greedyRoute(p.at, p.key)

\* TrafficManager::runTimer: a lookup for another key.
runTimer(n, k) ==
  /\ lookup = None /\ k # n
  /\ lookup' = [kind |-> "lookup", at |-> n, key |-> k, from |-> n, tag |-> -1, fails |-> 0]
  /\ answered' = answered \ {n} /\ UNCHANGED failed

\* SimpleKeyRouter::push, output 0: the tuple is tagged and sent; the send fails or not.
Send(ok) ==
  LET r == Route(lookup)
      p == [lookup EXCEPT !.tag = r]
  IN /\ lookup # None /\ r >= 0 /\ ~failed
     /\ \/ ok /\ lookup' = [p EXCEPT !.at = routes(p.at)[r + 1], !.kind = "lookup"]
        \/ /\ ~ok /\ lookup.fails < MaxFails
           /\ lookup' = [p EXCEPT !.kind = "fail", !.fails = @ + 1]
     /\ UNCHANGED <<answered, failed>>

\* TrafficManager::mkResponse turns a lookup into its answer, which goes to its source;
\* processResponse takes the source off the list of lookups under way.
mkResponse(p) == [p EXCEPT !.kind = "response"]

processResponse(p) == answered' = answered \cup {p.from} /\ lookup' = None

\* SimpleKeyRouter::push, output 1, into TrafficManager::push: this node's lookup is
\* answered to where it came from, or the answer has come.
Local ==
  /\ lookup # None /\ Route(lookup) < 0 /\ ~failed
  /\ \/ /\ lookup.kind # "response" /\ lookup.key = lookup.at
        /\ lookup' = mkResponse(lookup) /\ UNCHANGED <<answered, failed>>
     \/ lookup.kind = "response" /\ processResponse(lookup) /\ UNCHANGED failed
     \/ /\ lookup.kind # "response" /\ lookup.key # lookup.at
        /\ failed' = TRUE /\ UNCHANGED <<lookup, answered>>

\* A lookup for a key that no node has wanders; it is lost with its node.
Lose == lookup # None /\ lookup.key \notin Keys /\ lookup' = None /\ UNCHANGED <<answered, failed>>

Next ==
  \/ \E n \in Keys, k \in 0 .. KeyRange - 1 : runTimer(n, k)
  \/ \E ok \in BOOLEAN : Send(ok)
  \/ Local \/ Lose

-----------------------------------------------------------------------------
Distance(a, b) == (b - a + KeyRange) % KeyRange

(* Every hop taken by the greedy route brings a lookup for a node's key strictly closer, *)
(* clockwise, so that it cannot circle; only the routes tried after a failure may lead   *)
(* back.  And a lookup given to TrafficManager is its own (SimpleKeyRouter::push,        *)
(* greedyRoute; assert(0) of TrafficManager::push).                                      *)
Closer ==
  /\ ~failed'
  /\ lookup # None /\ lookup' # None /\ lookup.kind = "lookup" /\ lookup'.kind = "lookup"
     /\ lookup.key \in Keys
     => Distance(lookup'.at, lookup.key) < Distance(lookup.at, lookup.key)
=============================================================================
