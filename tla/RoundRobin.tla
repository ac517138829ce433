----------------------------- MODULE RoundRobin -----------------------------
(***************************************************************************)
(* src/elements/roundRobin.C and dRoundRobin.C: an element that pulls from *)
(* several inputs in turn.  An input without a tuple is blocked until it   *)
(* calls back.  DRoundRobin gets inputs, and loses them, while it runs; a  *)
(* removed input leaves a hole in the vector of ports.                     *)
(*                                                                         *)
(* Upstream of every port is a queue, or a table listener that acts like   *)
(* one; downstream a PullPush that pulls until it gets nothing, and again  *)
(* when it is called back.                                                 *)
(***************************************************************************)
EXTENDS Integers, Functions, FiniteSets

CONSTANTS
  MaxPorts,      \* bound on the vector of ports
  MaxQueue       \* bound on the tuples that wait at a port

Bounds == MaxPorts \in Nat /\ MaxQueue \in Nat

None == -1

VARIABLES
  removes,  \* whether inputs are removed
  live,     \* _inputs: port |-> whether it is there
  flags,    \* _block_flags
  count,    \* _block_flag_count
  next,     \* _nextInput
  pullCB,   \* whether _pull_cb is set
  q,        \* port |-> tuples that wait upstream
  cb,       \* ports whose upstream holds the callback unblock(port)
  timers,   \* ports with a delayed unblock(port)
  puller,   \* whether the PullPush is ACTIVE
  failed,   \* whether an assertion failed
  served,   \* history: the port that the last step served
  skipped   \* history: port |-> tuples of others since it waits unblocked

element == <<live, flags, count, next, pullCB>>
world == <<q, cb, timers, puller>>
vars == <<removes, element, world, failed, served, skipped>>

Ports == 0 .. MaxPorts - 1

ninputs == Cardinality({i \in DOMAIN live : live[i]})

Init ==
  /\ removes \in BOOLEAN
  /\ \E n \in 1 .. MaxPorts : live = [i \in 0 .. n - 1 |-> TRUE]
  /\ flags = [i \in DOMAIN live |-> FALSE]
  /\ count = 0 /\ next = 0 /\ pullCB = FALSE
  /\ q = [i \in Ports |-> 0] /\ cb = {} /\ timers = {} /\ puller = TRUE
  /\ failed = FALSE /\ served = None /\ skipped = [i \in Ports |-> 0]

\* An assertion fails, and the process ends.
Abort == failed' = TRUE /\ served' = None /\ UNCHANGED <<element, world, skipped>>

-----------------------------------------------------------------------------
\* unblock, the callback of an input and of the timer of add_input, calls back the
\* PullPush unless the input is gone.
Wakes(i) == pullCB /\ live[i]

\* _pull_cb after the call.
KeptCB(i) == pullCB /\ ~Wakes(i)

\* _block_flag_count when input i is not blocked any more.
Uncount(i) == IF flags[i] THEN count - 1 ELSE count

unblock(i) ==
  /\ flags' = [flags EXCEPT ![i] = FALSE]
  /\ count' = Uncount(i)
  /\ pullCB' = KeptCB(i)
  /\ puller' = (puller \/ Wakes(i))
  /\ UNCHANGED <<live, next>>

\* A tuple gets to the queue of a port, and the queue calls back.
Arrive(i) ==
  /\ ~failed /\ i \in DOMAIN live /\ q[i] < MaxQueue
  /\ IF i \in cb /\ i \notin DOMAIN flags
     THEN Abort
     ELSE /\ q' = [q EXCEPT ![i] = @ + 1]
          /\ cb' = cb \ {i}
          /\ IF i \in cb THEN unblock(i) ELSE UNCHANGED <<element, puller>>
          /\ served' = None
          /\ UNCHANGED <<timers, failed, skipped>>

Timer(i) ==
  /\ ~failed /\ i \in timers
  /\ IF i \notin DOMAIN flags
     THEN Abort
     ELSE /\ unblock(i)
          /\ timers' = timers \ {i}
          /\ served' = None
          /\ UNCHANGED <<q, cb, failed, skipped>>

-----------------------------------------------------------------------------
\* The k-th port that the loop of pull visits.
Current(k) == (next + k) % ninputs

\* Ports that it does not skip.
Unblocked(i) == live[i] /\ ~flags[i]

\* _nextInput after a visit of port i.
Successor_Stays(i) == i

Successor(i) == (i + 1) % ninputs

Refuse ==
  /\ pullCB' = TRUE /\ puller' = FALSE /\ served' = None
  /\ UNCHANGED <<live, flags, count, next, q, cb, timers, failed, skipped>>

\* The visits up to the k-th block the inputs without a tuple.
Visited(k) == {Current(j) : j \in 0 .. k}

Block(S) ==
  LET B == {i \in S : Unblocked(i)} IN
    /\ flags' = [i \in DOMAIN flags |-> flags[i] \/ i \in B]
    /\ count' = count + Cardinality(B)
    /\ cb' = cb \cup B

\* A tuple of the k-th visited port.
Serve(k) ==
  LET i == Current(k) IN
    /\ Unblocked(i) /\ q[i] > 0
    /\ \A j \in 0 .. k - 1 : ~(Unblocked(Current(j)) /\ q[Current(j)] > 0)
    /\ Block(Visited(k) \ {i})
    /\ next' = Successor(i)
    /\ q' = [q EXCEPT ![i] = @ - 1]
    /\ served' = i
    /\ skipped' = [j \in Ports |->
         IF j # i /\ j \in DOMAIN flags /\ Unblocked(j) /\ q[j] > 0
         THEN (IF skipped[j] < MaxPorts THEN skipped[j] + 1 ELSE MaxPorts) ELSE 0]
    /\ UNCHANGED <<live, pullCB, puller, timers, failed>>

\* No tuple: the last input blocks, or the loop ends at assert(false).
RunsDry ==
  LET V == Visited(ninputs - 1)
      B == {i \in V : Unblocked(i)}
  IN /\ \A i \in V : ~(Unblocked(i) /\ q[i] > 0)
     /\ IF count + Cardinality(B) = ninputs
        THEN /\ Block(V)
             /\ \E last \in 0 .. ninputs - 1 :
                  /\ Current(last) \in B
                  /\ \A j \in last + 1 .. ninputs - 1 : Current(j) \notin B
                  /\ next' = Successor(Current(last))
             /\ pullCB' = TRUE /\ puller' = FALSE /\ served' = None
             /\ UNCHANGED <<live, q, timers, failed, skipped>>
        ELSE Abort

Pull ==
  /\ ~failed /\ puller
  /\ IF count = ninputs THEN Refuse
     ELSE IF pullCB THEN Abort
     ELSE RunsDry \/ \E k \in 0 .. ninputs - 1 : Serve(k)

-----------------------------------------------------------------------------
\* Element::addInputPort: the first hole, or a new port.
FreePort(i) ==
  \/ i \in DOMAIN live /\ ~live[i] /\ \A j \in 0 .. i - 1 : live[j]
  \/ i = Cardinality(DOMAIN live) /\ \A j \in DOMAIN live : live[j]

\* The timer of add_input.
Schedules(i) == {i}

add_input(i) ==
  /\ ~failed /\ FreePort(i)
  /\ live' = [j \in DOMAIN live \cup {i} |-> j = i \/ live[j]]
  /\ flags' = [j \in DOMAIN flags \cup {i} |-> j = i \/ flags[j]]
  /\ count' = count + 1
  /\ q' = [q EXCEPT ![i] = 0]
  /\ cb' = cb \ {i}
  /\ timers' = timers \cup Schedules(i)
  /\ served' = None /\ skipped' = [skipped EXCEPT ![i] = 0]
  /\ UNCHANGED <<next, pullCB, puller, failed>>

remove_input(i) ==
  /\ ~failed /\ removes /\ i \in DOMAIN live /\ live[i]
  /\ live' = [live EXCEPT ![i] = FALSE]
  /\ count' = Uncount(i)
  /\ flags' = IF i + 1 = Cardinality(DOMAIN flags)
              THEN Restrict(flags, DOMAIN flags \ {i})
              ELSE [flags EXCEPT ![i] = FALSE]
  /\ served' = None /\ skipped' = [skipped EXCEPT ![i] = 0]
  /\ UNCHANGED <<next, pullCB, world, failed>>

-----------------------------------------------------------------------------
Step ==
  \/ Pull
  \/ \E i \in Ports : Arrive(i) \/ add_input(i) \/ remove_input(i)
  \/ \E i \in timers : Timer(i)

Next == Step /\ UNCHANGED removes

Spec == Init /\ [][Next]_vars

-----------------------------------------------------------------------------
\* Types.
TypeOK ==
  /\ live \in [DOMAIN live -> BOOLEAN] /\ DOMAIN live \subseteq Ports
  /\ flags \in [DOMAIN flags -> BOOLEAN] /\ DOMAIN flags \subseteq DOMAIN live
  /\ count \in 0 .. MaxPorts /\ next \in Ports /\ pullCB \in BOOLEAN
  /\ q \in [Ports -> 0 .. MaxQueue] /\ cb \subseteq Ports /\ timers \subseteq Ports
  /\ puller \in BOOLEAN /\ served \in Ports \cup {None}

\* No assertion of roundRobin.C or dRoundRobin.C fails, "We should never reach this
\* point" among them, unless inputs are removed (dRoundRobin.C:91).
AssertionsHold == failed => removes

\* _block_flag_count counts the flags, and every blocked input has a callback or a
\* timer that unblocks it.
BlockedWillUnblock ==
  /\ count = Cardinality({i \in DOMAIN flags : flags[i]})
  /\ \A i \in DOMAIN flags : flags[i] => i \in cb \cup timers

\* When the PullPush waits, it waits for a callback that _pull_cb holds, and no input
\* has a tuple, but for new ones whose timer has yet to fire.
NoLostWakeup ==
  ~puller => pullCB /\ \A i \in DOMAIN live : live[i] /\ q[i] > 0 => i \in timers

\* An input that has a tuple waits for at most one tuple of every other input.
BoundedBypass == ~removes => \A i \in Ports : skipped[i] < MaxPorts
=============================================================================
