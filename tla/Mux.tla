--------------------------------- MODULE Mux ---------------------------------
(***************************************************************************)
(* src/elements/mux.C: pushes the tuples of several inputs to one output.  *)
(* While the output is blocked it buffers a tuple of every input.  When    *)
(* the output calls back, a timer lets catchUp push what is buffered and   *)
(* then wake the inputs.  The output is a bounded Queue, which takes the   *)
(* tuple that it returns 0 for; the inputs stop when they are pushed back. *)
(***************************************************************************)
EXTENDS Integers, FiniteSets

CONSTANTS
  Inputs,     \* 1..n
  Capacity,   \* _size of the queue downstream
  MaxPushes   \* bound on the tuples of an input

VARIABLES
  blocked,    \* _blocked
  callbacks,  \* inputs whose _pushCallbacks is set
  buffered,   \* inputs with a tuple in _inputTuples
  timer,      \* whether _timeCallback is scheduled
  sink,       \* tuples in the queue
  sinkCB,     \* whether the queue holds the callback
  waiting,    \* inputs that were pushed back
  failed,     \* whether an assertion failed
  pushed,     \* history: input |-> tuples it pushed
  delivered   \* history: input |-> tuples of it that got to the queue

mux == <<blocked, callbacks, buffered, timer>>
queue == <<sink, sinkCB>>
history == <<pushed, delivered>>
vars == <<mux, queue, waiting, failed, history>>

Init ==
  /\ blocked = FALSE /\ callbacks = {} /\ buffered = {} /\ timer = FALSE
  /\ sink = 0 /\ sinkCB = FALSE /\ waiting = {} /\ failed = FALSE
  /\ pushed = [i \in Inputs |-> 0] /\ delivered = [i \in Inputs |-> 0]

Abort == failed' = TRUE /\ UNCHANGED <<mux, queue, waiting, history>>

\* The history of deliveries; MaxPushes + 1 stands for all larger numbers.
Counted(n) == IF n > MaxPushes THEN n ELSE n + 1

\* Queue::push returns 0.
Refuses(n) == n = Capacity

-----------------------------------------------------------------------------
\* push, while the output is blocked: "We have room", else an overrun.
Buffer(i) ==
  /\ buffered' = buffered \cup {i}
  /\ callbacks' = callbacks \cup {i}
  /\ waiting' = waiting \cup {i}
  /\ UNCHANGED <<blocked, timer, queue, failed, delivered>>

Forward(i) ==
  /\ sink' = sink + 1
  /\ delivered' = [delivered EXCEPT ![i] = Counted(@)]
  /\ IF Refuses(sink + 1)
     THEN /\ blocked' = TRUE /\ sinkCB' = TRUE
          /\ callbacks' = callbacks \cup {i}
          /\ waiting' = waiting \cup {i}
     ELSE UNCHANGED <<blocked, sinkCB, callbacks, waiting>>
  /\ UNCHANGED <<buffered, timer, failed>>

push(i) ==
  /\ ~failed /\ i \notin waiting /\ pushed[i] < MaxPushes
  /\ IF i \in callbacks \cup buffered
     THEN Abort
     ELSE /\ pushed' = [pushed EXCEPT ![i] = @ + 1]
          /\ IF blocked THEN Buffer(i) ELSE Forward(i)

\* The queue is pulled; with a callback, callback schedules catchUp.
Pull ==
  /\ ~failed /\ sink > 0
  /\ IF sinkCB /\ timer
     THEN Abort
     ELSE /\ sink' = sink - 1 /\ sinkCB' = FALSE
          /\ timer' = (timer \/ sinkCB)
          /\ UNCHANGED <<blocked, callbacks, buffered, waiting, failed, history>>

-----------------------------------------------------------------------------
\* The buffered inputs that catchUp pushes: in order, until the queue returns 0.
Room == Capacity - sink

Pushes ==
  IF Cardinality(buffered) < Room THEN buffered
  ELSE {i \in buffered : Cardinality({j \in buffered : j < i}) < Room}

\* The tuple that the queue took but returned 0 for stays in its buffer.
Stuck == {i \in Pushes : Cardinality({j \in buffered : j <= i}) = Room}

Rest == (buffered \ Pushes) \cup Stuck

\* catchUp wakes the inputs once all tuples are out.
Woken == callbacks

\* _pushCallbacks after that.
Callbacks == {}

catchUp ==
  /\ ~failed /\ timer
  /\ IF ~blocked \/ ~(buffered \subseteq callbacks)
     THEN Abort
     ELSE /\ timer' = FALSE
          /\ sink' = sink + Cardinality(Pushes)
          /\ delivered' = [i \in Inputs |-> IF i \in Pushes THEN Counted(delivered[i]) ELSE delivered[i]]
          /\ buffered' = Rest
          /\ IF buffered # {} /\ Cardinality(Pushes) = Room
             THEN sinkCB' = TRUE /\ UNCHANGED <<blocked, callbacks, waiting>>
             ELSE /\ callbacks' = Callbacks
                  /\ waiting' = waiting \ Woken
                  /\ blocked' = FALSE
                  /\ UNCHANGED sinkCB
          /\ UNCHANGED <<failed, pushed>>

-----------------------------------------------------------------------------
Next == Pull \/ catchUp \/ \E i \in Inputs : push(i)

Spec == Init /\ [][Next]_vars

-----------------------------------------------------------------------------
\* Types: the queue never exceeds its bound, whatever is buffered when it calls back.
TypeOK ==
  /\ blocked \in BOOLEAN /\ timer \in BOOLEAN /\ sinkCB \in BOOLEAN
  /\ callbacks \subseteq Inputs /\ buffered \subseteq Inputs /\ waiting \subseteq Inputs
  /\ sink \in 0 .. Capacity

\* No assertion of mux.C fails when the inputs stop on push back.
AssertionsHold == ~failed

\* An input that waits has its callback stored in a blocked mux, which in turn waits for
\* the queue or for its timer.
WaitingWillBeCalled ==
  /\ waiting \subseteq callbacks
  /\ waiting # {} => blocked
  /\ blocked => sinkCB \/ timer

\* Every tuple pushed gets to the queue or is buffered.
NothingLost ==
  \A i \in Inputs : pushed[i] <= delivered[i] + (IF i \in buffered THEN 1 ELSE 0)
=============================================================================
