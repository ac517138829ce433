-------------------------------- MODULE Loop --------------------------------
(***************************************************************************)
(* The timed callbacks of src/p2core/loop.C: delayCB, timeCBRemove, the    *)
(* pass of timeCBCatchup over the expired prefix of the callback queue,    *)
(* processCatchup, and the time eventLoop lets pselect sleep.  Callbacks   *)
(* and processes are arbitrary users of delayCB, timeCBRemove and          *)
(* Element::state.                                                         *)
(***************************************************************************)
EXTENDS Integers, FiniteSets

CONSTANTS
  Elements,   \* owners of callbacks
  NULL,       \* a callback without an owner; the end of the queue
  Delays,     \* the delays callbacks are asked for
  MaxWait,    \* the longest sleep of the event loop (10 seconds)
  MaxTime,    \* bound on the clock
  MaxID       \* bound on callbackID

VARIABLES
  clock,      \* the time of day
  callbacks,  \* the queue: a set of handles, ordered by time and then by ID
  active,     \* IDs of the handles that timeCBRemove has not turned off
  callbackID, \* the ID of the next handle
  state,      \* Element::state of each owner
  now,        \* the time the pass, or the wait computation, last read
  iter,       \* the handle timeCBCatchup looks at next, NULL at the end
  running,    \* the handle whose callback runs, NULL if none does
  wait,       \* waitDuration
  pc,         \* where eventLoop is
  first       \* history: callbackID when the pass began

vars == <<clock, callbacks, active, callbackID, state, now, iter, running,
          wait, pc, first>>

Handles == [time : Int, ID : Nat, owner : Elements \cup {NULL}]

ASSUME LoopAssumption ==
  /\ NULL \notin Elements /\ NULL \notin Handles
  /\ Delays \subseteq Int
  /\ MaxWait \in Nat /\ MaxTime \in Nat /\ MaxID \in Nat

\* timeCBHandleLess
Less(g, h) == g.time < h.time \/ (g.time = h.time /\ g.ID < h.ID)

First(S) ==
  IF S = {} THEN NULL ELSE CHOOSE h \in S : \A g \in S \ {h} : Less(h, g)

\* iter++
Successor(h) == First({g \in callbacks : Less(h, g)})

\* The element of the callback can still run it.
OwnerActive(h) == h.owner # NULL => state[h.owner] = "ACTIVE"

Init ==
  /\ clock = 0 /\ callbacks = {} /\ active = {} /\ callbackID = 0
  /\ state \in [Elements -> {"ACTIVE", "INACTIVE"}]
  /\ now = 0 /\ iter = NULL /\ running = NULL /\ wait = MaxWait
  /\ pc = "top" /\ first = 0

-----------------------------------------------------------------------------
(* What callbacks, processes and file descriptor callbacks may do.         *)

delayCB(d, e) ==
  /\ d >= 0 /\ callbackID <= MaxID /\ clock + d <= MaxTime
  /\ callbacks' = callbacks \cup {[time |-> clock + d, ID |-> callbackID, owner |-> e]}
  /\ active' = active \cup {callbackID}
  /\ callbackID' = callbackID + 1
  /\ UNCHANGED <<clock, state, now, iter, running, wait, pc, first>>

\* assert(secondDelay >= 0.0)
delayCBAsserts(d) ==
  /\ d < 0
  /\ pc' = "aborted"
  /\ UNCHANGED <<clock, callbacks, active, callbackID, state, now, iter, running,
                 wait, first>>

\* "Do not remove this callback outside of the main loop."
timeCBRemove_Erases(h) ==
  /\ callbacks' = callbacks \ {h}
  /\ active' = active \ {h.ID}
  /\ UNCHANGED <<clock, callbackID, state, now, iter, running, wait, pc, first>>

timeCBRemove(h) ==
  /\ active' = active \ {h.ID}
  /\ UNCHANGED <<clock, callbacks, callbackID, state, now, iter, running, wait,
                 pc, first>>

SetState(e) ==
  /\ state' = [state EXCEPT ![e] = IF @ = "ACTIVE" THEN "INACTIVE" ELSE "ACTIVE"]
  /\ UNCHANGED <<clock, callbacks, active, callbackID, now, iter, running, wait,
                 pc, first>>

Code ==
  /\ pc \in {"run", "procs", "fds"}
  /\ \/ \E d \in Delays, e \in Elements \cup {NULL} : delayCB(d, e)
     \/ \E d \in Delays : delayCBAsserts(d)
     \/ \E h \in callbacks \cup ({running} \ {NULL}) : h.ID \in active /\ timeCBRemove(h)
     \/ \E e \in Elements : SetState(e)

-----------------------------------------------------------------------------
(* eventLoop.                                                              *)

\* Time passes whatever the process does.
Tick ==
  /\ clock < MaxTime /\ pc # "aborted"
  /\ clock' = clock + 1
  /\ UNCHANGED <<callbacks, active, callbackID, state, now, iter, running, wait,
                 pc, first>>

StartPass ==
  /\ pc = "top"
  /\ now' = clock /\ wait' = MaxWait
  /\ iter' = First(callbacks)
  /\ first' = callbackID
  /\ pc' = "pass"
  /\ UNCHANGED <<clock, callbacks, active, callbackID, state, running>>

\* The handle is due.
Due_Early(h) == h.time <= now + 1

Due(h) == h.time <= now

Expired_StopsAtInactive == iter # NULL /\ Due(iter) /\ OwnerActive(iter)

Expired == iter # NULL /\ Due(iter)

\* Take the handle out of the queue before its callback runs.
TakeExpired ==
  /\ pc = "pass" /\ Expired
  /\ callbacks' = callbacks \ {iter}
  /\ iter' = Successor(iter)
  /\ running' = iter
  /\ pc' = IF iter.ID \in active /\ OwnerActive(iter) THEN "run" ELSE "ran"
  /\ UNCHANGED <<clock, active, callbackID, state, now, wait, first>>

\* The callback returns or throws.
Return ==
  /\ pc = "run"
  /\ pc' = "ran"
  /\ UNCHANGED <<clock, callbacks, active, callbackID, state, now, iter, running,
                 wait, first>>

DeleteHandle ==
  /\ pc = "ran"
  /\ active' = active \ {running.ID}
  /\ running' = NULL
  /\ now' = clock
  /\ pc' = "pass"
  /\ UNCHANGED <<clock, callbacks, callbackID, state, iter, wait, first>>

\* The end of the pass removes the inactive handles.
CleanHouse ==
  /\ pc = "pass" /\ ~Expired
  /\ callbacks' = {h \in callbacks : h.ID \in active}
  /\ iter' = NULL
  /\ pc' = "procs"
  /\ UNCHANGED <<clock, active, callbackID, state, now, running, wait, first>>

\* What is left of the wait until the first callback is due.
TimeLeft_OnlyIfLate(w) ==
  IF callbacks # {} /\ First(callbacks).time < clock THEN 0 ELSE w

TimeLeft(w) ==
  LET h == First(callbacks) IN
    IF callbacks = {} THEN w
    ELSE IF h.time < clock THEN 0
    ELSE IF w > h.time - clock THEN h.time - clock ELSE w

\* processCatchup ends; a process that ran something asks for no wait.
ProcessesDone(ran) ==
  /\ pc = "procs"
  /\ wait' = TimeLeft(IF ran THEN 0 ELSE wait)
  /\ now' = clock
  /\ pc' = "sleep"
  /\ UNCHANGED <<clock, callbacks, active, callbackID, state, iter, running, first>>

\* pselect returns at the end of the wait or when a descriptor is ready.
Timeout ==
  /\ pc = "sleep" /\ clock >= now + wait
  /\ pc' = "top"
  /\ UNCHANGED <<clock, callbacks, active, callbackID, state, now, iter, running,
                 wait, first>>

DescriptorsReady ==
  /\ pc = "sleep"
  /\ pc' = "fds"
  /\ UNCHANGED <<clock, callbacks, active, callbackID, state, now, iter, running,
                 wait, first>>

DescriptorsDone ==
  /\ pc = "fds"
  /\ pc' = "top"
  /\ UNCHANGED <<clock, callbacks, active, callbackID, state, now, iter, running,
                 wait, first>>

Pass == StartPass \/ TakeExpired \/ Return \/ DeleteHandle \/ CleanHouse

Next ==
  \/ Tick \/ Code \/ Pass
  \/ \E ran \in BOOLEAN : ProcessesDone(ran)
  \/ Timeout \/ DescriptorsReady \/ DescriptorsDone

Spec == Init /\ [][Next]_vars

-----------------------------------------------------------------------------
(* Properties.                                                             *)

\* Types; IDs are unique because callbackID only grows.
TypeOK ==
  /\ callbacks \subseteq Handles
  /\ \A g, h \in callbacks : g.ID = h.ID => g = h
  /\ active \subseteq 0..(callbackID - 1)
  /\ state \in [Elements -> {"ACTIVE", "INACTIVE"}]
  /\ iter \in Handles \cup {NULL} /\ running \in Handles \cup {NULL}
  /\ clock \in 0..MaxTime /\ now \in 0..clock /\ wait \in 0..MaxWait
  /\ pc \in {"top", "pass", "run", "ran", "procs", "sleep", "fds", "aborted"}

\* The iterator of timeCBCatchup never dangles, whatever the callbacks of the
\* pass schedule or remove: handles leave the queue only in the main loop.
IterValid == iter # NULL => iter \in callbacks

\* A callback that runs is due, was not removed by an earlier callback of the
\* same pass, and is no longer in the queue, so that it runs once.
RunsRight ==
  pc = "pass" /\ pc' = "run" =>
    running'.time <= clock /\ running'.ID \in active /\ running' \notin callbacks'

\* When pselect sleeps, it wakes up no later than the first callback is due,
\* those that processes scheduled after the pass included.
NoOversleep ==
  pc = "sleep" =>
    \A h \in callbacks : now + wait <= (IF h.time < now THEN now ELSE h.time)

\* A callback overtakes an earlier one only if that one was scheduled during
\* the pass: those queued when the pass begins run in the order of the queue.
InOrder ==
  pc = "pass" /\ pc' = "run" => \A h \in callbacks' : Less(h, running') => h.ID >= first

\* Timers: a callback that runs is due, was not removed, and leaves the queue; callbacks
\* queued when the pass begins run in the order of the queue (timeCBCatchup).
CallbacksRight == [][RunsRight /\ InOrder]_vars
=============================================================================
