------------------------------ MODULE MCGraphs ------------------------------
(***************************************************************************)
(* Dataflow graphs, for TLC.  A behaviour is one of the edits of a running *)
(* dataflow, of the subscriptions of a program, or of the resolution of    *)
(* the agnostic ports of a graph; the variables of the other two keep the  *)
(* value Unused.                                                           *)
(***************************************************************************)
EXTENDS Integers, Sequences, FiniteSets, TLC

CONSTANTS MaxNewHookups, MaxEdits, Names, MaxPerName

VARIABLES
  part, dataflow,
  editing, edit, outs, outWires, inWires, active, garbage, edits, rejected, careless,
  subscribed, failed,
  hookups, initial, pers, i, progress, errors, done, passes

\* A source, a queue and a sink; edits may add a duplicator and a listener.
DataflowEdits ==
  INSTANCE DataflowEdits WITH
    Ins <- [source |-> 0, queue |-> 1, sink |-> 1, dup |-> 1, listener |-> 1],
    Outs <- [source |-> 1, queue |-> 1, sink |-> 0, dup |-> 1, listener |-> 0],
    PushSides <- [source |-> {"out"}, queue |-> {"in"}, sink |-> {},
                  dup |-> {"in", "out"}, listener |-> {"in"}],
    Dynamic <- {"dup"},
    First <- [elements |-> <<"source", "queue", "sink">>,
              hookups |-> {<<"source", 0, "queue", 0>>, <<"queue", 0, "sink", 0>>}]

Subscriptions == INSTANCE Subscriptions

\* Two sources, a filter, an element with two inputs, and a sink.  The filter and the
\* join are agnostic, but for an input of the join that may be push.
Processing ==
  <<"source", "out", 0>> :> {"a", "h", "l"} @@ <<"timer", "out", 0>> :> {"l"} @@
  <<"filter", "in", 0>> :> {"a"} @@ <<"filter", "out", 0>> :> {"a"} @@
  <<"join", "in", 0>> :> {"a"} @@ <<"join", "in", 1>> :> {"a", "h"} @@
  <<"join", "out", 0>> :> {"a"} @@ <<"sink", "in", 0>> :> {"a", "h"}

PushPull ==
  INSTANCE PushPull WITH
    InCodes <- [source |-> <<>>, timer |-> <<>>, filter |-> <<"x">>, join |-> <<"x", "x">>,
                sink |-> <<"-">>],
    OutCodes <- [source |-> <<"-">>, timer |-> <<"-">>, filter |-> <<"x">>, join |-> <<"x">>,
                 sink |-> <<>>]

ASSUME GraphsAssumption ==
  DataflowEdits!WellFormed /\ Subscriptions!WellFormed /\ PushPull!WellFormed

-----------------------------------------------------------------------------
ofEdits ==
  <<editing, edit, outs, outWires, inWires, active, garbage, edits, rejected, careless>>
ofSubscriptions == <<subscribed, failed>>
ofPushPull == <<hookups, initial, pers, i, progress, errors, done, passes>>
vars == <<part, dataflow, ofEdits, ofSubscriptions, ofPushPull>>

Unused == 0

NoEdits ==
  /\ editing = Unused /\ edit = Unused /\ outs = Unused /\ outWires = Unused
  /\ inWires = Unused /\ active = Unused /\ garbage = Unused /\ edits = Unused
  /\ rejected = Unused /\ careless = Unused

NoSubscriptions == subscribed = Unused /\ failed = Unused

NoPushPull ==
  /\ hookups = Unused /\ initial = Unused /\ pers = Unused /\ i = Unused
  /\ progress = Unused /\ errors = Unused /\ done = Unused /\ passes = Unused

Init ==
  \/ part = "edits" /\ DataflowEdits!Init /\ NoSubscriptions /\ NoPushPull
  \/ part = "subscriptions" /\ Subscriptions!Init /\ NoEdits /\ NoPushPull
  \/ part = "pushpull" /\ PushPull!Init /\ dataflow = Unused /\ NoEdits /\ NoSubscriptions

Next ==
  \/ part = "edits" /\ DataflowEdits!Next /\ UNCHANGED <<part, ofSubscriptions, ofPushPull>>
  \/ part = "subscriptions" /\ Subscriptions!Next /\ UNCHANGED <<part, ofEdits, ofPushPull>>
  \/ part = "pushpull" /\ PushPull!Next /\ UNCHANGED <<part, dataflow, ofEdits, ofSubscriptions>>

Spec == Init /\ [][Next]_vars

-----------------------------------------------------------------------------
\* Edits: the running elements are wired as the installed graph says, every port of
\* which is hooked up once, no port points to an element that was removed, and what is
\* garbage does not run, while what is installed does (dataflowEdit.C 140-260).
RunsAsInstalled ==
  part = "edits" =>
    /\ DataflowEdits!TypeOK /\ DataflowEdits!WiredAsInstalled
    /\ DataflowEdits!InstalledIsComplete /\ DataflowEdits!NoWireToGarbage
    /\ DataflowEdits!ActiveIffInstalled

\* Subscriptions: a tuple gets to every listener of its name and to no other.
EveryListenerCalled ==
  part = "subscriptions" => Subscriptions!TypeOK /\ Subscriptions!EveryListenerCalled

\* Push and pull: a graph is accepted if and only if its agnostic ports can be bound, so
\* that push meets push, pull meets pull, and ports with the same flow code agree; the
\* passes of check_push_and_pull end, for each but the last has bound an agnostic port.
AcceptedIffSolvable ==
  part = "pushpull" =>
    /\ PushPull!TypeOK /\ PushPull!AcceptedIsConsistent
    /\ PushPull!GroupsAreUnified /\ PushPull!RejectedHasNoSolution
    /\ PushPull!PassesBounded
=============================================================================
