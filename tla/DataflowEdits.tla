---------------------------- MODULE DataflowEdits ----------------------------
(***************************************************************************)
(* A dataflow that runs while it is edited: Plumber::edit and install with *)
(* DataflowEdit, as P2DL's edits use them.  An edit may be given up at any *)
(* time, when one of its statements throws, and its validation may fail.   *)
(***************************************************************************)
EXTENDS Dataflow

CONSTANTS
  Ins, Outs,       \* element |-> number of its ports
  PushSides,       \* element |-> its push sides
  Dynamic,         \* elements with add_output
  First,           \* the dataflow that is installed first
  MaxNewHookups,   \* bound on the hookups of an edit
  MaxEdits         \* bound on the edits

Elements == DOMAIN Ins

WellFormed ==
  /\ DOMAIN Outs = Elements /\ DOMAIN PushSides = Elements /\ Dynamic \subseteq Elements
  /\ Valid(First, <<>>, Ins, Outs, PushSides)
  /\ MaxNewHookups \in Nat /\ MaxEdits \in Nat

VARIABLES
  dataflow,  \* the one in Plumber::_dataflows
  editing,   \* whether an edit is under way
  edit,      \* the edit
  outs,      \* element |-> _noutputs
  outWires,  \* where the output ports point
  inWires,   \* where the input ports point
  active,    \* elements in state ACTIVE
  garbage,   \* garbage_elements_
  edits,     \* number of edits begun
  rejected,  \* history: whether an install has failed
  careless   \* history: whether an edit hooked up a port twice

history == <<rejected, careless>>
ports == <<outs, outWires, inWires>>
vars == <<dataflow, editing, edit, ports, active, garbage, edits, history>>

Init ==
  /\ dataflow = First
  /\ editing = FALSE /\ edit = NewEdit(First)
  /\ outs = Outs
  /\ outWires = {<<FromPort(h), ToPort(h)>> : h \in First.hookups}
  /\ inWires = {<<ToPort(h), FromPort(h)>> : h \in First.hookups}
  /\ active = Range(First.elements) /\ garbage = {} /\ edits = 0
  /\ rejected = FALSE /\ careless = FALSE

-----------------------------------------------------------------------------
Begin ==
  /\ ~editing /\ edits < MaxEdits
  /\ editing' = TRUE /\ edit' = NewEdit(dataflow) /\ edits' = edits + 1
  /\ UNCHANGED <<dataflow, ports, active, garbage, history>>

AddElement(e) ==
  /\ editing
  /\ e \notin Range(edit.elements) \cup Range(edit.newElements) \cup garbage
  /\ edit' = addElement(edit, e)
  /\ outs' = [outs EXCEPT ![e] = Outs[e]]
  /\ UNCHANGED <<dataflow, editing, outWires, inWires, active, garbage, edits, history>>

\* ElementSpec::add_output adds the port to the element itself, at once.
AddOutput(e) ==
  /\ editing /\ e \in Dynamic \cap (Range(edit.elements) \cup Range(edit.newElements))
  /\ outs[e] <= Outs[e]
  /\ outs' = [outs EXCEPT ![e] = @ + 1]
  /\ UNCHANGED <<dataflow, editing, edit, outWires, inWires, active, garbage, edits, history>>

Twice(h) ==
  \E g \in Range(edit.newHookups) : FromPort(g) = FromPort(h) \/ ToPort(g) = ToPort(h)

HookUp(h) ==
  /\ editing /\ Len(edit.newHookups) < MaxNewHookups
  /\ {From(h), To(h)} \subseteq Range(edit.elements) \cup Range(edit.newElements)
  /\ edit' = hookUp(edit, h)
  /\ careless' = (careless \/ Twice(h))
  /\ UNCHANGED <<dataflow, editing, ports, active, garbage, edits, rejected>>

Abandon ==
  /\ editing
  /\ editing' = FALSE /\ edit' = NewEdit(First)
  /\ UNCHANGED <<dataflow, ports, active, garbage, edits, history>>

-----------------------------------------------------------------------------
\* The hookups that initialize connects.
Wires == set_connections(outWires, inWires, edit.newHookups, Ins, outs)

\* The elements that validate leaves ACTIVE.
StillActive(G) == active \ G

Accepted(d) == Valid(d, edit.newHookups, Ins, outs, PushSides)

\* Plumber::install: the elements to remove become INACTIVE before the new graph is
\* validated; only a valid graph is connected, made ACTIVE and replaces the old one.
Install ==
  /\ editing
  /\ LET G == Removed(edit, Ins, outs)
         d == Edited(edit, G)
     IN IF Accepted(d)
        THEN /\ dataflow' = d
             /\ outWires' = Wires.out /\ inWires' = Wires.in
             /\ active' = StillActive(G) \cup Range(d.elements)
             /\ garbage' = garbage \cup G
             /\ UNCHANGED rejected
        ELSE /\ active' = StillActive(G)
             /\ rejected' = TRUE
             /\ UNCHANGED <<dataflow, outWires, inWires, garbage>>
  /\ editing' = FALSE /\ edit' = NewEdit(First)
  /\ UNCHANGED <<outs, edits, careless>>

-----------------------------------------------------------------------------
Hookups ==
  {<<e, p, f, q>> \in Elements \X (0 .. 1) \X Elements \X (0 .. 1) : p < outs[e] /\ q < Ins[f]}

Next ==
  \/ Begin \/ Install \/ Abandon
  \/ \E e \in Elements : AddElement(e) \/ AddOutput(e)
  \/ \E h \in Hookups : HookUp(h)

Spec == Init /\ [][Next]_vars

-----------------------------------------------------------------------------
\* Types; an element is installed or garbage, and a port points to one other port.
TypeOK ==
  /\ Range(dataflow.elements) \subseteq Elements /\ IsInjective(dataflow.elements)
  /\ Range(dataflow.elements) \cap garbage = {}
  /\ active \subseteq Elements /\ garbage \subseteq Elements
  /\ \A v, w \in outWires : v[1] = w[1] => v = w
  /\ \A v, w \in inWires : v[1] = w[1] => v = w
  /\ outs \in [Elements -> Nat] /\ edits \in 0 .. MaxEdits

\* The running elements are wired as the installed graph says, in both directions: what
\* Element::push and pull follow is what was validated, after any number of edits,
\* unless one of them hooked up a port twice.
WiredAsInstalled ==
  ~careless => \A h \in dataflow.hookups :
    /\ <<FromPort(h), ToPort(h)>> \in outWires
    /\ <<ToPort(h), FromPort(h)>> \in inWires

\* No port of an installed element points to an element that was removed: "Any output
\* hookups that reference the element deemed to be removed will also be taken out"
\* (dataflowEdit.C), unless an edit hooked up a port twice.
NoWireToGarbage ==
  ~careless => \A w \in outWires \cup inWires :
    w[1][1] \in Range(dataflow.elements) => w[2][1] \notin garbage

\* An element is hooked up completely, but for the outputs that an edit added which is
\* not installed.
InstalledIsComplete ==
  \A e \in Range(dataflow.elements) :
    /\ \A p \in 0 .. Ins[e] - 1 :
         Cardinality({h \in dataflow.hookups : ToPort(h) = <<e, p>>}) = 1
    /\ \A p \in 0 .. Outs[e] - 1 :
         Cardinality({h \in dataflow.hookups : FromPort(h) = <<e, p>>}) = 1

\* An element is garbage only if nothing that runs refers to it, and unless an edit was
\* rejected exactly the installed elements are active.
ActiveIffInstalled ==
  /\ garbage \cap active = {}
  /\ ~rejected => active = Range(dataflow.elements)
=============================================================================
