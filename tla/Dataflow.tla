------------------------------ MODULE Dataflow ------------------------------
(***************************************************************************)
(* Dataflow graphs and their edits (src/p2core/dataflow.C, dataflowEdit.C, *)
(* elementSpec.C): what an edit does to the hookups, which elements its    *)
(* validation removes, and which graphs are accepted.  A nested dataflow   *)
(* is flattened.  PushPull models the resolution of agnostic ports; here   *)
(* every port is push or pull.                                             *)
(*                                                                         *)
(* A hookup is <<element, output port, element, input port>>.              *)
(***************************************************************************)
EXTENDS Integers, Sequences, FiniteSets, SequencesExt

From(h) == h[1]
To(h) == h[3]
FromPort(h) == <<h[1], h[2]>>
ToPort(h) == <<h[3], h[4]>>

\* Plumber::edit: new specs for all elements, and all the hookups.
NewEdit(d) ==
  [elements |-> d.elements, hookups |-> d.hookups, newElements |-> <<>>, newHookups |-> <<>>]

addElement(ed, e) == [ed EXCEPT !.newElements = Append(@, e)]

\* remove_old_hookups: a new hookup takes its ports from the old ones.
OldHookups(ed, h) ==
  {g \in ed.hookups : FromPort(g) # FromPort(h) /\ ToPort(g) # ToPort(h)}

hookUp(ed, h) ==
  [ed EXCEPT !.newHookups = Append(@, h), !.hookups = OldHookups(ed, h)]

-----------------------------------------------------------------------------
\* An old element stays if an input, or an output when it has no input, is hooked up.
\* ins and outs give the number of ports of an element.
Referenced(e, H, ins, outs) ==
  IF ins[e] > 0 THEN \E h \in H : To(h) = e
  ELSE outs[e] > 0 /\ \E h \in H : From(h) = e

\* The hookups left when the elements of G are removed.
Without(H, G) == {h \in H : From(h) \notin G /\ To(h) \notin G}

AllHookups(ed) == ed.hookups \cup Range(ed.newHookups)

\* The elements that validate removes, transitively.
Removed(ed, ins, outs) ==
  LET all == AllHookups(ed)
      more(G, x) ==
        LET H == Without(all, G)
        IN {e \in Range(ed.elements) : ~Referenced(e, H, ins, outs)}
  IN FoldLeft(more, {}, ed.elements)

\* The edited graph: what is left of the old elements, and the new ones.
Edited(ed, G) ==
  [elements |-> SelectSeq(ed.elements, LAMBDA e : e \notin G) \o ed.newElements,
   hookups |-> Without(AllHookups(ed), G)]

-----------------------------------------------------------------------------
check_hookup_elements(d) ==
  \A h \in d.hookups : {From(h), To(h)} \subseteq Range(d.elements)

check_hookup_range(d, ins, outs) ==
  \A h \in d.hookups : h[2] < outs[From(h)] /\ h[4] < ins[To(h)]

\* push[e] tells which side of e is push: a subset of {"in", "out"}.
check_push_and_pull(d, push) ==
  \A h \in d.hookups : "out" \in push[From(h)] <=> "in" \in push[To(h)]

\* eval_hookups: no port is used twice, not even by the same hookup made twice.
eval_hookups(d, news) ==
  /\ \A g, h \in d.hookups : g # h => FromPort(g) # FromPort(h) /\ ToPort(g) # ToPort(h)
  /\ \A i, j \in DOMAIN news : i # j => news[i] # news[j]

check_hookup_completeness(d, ins, outs) ==
  \A e \in Range(d.elements) :
    /\ \A p \in 0 .. ins[e] - 1 : \E h \in d.hookups : ToPort(h) = <<e, p>>
    /\ \A p \in 0 .. outs[e] - 1 : \E h \in d.hookups : FromPort(h) = <<e, p>>

Valid(d, news, ins, outs, push) ==
  /\ check_hookup_elements(d)
  /\ check_hookup_range(d, ins, outs)
  /\ check_push_and_pull(d, push)
  /\ eval_hookups(d, news)
  /\ check_hookup_completeness(d, ins, outs)

-----------------------------------------------------------------------------
\* Element::connect_output and connect_input: wires is the set of pairs of a port and
\* the port it points to.
Connect(wires, p, q) == {w \in wires : w[1] # p} \cup {<<p, q>>}

\* set_connections of an edit: the new hookups, in their order, if the ports are there.
set_connections_OneWay(outWires, inWires, news, ins, outs) ==
  [out |-> FoldLeft(LAMBDA w, h : Connect(w, FromPort(h), ToPort(h)), outWires, news),
   in |-> inWires]

set_connections(outWires, inWires, news, ins, outs) ==
  LET connect(w, h) ==
        [out |-> IF h[2] < outs[From(h)] THEN Connect(w.out, FromPort(h), ToPort(h)) ELSE w.out,
         in |-> IF h[4] < ins[To(h)] THEN Connect(w.in, ToPort(h), FromPort(h)) ELSE w.in]
  IN FoldLeft(connect, [out |-> outWires, in |-> inWires], news)
=============================================================================
