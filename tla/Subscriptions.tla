---------------------------- MODULE Subscriptions ----------------------------
(***************************************************************************)
(* P2::subscribe (src/p2cpp/p2.C): every subscription to a tuple name adds *)
(* a listener to the compiled dataflow.  It looks for the duplicator of    *)
(* the name on the port of receiveDemux; there never is one, since the     *)
(* name it looks for is not the name it gives, and so it puts a new one    *)
(* between the demux and the element that Dataflow::find returns for the   *)
(* name of the element behind the demux.                                   *)
(***************************************************************************)
EXTENDS Dataflow

CONSTANTS
  Names,      \* tuple names with a port on the demux: 0..n
  MaxPerName  \* bound on the subscriptions to a name

WellFormed == Names = 0 .. Cardinality(Names) - 1 /\ MaxPerName \in Nat

VARIABLES
  dataflow,      \* the installed one
  subscribed,    \* the subscriptions, in order: <<name, number>>
  failed         \* whether an install failed, which exits the process

vars == <<dataflow, subscribed, failed>>

\* Elements: the demux, a strand and a sink behind it for every name, and a duplicator
\* and a listener for every subscription.
demux == <<"demux">>
queue(n) == <<"queue", n>>
duplicator(n, i) == <<"DuplicateConservative", n, i>>
listener(n, i) == <<"listener", n, i>>

Subscriptions == Names \X (1 .. MaxPerName)

AllElements ==
  {demux} \cup {queue(n) : n \in Names}
    \cup {duplicator(s[1], s[2]) : s \in Subscriptions} \cup {listener(s[1], s[2]) : s \in Subscriptions}

\* The number of a subscription is not part of the element's name.
name(e) == SubSeq(e, 1, IF Len(e) < 2 THEN Len(e) ELSE 2)

Ins == [e \in AllElements |-> IF e = demux THEN 0 ELSE 1]
Outs ==
  [e \in AllElements |->
     CASE e = demux -> Cardinality(Names)
       [] e[1] = "DuplicateConservative" -> 2
       [] OTHER -> 0]
Push == [e \in AllElements |-> {"in", "out"}]

Init ==
  /\ dataflow = [elements |-> <<demux>> \o [i \in 1 .. Cardinality(Names) |-> queue(i - 1)],
                 hookups |-> {<<demux, n, queue(n), 0>> : n \in Names}]
  /\ subscribed = <<>> /\ failed = FALSE

-----------------------------------------------------------------------------
\* Dataflow::find by the name of an element: the first one.
Find(d, e) == SelectInSeq(d.elements, LAMBDA f : name(f) = name(e))

\* The element behind the demux port, found by its name.
StrandHead_Queue(n) == queue(n)

StrandHead(n) ==
  LET behind == To(CHOOSE h \in dataflow.hookups : FromPort(h) = <<demux, n>>)
  IN dataflow.elements[Find(dataflow, behind)]

\* The new hookups of the subscription i of name n.
Hookups(n, i) ==
  <<<<duplicator(n, i), 0, StrandHead(n), 0>>,
    <<demux, n, duplicator(n, i), 0>>,
    <<duplicator(n, i), 1, listener(n, i), 0>>>>

Edit(n, i) ==
  FoldLeft(hookUp,
           addElement(addElement(NewEdit(dataflow), listener(n, i)), duplicator(n, i)),
           Hookups(n, i))

subscribe(n) ==
  LET i == Cardinality({j \in DOMAIN subscribed : subscribed[j][1] = n}) + 1
      ed == Edit(n, i)
      d == Edited(ed, Removed(ed, Ins, Outs))
  IN /\ ~failed /\ i <= MaxPerName
     /\ subscribed' = Append(subscribed, <<n, i>>)
     /\ IF Valid(d, ed.newHookups, Ins, Outs, Push)
        THEN dataflow' = d /\ UNCHANGED failed
        ELSE failed' = TRUE /\ UNCHANGED dataflow

Next == \E n \in Names : subscribe(n)

Spec == Init /\ [][Next]_vars

-----------------------------------------------------------------------------
\* Types; every install succeeds.
TypeOK ==
  /\ Range(dataflow.elements) \subseteq AllElements /\ IsInjective(dataflow.elements)
  /\ Range(subscribed) \subseteq Subscriptions /\ ~failed

\* The elements that a tuple of name n gets to: the demux pushes it to one port and the
\* duplicators copy it.
Reached(n) ==
  LET more(S, e) == S \cup {To(h) : h \in {g \in dataflow.hookups : From(g) \in S}}
  IN FoldLeft(more, {To(h) : h \in {g \in dataflow.hookups : FromPort(g) = <<demux, n>>}},
              dataflow.elements)

\* "Register the callback to be called when a tuple with tupleName arrives." (p2.h): a
\* tuple gets to the program and to every listener of its name, and to no other one,
\* whatever subscriptions follow.
EveryListenerCalled ==
  \A n \in Names :
    {e \in Reached(n) : e[1] # "DuplicateConservative"}
      = {queue(n)} \cup {listener(n, s[2]) : s \in {r \in Range(subscribed) : r[1] = n}}
=============================================================================
