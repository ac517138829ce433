------------------------------ MODULE PushPull ------------------------------
(***************************************************************************)
(* Dataflow::check_push_and_pull (src/p2core/dataflow.C) with the flow     *)
(* groups of src/p2core/elementSpec.C.  A port is push ('h'), pull ('l')   *)
(* or agnostic ('a').  The check goes over the hookups as long as it can   *)
(* bind an agnostic port to the personality of the port it is hooked up    *)
(* to, and unifies the ports of an element that have the same flow code.   *)
(***************************************************************************)
EXTENDS Integers, Sequences, FiniteSets, SequencesExt

CONSTANTS
  InCodes, OutCodes,  \* element |-> the flow codes of its inputs and outputs: sequences
  Processing          \* port |-> the personalities that it may have at first

\* A port is <<element, side, number>>; numbers begin with 0.
Elements == DOMAIN InCodes
Codes(e, side) == IF side = "in" THEN InCodes[e] ELSE OutCodes[e]
Numbers(e, side) == 0 .. Len(Codes(e, side)) - 1
InPorts == UNION {{<<e, "in", n>> : n \in Numbers(e, "in")} : e \in Elements}
OutPorts == UNION {{<<e, "out", n>> : n \in Numbers(e, "out")} : e \in Elements}
Ports == InPorts \cup OutPorts

Code(q) == Codes(q[1], q[2])[q[3] + 1]

\* UniGroup: the ports of a side of q's element with q's flow code, in order.
Group(q, side) ==
  LET numbers == SetToSortSeq({n \in Numbers(q[1], side) : Code(<<q[1], side, n>>) = Code(q)}, <)
  IN [k \in DOMAIN numbers |-> <<q[1], side, numbers[k]>>]

\* unifyInput and unifyOutput take a port's number for its index in the group, which
\* must not be beyond its end.
WellFormed ==
  /\ DOMAIN OutCodes = Elements
  /\ DOMAIN Processing = Ports /\ \A q \in Ports : Processing[q] \subseteq {"a", "h", "l"}
  /\ Cardinality(InPorts) = Cardinality(OutPorts)
  /\ \A q \in Ports : Code(q) # "-" => q[3] <= Len(Group(q, q[2]))

VARIABLES
  hookups,   \* hookups_: a sequence of <<output port, input port>>
  initial,   \* port |-> its personality when the check begins
  pers,      \* port |-> its personality
  i,         \* index of the next hookup
  progress,  \* of this pass
  errors,    \* whether errors > 0
  done,
  passes     \* history: the passes that were followed by another one

vars == <<hookups, initial, pers, i, progress, errors, done, passes>>

\* All complete graphs, with their hookups in every order.
Init ==
  /\ initial \in {f \in [Ports -> {"a", "h", "l"}] : \A q \in Ports : f[q] \in Processing[q]}
  /\ \E s \in SetToSeqs(OutPorts), t \in SetToSeqs(InPorts) :
       hookups = [k \in DOMAIN s |-> <<s[k], t[k]>>]
  /\ pers = initial /\ i = 1 /\ progress = FALSE /\ errors = FALSE /\ done = FALSE
  /\ passes = 0

-----------------------------------------------------------------------------
Other(side) == IF side = "in" THEN "out" ELSE "in"

\* The other ports of q's group on its side, as they are visited: those at an index
\* that is not q's number.
Siblings(q) ==
  LET own == Group(q, q[2])
  IN IF q[3] + 1 \in DOMAIN own THEN RemoveAt(own, q[3] + 1) ELSE own

\* The ports that unifyInput or unifyOutput of q visits.
Unified_OwnSide(q) == IF Code(q) = "-" THEN <<>> ELSE Siblings(q)

Unified(q) ==
  IF Code(q) = "-" THEN <<>> ELSE Siblings(q) \o Group(q, Other(q[2]))

\* Port::unify, for the ports of the group one after the other until there is a conflict.
Unify(u, q) ==
  CASE u.conflict -> u
    [] u.pers[q] = "a" -> [u EXCEPT !.pers[q] = u.value]
    [] OTHER -> [u EXCEPT !.conflict = u.pers[q] # u.value]

\* An agnostic port q gets the personality v, and its group too.
Bind(q, v) ==
  LET u == FoldLeft(Unify, [pers |-> [pers EXCEPT ![q] = v], value |-> v, conflict |-> FALSE], Unified(q))
  IN /\ pers' = u.pers
     /\ errors' = (errors \/ u.conflict)
     /\ progress' = TRUE

\* Whether a hookup connects push and pull.
Mismatch(p, q) == {p, q} = {"h", "l"}

\* Whether p is bound to the personality of q.
Free(p, q) == pers[p] = "a" /\ pers[q] # "a"

Visit ==
  LET from == hookups[i][1]
      to == hookups[i][2]
  IN /\ ~done /\ i <= Len(hookups)
     /\ i' = i + 1
     /\ CASE Free(to, from) -> Bind(to, pers[from])
          [] Free(from, to) -> Bind(from, pers[to])
          [] OTHER -> /\ errors' = (errors \/ Mismatch(pers[from], pers[to]))
                      /\ UNCHANGED <<pers, progress>>
     /\ UNCHANGED <<hookups, initial, done, passes>>

\* Another pass, if this one made progress.
Again == progress

EndPass ==
  /\ ~done /\ i > Len(hookups)
  /\ IF Again
     THEN i' = 1 /\ progress' = FALSE /\ passes' = passes + 1 /\ UNCHANGED done
     ELSE done' = TRUE /\ UNCHANGED <<i, progress, passes>>
  /\ UNCHANGED <<hookups, initial, pers, errors>>

Next == Visit \/ EndPass

Spec == Init /\ [][Next]_vars

-----------------------------------------------------------------------------
\* Types; a port that has a personality keeps it.
TypeOK ==
  /\ pers \in [Ports -> {"a", "h", "l"}]
  /\ \A q \in Ports : initial[q] # "a" => pers[q] = initial[q]
  /\ i \in 1 .. Len(hookups) + 1

\* An accepted graph connects push to push and pull to pull, whatever the order of its
\* hookups: Element::push and pull always find a port of their kind.
AcceptedIsConsistent ==
  done /\ ~errors => \A h \in Range(hookups) : pers[h[1]] = pers[h[2]]

\* "when the associated (agnostic) port is bound to a personality (push or pull) then all
\* other ports matching the same character will have to be instantiated to the same
\* personality" (element.h).
GroupsAreUnified ==
  done /\ ~errors =>
    \A p, q \in Ports :
      p[1] = q[1] /\ Code(p) = Code(q) /\ Code(p) # "-" /\ initial[p] = "a" /\ pers[p] # "a"
        => pers[p] = pers[q]

\* A personality for every port that agrees with the hookups and the flow codes.
Solution(f) ==
  /\ \A q \in Ports : initial[q] # "a" => f[q] = initial[q]
  /\ \A h \in Range(hookups) : f[h[1]] = f[h[2]]
  /\ \A p, q \in Ports :
       p[1] = q[1] /\ Code(p) = Code(q) /\ Code(p) # "-" /\ "a" \in {initial[p], initial[q]}
         => f[p] = f[q]

\* A graph is rejected only if no choice of personalities fits it.
RejectedHasNoSolution == done /\ errors => \A f \in [Ports -> {"h", "l"}] : ~Solution(f)

\* The loop of check_push_and_pull ends: each pass that is followed by another one has
\* bound a port, and there are no more passes than agnostic ports.
PassesBounded ==
  passes <= Cardinality({q \in Ports : initial[q] = "a" /\ pers[q] # "a"})
=============================================================================
