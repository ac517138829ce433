------------------------------ MODULE MCRuntime ------------------------------
(***************************************************************************)
(* A node for TLC.  A behaviour is one of three nodes with the same rules: *)
(* one without expiry, which has the variables of Runtime, and one with a  *)
(* row that expires or one that loads programs, which share variables of   *)
(* their own; the variables not in use do not change.                      *)
(***************************************************************************)
EXTENDS Runtime, TLC

VARIABLES
  part,
  oTable, oLapsed, oQ, oState, oCur, oFrags, oPending, oLoaded, oArrived, oPc, oFirst, oRan,
  oIdx, oWait, oEvents, oSnap, oTaken, oSeen

others ==
  <<oTable, oLapsed, oQ, oState, oCur, oFrags, oPending, oLoaded, oArrived, oPc, oFirst, oRan,
    oIdx, oWait, oEvents, oSnap, oTaken, oSeen>>
mcVars == <<part, vars, others>>

R(on, event, probe, action, head) ==
  [on |-> on, event |-> event, probe |-> probe, action |-> action, head |-> head]

\* An event that adds a row, one that deletes it, and a rule that sends only while the
\* row is there; the row's changes are events of their own.  The insertion of a program is
\* an event whose strand adds the row that says it is installed.
MCRule ==
  "set" :> R("RECV", "a", "-", "ADD", "x") @@
  "log" :> R("RECV", "a", "-", "SEND", "c") @@
  "clear" :> R("RECV", "b", "-", "DELETE", "x") @@
  "probe" :> R("RECV", "c", "x", "ADD", "y") @@
  "tell" :> R("RECV", "b", "x", "SEND", "d") @@
  "grown" :> R("INSERT", "x", "-", "SEND", "c") @@
  "gone" :> R("REMOVE", "x", "-", "SEND", "d") @@
  "compile1" :> R("INSERT", "p1", "-", "SEND", "e1") @@
  "compile2" :> R("INSERT", "p2", "-", "SEND", "e2") @@
  "done" :> R("RECV", "e1", "-", "ADD", "inst") @@
  "uninst" :> R("RECV", "e2", "-", "DELETE", "inst") @@
  "answer" :> R("RECV", "e2", "p1", "SEND", "d") @@
  "report" :> R("RECV", "e1", "-", "SEND", "d")
MCTuples == {"a", "b", "c", "d", "x", "y", "p1", "p2", "e1", "e2", "inst"}
MCRemote == {"tell", "answer", "report"}
MCOrder == <<"net", "done", "loader", "uninst", "set", "clear", "probe">>
NoPrograms == <<>>

\* With less room in Frag, and a row that expires.
Lapser ==
  INSTANCE Runtime WITH
    Lapsing <- {"x"}, MaxNet <- 2, MaxFrags <- MaxFrags - 1,
    table <- oTable, lapsed <- oLapsed, q <- oQ, state <- oState, cur <- oCur, frags <- oFrags,
    pending <- oPending, loaded <- oLoaded, arrived <- oArrived, pc <- oPc, first <- oFirst,
    ran <- oRan, idx <- oIdx, wait <- oWait, events <- oEvents, snap <- oSnap,
    taken <- oTaken, seen <- oSeen

\* With programs that are loaded one after the other.
Loader ==
  INSTANCE Runtime WITH
    Arrivals <- {"e2"}, Programs <- <<"p1", "p2">>, MaxNet <- 2,
    table <- oTable, lapsed <- oLapsed, q <- oQ, state <- oState, cur <- oCur, frags <- oFrags,
    pending <- oPending, loaded <- oLoaded, arrived <- oArrived, pc <- oPc, first <- oFirst,
    ran <- oRan, idx <- oIdx, wait <- oWait, events <- oEvents, snap <- oSnap,
    taken <- oTaken, seen <- oSeen

ASSUME NodesAssumption == WellFormed /\ Lapser!WellFormed /\ Loader!WellFormed

-----------------------------------------------------------------------------
MCInit ==
  /\ Init
  /\ \/ part \in {"steady", "lapsing"} /\ Lapser!Init
     \/ part = "loader" /\ Loader!Init

OfNode(ofSteady, ofLapsing, ofLoader) ==
  \/ part = "steady" /\ ofSteady /\ UNCHANGED <<part, others>>
  \/ part = "lapsing" /\ ofLapsing /\ UNCHANGED <<part, vars>>
  \/ part = "loader" /\ ofLoader /\ UNCHANGED <<part, vars>>

MCNext == OfNode(Next, Lapser!Next, Loader!Next)
MCProcess == OfNode(Process, Lapser!Process, Loader!Process)
MCTransmit == OfNode(Transmit, Lapser!Transmit, Loader!Transmit)

\* The process runs, and its socket takes fragments.
MCSpec ==
  MCInit /\ [][MCNext]_mcVars /\ WF_mcVars(MCProcess) /\ SF_mcVars(MCTransmit)

-----------------------------------------------------------------------------
\* What NobodyOversleeps and FixpointsAtomic say of the first node holds of the other two:
\* the gate of the scheduler lets one external event through, tables change only
\* in a commit, and nobody sleeps over work (scheduler.C 78-110, insert2.C 29).
OtherNodesRight ==
  /\ [](/\ part = "lapsing" => Lapser!NobodyOversleeps /\ Lapser!OneEventPerFixpoint
        /\ part = "loader" => Loader!NobodyOversleeps /\ Loader!OneEventPerFixpoint)
  /\ [][/\ part = "lapsing" => Lapser!CommitOnly
        /\ part = "loader" => Loader!CommitOnly]_others

\* Every fixpoint ends and every event is processed: the node gets idle again (scheduler.C
\* phase2); and ProgramLoader loads a program when the one before it is installed: all of
\* them get into the program table.
WorkGetsDone ==
  /\ []<>(IF part = "steady" THEN Idle ELSE IF part = "lapsing" THEN Lapser!Idle ELSE Loader!Idle)
  /\ <>(part = "loader" => {"p1", "p2"} \subseteq oTable)
=============================================================================
