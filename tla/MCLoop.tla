------------------------------- MODULE MCLoop -------------------------------
(***************************************************************************)
(* The event loop for TLC.  A behaviour is one of the timed callbacks, of  *)
(* UDP sockets and their descriptor callbacks, of one socket alone, for    *)
(* liveness, or of fragments; the variables of the other parts do not      *)
(* change.                                                                 *)
(***************************************************************************)
EXTENDS Loop, Udp

CONSTANTS
  Parts,                          \* the parts that a run checks
  FragSources, MaxQueue, Networks \* Fragment

VARIABLES
  part,
  network, next, frags, pushCB, pullCB, ready, net, copies, pieces, tuples, waiting,
  output, dropped, received, failed

MCDelays == -1 .. 2
MCNetworks ==
  {[reorders |-> FALSE, loses |-> FALSE, copies |-> 0],
   [reorders |-> FALSE, loses |-> TRUE, copies |-> 0],
   [reorders |-> TRUE, loses |-> TRUE, copies |-> 1]}

Fr == INSTANCE Fragment WITH
  Sources <- FragSources, FirstSeq <- [s \in FragSources |-> 5],
  Chunks <- [s \in FragSources |-> <<2, 1, 2>>], arrived <- received

ASSUME FragmentAssumption == Fr!WellFormed
ASSUME SocketsAssumption == Bounds

frag ==
  <<network, next, frags, pushCB, pullCB, ready, net, copies, pieces, tuples, waiting, output,
    dropped, received, failed>>
mcVars == <<part, vars, udpvars, frag>>

MCInit ==
  /\ part \in Parts /\ UdpInit
  /\ Init /\ (part # "timers" => state = [e \in Elements |-> "ACTIVE"])
  /\ IF part = "fragments" THEN Fr!Init ELSE Fr!Init /\ network = CHOOSE n \in Networks : TRUE

OfTimers(A) == part = "timers" /\ A /\ UNCHANGED <<part, udpvars, frag>>
OfSockets(A) == part = "sockets" /\ A /\ UNCHANGED <<part, vars, frag>>
OfFragments(A) == part = "fragments" /\ A /\ UNCHANGED <<part, vars, udpvars>>


\* The other descriptors are not in use yet.
Alone == CHOOSE fd \in FDs : TRUE

OfSocket(A) ==
  /\ part = "socket" /\ A /\ UNCHANGED <<part, vars, frag>>
  /\ \A fd \in FDs \ {Alone} : sockState'[fd] = "NEW" /\ arrived'[fd] = 0 /\ offered'[fd] = 0

MCNext == OfTimers(Next) \/ OfSockets(UdpNext) \/ OfSocket(UdpNext) \/ OfFragments(Fr!Next)

\* Time passes and the loop runs: callbacks and processes return.
TimersRun ==
  /\ WF_mcVars(OfTimers(Tick)) /\ WF_mcVars(OfTimers(Pass))
  /\ WF_mcVars(OfTimers(\E ran \in BOOLEAN : ProcessesDone(ran)))
  /\ WF_mcVars(OfTimers(Timeout)) /\ WF_mcVars(OfTimers(DescriptorsDone))

\* The loop runs, the socket is writable again and again, and the dataflow calls back the
\* elements whose push or pull it refused.
SocketRuns ==
  /\ SF_mcVars(OfSocket(Initialize(Alone)))
  /\ WF_mcVars(OfSocket(Rx(Alone) \/ Tx(Alone)))
  /\ SF_mcVars(OfSocket(RxElementCB(Alone)))
  /\ SF_mcVars(OfSocket(TxElementCB(Alone)))
  /\ SF_mcVars(OfSocket(\E writable \in SUBSET FDs : Alone \in writable /\ Select(writable)))
  /\ WF_mcVars(OfSocket(Done))

\* The scheduler runs a PullPush that may run, and the receiver reads its socket.  Nothing
\* there can go on for ever, so that it need not be fair to each of them.
FragmentsRun == WF_mcVars(OfFragments(Fr!Program /\ UNCHANGED network))

MCSpec == MCInit /\ [][MCNext]_mcVars /\ TimersRun /\ SocketRuns /\ FragmentsRun

-----------------------------------------------------------------------------
\* Fragments: what Defrag puts together are the blocks of one tuple in order and assert(p)
\* of defragment holds; over a network that keeps the order, tuples come out once, in order,
\* and whenever all their blocks arrive.
Reassembled == Fr!Intact /\ Fr!WholeAndInOrder

\* Timers: every handle leaves the queue, since its callback runs, or it was turned off,
\* or its element was inactive when it was due; unless the loop aborts on a negative delay.
\* An ID is used once.
EveryHandleLeaves ==
  \A i \in 0 .. MaxID : []<>(pc = "aborted" \/ \A h \in callbacks : h.ID # i)

\* The datagrams of an active receiver are all read, the tuples that the dataflow offers Tx
\* are all sent, and fragmented tuples all come out of Defrag unless the network loses them.
TrafficFlows ==
  /\ []<>(part = "socket" => inq[Alone] = 0 \/ sockState[Alone] = "INACTIVE")
  /\ []<>(part = "socket" => outq[Alone] = 0)
  /\ []<>(part = "fragments" /\ ~network.loses => Fr!AllArrived)
=============================================================================
