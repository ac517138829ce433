--------------------------------- MODULE Udp ---------------------------------
(***************************************************************************)
(* The UDP sockets of src/net/udp.C and udp2.C on the event loop's         *)
(* descriptor callbacks.  Rx reads a datagram when its socket is readable  *)
(* and pushes it; Tx pulls a tuple when its socket is writable and sends   *)
(* it.  A push that returns 0 or a pull that returns nothing turns the     *)
(* socket off until the dataflow calls element_cb.                         *)
(*                                                                         *)
(* The first part is the event loop's own: the directory of src/p2core/    *)
(* loop.C that fileDescriptorCB and removeFileDescriptorCB change, its bit *)
(* sets, and the pass of fileDescriptorCatchup over the descriptors that   *)
(* pselect reports, first those that can be written and then those that    *)
(* can be read.                                                            *)
(***************************************************************************)
EXTENDS Integers, FiniteSetsExt

CONSTANTS FDs      \* descriptors

ASSUME FDsAssumption == FDs \subseteq Nat

VARIABLES
  dir,             \* the callbacks, the bits that pselect gets, and nextFD
  readResultBits,  \* readable descriptors that the pass has still to visit
  writeResultBits, \* writable descriptors that the pass has still to visit
  fdpc             \* where the pass is

fdvars == <<dir, readResultBits, writeResultBits, fdpc>>

Directories ==
  [callbacks : SUBSET (FDs \X {"read", "write"}),
   readBits : SUBSET FDs, writeBits : SUBSET FDs, nextFD : Nat]

\* eventLoopInitialize
EmptyDir == [callbacks |-> {}, readBits |-> {}, writeBits |-> {}, nextFD |-> 0]

NextFD_SameFD(n, fd) == Max({fd, n})

NextFD(n, fd) == Max({fd + 1, n})

fileDescriptorCB(d, fd, op) ==
  IF <<fd, op>> \in d.callbacks THEN d
  ELSE [callbacks |-> d.callbacks \cup {<<fd, op>>},
        readBits |-> IF op = "read" THEN d.readBits \cup {fd} ELSE d.readBits,
        writeBits |-> IF op = "write" THEN d.writeBits \cup {fd} ELSE d.writeBits,
        nextFD |-> NextFD(d.nextFD, fd)]

removeFileDescriptorCB_BothWays(d, fd, op) ==
  [d EXCEPT !.callbacks = {c \in @ : c[1] # fd},
            !.readBits = @ \ {fd}, !.writeBits = @ \ {fd}]

removeFileDescriptorCB(d, fd, op) ==
  [d EXCEPT !.callbacks = @ \ {<<fd, op>>},
            !.readBits = IF op = "read" THEN @ \ {fd} ELSE @,
            !.writeBits = IF op = "write" THEN @ \ {fd} ELSE @]

FdInit ==
  /\ dir = EmptyDir
  /\ readResultBits = {} /\ writeResultBits = {}
  /\ fdpc = "loop"

\* pselect reports the descriptors below nextFD that are ready.
PSelect(readable, writable) ==
  LET Seen(bits) == {fd \in bits : fd < dir.nextFD} IN
    /\ fdpc = "loop"
    /\ readResultBits' = Seen(dir.readBits) \cap readable
    /\ writeResultBits' = Seen(dir.writeBits) \cap writable
    /\ fdpc' = "catchup"
    /\ UNCHANGED dir

CatchupDone ==
  /\ fdpc = "catchup" /\ readResultBits = {} /\ writeResultBits = {}
  /\ fdpc' = "loop"
  /\ UNCHANGED <<dir, readResultBits, writeResultBits>>

\* The next descriptor of the pass, writes first.
VisitWrite(fd) ==
  /\ fdpc = "catchup"
  /\ fd \in writeResultBits /\ \A g \in writeResultBits : fd <= g
  /\ <<fd, "write">> \in dir.callbacks
  /\ writeResultBits' = writeResultBits \ {fd}
  /\ UNCHANGED <<readResultBits, fdpc>>

VisitRead(fd) ==
  /\ fdpc = "catchup" /\ writeResultBits = {}
  /\ fd \in readResultBits /\ \A g \in readResultBits : fd <= g
  /\ <<fd, "read">> \in dir.callbacks
  /\ readResultBits' = readResultBits \ {fd}
  /\ UNCHANGED <<writeResultBits, fdpc>>

-----------------------------------------------------------------------------
(* The sockets.                                                            *)

CONSTANTS
  MaxIn,   \* datagrams that arrive at a socket
  MaxOut   \* tuples that the dataflow gives Tx to send

Bounds == MaxIn \in Nat /\ MaxOut \in Nat

VARIABLES
  sockState,    \* Element::state of Rx, the owner of the read callback
  push_pending, \* Rx may push
  pull_pending, \* Tx may pull
  owesRx,       \* the dataflow holds Rx's callback
  owesTx,       \* the dataflow holds Tx's callback
  inq,          \* datagrams in the socket's receive buffer
  arrived,      \* datagrams that have arrived
  outq,         \* tuples upstream of Tx
  offered       \* tuples that have been put there

elemvars == <<sockState, push_pending, pull_pending, owesRx, owesTx>>
envvars == <<inq, arrived, outq, offered>>
udpvars == <<fdvars, elemvars, envvars>>

UdpInit ==
  /\ FdInit
  /\ sockState = [fd \in FDs |-> "NEW"]
  /\ push_pending = [fd \in FDs |-> TRUE] /\ pull_pending = [fd \in FDs |-> TRUE]
  /\ owesRx = [fd \in FDs |-> FALSE] /\ owesTx = [fd \in FDs |-> FALSE]
  /\ inq = [fd \in FDs |-> 0] /\ arrived = inq
  /\ outq = inq /\ offered = inq

socket_on(fd, op) == dir' = fileDescriptorCB(dir, fd, op)

socket_off(fd, op) == dir' = removeFileDescriptorCB(dir, fd, op)

\* The dataflow initializes the element: both sockets on, and ACTIVE.
Initialize(fd) ==
  /\ fdpc = "loop" /\ sockState[fd] = "NEW"
  /\ dir' = fileDescriptorCB(fileDescriptorCB(dir, fd, "write"), fd, "read")
  /\ sockState' = [sockState EXCEPT ![fd] = "ACTIVE"]
  /\ UNCHANGED <<readResultBits, writeResultBits, fdpc, push_pending, pull_pending,
                 owesRx, owesTx, envvars>>

\* A dataflow edit takes Rx out of the graph, its callback stays.
Deactivate(fd) ==
  /\ fdpc = "loop" /\ sockState[fd] = "ACTIVE"
  /\ sockState' = [sockState EXCEPT ![fd] = "INACTIVE"]
  /\ UNCHANGED <<fdvars, push_pending, pull_pending, owesRx, owesTx, envvars>>

-----------------------------------------------------------------------------
(* Rx.                                                                     *)

\* push is not enabled: turn the callback off.
RxBlocked(fd) ==
  /\ VisitRead(fd) /\ sockState[fd] = "ACTIVE" /\ ~push_pending[fd]
  /\ socket_off(fd, "read")
  /\ UNCHANGED <<elemvars, envvars>>

\* recvfrom fails, or the datagram is empty.
RxError(fd) ==
  /\ VisitRead(fd) /\ sockState[fd] = "ACTIVE" /\ push_pending[fd]
  /\ inq' = [inq EXCEPT ![fd] = @ - 1]
  /\ socket_on(fd, "read")
  /\ UNCHANGED <<elemvars, arrived, outq, offered>>

\* Read a datagram and push it; ok is what push returns.
RxPush(fd, ok) ==
  /\ VisitRead(fd) /\ sockState[fd] = "ACTIVE" /\ push_pending[fd]
  /\ inq' = [inq EXCEPT ![fd] = @ - 1]
  /\ push_pending' = [push_pending EXCEPT ![fd] = ok]
  /\ owesRx' = [owesRx EXCEPT ![fd] = ~ok]
  /\ socket_on(fd, "read")
  /\ UNCHANGED <<sockState, pull_pending, owesTx, arrived, outq, offered>>

\* "NOT RUNNING CALLBACK: element not active"
RxInactive(fd) ==
  /\ VisitRead(fd) /\ sockState[fd] # "ACTIVE"
  /\ UNCHANGED <<dir, elemvars, envvars>>

\* The dataflow can take tuples again.
RxElementCB(fd) ==
  /\ owesRx[fd] /\ fdpc = "loop"
  /\ owesRx' = [owesRx EXCEPT ![fd] = FALSE]
  /\ push_pending' = [push_pending EXCEPT ![fd] = TRUE]
  /\ socket_on(fd, "read")
  /\ UNCHANGED <<readResultBits, writeResultBits, fdpc, sockState, pull_pending, owesTx,
                 envvars>>

-----------------------------------------------------------------------------
(* Tx.                                                                     *)

\* Turn the callback off, if pull is not enabled or there is nothing to pull.
TxNothing(fd) ==
  /\ VisitWrite(fd) /\ (pull_pending[fd] => outq[fd] = 0)
  /\ pull_pending' = [pull_pending EXCEPT ![fd] = FALSE]
  /\ owesTx' = [owesTx EXCEPT ![fd] = @ \/ pull_pending[fd]]
  /\ socket_off(fd, "write")
  /\ UNCHANGED <<sockState, push_pending, owesRx, envvars>>

\* Pull a tuple and send it, whether or not sendto succeeds.
TxSend(fd) ==
  /\ VisitWrite(fd) /\ pull_pending[fd] /\ outq[fd] > 0
  /\ outq' = [outq EXCEPT ![fd] = @ - 1]
  /\ socket_on(fd, "write")
  /\ UNCHANGED <<elemvars, inq, arrived, offered>>

\* There is something to pull again.
TxElementCB(fd) ==
  /\ owesTx[fd] /\ fdpc = "loop" /\ outq[fd] > 0
  /\ owesTx' = [owesTx EXCEPT ![fd] = FALSE]
  /\ pull_pending' = [pull_pending EXCEPT ![fd] = TRUE]
  /\ socket_on(fd, "write")
  /\ UNCHANGED <<readResultBits, writeResultBits, fdpc, sockState, push_pending, owesRx,
                 envvars>>

-----------------------------------------------------------------------------
(* The network and the dataflow.                                           *)

Arrive(fd) ==
  /\ arrived[fd] < MaxIn
  /\ arrived' = [arrived EXCEPT ![fd] = @ + 1]
  /\ inq' = [inq EXCEPT ![fd] = @ + 1]
  /\ UNCHANGED <<fdvars, elemvars, outq, offered>>

Offer(fd) ==
  /\ offered[fd] < MaxOut /\ fdpc = "loop"
  /\ offered' = [offered EXCEPT ![fd] = @ + 1]
  /\ outq' = [outq EXCEPT ![fd] = @ + 1]
  /\ UNCHANGED <<fdvars, elemvars, inq, arrived>>

\* Every readable socket is reported, and any of the writable ones.
Select(writable) ==
  /\ PSelect({fd \in FDs : inq[fd] > 0}, writable)
  /\ UNCHANGED <<elemvars, envvars>>

Done == CatchupDone /\ UNCHANGED <<elemvars, envvars>>

Rx(fd) ==
  RxBlocked(fd) \/ RxError(fd) \/ RxInactive(fd) \/ \E ok \in BOOLEAN : RxPush(fd, ok)

Tx(fd) == TxNothing(fd) \/ TxSend(fd)

UdpNext ==
  \/ \E fd \in FDs :
       \/ Initialize(fd) \/ Deactivate(fd) \/ Rx(fd) \/ Tx(fd)
       \/ RxElementCB(fd) \/ TxElementCB(fd) \/ Arrive(fd) \/ Offer(fd)
  \/ \E writable \in SUBSET FDs : Select(writable)
  \/ Done

UdpSpec == UdpInit /\ [][UdpNext]_udpvars

-----------------------------------------------------------------------------
(* Properties.                                                             *)

\* Types of the directory and of the pass.
FdTypeOK ==
  /\ dir \in Directories
  /\ readResultBits \subseteq FDs /\ writeResultBits \subseteq FDs
  /\ fdpc \in {"loop", "catchup"}

\* pselect watches exactly the descriptors that have a callback, whatever
\* order of fileDescriptorCB and removeFileDescriptorCB led there: every bit is
\* backed by a callback, and every callback by a bit below nextFD.
BitsMatch ==
  /\ dir.readBits = {fd \in FDs : <<fd, "read">> \in dir.callbacks}
  /\ dir.writeBits = {fd \in FDs : <<fd, "write">> \in dir.callbacks}
  /\ \A c \in dir.callbacks : c[1] < dir.nextFD

\* "It'd better be there": the callback of a descriptor that pselect reported
\* is still there when the pass reaches it, although the callbacks of the pass
\* that run before it remove callbacks.
CallbackPresent ==
  /\ \A fd \in readResultBits : <<fd, "read">> \in dir.callbacks
  /\ \A fd \in writeResultBits : <<fd, "write">> \in dir.callbacks

\* Types.
UdpTypeOK ==
  /\ FdTypeOK
  /\ sockState \in [FDs -> {"NEW", "ACTIVE", "INACTIVE"}]
  /\ {push_pending, pull_pending, owesRx, owesTx} \subseteq [FDs -> BOOLEAN]
  /\ inq \in [FDs -> 0..MaxIn] /\ outq \in [FDs -> 0..MaxOut]

\* pselect watches the descriptors that have a callback, and the pass finds the
\* callbacks of those it reported, whatever the sockets turn off meanwhile.
DescriptorsRight == UdpTypeOK /\ BitsMatch /\ CallbackPresent

\* An element that may push or pull listens to its socket, and one that may not
\* is owed a callback: no order of refusals, socket events and element_cb
\* leaves a socket off for good.
NeverDeaf ==
  \A fd \in FDs : sockState[fd] # "NEW" =>
    /\ IF push_pending[fd] THEN <<fd, "read">> \in dir.callbacks ELSE owesRx[fd]
    /\ IF pull_pending[fd] THEN <<fd, "write">> \in dir.callbacks ELSE owesTx[fd]
=============================================================================
