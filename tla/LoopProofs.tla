----------------------------- MODULE LoopProofs -----------------------------
(***************************************************************************)
(* Proofs about the event loop: its timed callbacks, for any number of     *)
(* elements and handles, any delays and any clock; its descriptor          *)
(* callbacks and the UDP sockets, for any number of descriptors, datagrams *)
(* and tuples.                                                             *)
(***************************************************************************)
EXTENDS Loop, Udp, WellFoundedInduction, TLAPS

\* Handles are stamped in order, at times that have not passed when they are
\* scheduled, and the pass began when callbackID was first.
Stamped ==
  /\ callbackID \in Nat /\ first \in 0..callbackID
  /\ \A h \in callbacks : h.time \in Nat /\ h.ID < callbackID

\* What is left in front of the iterator was scheduled during the pass.
Passed ==
  pc \in {"pass", "run", "ran"} =>
    \A h \in callbacks : iter = NULL \/ Less(h, iter) => h.ID >= first

LoopInv == TypeOK /\ Stamped /\ IterValid /\ Passed /\ NoOversleep

-----------------------------------------------------------------------------
(* The order of the queue.                                                 *)

\* Every set of natural numbers has a least one.
LEMMA LeastNatural ==
  ASSUME NEW T \in SUBSET Nat, T # {}
  PROVE  \E x \in T : \A y \in T : x <= y
<1>. DEFINE R == OpToRel(<, Nat)
<1>1. IsWellFoundedOn(R, Nat)
  BY NatLessThanWellFounded
<1>2. \A x, y \in Nat : <<y, x>> \in R <=> y < x
  BY DEF OpToRel
<1>. HIDE DEF R
<1>3. PICK x \in T : \A y \in T : ~(<<y, x>> \in R)
  BY <1>1, WFMin
<1>4. \A y \in T : ~(y < x)
  BY <1>2, <1>3
<1>5. \A y \in T : x <= y
  BY <1>4
<1>. QED BY <1>5

\* What the queue holds: handles at natural times that differ in their IDs.
Queue(S) ==
  /\ S \subseteq Handles /\ \A h \in S : h.time \in Nat
  /\ \A g, h \in S : g.ID = h.ID => g = h

\* timeCBHandleLess orders the queue, so that begin() is its least handle.
LEMMA FirstIsLeast ==
  ASSUME NEW S, Queue(S), S # {}
  PROVE  /\ First(S) \in S /\ First(S) # NULL
         /\ \A g \in S : g = First(S) \/ Less(First(S), g)
<1>. DEFINE times == {h.time : h \in S}
<1>1. times \in SUBSET Nat /\ times # {}
  BY DEF Queue
<1>2. PICK t \in times : \A u \in times : t <= u
  BY <1>1, LeastNatural
<1>. DEFINE ids == {h.ID : h \in {g \in S : g.time = t}}
<1>3. ids \in SUBSET Nat /\ ids # {}
  BY <1>2 DEF Queue, Handles
<1>4. PICK i \in ids : \A j \in ids : i <= j
  BY <1>3, LeastNatural
<1>5. PICK h \in S : h.time = t /\ h.ID = i
  BY <1>4
<1>6. ASSUME NEW g \in S \ {h}
      PROVE  Less(h, g)
  <2>1. g.time \in times /\ t \in Nat /\ g.time \in Nat /\ t <= g.time
    BY <1>1, <1>2, <1>6
  <2>2. CASE t < g.time
    BY <2>2, <1>5 DEF Less
  <2>3. CASE t = g.time
    <3>1. g.ID \in ids
      BY <2>3
    <3>2. g.ID \in Nat /\ i \in Nat
      BY <3>1, <1>3, <1>4
    <3>3. g.ID # i
      BY <1>5, <1>6 DEF Queue
    <3>4. i <= g.ID
      BY <3>1, <1>4
    <3>5. i < g.ID
      BY <3>2, <3>3, <3>4
    <3>. QED BY <3>5, <2>3, <1>5 DEF Less
  <2>. QED BY <2>1, <2>2, <2>3
<1>7. First(S) = CHOOSE x \in S : \A g \in S \ {x} : Less(x, g)
  BY DEF First
<1>8. First(S) \in S /\ \A g \in S \ {First(S)} : Less(First(S), g)
  BY <1>6, <1>7
<1>. QED BY <1>8, LoopAssumption DEF Queue

\* Two handles of a queue are ordered one way.
LEMMA LessTotal ==
  ASSUME NEW S, Queue(S), NEW g \in S, NEW h \in S
  PROVE  /\ g = h \/ Less(g, h) \/ Less(h, g)
         /\ ~(Less(g, h) /\ Less(h, g)) /\ ~Less(g, g)
BY DEF Queue, Less, Handles

-----------------------------------------------------------------------------
(* One lemma per step of the loop and of the code it calls.                *)

\* The loop starts with an empty queue.
LEMMA InitInv == Init => LoopInv
BY LoopAssumption DEF Init, LoopInv, TypeOK, Stamped, IterValid, Passed, NoOversleep

\* The queue that the invariant speaks of.
LEMMA CallbacksQueue == LoopInv => Queue(callbacks)
BY DEF LoopInv, TypeOK, Stamped, Queue

\* Time passes: what pselect sleeps for was fixed before.
LEMMA TickInv ==
  ASSUME LoopInv, Tick
  PROVE  LoopInv'
<1>1. TypeOK'
  BY LoopAssumption DEF LoopInv, TypeOK, Tick
<1>2. Stamped' /\ IterValid' /\ Passed'
  BY DEF LoopInv, Stamped, IterValid, Passed, Tick
<1>3. NoOversleep'
  BY DEF LoopInv, NoOversleep, Tick
<1>. QED BY <1>1, <1>2, <1>3 DEF LoopInv

\* delayCB: the new handle has an ID of its own, and no callback is in the queue
\* for a time before the clock's.  It may go before the iterator.
LEMMA delayCBInv ==
  ASSUME LoopInv, pc \in {"run", "procs", "fds"},
         NEW d \in Delays, NEW e \in Elements \cup {NULL}, delayCB(d, e)
  PROVE  LoopInv'
<1>. DEFINE new == [time |-> clock + d, ID |-> callbackID, owner |-> e]
<1>1. d \in Nat /\ clock \in Nat /\ callbackID \in Nat
  BY LoopAssumption DEF LoopInv, TypeOK, Stamped, delayCB
<1>2. new \in Handles /\ new.time \in Nat /\ new.ID = callbackID
  BY <1>1 DEF Handles
<1>3. callbacks' = callbacks \cup {new} /\ callbackID' = callbackID + 1
  BY DEF delayCB
<1>4. \A h \in callbacks : h.ID \in Nat /\ h.ID < callbackID
  BY DEF LoopInv, TypeOK, Stamped, Handles
<1>. HIDE DEF new
<1>5. \A g, h \in callbacks' : g.ID = h.ID => g = h
  BY <1>1, <1>2, <1>3, <1>4 DEF LoopInv, TypeOK
<1>6. active' \subseteq 0..(callbackID' - 1)
  BY <1>1, <1>3 DEF LoopInv, TypeOK, delayCB
<1>7. TypeOK'
  BY <1>2, <1>3, <1>5, <1>6 DEF LoopInv, TypeOK, delayCB
<1>8. Stamped'
  <2>1. first' \in 0..callbackID' /\ callbackID' \in Nat
    BY <1>1, <1>3 DEF LoopInv, Stamped, delayCB
  <2>2. \A h \in callbacks' : h.time \in Nat /\ h.ID < callbackID'
    BY <1>1, <1>2, <1>3, <1>4 DEF LoopInv, Stamped
  <2>. QED BY <2>1, <2>2 DEF Stamped
<1>9. IterValid' /\ NoOversleep'
  BY <1>3 DEF LoopInv, IterValid, NoOversleep, delayCB
<1>10. Passed'
  BY <1>1, <1>2, <1>3 DEF LoopInv, Stamped, Passed, delayCB
<1>. QED BY <1>7, <1>8, <1>9, <1>10 DEF LoopInv

\* What else callbacks and processes do leaves the queue alone.
LEMMA CodeInv ==
  ASSUME LoopInv, Code
  PROVE  LoopInv'
<1>1. ASSUME NEW d \in Delays, NEW e \in Elements \cup {NULL}, delayCB(d, e)
      PROVE  LoopInv'
  BY <1>1, delayCBInv DEF Code
<1>2. ASSUME NEW d \in Delays, delayCBAsserts(d)
      PROVE  LoopInv'
  BY <1>2 DEF LoopInv, TypeOK, Stamped, IterValid, Passed, NoOversleep, delayCBAsserts
<1>3. ASSUME NEW h, timeCBRemove(h)
      PROVE  LoopInv'
  BY <1>3 DEF LoopInv, TypeOK, Stamped, IterValid, Passed, NoOversleep, timeCBRemove
<1>4. ASSUME NEW e \in Elements, SetState(e)
      PROVE  LoopInv'
  BY <1>4 DEF LoopInv, TypeOK, Stamped, IterValid, Passed, NoOversleep, SetState
<1>. QED BY <1>1, <1>2, <1>3, <1>4 DEF Code

\* The pass starts at the first handle.
LEMMA StartPassInv ==
  ASSUME LoopInv, StartPass
  PROVE  LoopInv'
<1>1. Queue(callbacks)
  BY CallbacksQueue
<1>2. callbacks # {} =>
        /\ iter' \in callbacks /\ iter' # NULL
        /\ \A g \in callbacks : g = iter' \/ Less(iter', g)
  BY <1>1, FirstIsLeast DEF StartPass
<1>3. callbacks = {} => iter' = NULL
  BY DEF StartPass, First
<1>4. TypeOK'
  BY <1>2, <1>3, LoopAssumption DEF LoopInv, TypeOK, StartPass
<1>5. Stamped' /\ IterValid' /\ NoOversleep'
  BY <1>2, <1>3 DEF LoopInv, Stamped, IterValid, NoOversleep, StartPass
<1>6. Passed'
  <2>1. \A h \in callbacks : ~(iter' = NULL \/ Less(h, iter'))
    BY <1>1, <1>2, LessTotal
  <2>. QED BY <2>1 DEF Passed, StartPass
<1>. QED BY <1>4, <1>5, <1>6 DEF LoopInv

\* The iterator moves on before its handle leaves the queue.
LEMMA TakeExpiredInv ==
  ASSUME LoopInv, TakeExpired
  PROVE  LoopInv'
<1>. DEFINE later == {g \in callbacks : Less(iter, g)}
<1>1. Queue(callbacks) /\ Queue(later)
  BY CallbacksQueue DEF Queue
<1>2. iter \in callbacks /\ iter' = First(later) /\ callbacks' = callbacks \ {iter}
  BY DEF LoopInv, IterValid, TakeExpired, Expired, Successor
<1>3. iter \notin later
  BY <1>1, <1>2, LessTotal
<1>4. later # {} =>
        /\ iter' \in later /\ iter' # NULL
        /\ \A g \in later : g = iter' \/ Less(iter', g)
  BY <1>1, <1>2, FirstIsLeast
<1>5. later = {} => iter' = NULL
  BY <1>2 DEF First
<1>6. IterValid'
  BY <1>2, <1>3, <1>4, <1>5 DEF IterValid
<1>7. TypeOK'
  BY <1>2, <1>4, <1>5 DEF LoopInv, TypeOK, TakeExpired
<1>8. Stamped' /\ NoOversleep'
  BY <1>2 DEF LoopInv, Stamped, NoOversleep, TakeExpired
<1>9. ASSUME NEW h \in callbacks', iter' = NULL \/ Less(h, iter')
      PROVE  h.ID >= first'
  <2>1. h \in callbacks /\ h # iter
    BY <1>2, <1>9
  <2>2. h \notin later
    <3>1. CASE later = {}
      BY <3>1
    <3>2. CASE later # {}
      BY <3>2, <2>1, <1>1, <1>4, <1>9, LessTotal
    <3>. QED BY <3>1, <3>2
  <2>3. Less(h, iter)
    BY <2>1, <2>2, <1>1, <1>2, LessTotal
  <2>. QED BY <2>1, <2>3 DEF LoopInv, Passed, TakeExpired
<1>10. Passed'
  BY <1>9 DEF Passed
<1>. QED BY <1>6, <1>7, <1>8, <1>10 DEF LoopInv

\* A callback returns, its handle is deleted and the clock is read again.
LEMMA HandleDoneInv ==
  ASSUME LoopInv, Return \/ DeleteHandle
  PROVE  LoopInv'
<1>1. CASE Return
  BY <1>1 DEF LoopInv, TypeOK, Stamped, IterValid, Passed, NoOversleep, Return
<1>2. CASE DeleteHandle
  <2>1. TypeOK'
    <3>1. active' \subseteq 0..(callbackID' - 1)
      BY <1>2 DEF LoopInv, TypeOK, DeleteHandle
    <3>2. now' \in 0..clock' /\ clock' \in 0..MaxTime /\ wait' \in 0..MaxWait
      BY <1>2, LoopAssumption DEF LoopInv, TypeOK, DeleteHandle
    <3>. QED BY <1>2, <3>1, <3>2 DEF LoopInv, TypeOK, DeleteHandle
  <2>2. Stamped' /\ IterValid' /\ Passed' /\ NoOversleep'
    BY <1>2 DEF LoopInv, Stamped, IterValid, Passed, NoOversleep, DeleteHandle
  <2>. QED BY <2>1, <2>2 DEF LoopInv
<1>. QED BY <1>1, <1>2

\* Inactive handles leave the queue when no iterator points at them.
LEMMA CleanHouseInv ==
  ASSUME LoopInv, CleanHouse
  PROVE  LoopInv'
<1>1. TypeOK'
  BY DEF LoopInv, TypeOK, CleanHouse
<1>2. Stamped' /\ IterValid' /\ Passed' /\ NoOversleep'
  BY DEF LoopInv, Stamped, IterValid, Passed, NoOversleep, CleanHouse
<1>. QED BY <1>1, <1>2 DEF LoopInv

\* The wait ends when the first callback is due, and so when any is.
LEMMA ProcessesDoneInv ==
  ASSUME LoopInv, NEW ran \in BOOLEAN, ProcessesDone(ran)
  PROVE  LoopInv'
<1>. DEFINE w == IF ran THEN 0 ELSE wait
            h == First(callbacks)
<1>1. w \in 0..MaxWait /\ clock \in Nat
  BY LoopAssumption DEF LoopInv, TypeOK
<1>2. Queue(callbacks)
  BY CallbacksQueue
<1>3. CASE callbacks = {}
  <2>1. wait' = w /\ now' = clock /\ callbacks' = {}
    BY <1>3 DEF ProcessesDone, TimeLeft
  <2>2. TypeOK'
    BY <2>1, <1>1, LoopAssumption DEF LoopInv, TypeOK, ProcessesDone
  <2>3. Stamped' /\ IterValid' /\ Passed' /\ NoOversleep'
    BY <2>1 DEF LoopInv, Stamped, IterValid, Passed, NoOversleep, ProcessesDone
  <2>. QED BY <2>2, <2>3 DEF LoopInv
<1>4. CASE callbacks # {}
  <2>1. /\ h \in callbacks
        /\ \A g \in callbacks : g = h \/ Less(h, g)
    BY <1>2, <1>4, FirstIsLeast
  <2>2. \A g \in callbacks : g.time \in Nat
    BY DEF LoopInv, Stamped
  <2>3. \A g \in callbacks : h.time <= g.time
    BY <2>1, <2>2 DEF Less
  <2>4. wait' = (IF h.time < clock THEN 0
                 ELSE IF w > h.time - clock THEN h.time - clock ELSE w)
    BY <1>4 DEF ProcessesDone, TimeLeft
  <2>. HIDE DEF h, w
  <2>5. /\ wait' \in 0..MaxWait
        /\ clock + wait' <= (IF h.time < clock THEN clock ELSE h.time)
    BY <1>1, <2>1, <2>2, <2>4, LoopAssumption
  <2>6. \A g \in callbacks : clock + wait' <= (IF g.time < clock THEN clock ELSE g.time)
    BY <1>1, <2>1, <2>2, <2>3, <2>5, LoopAssumption
  <2>7. TypeOK'
    BY <2>5, LoopAssumption DEF LoopInv, TypeOK, ProcessesDone
  <2>8. NoOversleep'
    BY <2>6 DEF NoOversleep, ProcessesDone
  <2>9. Stamped' /\ IterValid' /\ Passed'
    BY DEF LoopInv, Stamped, IterValid, Passed, ProcessesDone
  <2>. QED BY <2>7, <2>8, <2>9 DEF LoopInv
<1>. QED BY <1>3, <1>4

\* pselect returns, and the descriptor callbacks run.
LEMMA PSelectInv ==
  ASSUME LoopInv, Timeout \/ DescriptorsReady \/ DescriptorsDone
  PROVE  LoopInv'
BY DEF LoopInv, TypeOK, Stamped, IterValid, Passed, NoOversleep, Timeout, DescriptorsReady,
       DescriptorsDone

\* Every step of the loop preserves the invariant.
LEMMA NextInv ==
  ASSUME LoopInv, [Next]_vars
  PROVE  LoopInv'
<1>1. CASE UNCHANGED vars
  BY <1>1 DEF LoopInv, TypeOK, Stamped, IterValid, Passed, NoOversleep, vars
<1>2. CASE Pass
  BY <1>2, StartPassInv, TakeExpiredInv, HandleDoneInv, CleanHouseInv DEF Pass
<1>3. CASE Next /\ ~Pass
  BY <1>3, TickInv, CodeInv, ProcessesDoneInv, PSelectInv DEF Next
<1>. QED BY <1>1, <1>2, <1>3

-----------------------------------------------------------------------------
\* The inductive invariant of the timed callbacks.
THEOREM LoopInvariant == Spec => []LoopInv
<1>1. LoopInv /\ [Next]_vars => LoopInv'
  BY NextInv
<1>. QED BY <1>1, InitInv, PTL DEF Spec

\* The iterator of timeCBCatchup never dangles, whatever the callbacks of the pass
\* schedule, remove or turn off.
THEOREM IteratorValid == Spec => [](TypeOK /\ IterValid)
<1>1. LoopInv => TypeOK /\ IterValid
  BY DEF LoopInv
<1>. QED BY <1>1, LoopInvariant, PTL

\* pselect never sleeps past the time the first callback is due (eventLoop).
THEOREM NeverOversleeps == Spec => []NoOversleep
<1>1. LoopInv => NoOversleep
  BY DEF LoopInv
<1>. QED BY <1>1, LoopInvariant, PTL

\* timeCBCatchup runs a callback only when it is due, if no earlier one removed it,
\* once, and those queued when the pass begins in the order of the queue.
THEOREM CallbacksCorrect == Spec => CallbacksRight
<1>1. ASSUME LoopInv, [Next]_vars, pc = "pass", pc' = "run"
      PROVE  TakeExpired
  BY <1>1 DEF Next, Pass, Tick, Code, StartPass, Return, DeleteHandle, CleanHouse,
       ProcessesDone, Timeout, DescriptorsReady, DescriptorsDone, vars
<1>2. LoopInv /\ [Next]_vars => RunsRight
  <2>. SUFFICES ASSUME LoopInv, [Next]_vars, pc = "pass", pc' = "run"
                PROVE  /\ running'.time <= clock /\ running'.ID \in active
                       /\ running' \notin callbacks'
    BY DEF RunsRight
  <2>1. TakeExpired
    BY <1>1
  <2>2. iter \in callbacks /\ iter.time <= now /\ running' = iter
    BY <2>1 DEF LoopInv, IterValid, TakeExpired, Expired, Due
  <2>3. iter.time \in Nat /\ now \in Nat /\ clock \in Nat /\ now <= clock
    BY <2>2, LoopAssumption DEF LoopInv, TypeOK, Stamped
  <2>. QED BY <2>1, <2>2, <2>3 DEF TakeExpired
<1>3. LoopInv /\ [Next]_vars => InOrder
  <2>. SUFFICES ASSUME LoopInv, [Next]_vars, pc = "pass", pc' = "run",
                       NEW h \in callbacks', Less(h, running')
                PROVE  h.ID >= first
    BY DEF InOrder
  <2>1. TakeExpired
    BY <1>1
  <2>. QED BY <2>1 DEF LoopInv, Passed, TakeExpired
<1>4. LoopInv /\ [Next]_vars => [RunsRight /\ InOrder]_vars
  BY <1>2, <1>3
<1>. QED BY <1>4, LoopInvariant, PTL DEF Spec, CallbacksRight

-----------------------------------------------------------------------------
(* Descriptor callbacks and sockets.                                       *)

\* A datagram that pselect reported waits until the pass reads it, and no more
\* wait than have arrived.
Traffic ==
  /\ arrived \in [FDs -> 0..MaxIn] /\ offered \in [FDs -> 0..MaxOut]
  /\ \A fd \in FDs : inq[fd] <= arrived[fd] /\ outq[fd] <= offered[fd]
  /\ \A fd \in readResultBits : inq[fd] > 0
  /\ fdpc = "loop" => readResultBits = {} /\ writeResultBits = {}

\* Nothing has happened to a socket whose element is not initialized.
Fresh ==
  \A fd \in FDs : sockState[fd] = "NEW" =>
    /\ push_pending[fd] /\ pull_pending[fd] /\ ~owesRx[fd] /\ ~owesTx[fd]
    /\ <<fd, "read">> \notin dir.callbacks /\ <<fd, "write">> \notin dir.callbacks

UdpInv == UdpTypeOK /\ Traffic /\ BitsMatch /\ CallbackPresent /\ NeverDeaf /\ Fresh

\* What fileDescriptorCB keeps of a directory: its type, and that bits and
\* callbacks agree.
DirOK(d) ==
  /\ d \in Directories
  /\ d.readBits = {fd \in FDs : <<fd, "read">> \in d.callbacks}
  /\ d.writeBits = {fd \in FDs : <<fd, "write">> \in d.callbacks}
  /\ \A c \in d.callbacks : c[1] < d.nextFD

-----------------------------------------------------------------------------
\* The maximum of two numbers is one of them and no smaller than either.
LEMMA MaxOfTwo ==
  ASSUME NEW a \in Int, NEW b \in Int
  PROVE  Max({a, b}) \in {a, b} /\ Max({a, b}) >= a /\ Max({a, b}) >= b
<1>1. \E x \in {a, b} : \A y \in {a, b} : x >= y
  <2>1. CASE a >= b
    BY <2>1
  <2>2. CASE b >= a
    BY <2>2
  <2>. QED BY <2>1, <2>2
<1>. QED BY <1>1 DEF Max

\* nextFD never drops, and passes the descriptor (fileDescriptorCB).
LEMMA NextFDPasses ==
  ASSUME NEW n \in Nat, NEW fd \in Nat
  PROVE  NextFD(n, fd) \in Nat /\ NextFD(n, fd) >= n /\ fd < NextFD(n, fd)
<1>1. fd + 1 \in Int /\ n \in Int
  OBVIOUS
<1>2. /\ Max({fd + 1, n}) \in {fd + 1, n}
      /\ Max({fd + 1, n}) >= fd + 1 /\ Max({fd + 1, n}) >= n
  BY <1>1, MaxOfTwo
<1>. QED BY <1>2 DEF NextFD

\* fileDescriptorCB adds a callback with its bit, and loses none.
LEMMA AddKeepsDir ==
  ASSUME NEW d, DirOK(d), NEW fd \in FDs, NEW op \in {"read", "write"}
  PROVE  /\ DirOK(fileDescriptorCB(d, fd, op))
         /\ fileDescriptorCB(d, fd, op).callbacks = d.callbacks \cup {<<fd, op>>}
<1>1. CASE <<fd, op>> \in d.callbacks
  BY <1>1 DEF fileDescriptorCB
<1>2. CASE <<fd, op>> \notin d.callbacks
  <2>. DEFINE e == fileDescriptorCB(d, fd, op)
  <2>1. /\ e.callbacks = d.callbacks \cup {<<fd, op>>}
        /\ e.readBits = IF op = "read" THEN d.readBits \cup {fd} ELSE d.readBits
        /\ e.writeBits = IF op = "write" THEN d.writeBits \cup {fd} ELSE d.writeBits
        /\ e.nextFD = NextFD(d.nextFD, fd)
    BY <1>2 DEF fileDescriptorCB
  <2>2. fd \in Nat /\ d.nextFD \in Nat
    BY FDsAssumption DEF DirOK, Directories
  <2>3. e.nextFD \in Nat /\ e.nextFD >= d.nextFD /\ fd < e.nextFD
    BY <2>1, <2>2, NextFDPasses
  <2>4. e \in Directories
    BY <1>2, <2>3 DEF fileDescriptorCB, Directories, DirOK
  <2>5. \A c \in e.callbacks : c[1] < e.nextFD
    <3>1. SUFFICES ASSUME NEW c \in d.callbacks PROVE c[1] < e.nextFD
      BY <2>1, <2>3
    <3>2. c[1] \in Nat /\ c[1] < d.nextFD
      BY FDsAssumption DEF DirOK, Directories
    <3>. QED BY <3>2, <2>2, <2>3
  <2>6. e.readBits = {g \in FDs : <<g, "read">> \in e.callbacks}
    BY <2>1 DEF DirOK
  <2>7. e.writeBits = {g \in FDs : <<g, "write">> \in e.callbacks}
    BY <2>1 DEF DirOK
  <2>. QED BY <2>1, <2>4, <2>5, <2>6, <2>7 DEF DirOK
<1>. QED BY <1>1, <1>2

\* removeFileDescriptorCB takes a callback away with its bit, and no other.
LEMMA RemoveKeepsDir ==
  ASSUME NEW d, DirOK(d), NEW fd \in FDs, NEW op \in {"read", "write"}
  PROVE  /\ DirOK(removeFileDescriptorCB(d, fd, op))
         /\ removeFileDescriptorCB(d, fd, op).callbacks = d.callbacks \ {<<fd, op>>}
<1>. DEFINE e == removeFileDescriptorCB(d, fd, op)
<1>1. /\ e.callbacks = d.callbacks \ {<<fd, op>>}
      /\ e.readBits = IF op = "read" THEN d.readBits \ {fd} ELSE d.readBits
      /\ e.writeBits = IF op = "write" THEN d.writeBits \ {fd} ELSE d.writeBits
      /\ e.nextFD = d.nextFD
      /\ e \in Directories
  BY DEF removeFileDescriptorCB, DirOK, Directories
<1>2. e.readBits = {g \in FDs : <<g, "read">> \in e.callbacks}
  BY <1>1 DEF DirOK
<1>3. e.writeBits = {g \in FDs : <<g, "write">> \in e.callbacks}
  BY <1>1 DEF DirOK
<1>. QED BY <1>1, <1>2, <1>3 DEF DirOK

-----------------------------------------------------------------------------
(* One lemma per step of the sockets and of the pass.                      *)

\* The sockets start with an empty directory.
LEMMA SocketsInitInv == Bounds /\ UdpInit => UdpInv
<1>. SUFFICES ASSUME Bounds, UdpInit PROVE UdpInv
  OBVIOUS
<1>1. UdpTypeOK
  BY DEF Bounds, UdpInit, FdInit, EmptyDir, UdpTypeOK, FdTypeOK, Directories
<1>2. Traffic
  BY DEF Bounds, UdpInit, FdInit, Traffic
<1>3. BitsMatch /\ CallbackPresent /\ NeverDeaf /\ Fresh
  BY DEF UdpInit, FdInit, EmptyDir, BitsMatch, CallbackPresent, NeverDeaf, Fresh
<1>. QED BY <1>1, <1>2, <1>3 DEF UdpInv

\* Initialize turns both sockets on.
LEMMA InitializeInv ==
  ASSUME UdpInv, NEW fd \in FDs, Initialize(fd)
  PROVE  UdpInv'
<1>1. DirOK(dir)
  BY DEF UdpInv, UdpTypeOK, FdTypeOK, BitsMatch, DirOK
<1>. DEFINE d == fileDescriptorCB(dir, fd, "write")
<1>2. DirOK(d) /\ d.callbacks = dir.callbacks \cup {<<fd, "write">>}
  BY <1>1, AddKeepsDir
<1>3. dir' = fileDescriptorCB(d, fd, "read")
  BY DEF Initialize
<1>. HIDE DEF d
<1>4. DirOK(dir') /\ dir'.callbacks = d.callbacks \cup {<<fd, "read">>}
  BY <1>2, <1>3, AddKeepsDir
<1>5. dir'.callbacks = dir.callbacks \cup {<<fd, "write">>, <<fd, "read">>}
  BY <1>2, <1>4
<1>6. UdpTypeOK'
  BY <1>4 DEF UdpInv, UdpTypeOK, FdTypeOK, DirOK, Initialize, envvars
<1>7. Traffic'
  BY DEF UdpInv, Traffic, Initialize, envvars
<1>8. BitsMatch'
  BY <1>4 DEF DirOK, BitsMatch
<1>9. CallbackPresent'
  BY <1>5 DEF UdpInv, CallbackPresent, Initialize
<1>10. NeverDeaf'
  BY <1>5 DEF UdpInv, UdpTypeOK, NeverDeaf, Fresh, Initialize
<1>11. Fresh'
  BY <1>5 DEF UdpInv, UdpTypeOK, Fresh, Initialize
<1>. QED BY <1>6, <1>7, <1>8, <1>9, <1>10, <1>11 DEF UdpInv

\* A step that leaves the callbacks alone.
LEMMA DeactivateInv ==
  ASSUME UdpInv, NEW fd \in FDs, Deactivate(fd)
  PROVE  UdpInv'
<1>1. UdpTypeOK'
  BY DEF UdpInv, UdpTypeOK, FdTypeOK, Deactivate, fdvars, envvars
<1>2. Traffic' /\ BitsMatch' /\ CallbackPresent'
  BY DEF UdpInv, Traffic, BitsMatch, CallbackPresent, Deactivate, fdvars, envvars
<1>3. NeverDeaf' /\ Fresh'
  BY DEF UdpInv, UdpTypeOK, NeverDeaf, Fresh, Deactivate, fdvars
<1>. QED BY <1>1, <1>2, <1>3 DEF UdpInv

\* Rx turns itself off only while the dataflow holds its callback.
LEMMA RxBlockedInv ==
  ASSUME UdpInv, NEW fd \in FDs, RxBlocked(fd)
  PROVE  UdpInv'
<1>1. DirOK(dir)
  BY DEF UdpInv, UdpTypeOK, FdTypeOK, BitsMatch, DirOK
<1>2. DirOK(dir') /\ dir'.callbacks = dir.callbacks \ {<<fd, "read">>}
  BY <1>1, RemoveKeepsDir DEF RxBlocked, socket_off
<1>3. UdpTypeOK'
  BY <1>2 DEF UdpInv, UdpTypeOK, FdTypeOK, DirOK, RxBlocked, VisitRead, elemvars, envvars
<1>4. Traffic'
  BY DEF UdpInv, Traffic, RxBlocked, VisitRead, envvars
<1>5. BitsMatch' /\ CallbackPresent'
  BY <1>2 DEF UdpInv, DirOK, BitsMatch, CallbackPresent, RxBlocked, VisitRead
<1>6. NeverDeaf' /\ Fresh'
  BY <1>2 DEF UdpInv, NeverDeaf, Fresh, RxBlocked, elemvars
<1>. QED BY <1>3, <1>4, <1>5, <1>6 DEF UdpInv

\* A datagram that pselect reported is there to read, and Rx stays on.
LEMMA RxErrorInv ==
  ASSUME Bounds, UdpInv, NEW fd \in FDs, RxError(fd)
  PROVE  UdpInv'
<1>1. DirOK(dir)
  BY DEF UdpInv, UdpTypeOK, FdTypeOK, BitsMatch, DirOK
<1>2. DirOK(dir') /\ dir'.callbacks = dir.callbacks \cup {<<fd, "read">>}
  BY <1>1, AddKeepsDir DEF RxError, socket_on
<1>3. inq[fd] \in 1..MaxIn
  BY DEF Bounds, UdpInv, UdpTypeOK, Traffic, RxError, VisitRead
<1>4. UdpTypeOK'
  BY <1>2, <1>3 DEF Bounds, UdpInv, UdpTypeOK, FdTypeOK, DirOK, RxError, VisitRead, elemvars
<1>5. Traffic'
  <2>1. \A g \in FDs : inq'[g] = (IF g = fd THEN inq[g] - 1 ELSE inq[g]) /\ inq[g] \in Int
    BY DEF Bounds, UdpInv, UdpTypeOK, RxError
  <2>2. \A g \in FDs : arrived[g] \in Int
    BY DEF Bounds, UdpInv, Traffic
  <2>3. \A g \in FDs : inq'[g] <= arrived'[g]
    BY <2>1, <2>2 DEF UdpInv, Traffic, RxError
  <2>4. \A g \in readResultBits' : inq'[g] > 0
    BY <2>1 DEF UdpInv, UdpTypeOK, FdTypeOK, Traffic, RxError, VisitRead
  <2>. QED BY <2>3, <2>4 DEF UdpInv, Traffic, RxError, VisitRead
<1>6. BitsMatch' /\ CallbackPresent'
  BY <1>2 DEF UdpInv, DirOK, BitsMatch, CallbackPresent, RxError, VisitRead
<1>7. NeverDeaf' /\ Fresh'
  BY <1>2 DEF UdpInv, NeverDeaf, Fresh, RxError, elemvars
<1>. QED BY <1>4, <1>5, <1>6, <1>7 DEF UdpInv

\* When push returns 0 the dataflow holds the callback that push_pending waits
\* for.
LEMMA RxPushInv ==
  ASSUME Bounds, UdpInv, NEW fd \in FDs, NEW ok \in BOOLEAN, RxPush(fd, ok)
  PROVE  UdpInv'
<1>1. DirOK(dir)
  BY DEF UdpInv, UdpTypeOK, FdTypeOK, BitsMatch, DirOK
<1>2. DirOK(dir') /\ dir'.callbacks = dir.callbacks \cup {<<fd, "read">>}
  BY <1>1, AddKeepsDir DEF RxPush, socket_on
<1>3. inq[fd] \in 1..MaxIn
  BY DEF Bounds, UdpInv, UdpTypeOK, Traffic, RxPush, VisitRead
<1>4. UdpTypeOK'
  BY <1>2, <1>3 DEF Bounds, UdpInv, UdpTypeOK, FdTypeOK, DirOK, RxPush, VisitRead
<1>5. Traffic'
  <2>1. \A g \in FDs : inq'[g] = (IF g = fd THEN inq[g] - 1 ELSE inq[g]) /\ inq[g] \in Int
    BY DEF Bounds, UdpInv, UdpTypeOK, RxPush
  <2>2. \A g \in FDs : arrived[g] \in Int
    BY DEF Bounds, UdpInv, Traffic
  <2>3. \A g \in FDs : inq'[g] <= arrived'[g]
    BY <2>1, <2>2 DEF UdpInv, Traffic, RxPush
  <2>4. \A g \in readResultBits' : inq'[g] > 0
    BY <2>1 DEF UdpInv, UdpTypeOK, FdTypeOK, Traffic, RxPush, VisitRead
  <2>. QED BY <2>3, <2>4 DEF UdpInv, Traffic, RxPush, VisitRead
<1>6. BitsMatch' /\ CallbackPresent'
  BY <1>2 DEF UdpInv, DirOK, BitsMatch, CallbackPresent, RxPush, VisitRead
<1>7. NeverDeaf' /\ Fresh'
  BY <1>2 DEF UdpInv, UdpTypeOK, NeverDeaf, Fresh, RxPush
<1>. QED BY <1>4, <1>5, <1>6, <1>7 DEF UdpInv

\* The callback of an inactive element is skipped.
LEMMA RxInactiveInv ==
  ASSUME UdpInv, NEW fd \in FDs, RxInactive(fd)
  PROVE  UdpInv'
<1>1. UdpTypeOK'
  BY DEF UdpInv, UdpTypeOK, FdTypeOK, RxInactive, VisitRead, elemvars, envvars
<1>2. Traffic' /\ BitsMatch' /\ CallbackPresent'
  BY DEF UdpInv, Traffic, BitsMatch, CallbackPresent, RxInactive, VisitRead, envvars
<1>3. NeverDeaf' /\ Fresh'
  BY DEF UdpInv, NeverDeaf, Fresh, RxInactive, elemvars
<1>. QED BY <1>1, <1>2, <1>3 DEF UdpInv

\* element_cb of Rx turns the socket on again.
LEMMA RxElementCBInv ==
  ASSUME UdpInv, NEW fd \in FDs, RxElementCB(fd)
  PROVE  UdpInv'
<1>1. DirOK(dir)
  BY DEF UdpInv, UdpTypeOK, FdTypeOK, BitsMatch, DirOK
<1>2. DirOK(dir') /\ dir'.callbacks = dir.callbacks \cup {<<fd, "read">>}
  BY <1>1, AddKeepsDir DEF RxElementCB, socket_on
<1>3. UdpTypeOK'
  BY <1>2 DEF UdpInv, UdpTypeOK, FdTypeOK, DirOK, RxElementCB, envvars
<1>4. Traffic'
  BY DEF UdpInv, Traffic, RxElementCB, envvars
<1>5. BitsMatch' /\ CallbackPresent'
  BY <1>2 DEF UdpInv, DirOK, BitsMatch, CallbackPresent, RxElementCB
<1>6. NeverDeaf' /\ Fresh'
  BY <1>2 DEF UdpInv, UdpTypeOK, NeverDeaf, Fresh, RxElementCB
<1>. QED BY <1>3, <1>4, <1>5, <1>6 DEF UdpInv

\* Tx turns itself off only when the pull before it returned nothing, and the
\* dataflow then holds its callback.
LEMMA TxNothingInv ==
  ASSUME UdpInv, NEW fd \in FDs, TxNothing(fd)
  PROVE  UdpInv'
<1>1. DirOK(dir)
  BY DEF UdpInv, UdpTypeOK, FdTypeOK, BitsMatch, DirOK
<1>2. DirOK(dir') /\ dir'.callbacks = dir.callbacks \ {<<fd, "write">>}
  BY <1>1, RemoveKeepsDir DEF TxNothing, socket_off
<1>3. UdpTypeOK'
  <2>1. FdTypeOK'
    BY <1>2 DEF UdpInv, UdpTypeOK, FdTypeOK, DirOK, TxNothing, VisitWrite
  <2>2. pull_pending' \in [FDs -> BOOLEAN] /\ owesTx' \in [FDs -> BOOLEAN]
    BY DEF UdpInv, UdpTypeOK, TxNothing
  <2>. QED BY <2>1, <2>2 DEF UdpInv, UdpTypeOK, TxNothing, envvars
<1>4. Traffic'
  BY DEF UdpInv, Traffic, TxNothing, VisitWrite, envvars
<1>5. BitsMatch' /\ CallbackPresent'
  BY <1>2 DEF UdpInv, DirOK, BitsMatch, CallbackPresent, TxNothing, VisitWrite
<1>6. sockState[fd] # "NEW"
  BY DEF UdpInv, Fresh, TxNothing, VisitWrite
<1>7. NeverDeaf' /\ Fresh'
  BY <1>2, <1>6 DEF UdpInv, UdpTypeOK, NeverDeaf, Fresh, TxNothing
<1>. QED BY <1>3, <1>4, <1>5, <1>7 DEF UdpInv

\* Tx stays on after it sends.
LEMMA TxSendInv ==
  ASSUME Bounds, UdpInv, NEW fd \in FDs, TxSend(fd)
  PROVE  UdpInv'
<1>1. DirOK(dir)
  BY DEF UdpInv, UdpTypeOK, FdTypeOK, BitsMatch, DirOK
<1>2. DirOK(dir') /\ dir'.callbacks = dir.callbacks \cup {<<fd, "write">>}
  BY <1>1, AddKeepsDir DEF TxSend, socket_on
<1>3. \A g \in FDs : outq'[g] = (IF g = fd THEN outq[g] - 1 ELSE outq[g]) /\ outq[g] \in Int
  BY DEF Bounds, UdpInv, UdpTypeOK, TxSend
<1>4. UdpTypeOK'
  BY <1>2 DEF Bounds, UdpInv, UdpTypeOK, FdTypeOK, DirOK, TxSend, VisitWrite, elemvars
<1>5. Traffic'
  <2>1. \A g \in FDs : offered[g] \in Int
    BY DEF UdpInv, Traffic
  <2>2. \A g \in FDs : outq'[g] <= offered'[g]
    BY <1>3, <2>1 DEF UdpInv, Traffic, TxSend
  <2>. QED BY <2>2 DEF UdpInv, Traffic, TxSend, VisitWrite
<1>6. BitsMatch' /\ CallbackPresent'
  BY <1>2 DEF UdpInv, DirOK, BitsMatch, CallbackPresent, TxSend, VisitWrite
<1>7. NeverDeaf' /\ Fresh'
  BY <1>2 DEF UdpInv, NeverDeaf, Fresh, TxSend, VisitWrite, elemvars
<1>. QED BY <1>4, <1>5, <1>6, <1>7 DEF UdpInv

\* element_cb of Tx turns the socket on again.
LEMMA TxElementCBInv ==
  ASSUME UdpInv, NEW fd \in FDs, TxElementCB(fd)
  PROVE  UdpInv'
<1>1. DirOK(dir)
  BY DEF UdpInv, UdpTypeOK, FdTypeOK, BitsMatch, DirOK
<1>2. DirOK(dir') /\ dir'.callbacks = dir.callbacks \cup {<<fd, "write">>}
  BY <1>1, AddKeepsDir DEF TxElementCB, socket_on
<1>3. UdpTypeOK'
  BY <1>2 DEF UdpInv, UdpTypeOK, FdTypeOK, DirOK, TxElementCB, envvars
<1>4. Traffic'
  BY DEF UdpInv, Traffic, TxElementCB, envvars
<1>5. BitsMatch' /\ CallbackPresent'
  BY <1>2 DEF UdpInv, DirOK, BitsMatch, CallbackPresent, TxElementCB
<1>6. NeverDeaf' /\ Fresh'
  BY <1>2 DEF UdpInv, UdpTypeOK, NeverDeaf, Fresh, TxElementCB
<1>. QED BY <1>3, <1>4, <1>5, <1>6 DEF UdpInv

\* Datagrams arrive at any time, the pass included, and only add to the buffer.
LEMMA ArriveInv ==
  ASSUME Bounds, UdpInv, NEW fd \in FDs, Arrive(fd)
  PROVE  UdpInv'
<1>1. \A g \in FDs :
        /\ inq[g] \in Nat /\ arrived[g] \in 0..MaxIn /\ inq[g] <= arrived[g]
        /\ inq'[g] = (IF g = fd THEN inq[g] + 1 ELSE inq[g])
        /\ arrived'[g] = (IF g = fd THEN arrived[g] + 1 ELSE arrived[g])
  BY DEF Bounds, UdpInv, UdpTypeOK, Traffic, Arrive
<1>2. arrived' \in [FDs -> 0..MaxIn]
  BY <1>1 DEF Bounds, UdpInv, Traffic, Arrive
<1>3. \A g \in FDs : inq'[g] <= arrived'[g]
  BY <1>1
<1>4. inq' \in [FDs -> 0..MaxIn]
  <2>1. inq' = [g \in FDs |-> inq'[g]]
    BY DEF UdpInv, UdpTypeOK, Arrive
  <2>2. \A g \in FDs : inq'[g] \in 0..MaxIn
    BY <1>1, <1>2, <1>3 DEF Bounds
  <2>. QED BY <2>1, <2>2
<1>5. UdpTypeOK'
  BY <1>4 DEF UdpInv, UdpTypeOK, FdTypeOK, Arrive, fdvars, elemvars
<1>6. \A g \in readResultBits' : inq'[g] > 0
  BY <1>1 DEF UdpInv, UdpTypeOK, FdTypeOK, Traffic, Arrive, fdvars
<1>7. Traffic'
  BY <1>2, <1>3, <1>6 DEF UdpInv, Traffic, Arrive, fdvars
<1>8. BitsMatch' /\ CallbackPresent' /\ NeverDeaf' /\ Fresh'
  BY DEF UdpInv, BitsMatch, CallbackPresent, NeverDeaf, Fresh, Arrive, fdvars, elemvars
<1>. QED BY <1>5, <1>7, <1>8 DEF UdpInv

\* The dataflow gives Tx one more tuple.
LEMMA OfferInv ==
  ASSUME Bounds, UdpInv, NEW fd \in FDs, Offer(fd)
  PROVE  UdpInv'
<1>1. \A g \in FDs :
        /\ outq[g] \in Nat /\ offered[g] \in 0..MaxOut /\ outq[g] <= offered[g]
        /\ outq'[g] = (IF g = fd THEN outq[g] + 1 ELSE outq[g])
        /\ offered'[g] = (IF g = fd THEN offered[g] + 1 ELSE offered[g])
  BY DEF Bounds, UdpInv, UdpTypeOK, Traffic, Offer
<1>2. offered' \in [FDs -> 0..MaxOut]
  BY <1>1 DEF Bounds, UdpInv, Traffic, Offer
<1>3. \A g \in FDs : outq'[g] <= offered'[g]
  BY <1>1
<1>4. outq' \in [FDs -> 0..MaxOut]
  <2>1. outq' = [g \in FDs |-> outq'[g]]
    BY DEF UdpInv, UdpTypeOK, Offer
  <2>2. \A g \in FDs : outq'[g] \in 0..MaxOut
    BY <1>1, <1>2, <1>3 DEF Bounds
  <2>. QED BY <2>1, <2>2
<1>5. UdpTypeOK'
  BY <1>4 DEF UdpInv, UdpTypeOK, FdTypeOK, Offer, fdvars, elemvars
<1>6. Traffic'
  BY <1>2, <1>3 DEF UdpInv, Traffic, Offer, fdvars
<1>7. BitsMatch' /\ CallbackPresent' /\ NeverDeaf' /\ Fresh'
  BY DEF UdpInv, BitsMatch, CallbackPresent, NeverDeaf, Fresh, Offer, fdvars, elemvars
<1>. QED BY <1>5, <1>6, <1>7 DEF UdpInv

\* What pselect reports has a callback, and what it reports readable a datagram.
LEMMA SelectInv ==
  ASSUME UdpInv, NEW writable \in SUBSET FDs, Select(writable)
  PROVE  UdpInv'
<1>1. UdpTypeOK'
  BY DEF UdpInv, UdpTypeOK, FdTypeOK, Directories, Select, PSelect, elemvars, envvars
<1>2. Traffic'
  BY DEF UdpInv, Traffic, Select, PSelect, envvars
<1>3. BitsMatch' /\ CallbackPresent'
  BY DEF UdpInv, BitsMatch, CallbackPresent, Select, PSelect
<1>4. NeverDeaf' /\ Fresh'
  BY DEF UdpInv, NeverDeaf, Fresh, Select, PSelect, elemvars
<1>. QED BY <1>1, <1>2, <1>3, <1>4 DEF UdpInv

\* The pass is over.
LEMMA DoneInv ==
  ASSUME UdpInv, Done
  PROVE  UdpInv'
<1>1. UdpTypeOK'
  BY DEF UdpInv, UdpTypeOK, FdTypeOK, Done, CatchupDone, elemvars, envvars
<1>2. Traffic' /\ BitsMatch' /\ CallbackPresent'
  BY DEF UdpInv, Traffic, BitsMatch, CallbackPresent, Done, CatchupDone, envvars
<1>3. NeverDeaf' /\ Fresh'
  BY DEF UdpInv, NeverDeaf, Fresh, Done, CatchupDone, elemvars
<1>. QED BY <1>1, <1>2, <1>3 DEF UdpInv

-----------------------------------------------------------------------------
\* Every step of the sockets, the pass and their surroundings preserves the
\* invariant.
LEMMA SocketsNextInv ==
  ASSUME Bounds, UdpInv, [UdpNext]_udpvars
  PROVE  UdpInv'
<1>1. CASE UNCHANGED udpvars
  <2>1. UdpTypeOK'
    BY <1>1 DEF UdpInv, UdpTypeOK, FdTypeOK, udpvars, fdvars, elemvars, envvars
  <2>2. Traffic' /\ BitsMatch' /\ CallbackPresent'
    BY <1>1 DEF UdpInv, Traffic, BitsMatch, CallbackPresent, udpvars, fdvars, envvars
  <2>3. NeverDeaf' /\ Fresh'
    BY <1>1 DEF UdpInv, NeverDeaf, Fresh, udpvars, fdvars, elemvars
  <2>. QED BY <2>1, <2>2, <2>3 DEF UdpInv
<1>2. ASSUME NEW fd \in FDs,
             Initialize(fd) \/ Deactivate(fd) \/ RxElementCB(fd) \/ TxElementCB(fd)
             \/ Arrive(fd) \/ Offer(fd)
      PROVE  UdpInv'
  BY <1>2, InitializeInv, DeactivateInv, RxElementCBInv, TxElementCBInv, ArriveInv, OfferInv
<1>3. ASSUME NEW fd \in FDs, Rx(fd)
      PROVE  UdpInv'
  BY <1>3, RxBlockedInv, RxErrorInv, RxInactiveInv, RxPushInv DEF Rx
<1>4. ASSUME NEW fd \in FDs, Tx(fd)
      PROVE  UdpInv'
  BY <1>4, TxNothingInv, TxSendInv DEF Tx
<1>5. ASSUME NEW writable \in SUBSET FDs, Select(writable)
      PROVE  UdpInv'
  BY <1>5, SelectInv
<1>6. CASE Done
  BY <1>6, DoneInv
<1>. QED BY <1>1, <1>2, <1>3, <1>4, <1>5, <1>6 DEF UdpNext

\* The inductive invariant of the descriptor callbacks and the sockets that use
\* them (fileDescriptorCB, fileDescriptorCatchup, Udp::Rx, Udp::Tx).
THEOREM UdpInvariant ==
  ASSUME Bounds
  PROVE  UdpSpec => []UdpInv
<1>1. UdpInit => UdpInv
  BY SocketsInitInv
<1>2. UdpInv /\ [UdpNext]_udpvars => UdpInv'
  BY SocketsNextInv
<1>. QED BY <1>1, <1>2, PTL DEF UdpSpec

\* pselect watches exactly the descriptors that have a callback, whatever order of
\* fileDescriptorCB and removeFileDescriptorCB calls led there, and the assertion of
\* fileDescriptorCatchup holds: the callback of every descriptor that pselect reported is
\* still there when the pass reaches it.
THEOREM DescriptorsCorrect ==
  ASSUME Bounds
  PROVE  UdpSpec => []DescriptorsRight
<1>1. UdpInv => DescriptorsRight
  BY DEF UdpInv, DescriptorsRight
<1>. QED BY <1>1, UdpInvariant, PTL

\* No order of refused pushes and pulls, socket events and element_cb leaves a
\* socket off for good (Udp::Rx::socket_cb, Udp::Tx::socket_cb, element_cb).
THEOREM SocketsNeverDeaf ==
  ASSUME Bounds
  PROVE  UdpSpec => []NeverDeaf
<1>1. UdpInv => NeverDeaf
  BY DEF UdpInv
<1>. QED BY <1>1, UdpInvariant, PTL
=============================================================================
