-------------------------- MODULE ReliabilityProofs --------------------------
(***************************************************************************)
(* Proofs about Reliability, for every set-up: any first sequence number,  *)
(* any number of tuples and of retries, any room at the consumer.          *)
(***************************************************************************)
EXTENDS Reliability, FiniteSetTheorems, SequenceTheorems, WellFoundedInduction, TLAPS

SenderTypes ==
  /\ offered \in Nat /\ sent \in Nat /\ conn \in Connections \cup {NULL}
  /\ retryQ \in Seq(Tuples) /\ givenUp \subseteq Nat

ReceiverTypes ==
  /\ ackQ \in Seq(Tuples) /\ passed \subseteq Nat
  /\ dup \in DupConnections \cup {NULL} /\ cack \in AckConnections \cup {NULL}
  /\ order \in OrderConnections \cup {NULL} /\ orphans \in Nat /\ room \in Nat
  /\ outs \in Seq(Nat)

TypeOK ==
  /\ setup \in Setups /\ SenderTypes /\ ReceiverTypes
  /\ net \subseteq Tuples /\ acks \subseteq [seq : Nat, cum : Nat]
  /\ inOn \in BOOLEAN /\ waiting \in BOOLEAN /\ failed \in BOOLEAN

\* The number of the newest tuple.
Newest == SeqNum(sent)

\* A tuple with cumulative number 0 is older than any with another one, and these exist
\* only once an acknowledgement, or a tuple given up, has raised the sender's number.
Numbered ==
  /\ \A d \in net : d.seq <= Newest /\ (d.cseq # 0 => d.cseq < d.seq)
  /\ \A d, e \in net : d.cseq = 0 /\ e.cseq # 0 => d.seq < e.seq
  /\ (\E e \in net : e.cseq # 0) => conn # NULL /\ conn.cum # 0
  /\ ~setup.stores => conn = NULL

\* What RDelivery holds was sent, and is in the order of sequence numbers, which is also
\* the order of retries.
Held ==
  /\ \A i \in DOMAIN retryQ : retryQ[i] \in net
  /\ conn # NULL =>
       /\ \A i \in DOMAIN conn.out : [seq |-> conn.out[i].seq, cseq |-> conn.out[i].cseq] \in net
       /\ \A i, j \in DOMAIN conn.out : i < j =>
            conn.out[i].seq < conn.out[j].seq /\ conn.out[i].retries >= conn.out[j].retries

\* Of the tuples N, the newest of which has number m, those of an established connection
\* up to number c, or with number s, are done.
Reached(N, done, m, c) ==
  /\ c = 0 \/ c <= m
  /\ \A d \in N : d.cseq # 0 /\ d.seq <= c => d.seq \in done

Handled(N, done, m, s) ==
  /\ s <= m
  /\ \A d \in N : d.cseq # 0 /\ d.seq = s => s \in done

\* A tuple is done when it has passed DupRemove or was given up.
Done == passed \cup givenUp

\* Every cumulative number, wherever it is kept or under way, tells the truth.
Truthful ==
  /\ \A a \in acks : Reached(net, Done, Newest, a.cum)
  /\ \A d \in net : Reached(net, Done, Newest, d.cseq)
  /\ conn # NULL => Reached(net, Done, Newest, conn.cum)
  /\ dup # NULL => Reached(net, Done, Newest, dup.cum) /\ dup.got \subseteq passed
  /\ cack # NULL =>
       /\ Reached(net, Done, Newest, cack.cum) /\ IsFiniteSet(cack.queue)
       /\ \A s \in cack.queue : Handled(net, Done, Newest, s)
  /\ \A i \in DOMAIN ackQ : ackQ[i] \in net /\ Handled(net, Done, Newest, ackQ[i].seq)

Increasing(q) == \A i, j \in DOMAIN q : i < j => q[i] < q[j]

\* What an ODelivery connection has delivered lies below all that it will deliver.
Ordered ==
  /\ order = NULL => orphans = 0 /\ outs = <<>>
  /\ Increasing(outs)
  /\ order # NULL =>
       /\ Increasing(order.queue)
       /\ \A i \in DOMAIN outs : outs[i] < order.next
       /\ \A i \in DOMAIN outs, j \in DOMAIN order.queue : outs[i] < order.queue[j]

\* RDelivery believes its input empty only if it is, and whoever waits for a callback has
\* found it empty.
Awake == SenderAwake /\ (waiting => ~inOn) /\ (~inOn => sent = offered)

RelInv ==
  TypeOK /\ Numbered /\ Held /\ Truthful /\ NoneLost /\ Ordered /\ Awake /\ NoFailure

-----------------------------------------------------------------------------
(* Facts about the operators of Reliability.                               *)

\* A non-empty set of naturals has a least element.
LEMMA LeastNatural ==
  ASSUME NEW T \in SUBSET Nat, T # {}
  PROVE  \E x \in T : \A y \in T : x <= y
<1>. DEFINE R == OpToRel(<, Nat)
<1>1. IsWellFoundedOn(R, Nat)
  BY NatLessThanWellFounded, Zenon
<1>2. \A x, y \in Nat : <<y, x>> \in R <=> y < x
  BY DEF OpToRel
<1>. HIDE DEF R
<1>3. PICK x \in T : \A y \in T : ~(<<y, x>> \in R)
  BY <1>1, WFMin, Zenon
<1>4. \A y \in T : ~(y < x)
  BY <1>2, <1>3, Zenon
<1>5. \A y \in T : x <= y
  BY <1>4
<1>. QED
  BY <1>5

\* Where the loops of ODelivery, RDelivery and CumulativeAck stop: all that they went over
\* is in the set, and what comes next is not.
LEMMA LeadingStops ==
  ASSUME NEW n \in Nat, NEW S
  PROVE  /\ Leading(n, S) \in 0 .. n
         /\ \A i \in 1 .. Leading(n, S) : i \in S
         /\ Leading(n, S) < n => Leading(n, S) + 1 \notin S
<1>. DEFINE T == {k \in Nat : k = n \/ k + 1 \notin S}
<1>1. PICK x \in T : \A y \in T : x <= y
  <2>1. n \in T /\ T \in SUBSET Nat
    OBVIOUS
  <2>. QED
    BY <2>1, LeastNatural, Zenon
<1>2. x \in 0 .. n /\ (x < n => x + 1 \notin S)
  BY <1>1
<1>3. ASSUME NEW i \in 1 .. x
      PROVE  i \in S
  <2>1. i - 1 \in Nat /\ ~(x <= i - 1) /\ i - 1 + 1 = i /\ i - 1 # n
    BY <1>2
  <2>2. i - 1 \notin T
    BY <1>1, <2>1
  <2>. QED
    BY <2>1, <2>2
<1>4. 1 .. x \subseteq S
  BY <1>3
<1>5. \E k \in 0 .. n : 1 .. k \subseteq S /\ (k < n => k + 1 \notin S)
  BY <1>2, <1>4
<1>. DEFINE Stop(k) == 1 .. k \subseteq S /\ (k < n => k + 1 \notin S)
<1>6. Leading(n, S) = CHOOSE k \in 0 .. n : Stop(k)
  BY DEF Leading
<1>7. \E k \in 0 .. n : Stop(k)
  BY <1>5
<1>8. Leading(n, S) \in 0 .. n /\ Stop(Leading(n, S))
  <2>. HIDE DEF Stop
  <2>. QED
    BY <1>6, <1>7
<1>. QED
  BY <1>8

\* The first k tuples of a queue leave.
LEMMA DropLeaves ==
  ASSUME NEW S, NEW q \in Seq(S), NEW k \in 0 .. Len(q)
  PROVE  /\ Drop(q, k) \in Seq(S) /\ Len(Drop(q, k)) = Len(q) - k
         /\ DOMAIN Drop(q, k) = 1 .. Len(q) - k
         /\ \A i \in 1 .. Len(q) - k : i + k \in DOMAIN q /\ Drop(q, k)[i] = q[i + k]
<1>1. Len(q) \in Nat /\ DOMAIN q = 1 .. Len(q)
  BY LenProperties
<1>2. k + 1 \in Int /\ Len(q) \in Int /\ \A i \in k + 1 .. Len(q) : q[i] \in S
  BY <1>1, ElementOfSeq
<1>3. /\ Drop(q, k) \in Seq(S)
      /\ Len(Drop(q, k)) = IF k + 1 <= Len(q) THEN Len(q) - (k + 1) + 1 ELSE 0
      /\ \A i \in 1 .. Len(q) - (k + 1) + 1 : Drop(q, k)[i] = q[k + 1 + i - 1]
  BY <1>2, SubSeqProperties DEF Drop
<1>4. Len(Drop(q, k)) = Len(q) - k
  <2>1. Len(Drop(q, k)) = IF k + 1 <= Len(q) THEN Len(q) - (k + 1) + 1 ELSE 0
    BY <1>3
  <2>2. \A m, l \in Int : l <= m => (IF l + 1 <= m THEN m - (l + 1) + 1 ELSE 0) = m - l
    OBVIOUS
  <2>3. k \in Int /\ k <= Len(q) /\ Len(q) \in Int
    BY <1>1
  <2>. QED
    BY <2>1, <2>2, <2>3
<1>5. ASSUME NEW i \in 1 .. Len(q) - k
      PROVE  i + k \in DOMAIN q /\ Drop(q, k)[i] = q[i + k]
  <2>1. i + k \in DOMAIN q
    BY <1>1
  <2>2. i \in 1 .. Len(q) - (k + 1) + 1 /\ k + 1 + i - 1 = i + k
    BY <1>1
  <2>3. \A l \in 1 .. Len(q) - (k + 1) + 1 : Drop(q, k)[l] = q[k + 1 + l - 1]
    BY <1>3
  <2>. QED
    BY <2>1, <2>2, <2>3
<1>6. DOMAIN Drop(q, k) = 1 .. Len(q) - k
  BY <1>3, <1>4, LenProperties
<1>. QED
  BY <1>3, <1>4, <1>5, <1>6

\* A function on an initial segment of the naturals is a sequence.
LEMMA FunctionIsSeq ==
  ASSUME NEW S, NEW n \in Nat, NEW f \in [1 .. n -> S]
  PROVE  f \in Seq(S) /\ Len(f) = n /\ DOMAIN f = 1 .. n
OBVIOUS

\* The index that an element has after the first k have left.
LEMMA ShiftedIndex ==
  ASSUME NEW n \in Int, NEW k \in Int, NEW j \in Int, ~(j <= k), j <= n
  PROVE  j - k \in 1 .. n - k /\ (j - k) + k = j
OBVIOUS

\* The larger of two numbers, as in ODelivery::flush and CumulativeAck.
LEMMA MaxOfTwo ==
  ASSUME NEW a \in Int, NEW b \in Int
  PROVE  Max({a, b}) = IF a >= b THEN a ELSE b
BY DEF Max

\* The smaller of two numbers.
LEMMA MinOfTwo ==
  ASSUME NEW a \in Int, NEW b \in Int
  PROVE  Min({a, b}) = IF a <= b THEN a ELSE b
BY DEF Min

-----------------------------------------------------------------------------
(* The invariant: one lemma per action.                                    *)

\* Elements that have just been created hold nothing.
LEMMA RelInit == Init => RelInv
<1>. SUFFICES ASSUME Init PROVE RelInv
  OBVIOUS
<1>1. TypeOK
  <2>1. setup \in Setups /\ net \subseteq Tuples /\ acks \subseteq [seq : Nat, cum : Nat]
    BY DEF Init
  <2>2. inOn \in BOOLEAN /\ waiting \in BOOLEAN /\ failed \in BOOLEAN
    BY Zenon DEF Init
  <2>3. SenderTypes /\ ReceiverTypes
    BY ReliabilityAssumption, EmptySeq DEF Init, SenderTypes, ReceiverTypes
  <2>. QED
    BY <2>1, <2>2, <2>3 DEF TypeOK
<1>2. Numbered /\ Held /\ NoneLost /\ NoFailure
  BY DEF Init, Numbered, Held, NoneLost, NoFailure
<1>3. Truthful
  BY DEF Init, Truthful
<1>4. Ordered /\ Awake
  BY DEF Init, Ordered, Increasing, Awake, SenderAwake
<1>. QED
  BY <1>1, <1>2, <1>3, <1>4 DEF RelInv

\* A tuple is pushed into the Queue above RDelivery (RDelivery::input_cb).
LEMMA OfferInv == RelInv /\ Offer => RelInv'
<1>. SUFFICES ASSUME RelInv, Offer PROVE RelInv'
  OBVIOUS
<1>. USE DEF Offer, receiver, ordering
<1>1. TypeOK'
  <2>1. inOn' \in BOOLEAN /\ waiting' \in BOOLEAN /\ failed' \in BOOLEAN
    BY Zenon DEF RelInv, TypeOK
  <2>2. SenderTypes'
    BY DEF RelInv, TypeOK, SenderTypes
  <2>3. ReceiverTypes'
    BY DEF RelInv, TypeOK, ReceiverTypes
  <2>. QED
    BY <2>1, <2>2, <2>3 DEF RelInv, TypeOK
<1>2. Numbered' /\ Held' /\ NoneLost' /\ NoFailure'
  BY Zenon DEF RelInv, Numbered, Held, NoneLost, NoFailure, Newest, SeqNum
<1>3. Truthful'
  BY Zenon DEF RelInv, Truthful, Done, Newest, SeqNum
<1>4. Ordered'
  BY DEF RelInv, Ordered
<1>5. Awake'
  BY DEF RelInv, TypeOK, Awake, SenderAwake
<1>. QED
  BY <1>1, <1>2, <1>3, <1>4, <1>5 DEF RelInv

\* RDelivery::pull finds nothing to send.
LEMMA PullNothingInv == RelInv /\ PullNothing => RelInv'
<1>. SUFFICES ASSUME RelInv, PullNothing PROVE RelInv'
  OBVIOUS
<1>. USE DEF PullNothing, receiver, ordering
<1>1. TypeOK'
  BY Zenon DEF RelInv, TypeOK, SenderTypes, ReceiverTypes
<1>2. Numbered' /\ Held' /\ NoneLost' /\ NoFailure'
  BY DEF RelInv, Numbered, Held, NoneLost, NoFailure, Newest, SeqNum
<1>3. Truthful'
  BY Zenon DEF RelInv, Truthful, Done, Newest, SeqNum
<1>4. Ordered'
  BY DEF RelInv, Ordered
<1>5. Awake'
  BY DEF RelInv, Awake, SenderAwake
<1>. QED
  BY <1>1, <1>2, <1>3, <1>4, <1>5 DEF RelInv

\* The connection timers of DupRemove and CumulativeAck.
LEMMA TimeoutInv == RelInv /\ (DupTimeout \/ CackTimeout) => RelInv'
<1>. SUFFICES ASSUME RelInv, DupTimeout \/ CackTimeout PROVE RelInv'
  OBVIOUS
<1>. USE DEF DupTimeout, CackTimeout, sender, ordering
<1>1. TypeOK'
  BY Zenon DEF RelInv, TypeOK, SenderTypes, ReceiverTypes
<1>2. Numbered' /\ Held' /\ NoneLost' /\ NoFailure'
  BY DEF RelInv, Numbered, Held, NoneLost, NoFailure, Newest, SeqNum
<1>3. Truthful'
  BY Zenon DEF RelInv, Truthful, Done, Newest, SeqNum
<1>4. Ordered'
  BY DEF RelInv, Ordered
<1>5. Awake'
  BY DEF RelInv, Awake, SenderAwake
<1>. QED
  BY <1>1, <1>2, <1>3, <1>4, <1>5 DEF RelInv

-----------------------------------------------------------------------------
(* What keeps cumulative numbers true.                                     *)

\* They stay true when more tuples are done.
LEMMA MoreDone ==
  ASSUME NEW N, NEW done, NEW more, done \subseteq more, NEW m
  PROVE  /\ \A c : Reached(N, done, m, c) => Reached(N, more, m, c)
         /\ \A s : Handled(N, done, m, s) => Handled(N, more, m, s)
BY DEF Reached, Handled

\* They stay true when Sequence numbers a tuple (Sequence::simple_action).
LEMMA NewTuple ==
  ASSUME NEW N \in SUBSET Tuples, NEW done, NEW m \in Int, NEW tp \in Tuples,
         tp.seq = m + 1, tp.cseq # 0 => tp.cseq < tp.seq
  PROVE  /\ \A c \in Nat : Reached(N, done, m, c) => Reached(N \cup {tp}, done, m + 1, c)
         /\ \A s \in Nat : Handled(N, done, m, s) => Handled(N \cup {tp}, done, m + 1, s)
<1>1. tp.seq \in Nat /\ tp.cseq \in Nat
  BY DEF Tuples
<1>2. ASSUME NEW c \in Nat, Reached(N, done, m, c)
      PROVE  Reached(N \cup {tp}, done, m + 1, c)
  <2>1. c = 0 \/ c <= m + 1
    BY <1>2 DEF Reached
  <2>2. tp.cseq # 0 => ~(tp.seq <= c)
    BY <1>1, <1>2 DEF Reached
  <2>. QED
    BY <1>2, <2>1, <2>2 DEF Reached
<1>3. ASSUME NEW s \in Nat, Handled(N, done, m, s)
      PROVE  Handled(N \cup {tp}, done, m + 1, s)
  <2>1. s <= m + 1 /\ tp.seq # s
    BY <1>1, <1>3 DEF Handled
  <2>. QED
    BY <1>3, <2>1 DEF Handled
<1>. QED
  BY <1>2, <1>3, Zenon

\* No tuple of an established connection has number 0.
LEMMA ZeroReached ==
  ASSUME NEW N \in SUBSET Tuples, \A d \in N : d.cseq # 0 => d.cseq < d.seq, NEW done, NEW m
  PROVE  Reached(N, done, m, 0)
BY DEF Reached, Tuples

\* A number up to which all is done is reached.
LEMMA FurtherReached ==
  ASSUME NEW N \in SUBSET Tuples, NEW done, NEW m \in Int, NEW b \in Nat, NEW c \in Nat,
         Reached(N, done, m, b), c <= m, \A s \in b + 1 .. c : Handled(N, done, m, s)
  PROVE  Reached(N, done, m, c)
<1>1. ASSUME NEW d \in N, d.cseq # 0, d.seq <= c
      PROVE  d.seq \in done
  <2>1. d.seq \in Nat
    BY DEF Tuples
  <2>2. CASE d.seq <= b
    BY <1>1, <2>2 DEF Reached
  <2>3. CASE ~(d.seq <= b)
    <3>1. d.seq \in b + 1 .. c
      BY <1>1, <2>1, <2>3
    <3>. QED
      BY <1>1, <3>1 DEF Handled
  <2>. QED
    BY <2>2, <2>3
<1>. QED
  BY <1>1 DEF Reached

\* The types of what is compared with cumulative numbers.
LEMMA NumberTypes ==
  ASSUME TypeOK
  PROVE  /\ setup.first \in Nat /\ setup.maxRetry \in Nat /\ setup.stores \in BOOLEAN
         /\ sent \in Nat /\ Newest \in Int /\ Newest = setup.first + sent - 1
         /\ \A d \in net : d.seq \in Nat /\ d.cseq \in Nat
         /\ \A a \in acks : a.cum \in Nat
         /\ conn # NULL => conn.cum \in Nat
         /\ dup # NULL => dup.cum \in Nat /\ dup.got \subseteq Nat
         /\ cack # NULL => cack.cum \in Nat /\ cack.queue \subseteq Nat
         /\ \A i \in DOMAIN ackQ : ackQ[i].seq \in Nat /\ ackQ[i].cseq \in Nat
<1>1. setup.first \in Nat /\ setup.maxRetry \in Nat /\ setup.stores \in BOOLEAN
  BY ReliabilityAssumption DEF TypeOK
<1>2. sent \in Nat /\ Newest \in Int /\ Newest = setup.first + sent - 1
  BY <1>1 DEF TypeOK, SenderTypes, Newest, SeqNum
<1>3. (\A d \in net : d.seq \in Nat /\ d.cseq \in Nat) /\ \A a \in acks : a.cum \in Nat
  BY DEF TypeOK, Tuples
<1>4. conn # NULL => conn.cum \in Nat
  BY DEF TypeOK, SenderTypes, Connections
<1>5. /\ dup # NULL => dup.cum \in Nat /\ dup.got \subseteq Nat
      /\ cack # NULL => cack.cum \in Nat /\ cack.queue \subseteq Nat
  BY DEF TypeOK, ReceiverTypes, DupConnections, AckConnections
<1>6. \A i \in DOMAIN ackQ : ackQ[i].seq \in Nat /\ ackQ[i].cseq \in Nat
  <2>1. \A i \in DOMAIN ackQ : ackQ[i] \in Tuples
    BY LenProperties, ElementOfSeq DEF TypeOK, ReceiverTypes
  <2>. QED
    BY <2>1 DEF Tuples
<1>. QED
  BY <1>1, <1>2, <1>3, <1>4, <1>5, <1>6

-----------------------------------------------------------------------------
(* The sender.                                                             *)

\* The tuple that RDelivery holds as t.
Sent(t) == [seq |-> t.seq, cseq |-> t.cseq]

\* The sender's cumulative number and outstanding tuples, before and after its connection
\* is made.
Cumulative == IF conn = NULL THEN 0 ELSE conn.cum
Outstanding == IF conn = NULL THEN <<>> ELSE conn.out

\* RDelivery::pull gives a new tuple, which RDelivery::tuple may remember.
LEMMA PullNewInv == RelInv /\ PullNew => RelInv'
<1>. SUFFICES ASSUME RelInv, PullNew PROVE RelInv'
  OBVIOUS
<1>. DEFINE tp == [seq |-> Newest + 1, cseq |-> IF setup.stores THEN Cumulative ELSE 0]
            held == [seq |-> Newest + 1, cseq |-> Cumulative, retries |-> 0]
<1>1. /\ setup.first \in Nat /\ setup.stores \in BOOLEAN /\ sent \in Nat /\ Newest \in Int
      /\ Newest = setup.first + sent - 1
      /\ \A d \in net : d.seq \in Nat /\ d.cseq \in Nat
  BY NumberTypes DEF RelInv
<1>2. SeqNum(sent + 1) = Newest + 1 /\ Newest + 1 \in Nat
  BY <1>1 DEF SeqNum
<1>3. Cumulative \in Nat /\ Outstanding \in Seq([seq : Nat, cseq : Nat, retries : Nat])
  BY EmptySeq DEF RelInv, TypeOK, SenderTypes, Connections, Cumulative, Outstanding
<1>4. ~waiting /\ inOn /\ sent < offered /\ sent' = sent + 1
  BY DEF PullNew
<1>5. UNCHANGED <<setup, offered, retryQ, inOn, waiting, acks, receiver, givenUp, failed>>
  BY DEF PullNew
<1>6. ASSUME setup.stores
      PROVE  /\ net' = net \cup {tp}
             /\ conn' = [cum |-> Cumulative, out |-> Append(Outstanding, held), timer |-> TRUE]
  <2>1. net' = net \cup {Remember(Newest + 1).tp} /\ conn' = Remember(Newest + 1).cp
    BY <1>2, <1>6 DEF PullNew
  <2>2. CASE conn = NULL
    BY <1>6, <2>1, <2>2, Zenon DEF Remember, Cumulative, Outstanding
  <2>3. CASE conn # NULL
    <3>1. conn \in Connections
      BY <2>3 DEF RelInv, TypeOK, SenderTypes
    <3>. QED
      BY <1>6, <2>1, <2>3, <3>1, Zenon DEF Remember, Cumulative, Outstanding, Connections
  <2>. QED
    BY <2>2, <2>3
<1>7. ASSUME ~setup.stores
      PROVE  net' = net \cup {tp} /\ conn' = NULL /\ conn = NULL /\ Cumulative = 0
  BY <1>2, <1>7 DEF PullNew, RelInv, Numbered, Cumulative
<1>8. net' = net \cup {tp} /\ tp \in Tuples /\ Newest' = Newest + 1
  <2>1. tp \in Tuples
    BY <1>2, <1>3 DEF Tuples
  <2>2. Newest' = Newest + 1
    BY <1>1, <1>4, <1>5 DEF Newest, SeqNum
  <2>. QED
    BY <1>6, <1>7, <2>1, <2>2
<1>9. tp.cseq # 0 => tp.cseq < tp.seq /\ conn # NULL /\ tp.cseq = conn.cum
  <2>1. ASSUME tp.cseq # 0
        PROVE  conn # NULL /\ tp.cseq = conn.cum /\ conn.cum <= Newest
    BY <2>1 DEF RelInv, Truthful, Reached, Cumulative
  <2>. QED
    BY <1>1, <1>3, <2>1
<1>10. tp.cseq = 0 => \A e \in net : e.cseq = 0
  <2>1. ASSUME tp.cseq = 0, NEW e \in net, e.cseq # 0
        PROVE  FALSE
    <3>1. conn # NULL /\ conn.cum # 0
      BY <2>1 DEF RelInv, Numbered
    <3>. QED
      BY <1>7, <2>1, <3>1 DEF Cumulative
  <2>. QED
    BY <2>1
<1>11. tp.seq = Newest + 1
  OBVIOUS
<1>12. ASSUME setup.stores
       PROVE  /\ conn' \in Connections /\ conn' # NULL /\ conn'.cum = Cumulative
              /\ conn'.timer /\ conn'.out # <<>>
              /\ DOMAIN conn'.out = 1 .. Len(Outstanding) + 1 /\ Len(Outstanding) \in Nat
              /\ \A i \in 1 .. Len(Outstanding) :
                   i \in DOMAIN Outstanding /\ conn'.out[i] = Outstanding[i]
              /\ conn'.out[Len(Outstanding) + 1] = held
              /\ DOMAIN Outstanding = 1 .. Len(Outstanding) /\ tp.cseq = Cumulative
  <2>. DEFINE out == Append(Outstanding, held)
  <2>1. held \in [seq : Nat, cseq : Nat, retries : Nat]
    BY <1>2, <1>3
  <2>2. /\ out \in Seq([seq : Nat, cseq : Nat, retries : Nat])
        /\ Len(out) = Len(Outstanding) + 1 /\ out[Len(Outstanding) + 1] = held
        /\ \A i \in 1 .. Len(Outstanding) : out[i] = Outstanding[i]
    BY <1>3, <2>1, AppendProperties
  <2>3. /\ Len(Outstanding) \in Nat /\ DOMAIN Outstanding = 1 .. Len(Outstanding)
        /\ DOMAIN out = 1 .. Len(out) /\ out # <<>>
    BY <1>3, <2>2, LenProperties, EmptySeq
  <2>4. /\ conn' \in Connections /\ conn'.cum = Cumulative /\ conn'.timer /\ conn'.out = out
        /\ tp.cseq = Cumulative
    <3>1. conn' = [cum |-> Cumulative, out |-> out, timer |-> TRUE]
      BY <1>6, <1>12
    <3>2. conn' \in Connections /\ conn'.cum = Cumulative /\ conn'.timer /\ conn'.out = out
      <4>. HIDE DEF out, Cumulative
      <4>. QED
        BY <1>3, <2>2, <3>1 DEF Connections
    <3>. QED
      BY <1>12, <3>2
  <2>5. conn' # NULL
    BY <2>4, ReliabilityAssumption
  <2>. QED
    BY <2>2, <2>3, <2>4, <2>5
<1>. HIDE DEF tp
<1>13. TypeOK'
  <2>1. SenderTypes'
    <3>1. conn' \in Connections \cup {NULL}
      BY <1>1, <1>7, <1>12
    <3>. QED
      BY <1>4, <1>5, <3>1 DEF RelInv, TypeOK, SenderTypes
  <2>2. ReceiverTypes'
    BY <1>5 DEF RelInv, TypeOK, ReceiverTypes, receiver, ordering
  <2>. QED
    BY <1>5, <1>8, <2>1, <2>2 DEF RelInv, TypeOK
<1>14. Numbered'
  <2>1. ASSUME NEW d \in net'
        PROVE  d.seq <= Newest' /\ (d.cseq # 0 => d.cseq < d.seq)
    BY <1>1, <1>8, <1>9, <1>11 DEF RelInv, Numbered
  <2>2. ASSUME NEW d \in net', NEW e \in net', d.cseq = 0, e.cseq # 0
        PROVE  d.seq < e.seq
    <3>1. CASE d \in net /\ e \in net
      BY <2>2, <3>1 DEF RelInv, Numbered
    <3>2. CASE d \in net /\ e = tp
      BY <1>1, <1>11, <3>2 DEF RelInv, Numbered
    <3>3. CASE d = tp
      BY <1>8, <1>10, <2>2, <3>3
    <3>. QED
      BY <1>8, <3>1, <3>2, <3>3
  <2>3. ASSUME NEW e \in net', e.cseq # 0
        PROVE  conn' # NULL /\ conn'.cum # 0
    <3>1. conn # NULL /\ conn.cum # 0
      <4>1. CASE e \in net
        BY <2>3, <4>1 DEF RelInv, Numbered
      <4>2. CASE e = tp
        BY <1>9, <2>3, <4>2
      <4>. QED
        BY <1>8, <4>1, <4>2
    <3>2. setup.stores
      BY <1>7, <3>1
    <3>. QED
      BY <1>12, <3>1, <3>2 DEF Cumulative
  <2>4. ~setup'.stores => conn' = NULL
    BY <1>5, <1>7
  <2>. QED
    BY <2>1, <2>2, <2>3, <2>4 DEF Numbered

<1>15. Held'
  <2>1. \A i \in DOMAIN retryQ' : retryQ'[i] \in net'
    BY <1>5, <1>8 DEF RelInv, Held
  <2>2. ASSUME conn' # NULL
        PROVE  setup.stores
    BY <1>7, <2>2
  <2>3. ASSUME conn' # NULL, NEW i \in DOMAIN conn'.out
        PROVE  Sent(conn'.out[i]) \in net'
    <3>1. CASE i = Len(Outstanding) + 1
      <4>1. Sent(held) = tp
        BY <2>2, <2>3, <1>12 DEF Sent, tp
      <4>. QED
        BY <1>8, <1>12, <2>2, <2>3, <3>1, <4>1
    <3>2. CASE i # Len(Outstanding) + 1
      <4>1. i \in DOMAIN Outstanding /\ conn'.out[i] = Outstanding[i]
        BY <1>12, <2>2, <2>3, <3>2
      <4>2. conn # NULL /\ Outstanding = conn.out
        BY <4>1 DEF Outstanding
      <4>. QED
        BY <1>8, <4>1, <4>2 DEF RelInv, Held, Sent
    <3>. QED
      BY <3>1, <3>2
  <2>4. ASSUME conn' # NULL, NEW i \in DOMAIN conn'.out, NEW j \in DOMAIN conn'.out, i < j
        PROVE  /\ conn'.out[i].seq < conn'.out[j].seq
               /\ conn'.out[i].retries >= conn'.out[j].retries
    <3>1. /\ i \in DOMAIN Outstanding /\ conn'.out[i] = Outstanding[i]
          /\ j = Len(Outstanding) + 1 \/ j \in DOMAIN Outstanding
      BY <1>12, <2>2, <2>4
    <3>2. conn # NULL /\ Outstanding = conn.out
      BY <3>1 DEF Outstanding
    <3>3. CASE j \in DOMAIN Outstanding
      BY <1>12, <2>2, <2>4, <3>1, <3>2, <3>3 DEF RelInv, Held
    <3>4. CASE j = Len(Outstanding) + 1
      <4>1. conn'.out[j].seq = Newest + 1 /\ conn'.out[j].retries = 0
        BY <1>12, <2>2, <2>4, <3>4
      <4>2. Outstanding[i] \in [seq : Nat, cseq : Nat, retries : Nat]
        BY <1>3, <1>12, <2>2, <2>4, <3>1, ElementOfSeq, Zenon
      <4>3. Sent(Outstanding[i]) \in net /\ Sent(Outstanding[i]).seq = Outstanding[i].seq
        BY <3>1, <3>2 DEF RelInv, Held, Sent
      <4>4. Outstanding[i].seq <= Newest
        BY <4>3 DEF RelInv, Numbered
      <4>. QED
        BY <1>1, <3>1, <4>1, <4>2, <4>4
    <3>. QED
      BY <3>1, <3>3, <3>4
  <2>. QED
    BY <2>1, <2>3, <2>4 DEF Held, Sent
<1>16. Truthful'
  <2>1. /\ \A c \in Nat : Reached(net, Done, Newest, c) => Reached(net', Done', Newest', c)
        /\ \A s \in Nat : Handled(net, Done, Newest, s) => Handled(net', Done', Newest', s)
    <3>1. Done' = Done /\ net \in SUBSET Tuples
      BY <1>5 DEF Done, receiver, RelInv, TypeOK
    <3>. QED
      BY <1>1, <1>8, <1>9, <1>11, <3>1, NewTuple, Zenon
  <2>2. Reached(net', Done', Newest', 0)
    BY <1>13, <1>14, ZeroReached DEF TypeOK, Numbered
  <2>3. \A d \in net' : Reached(net', Done', Newest', d.cseq)
    <3>1. Reached(net', Done', Newest', tp.cseq)
      <4>1. CASE tp.cseq = 0
        BY <2>2, <4>1
      <4>2. CASE tp.cseq # 0
        <5>1. conn # NULL /\ tp.cseq = conn.cum /\ Reached(net, Done, Newest, conn.cum)
          BY <1>9, <4>2 DEF RelInv, Truthful
        <5>2. tp.cseq \in Nat
          BY <1>8 DEF Tuples
        <5>. QED
          BY <2>1, <5>1, <5>2
      <4>. QED
        BY <4>1, <4>2
    <3>. QED
      BY <1>1, <1>8, <2>1, <3>1, Zenon DEF RelInv, Truthful
  <2>4. conn' # NULL => Reached(net', Done', Newest', conn'.cum)
    <3>1. Reached(net', Done', Newest', Cumulative)
      BY <1>3, <2>1, <2>2 DEF RelInv, Truthful, Cumulative
    <3>. QED
      BY <1>7, <1>12, <3>1
  <2>. USE NumberTypes DEF RelInv, Truthful
  <2>5. \A a \in acks' : Reached(net', Done', Newest', a.cum)
    BY <1>5, <2>1
  <2>6. dup' # NULL => Reached(net', Done', Newest', dup'.cum) /\ dup'.got \subseteq passed'
    BY <1>5, <2>1 DEF receiver
  <2>7. cack' # NULL =>
          /\ Reached(net', Done', Newest', cack'.cum) /\ IsFiniteSet(cack'.queue)
          /\ \A s \in cack'.queue : Handled(net', Done', Newest', s)
    BY <1>5, <2>1 DEF receiver
  <2>8. \A i \in DOMAIN ackQ' : ackQ'[i] \in net' /\ Handled(net', Done', Newest', ackQ'[i].seq)
    BY <1>5, <1>8, <2>1, Zenon DEF receiver
  <2>. QED
    BY <2>3, <2>4, <2>5, <2>6, <2>7, <2>8
<1>17. NoneLost'
  <2>1. ASSUME NEW d \in net', d.cseq # 0, d.seq \notin passed' \cup givenUp'
        PROVE  conn' # NULL /\ \E i \in DOMAIN conn'.out : conn'.out[i].seq = d.seq
    <3>1. CASE d \in net
      <4>1. PICK i \in DOMAIN conn.out : conn # NULL /\ conn.out[i].seq = d.seq
        BY <1>5, <2>1, <3>1 DEF RelInv, NoneLost, receiver
      <4>2. setup.stores /\ Outstanding = conn.out
        BY <1>7, <4>1 DEF Outstanding
      <4>. QED
        BY <1>12, <4>1, <4>2
    <3>2. CASE d = tp
      <4>1. setup.stores
        BY <1>7, <1>9, <2>1, <3>2
      <4>. QED
        BY <1>11, <1>12, <3>2, <4>1
    <3>. QED
      BY <1>8, <3>1, <3>2
  <2>. QED
    BY <2>1 DEF NoneLost
<1>18. Ordered' /\ NoFailure'
  BY <1>5 DEF RelInv, Ordered, NoFailure, receiver, ordering
<1>19. Awake'
  BY <1>4, <1>5, <1>7, <1>12 DEF RelInv, Awake, SenderAwake
<1>. QED
  BY <1>13, <1>14, <1>15, <1>16, <1>17, <1>18, <1>19 DEF RelInv

\* RDelivery::pull gives a tuple of the retry queue.
LEMMA PullRetryInv == RelInv /\ PullRetry => RelInv'
<1>. SUFFICES ASSUME RelInv, PullRetry PROVE RelInv'
  OBVIOUS
<1>1. /\ retryQ \in Seq(Tuples) /\ retryQ # <<>> /\ retryQ' = Tail(retryQ)
      /\ UNCHANGED <<setup, offered, sent, conn, waiting, acks, receiver, givenUp, failed>>
  BY DEF PullRetry, RelInv, TypeOK, SenderTypes
<1>2. /\ retryQ' \in Seq(Tuples) /\ DOMAIN retryQ' = 1 .. Len(retryQ) - 1
      /\ Len(retryQ) \in Nat \ {0} /\ DOMAIN retryQ = 1 .. Len(retryQ)
      /\ \A i \in 1 .. Len(retryQ) - 1 : retryQ'[i] = retryQ[i + 1]
  <2>1. /\ retryQ' \in Seq(Tuples) /\ Len(retryQ') = Len(retryQ) - 1
        /\ \A i \in 1 .. Len(retryQ') : retryQ'[i] = retryQ[i + 1]
    BY <1>1, HeadTailProperties
  <2>. QED
    BY <1>1, <2>1, LenProperties, EmptySeq
<1>3. net' = net
  <2>1. Head(retryQ) = retryQ[1] /\ 1 \in DOMAIN retryQ
    BY <1>1, <1>2
  <2>2. Head(retryQ) \in net
    BY <2>1 DEF RelInv, Held
  <2>. QED
    BY <2>2 DEF PullRetry
<1>4. ~waiting /\ inOn' \in BOOLEAN /\ (~inOn' => sent = offered)
  <2>1. CASE UNCHANGED inOn
    BY <2>1 DEF PullRetry, RelInv, TypeOK, Awake
  <2>2. CASE inOn /\ sent = offered /\ inOn' = FALSE
    BY <2>2, Zenon DEF PullRetry
  <2>. QED
    BY <2>1, <2>2, Zenon DEF PullRetry
<1>5. TypeOK'
  BY <1>1, <1>2, <1>3, <1>4 DEF RelInv, TypeOK, SenderTypes, ReceiverTypes, receiver, ordering
<1>6. Numbered' /\ NoneLost' /\ NoFailure'
  BY <1>1, <1>3, Zenon DEF RelInv, Numbered, NoneLost, NoFailure, Newest, SeqNum, receiver
<1>7. Held'
  <2>1. ASSUME NEW i \in DOMAIN retryQ'
        PROVE  retryQ'[i] \in net'
    <3>1. i + 1 \in DOMAIN retryQ /\ retryQ'[i] = retryQ[i + 1]
      BY <1>2
    <3>. QED
      BY <1>3, <3>1 DEF RelInv, Held
  <2>. QED
    BY <1>1, <1>3, <2>1 DEF RelInv, Held
<1>8. Truthful'
  BY <1>1, <1>3, Zenon DEF RelInv, Truthful, Done, Newest, SeqNum, receiver
<1>9. Ordered'
  BY <1>1, Zenon DEF RelInv, Ordered, receiver, ordering
<1>10. Awake'
  BY <1>1, <1>4 DEF RelInv, Awake, SenderAwake
<1>. QED
  BY <1>5, <1>6, <1>7, <1>8, <1>9, <1>10 DEF RelInv

\* RDelivery::ack: what leaves has been acknowledged, hence is done.
LEMMA AckInv == ASSUME RelInv, NEW a \in acks, ack(a) PROVE RelInv'
<1>. DEFINE Records == [seq : Nat, cseq : Nat, retries : Nat]
            k == Leading(Len(conn.out), {i \in DOMAIN conn.out : conn.out[i].seq <= a.cum})
            out == Drop(conn.out, k)
<1>1. /\ conn # NULL /\ conn \in Connections /\ conn.cum < a.cum
      /\ UNCHANGED <<setup, offered, sent, retryQ, inOn, waiting, net, acks, receiver,
                     givenUp, failed>>
      /\ conn' = [cum |-> a.cum, out |-> out, timer |-> out # <<>>]
  BY Zenon DEF ack, Unacked, Rearmed, RelInv, TypeOK, SenderTypes
<1>2. conn.out \in Seq(Records) /\ conn.cum \in Nat /\ a.cum \in Nat /\ Len(conn.out) \in Nat
  BY <1>1, LenProperties, Zenon DEF Connections, RelInv, TypeOK
<1>3. /\ k \in 0 .. Len(conn.out)
      /\ \A i \in 1 .. k : i \in DOMAIN conn.out /\ conn.out[i].seq <= a.cum
  BY <1>2, LeadingStops, Zenon
<1>. HIDE DEF k
<1>4. /\ out \in Seq(Records) /\ DOMAIN out = 1 .. Len(conn.out) - k
      /\ DOMAIN conn.out = 1 .. Len(conn.out)
      /\ \A i \in 1 .. Len(conn.out) - k : i + k \in DOMAIN conn.out /\ out[i] = conn.out[i + k]
  BY <1>2, <1>3, DropLeaves, LenProperties, Zenon
<1>. HIDE DEF out
<1>5. /\ conn' \in Connections /\ conn' # NULL /\ conn'.cum = a.cum /\ conn'.out = out
      /\ conn'.timer <=> out # <<>>
  <2>1. conn' \in Connections
    BY <1>1, <1>2, <1>4, Zenon DEF Connections
  <2>. QED
    BY <1>1, <2>1, ReliabilityAssumption, Zenon
<1>6. TypeOK'
  BY <1>1, <1>5 DEF RelInv, TypeOK, SenderTypes, ReceiverTypes, receiver, ordering
<1>7. Numbered'
  <2>1. conn'.cum # 0 /\ setup.stores
    BY <1>1, <1>2, <1>5 DEF RelInv, Numbered
  <2>. QED
    BY <1>1, <1>5, <2>1 DEF RelInv, Numbered, Newest, SeqNum
<1>8. Held'
  <2>1. ASSUME NEW i \in DOMAIN conn'.out
        PROVE  Sent(conn'.out[i]) \in net'
    BY <1>1, <1>4, <1>5 DEF RelInv, Held, Sent
  <2>2. ASSUME NEW i \in DOMAIN conn'.out, NEW j \in DOMAIN conn'.out, i < j
        PROVE  /\ conn'.out[i].seq < conn'.out[j].seq
               /\ conn'.out[i].retries >= conn'.out[j].retries
    <3>1. /\ i + k \in DOMAIN conn.out /\ j + k \in DOMAIN conn.out /\ i + k < j + k
          /\ conn'.out[i] = conn.out[i + k] /\ conn'.out[j] = conn.out[j + k]
      <4>1. i \in 1 .. Len(conn.out) - k /\ j \in 1 .. Len(conn.out) - k
        BY <1>4, <1>5
      <4>2. i + k < j + k
        BY <1>2, <1>3, <2>2, <4>1
      <4>. QED
        BY <1>4, <1>5, <4>1, <4>2
    <3>. QED
      BY <1>1, <3>1 DEF RelInv, Held
  <2>. QED
    BY <1>1, <2>1, <2>2 DEF RelInv, Held, Sent
<1>9. Truthful'
  BY <1>1, <1>5, Zenon DEF RelInv, Truthful, Done, Newest, SeqNum, receiver
<1>10. NoneLost'
  <2>1. ASSUME NEW d \in net, d.cseq # 0, d.seq \notin passed \cup givenUp
        PROVE  \E i \in DOMAIN out : out[i].seq = d.seq
    <3>1. PICK j \in DOMAIN conn.out : conn.out[j].seq = d.seq
      BY <2>1 DEF RelInv, NoneLost
    <3>2. CASE j <= k
      <4>1. d.seq <= a.cum
        BY <1>3, <1>4, <3>1, <3>2
      <4>2. Reached(net, Done, Newest, a.cum)
        BY DEF RelInv, Truthful
      <4>. QED
        BY <2>1, <4>1, <4>2 DEF Reached, Done
    <3>3. CASE ~(j <= k)
      <4>1. j \in Int /\ k \in Int /\ Len(conn.out) \in Int /\ j <= Len(conn.out)
        BY <1>2, <1>3, <1>4
      <4>2. j - k \in 1 .. Len(conn.out) - k /\ (j - k) + k = j
        BY <3>3, <4>1, ShiftedIndex
      <4>3. j - k \in DOMAIN out /\ out[j - k] = conn.out[j]
        BY <1>4, <4>2
      <4>. QED
        BY <3>1, <4>3
    <3>. QED
      BY <3>2, <3>3
  <2>. QED
    BY <1>1, <1>5, <2>1 DEF NoneLost, receiver
<1>11. Ordered' /\ NoFailure'
  BY <1>1 DEF RelInv, Ordered, NoFailure, receiver, ordering
<1>12. Awake'
  BY <1>1, <1>5 DEF RelInv, Awake, SenderAwake
<1>. QED
  BY <1>6, <1>7, <1>8, <1>9, <1>10, <1>11, <1>12 DEF RelInv

\* RDelivery::handle_failure: retries do not increase along the queue, so that what is
\* given up is at its front, and all older tuples are done.
LEMMA HandleFailureInv == RelInv /\ handle_failure => RelInv'
<1>. SUFFICES ASSUME RelInv, handle_failure PROVE RelInv'
  OBVIOUS
<1>. DEFINE Records == [seq : Nat, cseq : Nat, retries : Nat]
            out == conn.out
            n == Len(out)
            k == GivenUp(out)
            again == Drop(out, k)
            up == {out[i].seq : i \in 1 .. k}
            cum == RaisedCum(conn, k)
            retried == [i \in DOMAIN again |-> [again[i] EXCEPT !.retries = @ + 1]]
            resent == [i \in DOMAIN again |-> [seq |-> again[i].seq, cseq |-> again[i].cseq]]
<1>1. /\ conn # NULL /\ conn.timer
      /\ failed' = (failed \/ \E i \in DOMAIN again : Exhausted(again[i]))
      /\ retryQ' = retryQ \o resent /\ waiting' = (waiting /\ again = <<>>)
      /\ conn' = [cum |-> cum, out |-> retried, timer |-> again # <<>>]
      /\ givenUp' = givenUp \cup up
      /\ UNCHANGED <<setup, offered, sent, inOn, net, acks, receiver>>
  BY DEF handle_failure
<1>2. /\ out \in Seq(Records) /\ conn.cum \in Nat /\ n \in Nat /\ DOMAIN out = 1 .. n
      /\ \A i \in 1 .. n : out[i] \in Records
      /\ n = Len(out)
  <2>1. out \in Seq(Records) /\ conn.cum \in Nat
    BY <1>1 DEF RelInv, TypeOK, SenderTypes, Connections
  <2>. QED
    BY <2>1, LenProperties, ElementOfSeq, Zenon
<1>3. /\ setup.maxRetry \in Nat /\ Newest \in Int /\ Newest' = Newest
      /\ \A d \in net : d.seq \in Nat /\ d.cseq \in Nat
  BY <1>1, NumberTypes DEF RelInv, Newest, SeqNum
<1>4. /\ k \in 0 .. n /\ \A i \in 1 .. k : i \in 1 .. n /\ Exhausted(out[i])
      /\ k < n => ~Exhausted(out[k + 1])
  <2>. DEFINE S == {i \in DOMAIN out : Exhausted(out[i])}
  <2>1. /\ k \in 0 .. n /\ \A i \in 1 .. k : i \in S
        /\ k < n => k + 1 \notin S
    BY <1>2, LeadingStops, Zenon DEF GivenUp
  <2>2. k < n => k + 1 \in DOMAIN out
    BY <1>2, <2>1
  <2>. QED
    BY <1>2, <2>1, <2>2, Zenon
<1>5. /\ \A i \in 1 .. n : Sent(out[i]) \in net
      /\ \A i, j \in 1 .. n : i < j => out[i].seq < out[j].seq /\ out[i].retries >= out[j].retries
  BY <1>1, <1>2 DEF RelInv, Held, Sent
<1>. HIDE DEF k, n, out
<1>6. /\ again \in Seq(Records) /\ Len(again) = n - k /\ DOMAIN again = 1 .. n - k
      /\ \A i \in 1 .. n - k : i + k \in 1 .. n /\ again[i] = out[i + k]
  <2>. HIDE DEF Records
  <2>1. k \in 0 .. Len(out)
    BY <1>2, <1>4
  <2>2. /\ again \in Seq(Records) /\ Len(again) = Len(out) - k
        /\ DOMAIN again = 1 .. Len(out) - k
        /\ \A i \in 1 .. Len(out) - k : i + k \in DOMAIN out /\ again[i] = out[i + k]
    BY <1>2, <2>1, DropLeaves, Zenon
  <2>. QED
    BY <1>2, <2>2
<1>. HIDE DEF again
<1>7. ASSUME NEW i \in DOMAIN again
      PROVE  again[i] \in Records /\ ~Exhausted(again[i])
  <2>1. i \in 1 .. n - k /\ i + k \in 1 .. n /\ again[i] = out[i + k]
    BY <1>6
  <2>2. k < n /\ k + 1 \in 1 .. n /\ (i + k = k + 1 \/ k + 1 < i + k)
    <3>1. n \in Nat /\ k \in Nat /\ i \in Nat /\ 1 <= i /\ i <= n - k
      BY <1>2, <1>4, <2>1
    <3>. QED
      BY <3>1
  <2>3. out[k + 1].retries \in Nat /\ out[i + k].retries \in Nat
    BY <1>2, <2>1, <2>2, Zenon
  <2>4. out[i + k].retries <= out[k + 1].retries
    BY <1>5, <2>1, <2>2, <2>3
  <2>5. ~(out[k + 1].retries >= setup.maxRetry)
    BY <1>4, <2>2 DEF Exhausted
  <2>6. ~(out[i + k].retries >= setup.maxRetry)
    BY <1>3, <2>3, <2>4, <2>5
  <2>. QED
    BY <1>2, <2>1, <2>6, Zenon DEF Exhausted
<1>8. /\ retried \in Seq(Records) /\ Len(retried) = n - k /\ DOMAIN retried = 1 .. n - k
      /\ \A i \in 1 .. n - k : /\ retried[i].seq = out[i + k].seq
                               /\ retried[i].cseq = out[i + k].cseq
                               /\ retried[i].retries = out[i + k].retries + 1
  <2>1. ASSUME NEW i \in DOMAIN again
        PROVE  /\ [again[i] EXCEPT !.retries = @ + 1] \in Records
               /\ [again[i] EXCEPT !.retries = @ + 1].seq = again[i].seq
               /\ [again[i] EXCEPT !.retries = @ + 1].cseq = again[i].cseq
               /\ [again[i] EXCEPT !.retries = @ + 1].retries = again[i].retries + 1
    BY <1>7
  <2>2. n - k \in Nat
    BY <1>2, <1>4
  <2>3. retried \in Seq(Records) /\ Len(retried) = n - k /\ DOMAIN retried = 1 .. n - k
    <3>. HIDE DEF Records
    <3>1. retried \in [1 .. n - k -> Records]
      BY <1>6, <2>1
    <3>. HIDE DEF retried
    <3>. QED
      BY <2>2, <3>1, FunctionIsSeq
  <2>. QED
    BY <1>6, <2>1, <2>3, Zenon
<1>9. /\ resent \in Seq(Tuples) /\ Len(resent) = n - k
      /\ \A i \in 1 .. n - k : resent[i] = Sent(out[i + k])
  <2>1. resent \in [1 .. n - k -> Tuples]
    BY <1>6, <1>7 DEF Tuples
  <2>2. n - k \in Nat
    BY <1>2, <1>4
  <2>3. resent \in Seq(Tuples) /\ Len(resent) = n - k
    <3>. HIDE DEF resent
    <3>. QED
      BY <2>1, <2>2, FunctionIsSeq
  <2>. QED
    BY <1>6, <2>3 DEF Sent
<1>. HIDE DEF retried, resent
<1>10. /\ cum \in {conn.cum} \cup up /\ cum \in Nat /\ conn.cum <= cum
       /\ up \subseteq Nat
  <2>. DEFINE S == {conn.cum} \cup up
  <2>1. S \subseteq Nat
    BY <1>2, <1>4
  <2>2. \E x \in S : \A y \in S : x >= y
    <3>1. CASE k = 0
      <4>1. up = {}
        BY <3>1
      <4>. HIDE DEF up
      <4>2. conn.cum \in S /\ \A y \in S : conn.cum >= y
        BY <1>2, <4>1
      <4>. QED
        BY <4>2
    <3>2. CASE k # 0
      <4>1. k \in 1 .. n /\ k \in 1 .. k
        BY <1>2, <1>4, <3>2
      <4>2. out[k].seq \in up /\ out[k].seq \in Nat
        BY <1>2, <4>1
      <4>3. ASSUME NEW i \in 1 .. k
            PROVE  out[k].seq >= out[i].seq
        <5>1. i \in 1 .. n /\ (i = k \/ i < k) /\ out[i].seq \in Nat
          BY <1>2, <1>4
        <5>. QED
          BY <1>5, <4>1, <4>2, <5>1
      <4>4. \A y \in up : out[k].seq >= y
        BY <4>3
      <4>5. CASE out[k].seq >= conn.cum
        BY <4>2, <4>4, <4>5
      <4>6. CASE ~(out[k].seq >= conn.cum)
        <5>. HIDE DEF up
        <5>1. ASSUME NEW y \in up
              PROVE  conn.cum >= y
          <6>1. y \in Nat /\ out[k].seq >= y
            BY <2>1, <4>4
          <6>. QED
            BY <1>2, <4>2, <4>6, <6>1
        <5>2. conn.cum \in S /\ \A y \in S : conn.cum >= y
          BY <1>2, <5>1
        <5>. QED
          BY <5>2
      <4>. QED
        BY <4>5, <4>6
    <3>. QED
      BY <3>1, <3>2
  <2>3. cum = Max(S)
    BY DEF RaisedCum, out
  <2>. HIDE DEF S, cum
  <2>4. cum \in S /\ \A y \in S : cum >= y
    BY <2>2, <2>3 DEF Max
  <2>5. conn.cum \in S /\ S = {conn.cum} \cup up
    BY DEF S
  <2>. QED
    BY <1>2, <2>1, <2>4, <2>5
<1>. HIDE DEF cum
<1>11. /\ conn' \in Connections /\ conn' # NULL /\ conn'.cum = cum /\ conn'.out = retried
       /\ conn'.timer <=> again # <<>>
  <2>1. conn' \in Connections
    BY <1>1, <1>8, <1>10, Zenon DEF Connections
  <2>. QED
    BY <1>1, <2>1, ReliabilityAssumption, Zenon
<1>12. /\ retryQ' \in Seq(Tuples) /\ Len(retryQ') = Len(retryQ) + (n - k)
       /\ DOMAIN retryQ' = 1 .. Len(retryQ) + (n - k)
       /\ Len(retryQ) \in Nat /\ DOMAIN retryQ = 1 .. Len(retryQ)
       /\ \A i \in 1 .. Len(retryQ) + (n - k) :
            retryQ'[i] = IF i <= Len(retryQ) THEN retryQ[i] ELSE Sent(out[i - Len(retryQ) + k])
  <2>1. retryQ \in Seq(Tuples)
    BY DEF RelInv, TypeOK, SenderTypes
  <2>2. /\ retryQ' \in Seq(Tuples) /\ Len(retryQ') = Len(retryQ) + (n - k)
        /\ \A i \in 1 .. Len(retryQ) + (n - k) :
             retryQ'[i] = IF i <= Len(retryQ) THEN retryQ[i] ELSE resent[i - Len(retryQ)]
    BY <1>1, <1>9, <2>1, ConcatProperties, Zenon
  <2>3. /\ Len(retryQ) \in Nat /\ DOMAIN retryQ = 1 .. Len(retryQ)
        /\ DOMAIN retryQ' = 1 .. Len(retryQ')
    BY <2>1, <2>2, LenProperties
  <2>4. ASSUME NEW i \in 1 .. Len(retryQ) + (n - k), ~(i <= Len(retryQ))
        PROVE  resent[i - Len(retryQ)] = Sent(out[i - Len(retryQ) + k])
    <3>1. n - k \in Int /\ Len(retryQ) \in Int
      BY <1>2, <1>4, <2>3
    <3>2. i - Len(retryQ) \in 1 .. n - k
      BY <2>4, <3>1
    <3>. QED
      BY <1>9, <3>2
  <2>. QED
    BY <2>2, <2>3, <2>4
<1>13. ~failed' /\ waiting' \in BOOLEAN
  BY <1>1, <1>7 DEF RelInv, NoFailure, TypeOK
<1>14. TypeOK'
  <2>1. SenderTypes'
    BY <1>1, <1>10, <1>11, <1>12, Zenon DEF RelInv, TypeOK, SenderTypes
  <2>2. ReceiverTypes'
    BY <1>1, Zenon DEF RelInv, TypeOK, ReceiverTypes, receiver, ordering
  <2>. QED
    BY <1>1, <1>13, <2>1, <2>2 DEF RelInv, TypeOK
<1>15. Numbered'
  <2>1. conn.cum # 0 => conn'.cum # 0
    BY <1>2, <1>10, <1>11
  <2>2. setup.stores
    BY <1>1, Zenon DEF RelInv, Numbered
  <2>3. (\E e \in net' : e.cseq # 0) => conn' # NULL /\ conn'.cum # 0
    BY <1>1, <1>11, <2>1 DEF RelInv, Numbered
  <2>. QED
    BY <1>1, <1>3, <2>2, <2>3, Zenon DEF RelInv, Numbered
<1>16. Held'
  <2>1. ASSUME NEW i \in DOMAIN retryQ'
        PROVE  retryQ'[i] \in net'
    <3>1. CASE i <= Len(retryQ)
      <4>1. i \in 1 .. Len(retryQ) + (n - k)
        BY <1>12, <2>1, Zenon
      <4>2. i \in DOMAIN retryQ /\ retryQ'[i] = retryQ[i]
        BY <1>12, <3>1, <4>1
      <4>. QED
        BY <1>1, <4>2, Zenon DEF RelInv, Held
    <3>2. CASE ~(i <= Len(retryQ))
      <4>1. i - Len(retryQ) \in 1 .. n - k
        <5>1. /\ i \in Int /\ Len(retryQ) \in Int /\ n - k \in Int
              /\ i <= Len(retryQ) + (n - k)
          BY <1>2, <1>4, <1>12
        <5>. QED
          BY <3>2, <5>1
      <4>2. i - Len(retryQ) + k \in 1 .. n
        BY <1>6, <4>1
      <4>. QED
        BY <1>1, <1>5, <1>12, <3>2, <4>2, Zenon
    <3>. QED
      BY <3>1, <3>2
  <2>2. ASSUME NEW i \in DOMAIN conn'.out
        PROVE  Sent(conn'.out[i]) \in net'
    <3>1. i + k \in 1 .. n /\ Sent(retried[i]) = Sent(out[i + k])
      BY <1>6, <1>8, <1>11, Zenon DEF Sent
    <3>. QED
      BY <1>1, <1>5, <1>11, <3>1, Zenon
  <2>3. ASSUME NEW i \in DOMAIN conn'.out, NEW j \in DOMAIN conn'.out, i < j
        PROVE  /\ conn'.out[i].seq < conn'.out[j].seq
               /\ conn'.out[i].retries >= conn'.out[j].retries
    <3>1. i \in 1 .. n - k /\ j \in 1 .. n - k
      BY <1>8, <1>11
    <3>2. i + k \in 1 .. n /\ j + k \in 1 .. n
      BY <1>6, <3>1
    <3>3. i + k < j + k
      BY <1>2, <1>4, <2>3, <3>1
    <3>4. /\ out[i + k].seq < out[j + k].seq /\ out[i + k].retries >= out[j + k].retries
          /\ out[i + k].retries \in Nat /\ out[j + k].retries \in Nat
      BY <1>2, <1>5, <3>2, <3>3
    <3>5. /\ conn'.out[i].seq = out[i + k].seq /\ conn'.out[j].seq = out[j + k].seq
          /\ conn'.out[i].retries = out[i + k].retries + 1
          /\ conn'.out[j].retries = out[j + k].retries + 1
      BY <1>8, <1>11, <3>1
    <3>. QED
      BY <3>4, <3>5
  <2>. QED
    BY <2>1, <2>2, <2>3 DEF Held, Sent
<1>17. ASSUME NEW d \in net, d.cseq # 0, d.seq \notin Done
       PROVE  \E j \in 1 .. n : out[j].seq = d.seq
  BY <1>2, <1>17 DEF RelInv, NoneLost, Done, out
<1>18. Truthful'
  <2>1. Done \subseteq Done' /\ Done' = Done \cup up
    BY <1>1, Zenon DEF Done, receiver
  <2>2. /\ \A c : Reached(net, Done, Newest, c) => Reached(net', Done', Newest', c)
        /\ \A s : Handled(net, Done, Newest, s) => Handled(net', Done', Newest', s)
    BY <1>1, <1>3, <2>1, MoreDone, Zenon
  <2>3. Reached(net', Done', Newest', conn'.cum)
    <3>1. CASE cum = conn.cum
      BY <1>1, <1>11, <2>2, <3>1, Zenon DEF RelInv, Truthful
    <3>2. CASE cum \in up
      <4>1. PICK i \in 1 .. k : cum = out[i].seq
        BY <3>2
      <4>2. i \in 1 .. n /\ Sent(out[i]) \in net /\ Sent(out[i]).seq = cum
        BY <1>4, <1>5, <4>1, Zenon DEF Sent
      <4>3. cum <= Newest
        BY <4>2 DEF RelInv, Numbered
      <4>4. ASSUME NEW d \in net, d.cseq # 0, d.seq <= cum, d.seq \notin Done
            PROVE  d.seq \in up
        <5>1. PICK j \in 1 .. n : out[j].seq = d.seq
          BY <1>17, <4>4
        <5>2. ~(i < j)
          <6>1. out[i].seq \in Nat /\ out[j].seq \in Nat
            BY <1>2, <4>2, Zenon
          <6>. QED
            BY <1>5, <4>1, <4>2, <4>4, <5>1, <6>1
        <5>3. j \in 1 .. k
          BY <1>2, <1>4, <4>1, <5>1, <5>2
        <5>. QED
          BY <5>1, <5>3
      <4>. QED
        BY <1>1, <1>3, <1>11, <2>1, <4>3, <4>4, Zenon DEF Reached
    <3>. QED
      BY <1>10, <3>1, <3>2
  <2>. QED
    BY <1>1, <2>2, <2>3, Zenon DEF RelInv, Truthful, receiver
<1>19. NoneLost'
  <2>1. ASSUME NEW d \in net, d.cseq # 0, d.seq \notin passed' \cup givenUp'
        PROVE  \E i \in DOMAIN conn'.out : conn'.out[i].seq = d.seq
    <3>1. d.seq \notin Done /\ d.seq \notin up
      BY <1>1, <2>1, Zenon DEF Done, receiver
    <3>2. PICK j \in 1 .. n : out[j].seq = d.seq
      BY <1>17, <2>1, <3>1
    <3>3. ~(j <= k)
      <4>1. j <= k => j \in 1 .. k
        BY <1>2, <1>4, <3>2
      <4>2. \A i \in 1 .. k : out[i].seq \in up
        OBVIOUS
      <4>. QED
        BY <3>1, <3>2, <4>1, <4>2, Zenon
    <3>4. j - k \in 1 .. n - k /\ (j - k) + k = j
      BY <1>2, <1>4, <3>2, <3>3
    <3>5. retried[j - k].seq = d.seq
      BY <1>8, <3>2, <3>4
    <3>. QED
      BY <1>8, <1>11, <3>4, <3>5
  <2>. QED
    BY <1>1, <1>11, <2>1 DEF NoneLost
<1>20. Ordered' /\ NoFailure'
  BY <1>1, <1>13, Zenon DEF RelInv, Ordered, NoFailure, receiver, ordering
<1>21. Awake'
  <2>1. again = <<>> => n - k = 0
    BY <1>6, EmptySeq
  <2>2. again # <<>> => n - k # 0
    BY <1>6, EmptySeq
  <2>3. conn'.timer <=> conn'.out # <<>>
    <3>1. n - k = 0 <=> retried = <<>>
      BY <1>8, EmptySeq
    <3>. QED
      BY <1>11, <2>1, <2>2, <3>1
  <2>4. waiting' => retryQ' = <<>> /\ sent' = offered'
    <3>1. ASSUME waiting'
          PROVE  retryQ' = <<>> /\ sent' = offered'
      <4>1. waiting /\ n - k = 0
        BY <1>1, <2>1, <3>1, Zenon
      <4>2. retryQ = <<>> /\ sent = offered
        BY <4>1 DEF RelInv, Awake, SenderAwake
      <4>3. Len(retryQ') = 0
        BY <1>12, <4>1, <4>2, EmptySeq
      <4>. QED
        BY <1>1, <1>12, <4>2, <4>3, EmptySeq
    <3>. QED
      BY <3>1
  <2>. QED
    BY <1>1, <1>11, <2>3, <2>4, Zenon DEF RelInv, Awake, SenderAwake
<1>. QED
  BY <1>14, <1>15, <1>16, <1>18, <1>19, <1>20, <1>21 DEF RelInv

-----------------------------------------------------------------------------
(* Acknowledgements.                                                       *)

\* What CumulativeAck::confirm makes of a true record and of a tuple that was handled is
\* true.
LEMMA ConfirmedTrue ==
  ASSUME NEW N \in SUBSET Tuples, NEW done, NEW m \in Int,
         NEW cp \in AckConnections, NEW seq \in Nat,
         Reached(N, done, m, cp.cum), IsFiniteSet(cp.queue),
         \A s \in cp.queue : Handled(N, done, m, s), Handled(N, done, m, seq)
  PROVE  /\ Confirmed(cp, seq) \in AckConnections
         /\ Reached(N, done, m, Confirmed(cp, seq).cum)
         /\ IsFiniteSet(Confirmed(cp, seq).queue)
         /\ \A s \in Confirmed(cp, seq).queue : Handled(N, done, m, s)
<1>. DEFINE q == IF seq < cp.cum \/ seq = cp.cum + 1 THEN cp.queue ELSE cp.queue \cup {seq}
            base == IF seq = cp.cum + 1 THEN seq ELSE cp.cum
            S == {i \in 1 .. Cardinality(q) : base + i \in q}
            top == base + Leading(Cardinality(q), S)
            res == [cum |-> top, queue |-> {s \in q : s > top}]
<1>1. cp.cum \in Nat /\ cp.queue \subseteq Nat /\ base \in Nat
  BY DEF AckConnections
<1>2. q \subseteq Nat /\ IsFiniteSet(q) /\ \A s \in q : Handled(N, done, m, s)
  BY <1>1, FS_AddElement, Zenon
<1>3. Cardinality(q) \in Nat
  BY <1>2, FS_CardinalityType, Zenon
<1>4. Reached(N, done, m, base)
  <2>1. CASE seq = cp.cum + 1
    <3>1. seq <= m
      BY DEF Handled
    <3>0. cp.cum \in Nat
      BY <1>1
    <3>2. \A s \in cp.cum + 1 .. seq : s = seq
      BY <2>1, <3>0
    <3>3. \A s \in cp.cum + 1 .. seq : Handled(N, done, m, s)
      BY <3>2
    <3>. QED
      BY <1>1, <2>1, <3>1, <3>3, FurtherReached, Zenon
  <2>2. CASE seq # cp.cum + 1
    BY <2>2
  <2>. QED
    BY <2>1, <2>2, Zenon
<1>. HIDE DEF q, base
<1>5. /\ Leading(Cardinality(q), S) \in Nat
      /\ \A i \in 1 .. Leading(Cardinality(q), S) : base + i \in q
  <2>1. /\ Leading(Cardinality(q), S) \in 0 .. Cardinality(q)
        /\ \A i \in 1 .. Leading(Cardinality(q), S) : i \in S
    BY <1>3, LeadingStops
  <2>. QED
    BY <1>3, <2>1
<1>. HIDE DEF S
<1>6. top \in Nat /\ \A s \in base + 1 .. top : s \in q
  <2>1. top \in Nat
    BY <1>1, <1>5
  <2>2. ASSUME NEW s \in base + 1 .. top
        PROVE  s \in q
    <3>1. s - base \in 1 .. Leading(Cardinality(q), S) /\ base + (s - base) = s
      BY <1>1, <1>5
    <3>. QED
      BY <1>5, <3>1
  <2>. QED
    BY <2>1, <2>2
<1>7. Reached(N, done, m, top)
  <2>1. CASE top = base
    BY <1>4, <2>1, Zenon
  <2>2. CASE top # base
    <3>1. top \in base + 1 .. top
      BY <1>1, <1>5, <1>6, <2>2
    <3>2. top <= m
      BY <1>2, <1>6, <3>1 DEF Handled
    <3>. QED
      BY <1>1, <1>2, <1>4, <1>6, <3>2, FurtherReached, Zenon
  <2>. QED
    BY <2>1, <2>2, Zenon
<1>8. Confirmed(cp, seq) = cp \/ Confirmed(cp, seq) = res
  BY Zenon DEF Confirmed, q, base, S
<1>. HIDE DEF top
<1>9. /\ res \in AckConnections /\ res.cum = top /\ IsFiniteSet(res.queue)
      /\ \A s \in res.queue : Handled(N, done, m, s)
  <2>1. {s \in q : s > top} \subseteq q
    OBVIOUS
  <2>2. IsFiniteSet({s \in q : s > top})
    BY <1>2, <2>1, FS_Subset, Zenon
  <2>. QED
    BY <1>2, <1>6, <2>2, Zenon DEF AckConnections
<1>. QED
  BY <1>7, <1>8, <1>9

\* CumulativeAck::simple_action starts from a true record: with cumulative number 0 at the
\* number of a tuple that no tuple of an established connection precedes.
LEMMA StartTrue ==
  ASSUME RelInv, NEW d \in net
  PROVE  /\ Start(d) \in AckConnections
         /\ Reached(net, Done, Newest, Start(d).cum)
         /\ IsFiniteSet(Start(d).queue)
         /\ \A s \in Start(d).queue : Handled(net, Done, Newest, s)
<1>1. d.seq \in Nat /\ d.cseq \in Nat
  BY NumberTypes DEF RelInv
<1>2. CASE d.cseq = 0
  <2>1. Start(d) = [cum |-> d.seq, queue |-> {}]
    BY <1>2 DEF Start
  <2>2. Reached(net, Done, Newest, d.seq)
    <3>1. ASSUME NEW e \in net, e.cseq # 0
          PROVE  ~(e.seq <= d.seq)
      <4>1. d.seq < e.seq /\ e.seq \in Nat
        BY <1>2, <3>1, NumberTypes DEF RelInv, Numbered
      <4>. QED
        BY <1>1, <4>1
    <3>2. d.seq <= Newest
      BY DEF RelInv, Numbered
    <3>. QED
      BY <3>1, <3>2 DEF Reached
  <2>3. Start(d) \in AckConnections /\ Start(d).cum = d.seq /\ Start(d).queue = {}
    BY <1>1, <2>1 DEF AckConnections
  <2>. QED
    BY <2>2, <2>3, FS_EmptySet, Zenon
<1>3. CASE d.cseq # 0 /\ cack = NULL
  <2>1. Start(d) = [cum |-> d.cseq, queue |-> {}]
    <3>1. Max({0, d.cseq}) = d.cseq
      BY <1>1, MaxOfTwo
    <3>. QED
      BY <1>3, <3>1 DEF Start
  <2>2. Reached(net, Done, Newest, d.cseq)
    BY Zenon DEF RelInv, Truthful
  <2>3. Start(d) \in AckConnections /\ Start(d).cum = d.cseq /\ Start(d).queue = {}
    BY <1>1, <2>1 DEF AckConnections
  <2>. QED
    BY <2>2, <2>3, FS_EmptySet, Zenon
<1>4. CASE d.cseq # 0 /\ cack # NULL
  <2>1. cack \in AckConnections /\ cack.cum \in Nat
    BY <1>4 DEF RelInv, TypeOK, ReceiverTypes, AckConnections
  <2>2. Max({cack.cum, d.cseq}) \in {cack.cum, d.cseq}
    BY <1>1, <2>1, MaxOfTwo
  <2>3. Start(d) = [cack EXCEPT !.cum = Max({@, d.cseq})]
    BY <1>4 DEF Start
  <2>4. /\ Start(d) \in AckConnections /\ Start(d).cum \in {cack.cum, d.cseq}
        /\ Start(d).queue = cack.queue
    BY <1>1, <2>1, <2>2, <2>3 DEF AckConnections
  <2>. QED
    BY <1>4, <2>4, Zenon DEF RelInv, Truthful
<1>. QED
  BY <1>2, <1>3, <1>4, Zenon

\* CumulativeAck::simple_action acknowledges what was handled.
LEMMA SendAckInv == RelInv /\ SendAck => RelInv'
<1>. SUFFICES ASSUME RelInv, SendAck PROVE RelInv'
  OBVIOUS
<1>. DEFINE d == Head(ackQ)
            cp == Confirmed(Start(d), d.seq)
<1>1. /\ ackQ \in Seq(Tuples) /\ ackQ # <<>> /\ ackQ' = Tail(ackQ)
      /\ cack' = cp /\ acks' = acks \cup {[seq |-> d.seq, cum |-> cp.cum]}
      /\ UNCHANGED <<setup, sender, net, dup, ordering, passed, givenUp, failed>>
  BY Zenon DEF SendAck, RelInv, TypeOK, ReceiverTypes
<1>2. /\ ackQ' \in Seq(Tuples) /\ DOMAIN ackQ' = 1 .. Len(ackQ) - 1
      /\ Len(ackQ) \in Nat \ {0} /\ DOMAIN ackQ = 1 .. Len(ackQ)
      /\ \A i \in 1 .. Len(ackQ) - 1 : ackQ'[i] = ackQ[i + 1]
  <2>1. /\ ackQ' \in Seq(Tuples) /\ Len(ackQ') = Len(ackQ) - 1
        /\ \A i \in 1 .. Len(ackQ') : ackQ'[i] = ackQ[i + 1]
    BY <1>1, HeadTailProperties, Zenon
  <2>. QED
    BY <1>1, <2>1, LenProperties, EmptySeq, Zenon
<1>3. d \in net /\ Handled(net, Done, Newest, d.seq) /\ d.seq \in Nat /\ Newest \in Int
  <2>1. d = ackQ[1] /\ 1 \in DOMAIN ackQ
    BY <1>1, <1>2
  <2>2. d \in net /\ Handled(net, Done, Newest, d.seq)
    BY <2>1, Zenon DEF RelInv, Truthful
  <2>. QED
    BY <2>2, NumberTypes DEF RelInv
<1>. HIDE DEF d
<1>4. /\ cp \in AckConnections /\ Reached(net, Done, Newest, cp.cum) /\ IsFiniteSet(cp.queue)
      /\ \A s \in cp.queue : Handled(net, Done, Newest, s)
  <2>1. net \in SUBSET Tuples
    BY DEF RelInv, TypeOK
  <2>. QED
    BY <1>3, <2>1, StartTrue, ConfirmedTrue, Zenon
<1>. HIDE DEF cp
<1>5. TypeOK'
  <2>1. [seq |-> d.seq, cum |-> cp.cum] \in [seq : Nat, cum : Nat]
    BY <1>3, <1>4, Zenon DEF AckConnections
  <2>2. ReceiverTypes'
    BY <1>1, <1>2, <1>4, Zenon DEF RelInv, TypeOK, ReceiverTypes, ordering
  <2>3. SenderTypes' /\ inOn' \in BOOLEAN /\ waiting' \in BOOLEAN /\ failed' \in BOOLEAN
    BY <1>1, Zenon DEF RelInv, TypeOK, SenderTypes, sender
  <2>. QED
    BY <1>1, <2>1, <2>2, <2>3, Zenon DEF RelInv, TypeOK
<1>6. Numbered' /\ NoneLost' /\ NoFailure' /\ Held'
  BY <1>1, Zenon DEF RelInv, Numbered, NoneLost, NoFailure, Held, Newest, SeqNum, sender
<1>7. Truthful'
  <2>1. Newest' = Newest /\ Done' = Done /\ net' = net /\ conn' = conn /\ dup' = dup /\ passed' = passed
    BY <1>1 DEF Newest, SeqNum, Done, sender
  <2>2. \A a \in acks' : Reached(net, Done, Newest, a.cum)
    <3>. DEFINE new == [seq |-> d.seq, cum |-> cp.cum]
    <3>1. new.cum = cp.cum
      OBVIOUS
    <3>. HIDE DEF new
    <3>2. acks' = acks \cup {new}
      BY <1>1 DEF new
    <3>. QED
      BY <1>4, <3>1, <3>2, Zenon DEF RelInv, Truthful
  <2>3. ASSUME NEW i \in DOMAIN ackQ'
        PROVE  ackQ'[i] \in net /\ Handled(net, Done, Newest, ackQ'[i].seq)
    <3>1. i + 1 \in DOMAIN ackQ /\ ackQ'[i] = ackQ[i + 1]
      BY <1>2
    <3>. QED
      BY <3>1, Zenon DEF RelInv, Truthful
  <2>. QED
    BY <1>1, <1>4, <2>1, <2>2, <2>3, Zenon DEF RelInv, Truthful
<1>8. Ordered' /\ Awake'
  BY <1>1, Zenon DEF RelInv, Ordered, Awake, SenderAwake, sender, ordering
<1>. QED
  BY <1>5, <1>6, <1>7, <1>8 DEF RelInv

-----------------------------------------------------------------------------
(* The ordering of ODelivery.                                              *)

\* ODelivery::Connection::insert keeps the queue in sequence order.
LEMMA PlacedInOrder ==
  ASSUME NEW q \in Seq(Nat), Increasing(q), NEW seq \in Nat, NEW k, k = Below(q, seq),
         ~(k < Len(q) /\ q[k + 1] = seq)
  PROVE  /\ Placed(q, k, seq) \in Seq(Nat) /\ Increasing(Placed(q, k, seq))
         /\ \A i \in DOMAIN Placed(q, k, seq) :
              Placed(q, k, seq)[i] = seq \/ \E j \in DOMAIN q : Placed(q, k, seq)[i] = q[j]
<1>. DEFINE p == Placed(q, k, seq)
<1>1. Len(q) \in Nat /\ DOMAIN q = 1 .. Len(q) /\ \A i \in 1 .. Len(q) : q[i] \in Nat
  BY LenProperties, ElementOfSeq
<1>2. /\ k \in 0 .. Len(q) /\ \A i \in 1 .. k : q[i] < seq
      /\ k < Len(q) => ~(q[k + 1] < seq)
  BY <1>1, LeadingStops DEF Below
<1>3. \A j \in 1 .. Len(q) : k < j => seq < q[j]
  <2>. SUFFICES ASSUME NEW j \in 1 .. Len(q), k < j PROVE seq < q[j]
    OBVIOUS
  <2>1. k + 1 \in DOMAIN q /\ j \in DOMAIN q /\ k < Len(q) /\ (k + 1 = j \/ k + 1 < j)
    BY <1>1, <1>2
  <2>2. q[k + 1] = q[j] \/ q[k + 1] < q[j]
    BY <2>1 DEF Increasing
  <2>3. seq < q[k + 1]
    BY <1>1, <1>2, <2>1
  <2>. QED
    BY <1>1, <2>1, <2>2, <2>3
<1>4. /\ \A i \in 1 .. Len(q) + 1 :
            /\ i <= k => p[i] = q[i] /\ i \in 1 .. Len(q)
            /\ i = k + 1 => p[i] = seq
            /\ i > k + 1 => p[i] = q[i - 1] /\ i - 1 \in 1 .. Len(q)
      /\ DOMAIN p = 1 .. Len(q) + 1
  BY <1>1, <1>2 DEF Placed
<1>5. p \in Seq(Nat)
  <2>1. \A i \in 1 .. Len(q) + 1 : p[i] \in Nat
    BY <1>1, <1>2, <1>4
  <2>2. p \in [1 .. Len(q) + 1 -> Nat]
    BY <2>1, <1>4, Zenon DEF Placed
  <2>3. Len(q) + 1 \in Nat
    BY <1>1
  <2>. HIDE DEF p
  <2>. QED
    BY <2>2, <2>3, FunctionIsSeq
<1>. HIDE DEF p
<1>6. ASSUME NEW i \in 1 .. Len(q) + 1, NEW j \in 1 .. Len(q) + 1, i < j
      PROVE  p[i] < p[j]
  <2>1. CASE j <= k
    <3>1. p[i] = q[i] /\ p[j] = q[j] /\ i \in DOMAIN q /\ j \in DOMAIN q
      BY <1>1, <1>2, <1>4, <1>6, <2>1
    <3>. QED
      BY <1>6, <3>1 DEF Increasing
  <2>2. CASE j = k + 1
    <3>1. p[j] = seq /\ p[i] = q[i] /\ i \in 1 .. k
      BY <1>1, <1>2, <1>4, <1>6, <2>2
    <3>. QED
      BY <1>2, <3>1
  <2>3. CASE j > k + 1
    <3>1. p[j] = q[j - 1] /\ j - 1 \in 1 .. Len(q) /\ k < j - 1
      BY <1>1, <1>2, <1>4, <2>3
    <3>2. CASE i <= k
      <4>1. p[i] = q[i] /\ i \in DOMAIN q /\ i < j - 1
        BY <1>1, <1>2, <1>4, <2>3, <3>2
      <4>. QED
        BY <1>1, <3>1, <4>1, Zenon DEF Increasing
    <3>3. CASE i = k + 1
      BY <1>3, <1>4, <3>1, <3>3
    <3>4. CASE i > k + 1
      <4>1. p[i] = q[i - 1] /\ i - 1 \in DOMAIN q /\ i - 1 < j - 1
        BY <1>1, <1>2, <1>4, <1>6, <3>4
      <4>. QED
        BY <1>1, <3>1, <4>1, Zenon DEF Increasing
    <3>. QED
      BY <1>1, <1>2, <3>2, <3>3, <3>4
  <2>4. j <= k \/ j = k + 1 \/ j > k + 1
    BY <1>1, <1>2
  <2>. QED
    BY <2>1, <2>2, <2>3, <2>4
<1>7. ASSUME NEW i \in 1 .. Len(q) + 1
      PROVE  p[i] = seq \/ \E j \in DOMAIN q : p[i] = q[j]
  <2>1. i <= k \/ i = k + 1 \/ i > k + 1
    BY <1>1, <1>2
  <2>. QED
    BY <1>1, <1>4, <2>1, Zenon
<1>8. Increasing(p) /\ \A i \in DOMAIN p : p[i] = seq \/ \E j \in DOMAIN q : p[i] = q[j]
  BY <1>4, <1>6, <1>7 DEF Increasing
<1>. QED
  BY <1>5, <1>8 DEF p

\* What ODelivery has delivered, o, lies below the next number and below the queue.
Delivers(cp, o) ==
  /\ Increasing(o) /\ Increasing(cp.queue)
  /\ \A i \in DOMAIN o : o[i] < cp.next
  /\ \A i \in DOMAIN o, j \in DOMAIN cp.queue : o[i] < cp.queue[j]

\* ODelivery::flush keeps the order.
LEMMA FlushInOrder ==
  ASSUME NEW cp \in OrderConnections, NEW r \in Nat, NEW o \in Seq(Nat), Delivers(cp, o),
         NEW f, f = flush([cp |-> cp, room |-> r, outs |-> o])
  PROVE  /\ f.cp \in OrderConnections /\ f.room \in Nat /\ f.outs \in Seq(Nat)
         /\ Delivers(f.cp, f.outs)
<1>. DEFINE q == cp.queue
            k == Leading(Min({r, Len(q)}), Due(cp))
            front == SubSeq(q, 1, k)
            rest == Drop(q, k)
            next == IF k = 0 THEN cp.next ELSE Max({cp.next, q[k] + 1})
            timer == (k < r /\ k < Len(q)) \/ (k = 0 /\ cp.timer)
<1>1. f = [cp |-> [next |-> next, queue |-> rest, timer |-> timer], room |-> r - k, outs |-> o \o front]
  BY Zenon DEF flush
<1>2. /\ q \in Seq(Nat) /\ Len(q) \in Nat /\ DOMAIN q = 1 .. Len(q)
      /\ \A i \in 1 .. Len(q) : q[i] \in Nat
      /\ cp.next \in Nat /\ cp.timer \in BOOLEAN
  <2>1. q \in Seq(Nat) /\ cp.next \in Nat /\ cp.timer \in BOOLEAN
    BY DEF OrderConnections
  <2>. QED
    BY <2>1, LenProperties, ElementOfSeq, Zenon
<1>3. k \in 0 .. Len(q) /\ r - k \in Nat
  <2>1. Min({r, Len(q)}) = IF r <= Len(q) THEN r ELSE Len(q)
    <3>1. r \in Int /\ Len(q) \in Int
      BY <1>2
    <3>. HIDE DEF q
    <3>. QED
      BY <3>1, MinOfTwo
  <2>2. Min({r, Len(q)}) \in Nat /\ Min({r, Len(q)}) <= r /\ Min({r, Len(q)}) <= Len(q)
    BY <1>2, <2>1
  <2>. DEFINE m == Min({r, Len(q)})
  <2>3. k \in 0 .. m /\ m \in Nat /\ m <= r /\ m <= Len(q) /\ Len(q) \in Nat
    BY <1>2, <2>2, LeadingStops
  <2>. HIDE DEF m, k, q
  <2>. QED
    BY <2>3
<1>. HIDE DEF k, q
<1>4. /\ rest \in Seq(Nat) /\ DOMAIN rest = 1 .. Len(q) - k
      /\ \A i \in 1 .. Len(q) - k : i + k \in DOMAIN q /\ rest[i] = q[i + k]
  BY <1>2, <1>3, DropLeaves
<1>5. front \in Seq(Nat) /\ Len(front) = k /\ \A i \in 1 .. k : front[i] = q[i] /\ i \in DOMAIN q
  <2>1. \A i \in 1 .. k : q[i] \in Nat
    BY <1>2, <1>3
  <2>2. /\ front \in Seq(Nat) /\ Len(front) = IF 1 <= k THEN k - 1 + 1 ELSE 0
        /\ \A i \in 1 .. k - 1 + 1 : front[i] = q[1 + i - 1]
    BY <1>2, <1>3, <2>1, SubSeqProperties
  <2>3. Len(front) = k
    BY <1>2, <1>3, <2>2
  <2>4. ASSUME NEW i \in 1 .. k
        PROVE  front[i] = q[i] /\ i \in DOMAIN q
    <3>1. i \in 1 .. k - 1 + 1 /\ 1 + i - 1 = i
      BY <1>3
    <3>. QED
      BY <1>2, <1>3, <2>2, <3>1
  <2>. QED
    BY <2>2, <2>3, <2>4, Zenon
<1>. HIDE DEF rest, front
<1>6. next \in Nat /\ cp.next <= next /\ (k # 0 => q[k] < next)
  <2>1. CASE k = 0
    BY <1>2, <2>1
  <2>2. CASE k # 0
    <3>1. q[k] \in Nat
      BY <1>2, <1>3, <2>2
    <3>2. Max({cp.next, q[k] + 1}) = IF cp.next >= q[k] + 1 THEN cp.next ELSE q[k] + 1
      <4>1. cp.next \in Int /\ q[k] + 1 \in Int
        BY <1>2, <3>1
      <4>. QED
        BY <4>1, MaxOfTwo
    <3>. QED
      BY <1>2, <2>2, <3>1, <3>2
  <2>. QED
    BY <2>1, <2>2
<1>7. /\ o \o front \in Seq(Nat) /\ Len(o) \in Nat /\ DOMAIN o = 1 .. Len(o)
      /\ DOMAIN (o \o front) = 1 .. Len(o) + k
      /\ \A i \in 1 .. Len(o) + k :
           (o \o front)[i] = IF i <= Len(o) THEN o[i] ELSE q[i - Len(o)]
  <2>1. /\ o \o front \in Seq(Nat) /\ Len(o \o front) = Len(o) + k
        /\ \A i \in 1 .. Len(o) + Len(front) :
             (o \o front)[i] = IF i <= Len(o) THEN o[i] ELSE front[i - Len(o)]
    BY <1>5, ConcatProperties, Zenon
  <2>2. Len(o) \in Nat /\ DOMAIN o = 1 .. Len(o)
    BY LenProperties
  <2>3. ASSUME NEW i \in 1 .. Len(o) + k
        PROVE  (o \o front)[i] = IF i <= Len(o) THEN o[i] ELSE q[i - Len(o)]
    <3>1. (o \o front)[i] = IF i <= Len(o) THEN o[i] ELSE front[i - Len(o)]
      BY <1>5, <2>1, Zenon
    <3>2. ~(i <= Len(o)) => i - Len(o) \in 1 .. k
      BY <1>3, <2>2
    <3>. QED
      BY <1>5, <3>1, <3>2, Zenon
  <2>. QED
    BY <2>1, <2>2, <2>3, LenProperties
<1>. DEFINE all == o \o front
<1>. HIDE DEF next, all
<1>8. \A i \in DOMAIN o : o[i] \in Nat
  BY <1>7, ElementOfSeq
<1>9. \A i \in 1 .. Len(o) + k :
        \/ i \in DOMAIN o /\ all[i] = o[i]
        \/ i - Len(o) \in 1 .. k /\ i - Len(o) \in DOMAIN q /\ all[i] = q[i - Len(o)] /\ i \notin DOMAIN o
  <2>. SUFFICES ASSUME NEW i \in 1 .. Len(o) + k
                PROVE  \/ i \in DOMAIN o /\ all[i] = o[i]
                       \/ /\ i - Len(o) \in 1 .. k /\ i - Len(o) \in DOMAIN q
                          /\ all[i] = q[i - Len(o)] /\ i \notin DOMAIN o
    OBVIOUS
  <2>1. all[i] = IF i <= Len(o) THEN o[i] ELSE q[i - Len(o)]
    BY <1>7, Zenon DEF all
  <2>2. CASE i <= Len(o)
    <3>1. i \in DOMAIN o
      BY <1>7, <1>3, <2>2
    <3>. QED
      BY <2>1, <2>2, <3>1
  <2>3. CASE ~(i <= Len(o))
    <3>1. i - Len(o) \in 1 .. k /\ i - Len(o) \in DOMAIN q /\ i \notin DOMAIN o
      BY <1>2, <1>3, <1>7, <2>3
    <3>. QED
      BY <2>1, <2>3, <3>1
  <2>. QED
    BY <2>2, <2>3
<1>10. Increasing(q) /\ Increasing(o) /\ \A i \in DOMAIN o, j \in DOMAIN q : o[i] < q[j]
  BY Zenon DEF Delivers, q
<1>11. Increasing(all)
  <2>. SUFFICES ASSUME NEW i \in 1 .. Len(o) + k, NEW j \in 1 .. Len(o) + k, i < j
                PROVE  all[i] < all[j]
    BY <1>7, Zenon DEF Increasing, all
  <2>1. CASE i \in DOMAIN o /\ j \in DOMAIN o
    BY <1>7, <1>9, <1>10, <2>1 DEF Increasing
  <2>2. CASE i \in DOMAIN o /\ j \notin DOMAIN o
    BY <1>9, <1>10, <2>2
  <2>3. CASE i \notin DOMAIN o
    <3>1. j \notin DOMAIN o /\ i - Len(o) < j - Len(o)
      <4>1. Len(o) \in Nat /\ DOMAIN o = 1 .. Len(o) /\ k \in Nat
        BY <1>3, <1>7
      <4>2. i \in Nat /\ j \in Nat /\ i > Len(o)
        BY <2>3, <4>1
      <4>. QED
        BY <4>1, <4>2
    <3>. QED
      BY <1>9, <1>10, <2>3, <3>1 DEF Increasing
  <2>. QED
    BY <2>1, <2>2, <2>3
<1>12. Increasing(rest)
  <2>. SUFFICES ASSUME NEW i \in 1 .. Len(q) - k, NEW j \in 1 .. Len(q) - k, i < j
                PROVE  rest[i] < rest[j]
    BY <1>4 DEF Increasing
  <2>1. i + k < j + k
    BY <1>2, <1>3
  <2>. QED
    BY <1>4, <1>10, <2>1 DEF Increasing
<1>13. ASSUME NEW i \in 1 .. Len(o) + k
       PROVE  all[i] < next /\ \A j \in 1 .. Len(q) - k : all[i] < rest[j]
  <2>1. CASE i \in DOMAIN o
    <3>1. all[i] = o[i] /\ o[i] \in Nat /\ o[i] < cp.next
      BY <1>8, <1>9, <2>1, Zenon DEF Delivers
    <3>2. all[i] < next
      BY <1>2, <1>6, <3>1
    <3>. QED
      BY <1>4, <1>10, <2>1, <3>1, <3>2
  <2>2. CASE i \notin DOMAIN o
    <3>. DEFINE h == i - Len(o)
    <3>1. h \in 1 .. k /\ h \in DOMAIN q /\ all[i] = q[h]
      BY <1>9, <2>2
    <3>. HIDE DEF h
    <3>2. k \in DOMAIN q /\ k # 0 /\ (h = k \/ h < k)
      BY <1>2, <1>3, <3>1
    <3>3. (q[h] = q[k] \/ q[h] < q[k]) /\ q[h] \in Nat /\ q[k] \in Nat
      BY <1>2, <1>10, <3>1, <3>2, Zenon DEF Increasing
    <3>4. q[h] < next
      BY <1>6, <3>2, <3>3
    <3>5. ASSUME NEW j \in 1 .. Len(q) - k
          PROVE  q[h] < rest[j]
      <4>1. h < j + k
        BY <1>2, <1>3, <3>1
      <4>. QED
        BY <1>4, <1>10, <3>1, <4>1 DEF Increasing
    <3>. QED
      BY <3>1, <3>4, <3>5
  <2>. QED
    BY <2>1, <2>2
<1>14. timer \in BOOLEAN
  BY <1>2
<1>. HIDE DEF timer
<1>15. /\ f.cp \in OrderConnections /\ f.room \in Nat /\ f.outs = all /\ all \in Seq(Nat)
       /\ f.cp.next = next /\ f.cp.queue = rest
  <2>1. all \in Seq(Nat) /\ all = o \o front
    BY <1>7 DEF all
  <2>. HIDE DEF rest
  <2>2. f.cp = [next |-> next, queue |-> rest, timer |-> timer] /\ f.room = r - k /\ f.outs = all
    BY <1>1, <2>1
  <2>3. [next |-> next, queue |-> rest, timer |-> timer] \in OrderConnections
    BY <1>4, <1>6, <1>14, Zenon DEF OrderConnections
  <2>4. f.room \in Nat
    BY <1>3, <2>2, Zenon
  <2>5. f.cp.next = next /\ f.cp.queue = rest
    BY <2>2
  <2>. QED
    BY <2>1, <2>2, <2>3, <2>4, <2>5, Zenon
<1>16. DOMAIN all = 1 .. Len(o) + k
  BY <1>7, Zenon DEF all
<1>. QED
  BY <1>4, <1>11, <1>12, <1>13, <1>15, <1>16, Zenon DEF Delivers

\* So does ODelivery::Connection::insert of a tuple above what was delivered.
LEMMA InsertInOrder ==
  ASSUME NEW cp \in OrderConnections, NEW o \in Seq(Nat), Delivers(cp, o), NEW seq \in Nat,
         \A i \in DOMAIN o : o[i] < seq
  PROVE  Insert(cp, seq) \in OrderConnections /\ Delivers(Insert(cp, seq), o)
<1>. DEFINE k == Below(cp.queue, seq)
            q == Placed(cp.queue, k, seq)
            n == NextAfter(q, cp.next)
            ins == [cp EXCEPT !.queue = q, !.next = n]
<1>1. CASE k < Len(cp.queue) /\ cp.queue[k + 1] = seq
  <2>1. Insert(cp, seq) = cp
    BY <1>1 DEF Insert
  <2>. QED
    BY <2>1
<1>2. CASE ~(k < Len(cp.queue) /\ cp.queue[k + 1] = seq)
  <2>1. cp.queue \in Seq(Nat) /\ cp.next \in Nat
    BY DEF OrderConnections
  <2>2. /\ q \in Seq(Nat) /\ Increasing(q)
        /\ \A i \in DOMAIN q : q[i] = seq \/ \E j \in DOMAIN cp.queue : q[i] = cp.queue[j]
    <3>1. Increasing(cp.queue)
      BY DEF Delivers
    <3>2. k = Below(cp.queue, seq) /\ q = Placed(cp.queue, k, seq)
      OBVIOUS
    <3>. DEFINE cq == cp.queue
    <3>3. /\ cq \in Seq(Nat) /\ Increasing(cq) /\ k = Below(cq, seq)
          /\ ~(k < Len(cq) /\ cq[k + 1] = seq)
      BY <1>2, <2>1, <3>1, <3>2
    <3>. HIDE DEF k, q, cq
    <3>4. /\ Placed(cq, k, seq) \in Seq(Nat) /\ Increasing(Placed(cq, k, seq))
          /\ \A i \in DOMAIN Placed(cq, k, seq) :
               Placed(cq, k, seq)[i] = seq \/ \E j \in DOMAIN cq : Placed(cq, k, seq)[i] = cq[j]
      BY <3>3, PlacedInOrder
    <3>5. cq = cp.queue
      BY DEF cq
    <3>. QED
      BY <3>2, <3>4, <3>5, Zenon
  <2>3. Insert(cp, seq) = ins
    BY <1>2 DEF Insert
  <2>. HIDE DEF q
  <2>4. n \in Nat /\ cp.next <= n
    <3>1. Len(q) \in Nat
      BY <2>2, LenProperties
    <3>2. Leading(Len(q), {i \in DOMAIN q : q[i] = cp.next + i - 1}) \in 0 .. Len(q)
      BY <3>1, LeadingStops
    <3>. QED
      BY <2>1, <3>1, <3>2 DEF NextAfter
  <2>. HIDE DEF n
  <2>5. ins \in OrderConnections /\ ins.queue = q /\ ins.next = n
    BY <2>2, <2>4, Zenon DEF OrderConnections
  <2>6. \A i \in DOMAIN o : o[i] \in Nat
    BY LenProperties, ElementOfSeq
  <2>7. ASSUME NEW i \in DOMAIN o
        PROVE  o[i] < n /\ \A j \in DOMAIN q : o[i] < q[j]
    <3>1. o[i] < cp.next /\ o[i] < seq /\ \A j \in DOMAIN cp.queue : o[i] < cp.queue[j]
      BY DEF Delivers
    <3>2. o[i] < n
      BY <2>1, <2>4, <2>6, <3>1
    <3>. QED
      BY <2>2, <3>1, <3>2, Zenon
  <2>. HIDE DEF ins
  <2>. QED
    BY <2>2, <2>3, <2>5, <2>7, Zenon DEF Delivers
<1>. QED
  BY <1>1, <1>2, Zenon

\* A step of ODelivery alone.
LEMMA OrderingInv ==
  ASSUME RelInv, UNCHANGED <<setup, sender, net, acks, ackQ, dup, cack, passed, givenUp, failed>>,
         order' \in OrderConnections \cup {NULL}, orphans' \in Nat, room' \in Nat,
         outs' \in Seq(Nat), Ordered'
  PROVE  RelInv'
<1>1. TypeOK'
  <2>1. SenderTypes' /\ inOn' \in BOOLEAN /\ waiting' \in BOOLEAN /\ failed' \in BOOLEAN
    BY DEF RelInv, TypeOK, SenderTypes, sender
  <2>. QED
    BY <2>1 DEF RelInv, TypeOK, ReceiverTypes
<1>2. Numbered' /\ NoneLost' /\ NoFailure' /\ Held'
  BY Zenon DEF RelInv, Numbered, NoneLost, NoFailure, Held, Newest, SeqNum, sender
<1>3. Truthful'
  BY Zenon DEF RelInv, Truthful, Done, Newest, SeqNum, sender
<1>4. Awake'
  BY Zenon DEF RelInv, Awake, SenderAwake, sender
<1>. QED
  BY <1>1, <1>2, <1>3, <1>4 DEF RelInv

\* ODelivery::out_cb flushes what the consumer had no room for.
LEMMA OutCbInv == RelInv /\ out_cb => RelInv'
<1>. SUFFICES ASSUME RelInv, out_cb PROVE RelInv'
  OBVIOUS
<1>. DEFINE f == flush([cp |-> order, room |-> Room, outs |-> outs])
<1>1. /\ UNCHANGED <<setup, sender, net, acks, ackQ, dup, cack, orphans, passed, givenUp, failed>>
      /\ order = NULL => room' = Room /\ UNCHANGED <<order, outs>>
      /\ order # NULL => order' = f.cp /\ room' = f.room /\ outs' = f.outs
  BY DEF out_cb
<1>2. orphans' \in Nat /\ outs \in Seq(Nat) /\ Room \in Nat
  BY <1>1, ReliabilityAssumption, Zenon DEF RelInv, TypeOK, ReceiverTypes
<1>3. CASE order = NULL
  <2>1. Ordered' /\ order' = NULL /\ outs' = outs /\ room' = Room
    BY <1>1, <1>3, Zenon DEF RelInv, Ordered
  <2>. QED
    BY <1>1, <1>2, <2>1, OrderingInv, Zenon
<1>4. CASE order # NULL
  <2>1. order \in OrderConnections /\ Delivers(order, outs)
    BY <1>4, Zenon DEF RelInv, TypeOK, ReceiverTypes, Ordered, Delivers
  <2>2. /\ f.cp \in OrderConnections /\ f.room \in Nat /\ f.outs \in Seq(Nat)
        /\ Delivers(f.cp, f.outs)
    BY <1>2, <2>1, FlushInOrder, Zenon
  <2>. HIDE DEF f
  <2>3. Ordered'
    BY <1>1, <1>4, <2>2, ReliabilityAssumption, Zenon DEF Ordered, Delivers
  <2>. QED
    BY <1>1, <1>2, <1>4, <2>2, <2>3, OrderingInv
<1>. QED
  BY <1>3, <1>4

\* ODelivery::flushConnectionQ finds a connection, and delivers past the holes in order.
LEMMA FlushConnectionQInv == RelInv /\ flushConnectionQ => RelInv'
<1>. SUFFICES ASSUME RelInv, flushConnectionQ PROVE RelInv'
  OBVIOUS
<1>. DEFINE cp == [order EXCEPT !.timer = FALSE]
            cq == IF cp.queue = <<>> THEN cp ELSE [cp EXCEPT !.next = cp.queue[Len(cp.queue)] + 1]
            f == flush([cp |-> cq, room |-> room, outs |-> outs])
<1>1. order # NULL /\ order \in OrderConnections /\ Delivers(order, outs)
  <2>1. order # NULL
    BY DEF flushConnectionQ, RelInv, Ordered
  <2>. QED
    BY <2>1 DEF RelInv, TypeOK, ReceiverTypes, Ordered, Delivers
<1>2. /\ UNCHANGED <<setup, sender, net, acks, ackQ, dup, cack, passed, givenUp, failed>>
      /\ order' = f.cp /\ room' = f.room /\ outs' = f.outs
  BY <1>1 DEF flushConnectionQ
<1>3. outs \in Seq(Nat) /\ room \in Nat
  BY DEF RelInv, TypeOK, ReceiverTypes
<1>4. orphans' \in Nat
  <2>1. orphans \in Nat
    BY DEF RelInv, TypeOK, ReceiverTypes
  <2>. QED
    BY <2>1 DEF flushConnectionQ
<1>5. cp \in OrderConnections /\ cp.queue = order.queue /\ cp.next = order.next
  BY <1>1, Zenon DEF OrderConnections
<1>. HIDE DEF cp
<1>6. cq \in OrderConnections /\ Delivers(cq, outs)
  <2>1. CASE cp.queue = <<>>
    BY <1>1, <1>5, <2>1 DEF Delivers
  <2>2. CASE cp.queue # <<>>
    <3>1. cp.queue \in Seq(Nat) /\ Len(cp.queue) \in DOMAIN cp.queue /\ cp.queue[Len(cp.queue)] \in Nat
      <4>1. cp.queue \in Seq(Nat)
        BY <1>5 DEF OrderConnections
      <4>2. Len(cp.queue) \in 1 .. Len(cp.queue)
        BY <2>2, <4>1, LenProperties, EmptySeq
      <4>. QED
        BY <4>1, <4>2, LenProperties, ElementOfSeq
    <3>2. cq = [cp EXCEPT !.next = cp.queue[Len(cp.queue)] + 1]
      BY <2>2
    <3>3. cq \in OrderConnections /\ cq.queue = cp.queue /\ cq.next = cp.queue[Len(cp.queue)] + 1
      BY <1>5, <3>1, <3>2 DEF OrderConnections
    <3>. HIDE DEF cq
    <3>4. ASSUME NEW i \in DOMAIN outs
          PROVE  outs[i] < cq.next
      <4>1. outs[i] \in Nat
        BY <1>3, LenProperties, ElementOfSeq
      <4>2. outs[i] < cp.queue[Len(cp.queue)]
        BY <1>1, <1>5, <3>1 DEF Delivers
      <4>. QED
        BY <3>1, <3>3, <4>1, <4>2
    <3>. QED
      BY <1>1, <1>5, <3>3, <3>4 DEF Delivers
  <2>. QED
    BY <2>1, <2>2
<1>. HIDE DEF cq
<1>7. /\ f.cp \in OrderConnections /\ f.room \in Nat /\ f.outs \in Seq(Nat)
      /\ Delivers(f.cp, f.outs)
  BY <1>3, <1>6, FlushInOrder, Zenon
<1>. HIDE DEF f
<1>8. Ordered'
  BY <1>2, <1>7, ReliabilityAssumption, Zenon DEF Ordered, Delivers
<1>. QED
  BY <1>2, <1>4, <1>7, <1>8, OrderingInv

\* ODelivery::push, after DupRemove::push has passed a tuple on.
LEMMA DeliverInOrder ==
  ASSUME RelInv, NEW d \in net, Deliver(d)
  PROVE  /\ order' \in OrderConnections /\ orphans' \in Nat /\ room' \in Nat
         /\ outs' \in Seq(Nat) /\ Delivers(order', outs')
<1>. DEFINE reset == d.cseq = 0 /\ order # NULL
            fresh == order = NULL \/ reset
            old == IF fresh THEN [next |-> d.cseq, queue |-> <<>>, timer |-> FALSE] ELSE order
            o == IF fresh THEN <<>> ELSE outs
            f == flush([cp |-> Insert(old, d.seq), room |-> room, outs |-> o])
<1>1. /\ orphans' = orphans + (IF reset /\ order.timer THEN 1 ELSE 0)
      /\ ~fresh /\ d.seq < old.next => UNCHANGED <<order, room, outs>>
      /\ ~(~fresh /\ d.seq < old.next) => order' = f.cp /\ room' = f.room /\ outs' = f.outs
  BY Zenon DEF Deliver
<1>2. /\ d.seq \in Nat /\ d.cseq \in Nat /\ orphans \in Nat /\ room \in Nat /\ outs \in Seq(Nat)
      /\ order # NULL => order \in OrderConnections /\ Delivers(order, outs)
  BY NumberTypes, Zenon DEF RelInv, TypeOK, ReceiverTypes, Ordered, Delivers
<1>3. orphans' \in Nat
  <2>1. orphans' = orphans + 1 \/ orphans' = orphans + 0
    BY <1>1, Zenon
  <2>. QED
    BY <1>2, <2>1
<1>4. old \in OrderConnections /\ o \in Seq(Nat) /\ Delivers(old, o)
  <2>1. CASE fresh
    <3>1. old = [next |-> d.cseq, queue |-> <<>>, timer |-> FALSE] /\ o = <<>>
      BY <2>1
    <3>2. old \in OrderConnections /\ old.queue = <<>>
      <4>. HIDE DEF old
      <4>1. <<>> \in Seq(Nat)
        OBVIOUS
      <4>. QED
        BY <1>2, <3>1, <4>1 DEF OrderConnections
    <3>. HIDE DEF old, o
    <3>. QED
      BY <3>1, <3>2 DEF Delivers, Increasing
  <2>2. CASE ~fresh
    BY <1>2, <2>2
  <2>. QED
    BY <2>1, <2>2, Zenon
<1>5. CASE ~fresh /\ d.seq < old.next
  BY <1>1, <1>2, <1>3, <1>5, Zenon
<1>6. CASE ~(~fresh /\ d.seq < old.next)
  <2>1. ASSUME NEW i \in DOMAIN o
        PROVE  o[i] < d.seq
    <3>1. ~fresh
      BY <2>1
    <3>2. ~(d.seq < old.next) /\ o[i] < old.next
      BY <1>4, <1>6, <3>1, Zenon DEF Delivers
    <3>3. old.next \in Nat /\ o[i] \in Nat
      BY <1>4, LenProperties, ElementOfSeq, Zenon DEF OrderConnections
    <3>. HIDE DEF old, o
    <3>. QED
      BY <1>2, <3>2, <3>3
  <2>. HIDE DEF old, o
  <2>2. Insert(old, d.seq) \in OrderConnections /\ Delivers(Insert(old, d.seq), o)
    BY <1>2, <1>4, <2>1, InsertInOrder
  <2>3. /\ f.cp \in OrderConnections /\ f.room \in Nat /\ f.outs \in Seq(Nat)
        /\ Delivers(f.cp, f.outs)
    BY <1>2, <1>4, <2>2, FlushInOrder, Zenon
  <2>. QED
    BY <1>1, <1>3, <1>6, <2>3, Zenon
<1>. QED
  BY <1>5, <1>6

\* The record of DupRemove tells the truth about a tuple that it drops.
LEMMA ForwardTrue ==
  ASSUME RelInv, NEW d \in net, NEW cp, cp = Forward(NewDup(d), d.cseq)
  PROVE  /\ cp \in DupConnections /\ Reached(net, Done, Newest, cp.cum) /\ cp.got \subseteq passed
         /\ IsDuplicate(cp, d.seq) => Handled(net, Done, Newest, d.seq)
<1>. DEFINE new == NewDup(d)
<1>1. d.seq \in Nat /\ d.cseq \in Nat /\ d.seq <= Newest /\ Reached(net, Done, Newest, d.cseq)
  BY NumberTypes, Zenon DEF RelInv, Numbered, Truthful
<1>2. new \in DupConnections /\ Reached(net, Done, Newest, new.cum) /\ new.got \subseteq passed
  <2>1. CASE dup = NULL \/ d.cseq = 0
    <3>1. new = [cum |-> 0, got |-> {}]
      BY <2>1 DEF NewDup
    <3>2. Reached(net, Done, Newest, 0)
      BY ZeroReached DEF RelInv, TypeOK, Numbered
    <3>. HIDE DEF new
    <3>3. new \in DupConnections /\ new.cum = 0 /\ new.got = {}
      BY <3>1 DEF DupConnections
    <3>. QED
      BY <3>2, <3>3, Zenon
  <2>2. CASE ~(dup = NULL \/ d.cseq = 0)
    BY <2>2, Zenon DEF NewDup, RelInv, TypeOK, ReceiverTypes, Truthful
  <2>. QED
    BY <2>1, <2>2, Zenon
<1>. HIDE DEF new
<1>3. cp \in DupConnections /\ Reached(net, Done, Newest, cp.cum) /\ cp.got \subseteq passed
  <2>1. cp = Forward(new, d.cseq)
    BY DEF new
  <2>2. CASE new.cum >= d.cseq
    BY <1>2, <2>1, <2>2 DEF Forward
  <2>3. CASE ~(new.cum >= d.cseq)
    <3>1. PICK got \in SUBSET new.got : cp = [cum |-> d.cseq, got |-> got]
      BY <2>1, <2>3 DEF Forward
    <3>2. new.got \subseteq Nat
      BY <1>2 DEF DupConnections
    <3>3. cp \in DupConnections /\ cp.cum = d.cseq /\ cp.got = got
      BY <1>1, <3>1, <3>2 DEF DupConnections
    <3>. QED
      BY <1>1, <1>2, <3>1, <3>3, Zenon
  <2>. QED
    BY <2>2, <2>3, Zenon
<1>4. ASSUME IsDuplicate(cp, d.seq), NEW e \in net, e.cseq # 0, e.seq = d.seq
      PROVE  d.seq \in Done
  <2>1. CASE d.seq < cp.cum
    <3>1. e.seq <= cp.cum
      BY <1>1, <1>3, <1>4, <2>1 DEF DupConnections
    <3>. QED
      BY <1>3, <1>4, <3>1, Zenon DEF Reached
  <2>2. CASE d.seq \in cp.got
    BY <1>3, <2>2, Zenon DEF Done
  <2>. QED
    BY <1>4, <2>1, <2>2 DEF IsDuplicate
<1>. QED
  BY <1>1, <1>3, <1>4, Zenon DEF Handled

\* The arrival of a datagram at the receiver: BasicAck::simple_action, DupRemove::push and
\* ODelivery::push.
LEMMA ReceiveInv == ASSUME RelInv, NEW d \in net, Receive(d) PROVE RelInv'
<1>. DEFINE cp == Forward(NewDup(d), d.cseq)
            isDup == IsDuplicate(cp, d.seq)
<1>1. /\ ackQ' = Append(ackQ, d)
      /\ dup' = IF isDup THEN cp ELSE [cp EXCEPT !.got = @ \cup {d.seq}]
      /\ passed' = IF isDup THEN passed ELSE passed \cup {d.seq}
      /\ Deliver(d) \/ UNCHANGED ordering
      /\ UNCHANGED <<setup, sender, net, acks, cack, givenUp, failed>>
  BY DEF Receive
<1>2. /\ cp \in DupConnections /\ Reached(net, Done, Newest, cp.cum) /\ cp.got \subseteq passed
      /\ isDup => Handled(net, Done, Newest, d.seq)
  BY ForwardTrue, Zenon
<1>. HIDE DEF cp, isDup
<1>3. d \in Tuples /\ d.seq \in Nat /\ d.seq <= Newest
  BY NumberTypes, Zenon DEF RelInv, TypeOK, Numbered
<1>4. /\ passed \subseteq passed' /\ passed' \subseteq Nat
      /\ dup' \in DupConnections /\ dup'.cum = cp.cum /\ dup'.got \subseteq passed'
  <2>1. passed \subseteq Nat
    BY DEF RelInv, TypeOK, ReceiverTypes
  <2>2. CASE isDup
    BY <1>1, <1>2, <2>1, <2>2
  <2>3. CASE ~isDup
    <3>1. dup' = [cp EXCEPT !.got = @ \cup {d.seq}] /\ passed' = passed \cup {d.seq}
      BY <1>1, <2>3
    <3>2. dup' \in DupConnections /\ dup'.cum = cp.cum /\ dup'.got = cp.got \cup {d.seq}
      BY <1>2, <1>3, <3>1 DEF DupConnections
    <3>. QED
      BY <1>2, <1>3, <2>1, <3>1, <3>2
  <2>. QED
    BY <2>2, <2>3
<1>5. Done \subseteq Done' /\ Newest' = Newest /\ net' = net /\ conn' = conn
  BY <1>1, <1>4 DEF Done, Newest, SeqNum, sender
<1>6. Handled(net, Done', Newest, d.seq)
  <2>1. CASE isDup
    BY <1>2, <1>5, <2>1, MoreDone, Zenon
  <2>2. CASE ~isDup
    <3>1. d.seq \in Done'
      BY <1>1, <2>2 DEF Done
    <3>. QED
      BY <1>3, <3>1 DEF Handled
  <2>. QED
    BY <2>1, <2>2
<1>7. /\ order' \in OrderConnections \cup {NULL} /\ orphans' \in Nat /\ room' \in Nat
      /\ outs' \in Seq(Nat) /\ Ordered'
  <2>1. CASE Deliver(d)
    <3>1. /\ order' \in OrderConnections /\ orphans' \in Nat /\ room' \in Nat
          /\ outs' \in Seq(Nat) /\ Delivers(order', outs')
      BY <2>1, DeliverInOrder
    <3>. QED
      BY <3>1, ReliabilityAssumption DEF Ordered, Delivers
  <2>2. CASE UNCHANGED ordering
    BY <2>2, Zenon DEF ordering, RelInv, TypeOK, ReceiverTypes, Ordered
  <2>. QED
    BY <1>1, <2>1, <2>2
<1>8. /\ ackQ' \in Seq(Tuples)
      /\ \A i \in DOMAIN ackQ' : ackQ'[i] = d \/ (i \in DOMAIN ackQ /\ ackQ'[i] = ackQ[i])
  <2>1. ackQ \in Seq(Tuples)
    BY DEF RelInv, TypeOK, ReceiverTypes
  <2>2. /\ ackQ' \in Seq(Tuples) /\ Len(ackQ') = Len(ackQ) + 1 /\ ackQ'[Len(ackQ) + 1] = d
        /\ \A i \in 1 .. Len(ackQ) : ackQ'[i] = ackQ[i]
    BY <1>1, <1>3, <2>1, AppendProperties
  <2>. QED
    BY <2>1, <2>2, LenProperties
<1>9. TypeOK'
  <2>1. SenderTypes' /\ inOn' \in BOOLEAN /\ waiting' \in BOOLEAN /\ failed' \in BOOLEAN
    BY <1>1 DEF RelInv, TypeOK, SenderTypes, sender
  <2>2. ReceiverTypes'
    BY <1>1, <1>4, <1>7, <1>8 DEF RelInv, TypeOK, ReceiverTypes
  <2>. QED
    BY <1>1, <2>1, <2>2 DEF RelInv, TypeOK
<1>10. Numbered' /\ NoFailure' /\ Held'
  BY <1>1 DEF RelInv, Numbered, NoFailure, Held, Newest, SeqNum, sender
<1>11. NoneLost'
  BY <1>1, <1>4, <1>5 DEF RelInv, NoneLost
<1>12. Awake'
  BY <1>1 DEF RelInv, Awake, SenderAwake, sender
<1>13. Truthful'
  <2>1. /\ \A c : Reached(net, Done, Newest, c) => Reached(net, Done', Newest, c)
        /\ \A s : Handled(net, Done, Newest, s) => Handled(net, Done', Newest, s)
    BY <1>5, MoreDone
  <2>2. \A a \in acks' : Reached(net', Done', Newest', a.cum)
    BY <1>1, <1>5, <2>1 DEF RelInv, Truthful
  <2>3. \A e \in net' : Reached(net', Done', Newest', e.cseq)
    BY <1>5, <2>1, Zenon DEF RelInv, Truthful
  <2>4. conn' # NULL => Reached(net', Done', Newest', conn'.cum)
    BY <1>5, <2>1, Zenon DEF RelInv, Truthful
  <2>5. Reached(net', Done', Newest', dup'.cum)
    BY <1>2, <1>4, <1>5, <2>1, Zenon
  <2>6. cack' # NULL =>
          /\ Reached(net', Done', Newest', cack'.cum) /\ IsFiniteSet(cack'.queue)
          /\ \A s \in cack'.queue : Handled(net', Done', Newest', s)
    BY <1>1, <1>5, <2>1 DEF RelInv, Truthful
  <2>7. \A i \in DOMAIN ackQ' : ackQ'[i] \in net' /\ Handled(net', Done', Newest', ackQ'[i].seq)
    BY <1>5, <1>6, <1>8, <2>1, Zenon DEF RelInv, Truthful
  <2>. QED
    BY <1>4, <2>2, <2>3, <2>4, <2>5, <2>6, <2>7, Zenon DEF Truthful
<1>. QED
  BY <1>7, <1>9, <1>10, <1>11, <1>12, <1>13 DEF RelInv

-----------------------------------------------------------------------------
(* The theorems.                                                           *)

\* No step of sender, receiver or network falsifies the invariant.
LEMMA RelNext == RelInv /\ [Next]_vars => RelInv'
<1>. SUFFICES ASSUME RelInv, [Next]_vars PROVE RelInv'
  OBVIOUS
<1>1. CASE Offer
  BY <1>1, OfferInv
<1>2. CASE PullNew
  BY <1>2, PullNewInv
<1>3. CASE PullRetry
  BY <1>3, PullRetryInv
<1>4. CASE PullNothing
  BY <1>4, PullNothingInv
<1>5. CASE handle_failure
  BY <1>5, HandleFailureInv
<1>6. CASE \E a \in acks : ack(a)
  BY <1>6, AckInv
<1>7. CASE \E d \in net : Receive(d)
  BY <1>7, ReceiveInv
<1>8. CASE out_cb
  BY <1>8, OutCbInv
<1>9. CASE flushConnectionQ
  BY <1>9, FlushConnectionQInv
<1>10. CASE SendAck
  BY <1>10, SendAckInv
<1>11. CASE DupTimeout \/ CackTimeout
  BY <1>11, TimeoutInv
<1>12. CASE UNCHANGED vars
  <2>1. UNCHANGED <<setup, sender, net, acks, ackQ, dup, cack, ordering, passed, givenUp, failed>>
    BY <1>12 DEF vars, receiver
  <2>2. /\ order' \in OrderConnections \cup {NULL} /\ orphans' \in Nat /\ room' \in Nat
        /\ outs' \in Seq(Nat) /\ Ordered'
    BY <2>1, Zenon DEF ordering, RelInv, TypeOK, ReceiverTypes, Ordered
  <2>. QED
    BY <2>1, <2>2, OrderingInv
<1>. QED
  BY <1>1, <1>2, <1>3, <1>4, <1>5, <1>6, <1>7, <1>8, <1>9, <1>10, <1>11, <1>12 DEF Next

\* The inductive invariant of reliable delivery: whatever the network loses, repeats and
\* reorders, each cumulative number of src/net (headers of RDelivery, records of DupRemove
\* and CumulativeAck, acknowledgements) tells the truth about what has been passed on.
THEOREM CumulativeNumbersTrue == Spec => []RelInv
<1>1. Init => RelInv
  BY RelInit
<1>2. RelInv /\ [Next]_vars => RelInv'
  BY RelNext
<1>. QED
  BY <1>1, <1>2, PTL DEF Spec

\* No tuple of an established connection is lost: it is outstanding at RDelivery, has passed
\* DupRemove, or was given up after its retries (RDelivery::ack, CumulativeAck::confirm,
\* DupRemove::received).
THEOREM NoTupleLost == Spec => []NoneLost
<1>1. RelInv => NoneLost
  BY DEF RelInv
<1>. QED
  BY <1>1, CumulativeNumbersTrue, PTL

\* What one connection of ODelivery delivers has increasing sequence numbers, even when
\* timers flush past a hole (ODelivery::push, flush, flushConnectionQ).
THEOREM OrderedDelivery == Spec => []DeliveredInOrder
<1>1. RelInv => DeliveredInOrder
  <2>. SUFFICES ASSUME RelInv, NEW i \in 1 .. Len(outs) - 1 PROVE outs[i] < outs[i + 1]
    BY DEF DeliveredInOrder
  <2>1. outs \in Seq(Nat) /\ Increasing(outs)
    BY DEF RelInv, TypeOK, ReceiverTypes, Ordered
  <2>2. Len(outs) \in Nat /\ DOMAIN outs = 1 .. Len(outs)
    BY <2>1, LenProperties
  <2>3. i \in DOMAIN outs /\ i + 1 \in DOMAIN outs /\ i < i + 1
    BY <2>2
  <2>. QED
    BY <2>1, <2>3 DEF Increasing
<1>. QED
  BY <1>1, CumulativeNumbersTrue, PTL

\* Nothing sleeps over work at the sender: the element below RDelivery waits only when there
\* is nothing to send, and the retransmission timer runs exactly while a tuple is
\* outstanding (RDelivery::pull, input_cb, ack, handle_failure).
THEOREM SenderNeverStuck == Spec => []SenderAwake
<1>1. RelInv => SenderAwake
  BY DEF RelInv, Awake
<1>. QED
  BY <1>1, CumulativeNumbersTrue, PTL

\* The assertion of RDelivery::handle_failure holds, and the flush timers of ODelivery find
\* a connection (flushConnectionQ).
THEOREM DeliveryAssertions == Spec => []NoFailure
<1>1. RelInv => NoFailure
  BY DEF RelInv
<1>. QED
  BY <1>1, CumulativeNumbersTrue, PTL
==============================================================================
