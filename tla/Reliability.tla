---------------------------- MODULE Reliability ----------------------------
(***************************************************************************)
(* The reliability elements of src/net, wired as in src/python/scripts     *)
(* (s.df, r.df): Sequence and RDelivery on the sender; BasicAck,           *)
(* DupRemove, ODelivery and CumulativeAck on the receiver.  One sender,    *)
(* one receiver, and a network that loses, duplicates and reorders: a      *)
(* datagram once sent may arrive at any time, any number of times.         *)
(*                                                                         *)
(* RDelivery::pull does not call RDelivery::tuple, although its comment    *)
(* says that the tuple is stored for retry.  setup.stores tells the code   *)
(* as it is (FALSE) from a pull that does call it (TRUE); the rest of the  *)
(* class, and the receiver, are the same in both.                          *)
(***************************************************************************)
EXTENDS Integers, Sequences, FiniteSetsExt

CONSTANTS
  NULL,       \* the null pointer
  Setups,     \* [stores, ordered, first, tuples, maxRetry, lasting]: see above; whether ODelivery
              \* follows DupRemove (UdpRecvCC); the first sequence number, which Sequence
              \* draws at random; bound: the number of tuples sent; _max_retry;
              \* bound: whether the run is shorter than the time-out of connections
  Room,       \* how many tuples the consumer of ODelivery takes before it pushes back
  MaxAcks,    \* bound on ack_q_
  MaxOrphans  \* bound on orphans

VARIABLES
  setup,
  offered,    \* tuples that have been pushed into the Queue above RDelivery
  sent,       \* tuples that Sequence has numbered and RDelivery has pulled
  conn,       \* the RDelivery::Connection, or NULL
  retryQ,     \* _retry_q
  inOn,       \* _in_on
  waiting,    \* _out_cb is set: the element below sleeps
  net, acks,  \* datagrams and acknowledgements that were ever sent
  ackQ,       \* ack_q_ of BasicAck
  dup,        \* the DupRemove::Connection, or NULL
  cack,       \* the CumulativeAck::Connection, or NULL
  order,      \* the ODelivery::Connection, or NULL
  orphans,    \* flush timers of ODelivery that no connection refers to
  room,       \* out_on_ iff it is positive
  passed,     \* history: what DupRemove has passed on
  outs,       \* history: what the present ODelivery connection has delivered
  givenUp,    \* history: tuples dropped after too many retries
  failed      \* an assertion failed, or a null connection was used

sender == <<offered, sent, conn, retryQ, inOn, waiting>>
ordering == <<order, orphans, room, outs>>
receiver == <<ackQ, dup, cack, ordering, passed>>
vars == <<setup, sender, net, acks, receiver, givenUp, failed>>

Tuples == [seq : Nat, cseq : Nat]
Connections ==
  [cum : Nat, out : Seq([seq : Nat, cseq : Nat, retries : Nat]), timer : BOOLEAN]
DupConnections == [cum : Nat, got : SUBSET Nat]
AckConnections == [cum : Nat, queue : SUBSET Nat]
OrderConnections == [next : Nat, queue : Seq(Nat), timer : BOOLEAN]

ASSUME ReliabilityAssumption ==
  /\ NULL \notin Connections /\ NULL \notin OrderConnections
  /\ NULL \notin DupConnections /\ NULL \notin AckConnections
  /\ Setups \subseteq [stores : BOOLEAN, ordered : BOOLEAN, first : Nat, tuples : Nat,
                       maxRetry : Nat, lasting : BOOLEAN]
  /\ Room \in Nat

Init ==
  /\ setup \in Setups
  /\ offered = 0 /\ sent = 0 /\ conn = NULL /\ retryQ = <<>> /\ inOn = TRUE /\ waiting = FALSE
  /\ net = {} /\ acks = {} /\ ackQ = <<>>
  /\ dup = NULL /\ cack = NULL /\ order = NULL /\ orphans = 0 /\ room = Room
  /\ passed = {} /\ outs = <<>> /\ givenUp = {} /\ failed = FALSE

-----------------------------------------------------------------------------
\* Sequence::simple_action: the number of the k-th tuple for the destination.
SeqNum(k) == setup.first + k - 1

\* How far a loop gets that goes over 1 .. n and ends at the first index outside S.
Leading(n, S) == CHOOSE k \in 0 .. n : 1 .. k \subseteq S /\ (k < n => k + 1 \notin S)

Drop(q, k) == SubSeq(q, k + 1, Len(q))

\* A tuple is pushed into the Queue; RDelivery::input_cb if it was found empty.
Offer ==
  /\ offered < setup.tuples /\ offered' = offered + 1
  /\ IF inOn THEN UNCHANGED <<inOn, waiting>> ELSE inOn' = TRUE /\ waiting' = FALSE
  /\ UNCHANGED <<setup, sent, conn, retryQ, net, acks, receiver, givenUp, failed>>

\* RDelivery::tuple: the header gets the cumulative number, the tuple is remembered and
\* the retransmission timer runs.
Remember(seq) ==
  LET cp == IF conn = NULL THEN [cum |-> 0, out |-> <<>>, timer |-> FALSE] ELSE conn
  IN [tp |-> [seq |-> seq, cseq |-> cp.cum],
      cp |-> [cp EXCEPT !.timer = TRUE,
                        !.out = Append(@, [seq |-> seq, cseq |-> cp.cum, retries |-> 0])]]

\* RDelivery::pull, when the coin and the input give a new tuple.
PullNew ==
  LET seq == SeqNum(sent + 1)
      new == IF setup.stores THEN Remember(seq)
             ELSE [tp |-> [seq |-> seq, cseq |-> 0], cp |-> conn]
  IN /\ ~waiting /\ inOn /\ sent < offered
     /\ sent' = sent + 1 /\ net' = net \cup {new.tp} /\ conn' = new.cp
     /\ UNCHANGED <<setup, offered, retryQ, inOn, waiting, acks, receiver, givenUp, failed>>

\* RDelivery::pull, the retry queue: either the coin passes the input by, or the input is
\* found, or known to be, empty.
PullRetry ==
  /\ ~waiting /\ retryQ # <<>>
  /\ net' = net \cup {Head(retryQ)} /\ retryQ' = Tail(retryQ)
  /\ \/ UNCHANGED inOn
     \/ inOn /\ sent = offered /\ inOn' = FALSE
  /\ UNCHANGED <<setup, offered, sent, conn, waiting, acks, receiver, givenUp, failed>>

\* RDelivery::pull, nothing to send: the callback is kept.
PullNothing ==
  /\ ~waiting /\ retryQ = <<>> /\ (inOn => sent = offered)
  /\ inOn' = FALSE /\ waiting' = TRUE
  /\ UNCHANGED <<setup, offered, sent, conn, retryQ, net, acks, receiver, givenUp, failed>>

\* RDelivery::handle_failure: tuples at the front of the queue that had their retries are
\* given up and raise the cumulative number; the others are sent again.  One further back
\* that had its retries fails assert(iter == begin()).
Exhausted(t) == t.retries >= setup.maxRetry

GivenUp_OneAtATime(out) == IF out # <<>> /\ Exhausted(out[1]) THEN 1 ELSE 0

GivenUp(out) == Leading(Len(out), {i \in DOMAIN out : Exhausted(out[i])})

RaisedCum(cp, k) == Max({cp.cum} \cup {cp.out[i].seq : i \in 1 .. k})

handle_failure ==
  LET k == GivenUp(conn.out)
      again == Drop(conn.out, k)
  IN /\ conn # NULL /\ conn.timer
     /\ failed' = (failed \/ \E i \in DOMAIN again : Exhausted(again[i]))
     /\ retryQ' = retryQ \o [i \in DOMAIN again |-> [seq |-> again[i].seq, cseq |-> again[i].cseq]]
     /\ waiting' = (waiting /\ again = <<>>)
     /\ conn' = [cum |-> RaisedCum(conn, k),
                 out |-> [i \in DOMAIN again |-> [again[i] EXCEPT !.retries = @ + 1]],
                 timer |-> again # <<>>]
     /\ givenUp' = givenUp \cup {conn.out[i].seq : i \in 1 .. k}
     /\ UNCHANGED <<setup, offered, sent, inOn, net, acks, receiver>>

\* RDelivery::ack: the acknowledged tuples leave, and the timer starts again for the rest.
Unacked(out, cum) == Drop(out, Leading(Len(out), {i \in DOMAIN out : out[i].seq <= cum}))

Rearmed_Never(out) == FALSE

Rearmed(out) == out # <<>>

ack(a) ==
  LET out == Unacked(conn.out, a.cum)
  IN /\ conn # NULL /\ conn.cum < a.cum
     /\ conn' = [cum |-> a.cum, out |-> out, timer |-> Rearmed(out)]
     /\ UNCHANGED <<setup, offered, sent, retryQ, inOn, waiting, net, acks, receiver,
                    givenUp, failed>>

-----------------------------------------------------------------------------
\* DupRemove::Connection::received: the cumulative number of the source moves the record
\* forward, and what lies below it counts as received.
Forward(cp, cseq) ==
  IF cp.cum >= cseq THEN cp
  ELSE [cum |-> cseq, got |-> IF cp.cum = 0 THEN cp.got ELSE cp.got \ (cp.cum .. cseq)]

IsDuplicate_Above(cp, seq) == seq <= cp.cum + 1 \/ seq \in cp.got

IsDuplicate(cp, seq) == seq < cp.cum \/ seq \in cp.got

\* DupRemove::push up to the output: a tuple with cumulative number 0 starts a connection.
NewDup(d) == IF dup = NULL \/ d.cseq = 0 THEN [cum |-> 0, got |-> {}] ELSE dup

\* ODelivery::Connection::insert: in sequence order, once; then the next number moves
\* over what is now contiguous.
Below_AtTheEnd(q, seq) == Len(q)

Below(q, seq) == Leading(Len(q), {i \in DOMAIN q : q[i] < seq})

Placed(q, k, seq) ==
  [i \in 1 .. Len(q) + 1 |-> IF i <= k THEN q[i] ELSE IF i = k + 1 THEN seq ELSE q[i - 1]]

NextAfter(q, next) == next + Leading(Len(q), {i \in DOMAIN q : q[i] = next + i - 1})

Insert(cp, seq) ==
  LET k == Below(cp.queue, seq)
      q == Placed(cp.queue, k, seq)
  IN IF k < Len(cp.queue) /\ cp.queue[k + 1] = seq THEN cp
     ELSE [cp EXCEPT !.queue = q, !.next = NextAfter(q, @)]

\* ODelivery::flush: the tuples up to the next number, as many as the consumer takes; the
\* first one removes the timer, a gap sets it.  The next number moves with a tuple that has
\* it, so that one that follows such a tuple, in a queue in sequence order, is due as well.
Due(cp) ==
  {i \in DOMAIN cp.queue :
     cp.queue[i] <= cp.next \/ (i > 1 /\ cp.queue[i] = cp.queue[i - 1] + 1)}

flush(s) ==
  LET q == s.cp.queue
      k == Leading(Min({s.room, Len(q)}), Due(s.cp))
      gap == k < s.room /\ k < Len(q)
  IN [cp |-> [next |-> IF k = 0 THEN s.cp.next ELSE Max({s.cp.next, q[k] + 1}),
              queue |-> Drop(q, k),
              timer |-> gap \/ (k = 0 /\ s.cp.timer)],
      room |-> s.room - k, outs |-> s.outs \o SubSeq(q, 1, k)]

\* ODelivery::push.  A tuple with cumulative number 0 drops the connection, not its timer.
Deliver(d) ==
  LET reset == d.cseq = 0 /\ order # NULL
      fresh == order = NULL \/ reset
      old == IF fresh THEN [next |-> d.cseq, queue |-> <<>>, timer |-> FALSE] ELSE order
      f == flush([cp |-> Insert(old, d.seq), room |-> room,
                  outs |-> IF fresh THEN <<>> ELSE outs])
  IN /\ orphans' = orphans + (IF reset /\ order.timer THEN 1 ELSE 0)
     /\ IF ~fresh /\ d.seq < old.next THEN UNCHANGED <<order, room, outs>>
        ELSE order' = f.cp /\ room' = f.room /\ outs' = f.outs

\* A datagram comes up from Defrag: BasicAck::simple_action queues the acknowledgement,
\* DupRemove::push and ODelivery::push follow in the same call.
Receive(d) ==
  LET cp == Forward(NewDup(d), d.cseq)
      isDup == IsDuplicate(cp, d.seq)
  IN /\ d \in net /\ Len(ackQ) < MaxAcks
     /\ ackQ' = Append(ackQ, d)
     /\ dup' = IF isDup THEN cp ELSE [cp EXCEPT !.got = @ \cup {d.seq}]
     /\ passed' = IF isDup THEN passed ELSE passed \cup {d.seq}
     /\ IF setup.ordered /\ ~isDup THEN Deliver(d) /\ orphans' <= MaxOrphans ELSE UNCHANGED ordering
     /\ UNCHANGED <<setup, sender, net, acks, cack, givenUp, failed>>

\* ODelivery::out_cb.
out_cb ==
  LET f == flush([cp |-> order, room |-> Room, outs |-> outs])
  IN /\ room = 0
     /\ IF order = NULL THEN room' = Room /\ UNCHANGED <<order, outs>>
        ELSE order' = f.cp /\ room' = f.room /\ outs' = f.outs
     /\ UNCHANGED <<setup, sender, net, acks, ackQ, dup, cack, orphans, passed, givenUp, failed>>

\* ODelivery::flushConnectionQ, the timer of the connection or of one before it: whatever
\* is queued goes out.  The connection is never found dead: touch_duration is
\* time_duration::seconds, the seconds of the minute, which never exceed 240.
flushConnectionQ ==
  LET own == order # NULL /\ order.timer
      cp == [order EXCEPT !.timer = FALSE]
      f == flush([cp |-> IF cp.queue = <<>> THEN cp ELSE [cp EXCEPT !.next = cp.queue[Len(cp.queue)] + 1],
                  room |-> room, outs |-> outs])
  IN /\ own \/ orphans > 0
     /\ \/ own /\ UNCHANGED orphans
        \/ orphans > 0 /\ orphans' = orphans - (IF own THEN 0 ELSE 1)
     /\ IF order = NULL THEN failed' = TRUE /\ UNCHANGED <<order, room, outs>>
        ELSE order' = f.cp /\ room' = f.room /\ outs' = f.outs /\ UNCHANGED failed
     /\ UNCHANGED <<setup, sender, net, acks, ackQ, dup, cack, passed, givenUp>>

\* CumulativeAck::Connection::confirm: kept until the hole below is filled.
Confirmed(cp, seq) ==
  LET q == IF seq < cp.cum \/ seq = cp.cum + 1 THEN cp.queue ELSE cp.queue \cup {seq}
      base == IF seq = cp.cum + 1 THEN seq ELSE cp.cum
      top == base + Leading(Cardinality(q), {i \in 1 .. Cardinality(q) : base + i \in q})
  IN IF seq # cp.cum + 1 /\ seq >= cp.cum /\ seq \in cp.queue THEN cp
     ELSE [cum |-> top, queue |-> {s \in q : s > top}]

\* CumulativeAck::simple_action on the acknowledgement pulled from BasicAck: a tuple with
\* cumulative number 0 starts a connection at its own number.
Start(d) ==
  LET new == cack = NULL \/ d.cseq = 0
      cp == IF new THEN [cum |-> 0, queue |-> {}] ELSE cack
  IN [cp EXCEPT !.cum = IF d.cseq = 0 THEN d.seq ELSE Max({@, d.cseq})]

SendAck ==
  LET d == Head(ackQ)
      cp == Confirmed(Start(d), d.seq)
  IN /\ ackQ # <<>> /\ ackQ' = Tail(ackQ)
     /\ cack' = cp /\ acks' = acks \cup {[seq |-> d.seq, cum |-> cp.cum]}
     /\ UNCHANGED <<setup, sender, net, dup, ordering, passed, givenUp, failed>>

\* The connection timers of DupRemove and CumulativeAck: unmap.
DupTimeout ==
  /\ ~setup.lasting /\ dup # NULL /\ dup' = NULL
  /\ UNCHANGED <<setup, sender, net, acks, ackQ, cack, ordering, passed, givenUp, failed>>

CackTimeout ==
  /\ ~setup.lasting /\ cack # NULL /\ cack' = NULL
  /\ UNCHANGED <<setup, sender, net, acks, ackQ, dup, ordering, passed, givenUp, failed>>

Next ==
  \/ Offer \/ PullNew \/ PullRetry \/ PullNothing \/ handle_failure
  \/ \E a \in acks : ack(a)
  \/ \E d \in net : Receive(d)
  \/ out_cb \/ flushConnectionQ \/ SendAck \/ DupTimeout \/ CackTimeout

Spec == Init /\ [][Next]_vars

-----------------------------------------------------------------------------
(* An element below RDelivery sleeps only when there is nothing to send, and the         *)
(* retransmission timer runs exactly while a tuple is outstanding: no wake-up and no     *)
(* retry is lost between acknowledgements, failures and arrivals (RDelivery::pull,       *)
(* input_cb, ack and handle_failure).                                                    *)
SenderAwake ==
  /\ waiting => retryQ = <<>> /\ sent = offered
  /\ conn # NULL => (conn.timer <=> conn.out # <<>>)

(* A tuple sent on an established connection (with a cumulative number) that RDelivery   *)
(* no longer holds has got through DupRemove, or was given up after its retries: neither *)
(* a cumulative acknowledgement nor duplicate removal loses one, whatever the network    *)
(* loses, repeats or reorders (RDelivery::ack, CumulativeAck::simple_action,             *)
(* DupRemove::received).                                                                 *)
NoneLost ==
  \A d \in net : d.cseq # 0 =>
    \/ d.seq \in passed \cup givenUp
    \/ conn # NULL /\ \E i \in DOMAIN conn.out : conn.out[i].seq = d.seq

(* What one connection of ODelivery delivers has strictly increasing sequence numbers,   *)
(* even when timers flush past a hole and when the flush timer of an earlier connection  *)
(* fires (ODelivery::push, flush, flushConnectionQ).                                     *)
DeliveredInOrder == \A i \in 1 .. Len(outs) - 1 : outs[i] < outs[i + 1]

(* The assertion of handle_failure holds, and flushConnectionQ never finds its           *)
(* connection gone.                                                                      *)
NoFailure == ~failed
=============================================================================
