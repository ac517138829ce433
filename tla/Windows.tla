------------------------------ MODULE Windows ------------------------------
(***************************************************************************)
(* The elements of src/net that follow each tuple under way with a timer:  *)
(* RoundTripTimer (roundTripTimer.C), the window-based CCT (cct.C) and the *)
(* rate-based RateCCT (rcct.C), each between a Queue and a transport that  *)
(* pulls; and RateCCR (rccr.C), which measures loss for RateCCT.           *)
(*                                                                         *)
(* A tuple's record is kept by destination and sequence number.  The       *)
(* fragments of a tuple share its number, so that a second record with the *)
(* same key is not kept, while its timer runs.  Times are left out: a      *)
(* timer may fire, and an acknowledgement arrive, at any time.             *)
(***************************************************************************)
EXTENDS Integers, Sequences, FiniteSets, SequencesExt, FiniteSetsExt

CONSTANTS
  Kinds,      \* which of "RoundTripTimer", "CCT", "RateCCT", "RateCCR"
  Items,      \* what is sent: a sequence of [dest, seq, n], n the fragment's number
  Delays,     \* measured round-trip times
  Rates,      \* receive rates in acknowledgements
  MaxWnd,     \* max_wnd_ of CCT
  MaxAcks,    \* bound: acknowledgements that arrive
  MinRTO, MaxRTO,   \* MIN_RTO and MAX_RTO
  Order,      \* order_ of RateCCR: how late a tuple may be before it counts as lost
  Arrivals,   \* the sequence numbers that may arrive at RateCCR
  Repeats     \* whether copies of a tuple arrive there as well

VARIABLES
  kind,
  offered, sent,   \* items pushed into the Queue, and pulled by the transport
  mapped,     \* the records in the map
  timers,     \* the records whose timer is pending
  freed,      \* the records deleted
  waiting,    \* the transport's callback is kept
  dataOn,     \* data_on_
  flow,       \* RTTRec by destination, the window of CCT, or the rates of RateCCT
  ackCount,
  ccr         \* the RateCCR::Connection: history_, loss_recs_, seq_miss_; history: what
              \* arrived, and whether a loss record was made by a tuple out of order

vars == <<kind, offered, sent, mapped, timers, freed, waiting, dataOn, flow, ackCount, ccr>>

Dests == {it.dest : it \in Range(Items)}

NewFlow(k) ==
  IF k = "RoundTripTimer" THEN [d \in Dests |-> [sa |-> -1, sv |-> 0, rto |-> MaxRTO]]
  ELSE IF k = "CCT" THEN [cwnd |-> 1, twiceThresh |-> 2 * MaxWnd, quiet |-> {}]
  ELSE [trate |-> 1, rrate |-> 0, nofeedback |-> FALSE]

Init ==
  /\ kind \in Kinds /\ offered = 0 /\ sent = 0
  /\ mapped = {} /\ timers = {} /\ freed = {} /\ waiting = FALSE /\ dataOn = TRUE
  /\ flow = NewFlow(kind) /\ ackCount = 0
  /\ ccr = [history |-> <<>>, recs |-> <<>>, miss |-> 0, got |-> {}, wild |-> FALSE,
            failed |-> FALSE]

Sender == kind # "RateCCR"

-----------------------------------------------------------------------------
\* CCT::current_window counts destinations; RateCCT::tuplesInFlight counts records.
InFlight(m) == IF kind = "CCT" THEN Cardinality({o.dest : o \in m}) ELSE Cardinality(m)

WindowSize(f) == IF kind = "CCT" THEN f.cwnd ELSE f.trate

Open(m, f) == IF kind = "RoundTripTimer" THEN TRUE ELSE InFlight(m) < WindowSize(f)

\* data_ready, when the input had been found empty.
Offer ==
  /\ Sender /\ offered < Len(Items) /\ offered' = offered + 1
  /\ IF dataOn THEN UNCHANGED <<dataOn, waiting>> ELSE dataOn' = TRUE /\ waiting' = FALSE
  /\ UNCHANGED <<kind, sent, mapped, timers, freed, flow, ackCount, ccr>>

\* map: std::map::insert keeps an earlier record with the same key; the timer of the new
\* one runs all the same.
Mapped(o) == IF \E p \in mapped : p.dest = o.dest /\ p.seq = o.seq THEN mapped ELSE mapped \cup {o}

Pull ==
  LET o == Items[sent + 1]
  IN /\ Sender /\ ~waiting /\ Open(mapped, flow) /\ sent < offered
     /\ sent' = sent + 1 /\ mapped' = Mapped(o) /\ timers' = timers \cup {o}
     /\ UNCHANGED <<kind, offered, freed, waiting, dataOn, flow, ackCount, ccr>>

PullNothing ==
  /\ Sender /\ ~waiting /\ waiting' = TRUE
  /\ \/ ~Open(mapped, flow) /\ UNCHANGED dataOn
     \/ Open(mapped, flow) /\ sent = offered /\ dataOn' = FALSE
  /\ UNCHANGED <<kind, offered, sent, mapped, timers, freed, flow, ackCount, ccr>>

\* dealloc, unmap: the record with the key goes, its timer is cancelled, and the transport
\* is woken if there is room (CCT: and data).  done is the record whose timer is running now.
Record(d, s) == {o \in mapped : o.dest = d /\ o.seq = s}

Wakes(m, f) == Open(m, f) /\ (kind = "CCT" => dataOn)

Cancels(r, done) == timers \ (r \cup done)

Dealloc(d, s, f, done) ==
  LET r == Record(d, s)
      m == mapped \ r
      woken == IF kind = "CCT" THEN r # {} /\ Wakes(m, f) ELSE Wakes(m, f)
  IN /\ mapped' = m /\ timers' = Cancels(r, done)
     /\ freed' = IF kind = "RateCCT" THEN freed ELSE freed \cup r
     /\ waiting' = (waiting /\ ~(kind # "RoundTripTimer" /\ woken))

\* RoundTripTimer::add_rtt_meas and timeout, in integers as in the code.
Clamp(rto) == Max({MinRTO, Min({rto, MaxRTO})})

Measure(r, m) ==
  IF r.sa = -1 THEN [sa |-> m * 8, sv |-> 0, rto |-> Clamp(m * 4 + 10)]
  ELSE LET e == m - r.sa \div 8
           sa == r.sa + e
           abs == IF e < 0 THEN -e ELSE e
           sv == r.sv + abs - r.sv \div 4
       IN [sa |-> sa, sv |-> sv, rto |-> Clamp(sa \div 8 + sv + 10)]

\* CCT::successTransmit and failureTransmit; ssthresh_ may be half a number.
Success(f) ==
  [f EXCEPT !.cwnd = Min({MaxWnd, IF 2 * f.cwnd < f.twiceThresh THEN 2 * @ ELSE @ + 1})]

Failure(f) == [cwnd |-> 2, twiceThresh |-> Max({f.cwnd, 4}), quiet |-> f.quiet \cup mapped]

\* RateCCT::feedback with receive rate x: with loss the rate of the TCP equation, any
\* number here; without, doubled once a round trip.
Feedback(f, x, calc, doubles, loss) ==
  [f EXCEPT !.trate = IF loss THEN Max({Min({calc, 2 * x}), 1})
                      ELSE IF doubles THEN Max({Min({2 * @, 2 * x}), 2}) ELSE @,
            !.rrate = x, !.nofeedback = TRUE]

\* An acknowledgement for a tuple that was sent: RoundTripTimer::push, CCT::push,
\* RateCCT::push.
Ack(d, s) ==
  /\ Sender /\ ackCount < MaxAcks /\ ackCount' = ackCount + 1
  /\ \E i \in 1 .. sent : Items[i].dest = d /\ Items[i].seq = s
  /\ Dealloc(d, s, flow, {})
  /\ \/ /\ kind = "RoundTripTimer" /\ Record(d, s) # {}
        /\ \E m \in Delays : flow' = [flow EXCEPT ![d] = Measure(@, m)]
     \/ kind = "RoundTripTimer" /\ Record(d, s) = {} /\ UNCHANGED flow
     \/ kind = "CCT" /\ flow' = Success(flow)
     \/ /\ kind = "RateCCT"
        /\ \E x \in Rates, calc \in Rates, b \in BOOLEAN, loss \in BOOLEAN :
             flow' = Feedback(flow, x, calc, b, loss)
  /\ UNCHANGED <<kind, offered, sent, dataOn, ccr>>

\* timeout_cb, tuple_timeout.  CCT halves its window once for all that are under way:
\* the records then lose wnd_ (quiet).
Timeout(o) ==
  /\ Sender /\ o \in timers
  /\ \/ /\ kind = "RoundTripTimer"
        /\ flow' = [flow EXCEPT ![o.dest].rto = Clamp(2 * @)]
        /\ Dealloc(o.dest, o.seq, flow, {o})
     \/ /\ kind = "CCT"
        /\ flow' = IF o \in flow.quiet THEN flow ELSE Failure(flow)
        /\ Dealloc(o.dest, o.seq, flow', {o})
     \/ kind = "RateCCT" /\ UNCHANGED flow /\ Dealloc(o.dest, o.seq, flow, {o})
  /\ UNCHANGED <<kind, offered, sent, dataOn, ackCount, ccr>>

\* RateCCT::feedback_timeout.
FeedbackTimeout ==
  LET r == IF flow.trate > 2 * flow.rrate THEN Max({flow.trate \div 2, 1}) ELSE flow.trate \div 4
  IN /\ kind = "RateCCT" /\ flow.nofeedback
     /\ \E b \in BOOLEAN : flow' = Feedback(flow, r, 0, b, FALSE)
     /\ UNCHANGED <<kind, offered, sent, mapped, timers, freed, waiting, dataOn, ackCount, ccr>>

-----------------------------------------------------------------------------
\* LossRec: the numbers between the tuple before the miss and the next one in history_;
\* {-1} when there are none such, and the code would follow a null pointer.
Lost(h, miss) ==
  LET before == {i \in DOMAIN h : h[i] + 1 = miss}
      i == Min(before)
  IN IF before = {} THEN {-1} ELSE IF i = 1 THEN {-1}
     ELSE (h[i] + 1) .. (h[i - 1] - 1)

InsertAt2(h, seq) ==
  LET below == {i \in 2 .. Len(h) : h[i] < seq}
  IN IF below = {} THEN h ELSE InsertAt(h, Min(below), seq)

\* The next missing number above the hole just filled; the search ends at that tuple.
NextMiss(h, seq) ==
  LET stop == {i \in 2 .. Len(h) : h[i] = seq}
      upto == IF stop = {} THEN Len(h) ELSE Min(stop) - 1
      gaps == {i \in 2 .. upto : h[i - 1] # h[i] + 1}
  IN IF gaps = {} THEN 0 ELSE h[Max(gaps)] + 1

\* A late tuple leaves the loss records; one that becomes empty is erased and ends the loop.
Voided(recs, seq) ==
  LET one(acc, r) == IF acc.done \/ seq \notin r THEN [acc EXCEPT !.recs = Append(@, r)]
                     ELSE IF r = {seq} THEN [acc EXCEPT !.done = TRUE]
                     ELSE [acc EXCEPT !.recs = Append(@, r \ {seq})]
  IN FoldLeft(one, [recs |-> <<>>, done |-> FALSE], recs).recs

Late_Front(c, seq) == seq < Head(c.history)

Late(c, seq) == seq < Last(c.history)

\* RateCCR::Connection::handle_tuple.
Handled(c, seq) ==
  LET h == c.history
      lost == Lost(h, c.miss)
      filled == InsertAt2(h, seq)
  IN IF c.miss # 0 /\ seq - c.miss >= Order
     THEN [c EXCEPT !.recs = SubSeq(<<lost>> \o @, 1, Min({8, Len(@) + 1})), !.miss = 0,
                    !.history = <<seq>>, !.wild = @ \/ seq < Head(h), !.failed = @ \/ lost = {-1}]
     ELSE IF h = <<>> THEN [c EXCEPT !.history = <<seq>>]
     ELSE IF Head(h) < seq
     THEN [c EXCEPT !.history = <<seq>> \o @,
                    !.miss = IF @ = 0 /\ Head(h) + 1 # seq THEN Head(h) + 1 ELSE @]
     ELSE IF Late(c, seq) THEN [c EXCEPT !.recs = Voided(@, seq)]
     ELSE [c EXCEPT !.history = filled, !.miss = IF @ = seq THEN NextMiss(filled, seq) ELSE @]

\* RateCCR::simple_action.
Arrive(seq) ==
  /\ kind = "RateCCR" /\ ~ccr.failed /\ (seq \in ccr.got => Repeats)
  /\ ackCount < MaxAcks /\ ackCount' = ackCount + 1
  /\ ccr' = [Handled(ccr, seq) EXCEPT !.got = @ \cup {seq}]
  /\ UNCHANGED <<kind, offered, sent, mapped, timers, freed, waiting, dataOn, flow>>

Next ==
  \/ Offer \/ Pull \/ PullNothing \/ FeedbackTimeout
  \/ \E i \in 1 .. sent : Ack(Items[i].dest, Items[i].seq)
  \/ \E o \in timers : Timeout(o)
  \/ \E seq \in Arrivals : Arrive(seq)

-----------------------------------------------------------------------------
(* A record in the map has its timer pending, and the record of a pending timer has not  *)
(* been deleted: neither a late or repeated acknowledgement nor fragments with the same  *)
(* number make dealloc or a timeout use a freed timer or record (CCT and RoundTripTimer  *)
(* timeout_cb, dealloc; RateCCT::unmap).                                                 *)
HandlesLive == mapped \subseteq timers /\ timers \cap freed = {}

(* The transport sleeps on waiting data only while a record with a pending timer fills   *)
(* the window, so that it will be woken; and the window is never empty, so that a rate   *)
(* that is divided by is not zero (CCT::pull, dealloc; RateCCT::pull, unmap, feedback).  *)
NeverStuck ==
  Sender =>
    /\ waiting /\ sent < offered => mapped # {}
    /\ kind # "RoundTripTimer" => WindowSize(flow) >= 1

(* The timeout stays between its bounds and above the smoothed round-trip time, and the  *)
(* integer estimates stay nonnegative (RoundTripTimer::add_rtt_meas, timeout).           *)
TimeoutSane ==
  kind = "RoundTripTimer" => \A d \in Dests :
    /\ flow[d].rto \in MinRTO .. MaxRTO /\ flow[d].sv >= 0 /\ flow[d].sa >= -1

(* RateCCR finds the tuples around a loss, and a number recorded as lost has not         *)
(* arrived, in whatever order tuples arrive; unless a tuple that is itself out of order  *)
(* made a record, which then covers tuples that have arrived                             *)
(* (RateCCR::Connection::handle_tuple, LossRec).                                         *)
LossesReal ==
  ~ccr.failed /\ (~ccr.wild => \A i \in DOMAIN ccr.recs : ccr.recs[i] \cap ccr.got = {})
=============================================================================
