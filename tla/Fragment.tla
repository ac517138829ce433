------------------------------ MODULE Fragment ------------------------------
(***************************************************************************)
(* The network path of src/bin/runStagedOverlog.C (netPlan): Sequence      *)
(* (src/net/tupleseq.C) numbers the tuples for a node, Frag (frag.C) cuts  *)
(* them into blocks, the network delivers the blocks, and Defrag           *)
(* (defrag.C) of the receiver puts them together again.  Blocks are kept   *)
(* by their sequence number alone.                                         *)
(***************************************************************************)
EXTENDS Integers, Sequences, FiniteSets, SequencesExt, FiniteSetsExt

CONSTANTS
  Sources,    \* the nodes that send to the receiver
  FirstSeq,   \* source |-> its first sequence number, which Sequence draws at random
  Chunks,     \* source |-> the number of blocks of each of its tuples: a sequence
  MaxQueue,   \* max_queue_size_ of Frag
  Networks    \* what the network may do with datagrams, see network

WellFormed ==
  /\ DOMAIN FirstSeq = Sources /\ DOMAIN Chunks = Sources
  /\ \A s \in Sources : FirstSeq[s] \in Nat /\ \A k \in DOMAIN Chunks[s] : Chunks[s][k] > 0
  /\ MaxQueue \in Nat \ {0}

VARIABLES
  network,   \* whether it reorders and loses datagrams, and how many it duplicates
  next,      \* source |-> number of tuples it has pushed
  frags,     \* source |-> fragments_ of its Frag
  pushCB,    \* sources whose Frag has _push_cb
  pullCB,    \* sources whose Frag has _pull_cb
  ready,     \* sources whose PullPush may push to Frag
  net,       \* datagrams under way
  copies,    \* number of duplicates made
  pieces,    \* fragments_ of Defrag
  tuples,    \* tuples_ of Defrag
  waiting,   \* whether Defrag has _pull_cb
  output,    \* history: what was pulled from Defrag
  dropped,   \* history: the blocks taken for duplicates that were not
  arrived,   \* history: blocks that got to Defrag
  failed     \* whether an assertion failed

frag == <<next, frags, pushCB, pullCB, ready>>
defrag == <<pieces, tuples, waiting>>
history == <<output, dropped, arrived>>
vars == <<network, frag, net, copies, defrag, history, failed>>

Init ==
  /\ network \in Networks
  /\ next = [s \in Sources |-> 0] /\ frags = [s \in Sources |-> <<>>]
  /\ pushCB = {} /\ pullCB = {} /\ ready = Sources
  /\ net = <<>> /\ copies = 0
  /\ pieces = {} /\ tuples = <<>> /\ waiting = FALSE
  /\ output = <<>> /\ dropped = {} /\ arrived = {} /\ failed = FALSE

-----------------------------------------------------------------------------
\* Sequence::simple_action: the number of the k-th tuple of s.
SeqNum(s, k) == FirstSeq[s] + k - 1

\* Frag::fragment.
Blocks(s, k) ==
  [i \in 1 .. Chunks[s][k] |-> [src |-> s, seq |-> SeqNum(s, k), bn |-> i - 1, chunks |-> Chunks[s][k]]]

\* Frag::push returns 0.
Full(q) == Len(q) >= MaxQueue

FragPush(s) ==
  LET q == frags[s] \o Blocks(s, next[s] + 1)
  IN /\ ~failed /\ s \in ready /\ next[s] < Len(Chunks[s])
     /\ next' = [next EXCEPT ![s] = @ + 1]
     /\ frags' = [frags EXCEPT ![s] = q]
     /\ pullCB' = pullCB \ {s}
     /\ IF Full(q)
        THEN pushCB' = pushCB \cup {s} /\ ready' = ready \ {s}
        ELSE UNCHANGED <<pushCB, ready>>
     /\ UNCHANGED <<net, copies, defrag, history, failed>>

\* Frag::pull: the pusher is woken below the bound.
Wakes(s, q) == s \in pushCB /\ ~Full(q)

FragPull(s) ==
  LET q == frags[s]
  IN /\ ~failed /\ s \notin pullCB
     /\ IF q = <<>>
        THEN pullCB' = pullCB \cup {s} /\ UNCHANGED <<frags, net, pushCB, ready>>
        ELSE /\ frags' = [frags EXCEPT ![s] = Tail(q)]
             /\ net' = Append(net, Head(q))
             /\ IF Wakes(s, Tail(q))
                THEN pushCB' = pushCB \ {s} /\ ready' = ready \cup {s}
                ELSE UNCHANGED <<pushCB, ready>>
             /\ UNCHANGED pullCB
     /\ UNCHANGED <<next, copies, defrag, history, failed>>

-----------------------------------------------------------------------------
\* The network, which is not part of the program.
Lose(i) ==
  /\ ~failed /\ network.loses
  /\ net' = RemoveAt(net, i)
  /\ UNCHANGED <<frag, copies, defrag, history, failed>>

Copy(i) ==
  /\ ~failed /\ copies < network.copies
  /\ net' = Append(net, net[i]) /\ copies' = copies + 1
  /\ UNCHANGED <<frag, defrag, history, failed>>

-----------------------------------------------------------------------------
\* The multimap from find(seq) to its end: nothing if seq is not there, else also the
\* blocks of larger numbers.
From(S, seq) ==
  IF \E b \in S : b.seq = seq THEN {b \in S : b.seq >= seq} ELSE {}

\* Whether defragment ignores a block as a duplicate.
Duplicate(b) == \E c \in From(pieces, b.seq) : c.bn = b.bn

\* The blocks for the numbers 0, 1, ...: for each the one with the smallest sequence
\* number; no block where the assertion fails.
Collect_Backwards(S, seq, chunks) ==
  LET own == {b \in S : b.seq = seq}
  IN [rest |-> S \ own, got |-> SetToSortSeq(own, LAMBDA b, c : b.bn > c.bn), ok |-> TRUE]

Collect(S, seq, chunks) ==
  LET one(acc, n) ==
        LET found == {b \in From(acc.rest, seq) : b.bn = n}
        IN IF found = {} THEN [acc EXCEPT !.ok = FALSE]
           ELSE LET b == CHOOSE c \in found : \A d \in found : c.seq <= d.seq
                IN [acc EXCEPT !.rest = @ \ {b}, !.got = Append(@, b)]
  IN FoldLeft(one, [rest |-> S, got |-> <<>>, ok |-> TRUE], [n \in 1 .. chunks |-> n - 1])

\* Whether the tuple is complete with block b.
Complete(S, b) == Cardinality({c \in S : c.seq = b.seq}) = b.chunks

\* Defrag::push; the puller is woken when there is a tuple.
DefragPush(b) ==
  LET S == pieces \cup {b}
      all == Collect(S, b.seq, b.chunks)
  IN /\ arrived' = arrived \cup {b}
     /\ IF Duplicate(b)
        THEN /\ dropped' = IF b \in arrived THEN dropped ELSE dropped \cup {b}
             /\ UNCHANGED <<pieces, tuples, waiting, failed>>
        ELSE IF ~Complete(S, b)
        THEN pieces' = S /\ UNCHANGED <<tuples, waiting, dropped, failed>>
        ELSE IF ~all.ok
        THEN failed' = TRUE /\ UNCHANGED <<pieces, tuples, waiting, dropped>>
        ELSE /\ pieces' = all.rest
             /\ tuples' = Append(tuples, all.got)
             /\ waiting' = FALSE
             /\ UNCHANGED <<dropped, failed>>
     /\ UNCHANGED <<frag, copies, output>>

Deliver(i) ==
  /\ ~failed /\ (i > 1 => network.reorders)
  /\ net' = RemoveAt(net, i)
  /\ DefragPush(net[i])

DefragPull ==
  /\ ~failed /\ ~waiting
  /\ IF tuples = <<>>
     THEN waiting' = TRUE /\ UNCHANGED <<tuples, output>>
     ELSE /\ tuples' = Tail(tuples) /\ output' = Append(output, Head(tuples))
          /\ UNCHANGED waiting
  /\ UNCHANGED <<frag, net, copies, pieces, dropped, arrived, failed>>

-----------------------------------------------------------------------------
Program ==
  \/ DefragPull
  \/ \E s \in Sources : FragPush(s) \/ FragPull(s)
  \/ \E i \in DOMAIN net : Deliver(i)

Next ==
  /\ Program \/ \E i \in DOMAIN net : Lose(i) \/ Copy(i)
  /\ UNCHANGED network

Spec == Init /\ [][Next]_vars

-----------------------------------------------------------------------------
AllTuples == UNION {{Blocks(s, k) : k \in 1 .. Len(Chunks[s])} : s \in Sources}
Delivered == Range(output) \cup Range(tuples)

\* Types.
TypeOK ==
  /\ \A s \in Sources : next[s] \in 0 .. Len(Chunks[s])
  /\ \A s \in Sources : \A b \in Range(frags[s]) : b.src = s /\ b.bn \in 0 .. b.chunks - 1
  /\ pushCB \subseteq Sources /\ pullCB \subseteq Sources /\ ready \subseteq Sources
  /\ copies \in 0 .. network.copies /\ waiting \in BOOLEAN /\ failed \in BOOLEAN

\* What Defrag puts together are the blocks of one tuple, in order, whatever the network
\* does to the datagrams of one source; and assert(p) of defragment holds: when the blocks
\* are counted complete, all are there.
Intact == TypeOK /\ ~failed /\ Delivered \subseteq AllTuples

\* If the network keeps the order and makes no copies, no block is taken for a duplicate
\* ("defragment: duplicate offset"), a tuple of which all blocks got here comes out,
\* and tuples come out once and in the order in which they were sent.
WholeAndInOrder ==
  ~network.reorders /\ network.copies = 0 =>
    /\ dropped = {}
    /\ \A t \in AllTuples : Range(t) \subseteq arrived => t \in Delivered
    /\ \A i, j \in DOMAIN output :
         i < j /\ output[i][1].src = output[j][1].src => output[i][1].seq < output[j][1].seq

\* Every tuple has come out.
AllArrived == AllTuples \subseteq Range(output)
=============================================================================
