------------------------------- MODULE Fanout -------------------------------
(***************************************************************************)
(* The elements that push to several outputs: src/elements/duplicate.C,    *)
(* duplicateConservative.C, dDuplicateConservative.C, demux.C,             *)
(* demuxConservative.C and ddemux.C.  An output that returns 0 took the    *)
(* tuple but can take no more: it is blocked until it calls back.  The     *)
(* conservative elements push back their input when one output is blocked, *)
(* the others when all are.                                                *)
(*                                                                         *)
(* Downstream of every output is a bounded Queue; upstream an element that *)
(* stops when it is pushed back, or (not polite) one that ignores it, as   *)
(* CommitBuf::flush does.                                                  *)
(***************************************************************************)
EXTENDS Integers, Functions, FiniteSets

CONSTANTS
  Configurations,  \* the elements and their surroundings
  NKeys,           \* bound on the demux keys
  Capacity         \* _size of the queues downstream

VARIABLES
  conf,     \* the class of the element (kind), how many keys its constructor gets (keys),
            \* whether the pusher stops when it is pushed back (polite), and whether
            \* outputs are added or removed (adds, removes)
  live,     \* _outputs: port |-> whether it is there
  portMap,  \* key |-> port, of the demux elements; no key: port 0
  flags,    \* _block_flags, or the port that is _blockedOutput
  count,    \* _block_flag_count
  pushCB,   \* whether _push_cb is set
  sink,     \* port |-> tuples in the queue downstream
  cb,       \* ports whose queue holds the callback unblock(port)
  ready,    \* whether the pusher may push
  failed,   \* whether an assertion failed
  missed,   \* history: ports that a tuple for them did not get to
  removed   \* history: ports that remove_output was called for

element == <<live, portMap, flags, count, pushCB>>
world == <<sink, cb, ready>>
vars == <<conf, element, world, failed, missed, removed>>

Duplicates == {"Duplicate", "DuplicateConservative", "DDuplicateConservative"}

\* The block-one-block-all policy.
Conservative ==
  conf.kind \in {"DuplicateConservative", "DDuplicateConservative", "DemuxConservative"}

PortKeys == 1 .. NKeys
Ports == 0 .. NKeys

noutputs == Cardinality({i \in DOMAIN live : live[i]})

Init ==
  /\ conf \in Configurations
  /\ live = [i \in 0 .. conf.keys |-> TRUE]
  /\ portMap = [k \in 1 .. conf.keys |-> k]
  /\ flags = [i \in 0 .. conf.keys |-> FALSE]
  /\ count = 0 /\ pushCB = FALSE
  /\ sink = [i \in Ports |-> 0] /\ cb = {} /\ ready = TRUE
  /\ failed = FALSE /\ missed = {} /\ removed = {}

\* An assertion fails, that of a null pointer or an empty function included.
Abort == failed' = TRUE /\ UNCHANGED <<element, world, missed, removed>>

-----------------------------------------------------------------------------
\* The outputs of a tuple with key k.
Targets(k) ==
  IF conf.kind \in Duplicates THEN 0 .. noutputs - 1
  ELSE {IF k \in DOMAIN portMap THEN portMap[k] ELSE 0}

\* "Can I take more?"
Full == IF Conservative THEN count > 0 ELSE count = noutputs

\* The input is pushed back.
PushesBack(n) == IF Conservative THEN n > 0 ELSE n = noutputs

\* A push to an element that pushed back: the tuple is dropped.
Overrun(k) ==
  IF conf.kind \in Duplicates /\ Conservative /\ ~pushCB
  THEN Abort
  ELSE /\ pushCB' = TRUE /\ ready' = FALSE
       /\ missed' = missed \cup Targets(k)
       /\ UNCHANGED <<live, portMap, flags, count, sink, cb, failed, removed>>

\* The assertions on _push_cb when the outputs of S block the input; ddemux.C has it
\* the wrong way round for its default output.
CallbackExpected(S) == conf.kind = "DDemux" /\ S = {0}

\* The outputs that block when they get a tuple.
Blocks(S) == {i \in S : sink[i] + 1 = Capacity}

Deliver(k) ==
  LET open == {i \in Targets(k) : ~flags[i]}
      new == Blocks(open)
      n == count + Cardinality(new)
      back == new # {} /\ PushesBack(n)
  IN IF \/ \E i \in open : ~live[i]
        \/ conf.kind \in Duplicates /\ Conservative /\ pushCB
        \/ back /\ pushCB # CallbackExpected(Targets(k))
     THEN Abort
     ELSE /\ sink' = [i \in Ports |-> IF i \in open THEN sink[i] + 1 ELSE sink[i]]
          /\ cb' = cb \cup new
          /\ flags' = [i \in DOMAIN flags |-> flags[i] \/ i \in new]
          /\ count' = n
          /\ pushCB' = (pushCB \/ back)
          /\ ready' = ~back
          /\ missed' = missed \cup (Targets(k) \ open)
          /\ UNCHANGED <<live, portMap, failed, removed>>

push(k) ==
  /\ ~failed /\ (conf.polite => ready)
  /\ IF Full THEN Overrun(k) ELSE Deliver(k)

-----------------------------------------------------------------------------
\* unblock: whether it calls _push_cb.
Calls_Never(i, n) == FALSE

Calls(i, n) ==
  CASE conf.kind = "DemuxConservative" -> flags[i] /\ pushCB
    [] conf.kind = "DDemux" -> pushCB /\ live[i]
    [] conf.kind \in {"Duplicate", "Demux"} -> pushCB
    [] OTHER -> n = 0

\* _push_cb after it.
KeptCB(i, n) == pushCB /\ ~Calls(i, n)

Unflagged(i) == [flags EXCEPT ![i] = FALSE]

unblock(i) ==
  LET n == IF flags[i] THEN count - 1 ELSE count IN
    IF (conf.kind # "DDemux" /\ i > noutputs) \/ (Calls(i, n) /\ ~pushCB)
    THEN Abort
    ELSE /\ sink' = [sink EXCEPT ![i] = @ - 1]
         /\ cb' = cb \ {i}
         /\ flags' = Unflagged(i)
         /\ count' = n
         /\ pushCB' = KeptCB(i, n)
         /\ ready' = (ready \/ Calls(i, n))
         /\ UNCHANGED <<live, portMap, failed, missed, removed>>

\* The queue of an output is pulled: with a callback, it calls unblock.
Drain(i) ==
  /\ ~failed /\ sink[i] > 0
  /\ IF i \notin cb
     THEN /\ sink' = [sink EXCEPT ![i] = @ - 1]
          /\ UNCHANGED <<element, cb, ready, failed, missed, removed>>
     ELSE IF i \in DOMAIN flags THEN unblock(i) ELSE Abort

-----------------------------------------------------------------------------
\* Element::addOutputPort appends a port; DDemux also checks its flag.
add_output(k) ==
  LET i == Cardinality(DOMAIN live) IN
    /\ ~failed /\ conf.adds /\ k \notin DOMAIN portMap /\ i \in Ports
    /\ IF i # Cardinality(DOMAIN flags)
       THEN Abort
       ELSE /\ live' = [j \in 0 .. i |-> j = i \/ live[j]]
            /\ portMap' = [j \in DOMAIN portMap \cup {k} |-> IF j = k THEN i ELSE portMap[j]]
            /\ flags' = [j \in 0 .. i |-> j # i /\ flags[j]]
            /\ UNCHANGED <<count, pushCB, world, failed, missed, removed>>

\* DDemux forgets the key and the flag of the port, calls itself, finds no key any
\* more and returns -1: the port stays.
ForgetPort(i) ==
  /\ i # 0 /\ \E k \in DOMAIN portMap : portMap[k] = i
  /\ portMap' = Restrict(portMap, {k \in DOMAIN portMap : portMap[k] # i})
  /\ count' = IF flags[i] THEN count - 1 ELSE count
  /\ flags' = IF i + 1 = Cardinality(DOMAIN flags)
              THEN Restrict(flags, DOMAIN flags \ {i})
              ELSE [flags EXCEPT ![i] = FALSE]
  /\ UNCHANGED live

\* DDuplicateConservative deletes the port and keeps its flag.
DeletePort(i) ==
  /\ live' = [live EXCEPT ![i] = FALSE]
  /\ portMap' = Restrict(portMap, {k \in DOMAIN portMap : portMap[k] # i})
  /\ UNCHANGED <<flags, count>>

remove_output(i) ==
  /\ ~failed /\ conf.removes /\ i \in DOMAIN live /\ live[i] /\ i \notin removed
  /\ IF conf.kind = "DDemux" THEN ForgetPort(i) ELSE DeletePort(i)
  /\ removed' = removed \cup {i}
  /\ UNCHANGED <<pushCB, world, failed, missed>>

-----------------------------------------------------------------------------
Step ==
  \/ \E k \in Ports : push(k)
  \/ \E i \in Ports : Drain(i) \/ remove_output(i)
  \/ \E k \in PortKeys : add_output(k)

Next == Step /\ UNCHANGED conf

Spec == Init /\ [][Next]_vars

-----------------------------------------------------------------------------
\* Types.
TypeOK ==
  /\ live \in [DOMAIN live -> BOOLEAN] /\ DOMAIN live \subseteq Ports
  /\ portMap \in [DOMAIN portMap -> Ports] /\ DOMAIN portMap \subseteq PortKeys
  /\ flags \in [DOMAIN flags -> BOOLEAN]
  /\ count \in 0 .. Cardinality(Ports) /\ pushCB \in BOOLEAN
  /\ sink \in [Ports -> 0 .. Capacity] /\ cb \subseteq Ports /\ ready \in BOOLEAN
  /\ missed \subseteq Ports /\ removed \subseteq Ports

\* No assertion of the element fails and no empty callback is called, but in a DDemux
\* (ddemux.C:228) and after the removal of an output.
AssertionsHold == failed => conf.kind = "DDemux" \/ removed # {}

\* The block flags are right: an output is flagged exactly while its queue is full and
\* holds the callback that unflags it, and _block_flag_count counts the flags.
FlagsMatchOutputs ==
  removed = {} =>
    /\ count = Cardinality({i \in DOMAIN flags : flags[i]})
    /\ \A i \in DOMAIN flags : flags[i] <=> i \in cb
    /\ \A i \in cb : sink[i] = Capacity

\* A pusher that was pushed back will be called: its callback is stored, and some
\* output that will unblock leads to it.  This holds also after outputs were removed.
PushedBackWillBeCalled == ~ready => pushCB /\ \E i \in cb : flags[i]

\* With the block-one-block-all policy no output misses a tuple, if the pusher stops
\* when it is pushed back.
NothingMissed == Conservative /\ conf.polite => missed = {}
=============================================================================
