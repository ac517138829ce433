----------------------------- MODULE MCElements -----------------------------
(***************************************************************************)
(* The elements that hold tuples back, for TLC.  A behaviour is one of a   *)
(* RoundRobin, of a Fanout, of a Mux, of a Strand or of the elements of    *)
(* Feeds; the variables of the others keep the value Unused, but for       *)
(* removes.                                                                *)
(***************************************************************************)
EXTENDS RoundRobin

CONSTANTS
  Parts,   \* the components to check
  NKeys, Capacity, Inputs, MaxPushes,
  N, Heads, Keys, Contents, MaxEvents, MaxCommits,
  Kinds, Limits, Told, Texts, MaxFed

VARIABLES
  part, sink,
  conf, portMap, pushCB, ready, missed, removed,
  blocked, callbacks, buffered, timer, sinkCB, waiting, pushed, delivered,
  notIn, fn, rows, strand, running, asked, commits,
  kind, limit, feed, fed, got

\* Every class in its usual surroundings: demuxes without keys to start with, and a
\* pusher that ignores the push back where the runtime has one.
Class(name, keys, polite, adds, removing) ==
  [kind |-> name, keys |-> keys, polite |-> polite, adds |-> adds, removes |-> removing]

Unused == 0

Configurations ==
  {Class("Duplicate", 2, FALSE, FALSE, FALSE),
   Class("DuplicateConservative", 2, TRUE, FALSE, FALSE),
   Class("DDuplicateConservative", 1, TRUE, TRUE, FALSE),
   Class("DDuplicateConservative", 2, TRUE, FALSE, TRUE),
   Class("Demux", 2, FALSE, FALSE, FALSE),
   Class("DemuxConservative", 2, TRUE, FALSE, FALSE),
   Class("DDemux", 1, TRUE, TRUE, TRUE)}

\* One probe: no match, one match, two matches.
OneTable == {<<{}>>, <<{<<1, 1>>}>>, <<{<<1, 1>>, <<1, 2>>, <<2, 2>>}>>}

\* Two probes: the second fans out, finds the same value twice, or finds nothing.
TwoTables ==
  {<<{}, {<<1, 1>>}>>,
   <<{<<1, 1>>, <<1, 2>>}, {}>>,
   <<{<<1, 1>>, <<1, 2>>}, {<<1, 1>>, <<2, 1>>, <<2, 2>>}>>,
   <<{<<1, 1>>, <<1, 2>>, <<2, 2>>}, {<<2, 1>>, <<2, 3>>}>>}

\* Rules without an aggregate, and with each function but the one of MkSetHead.
MCHeads ==
  {<<{}, "NONE">>, <<{2}, "NONE">>} \cup
  {<<{}, f>> : f \in {"COUNT", "COUNTDISTINCT", "MIN", "MAX", "MKLIST"}}

MkSetHead == {<<{}, "MKSET">>}

\* Texts of which 0 is the delimiter: without a word, and with one, two and equal words
\* between single and repeated delimiters.
ShortTexts == {<<>>, <<0, 0>>, <<0, 1>>, <<1, 2, 0>>, <<1, 0, 0, 1>>}

Fanout == INSTANCE Fanout
Mux == INSTANCE Mux
Strand == INSTANCE Strand
Feeds == INSTANCE Feeds

ASSUME StrandAssumption == Strand!WellFormed
ASSUME PortsAssumption == Bounds

shared == <<live, flags, count, cb, failed, sink>>
ofRoundRobin == <<removes, next, pullCB, q, timers, puller, served, skipped>>
ofFanout == <<conf, portMap, pushCB, ready, missed, removed>>
ofMux == <<blocked, callbacks, buffered, timer, sinkCB, waiting, pushed, delivered>>
ofStrand == <<notIn, fn, rows, strand, running, asked, commits>>
ofFeeds == <<kind, limit, feed, fed, got>>
mcVars == <<part, shared, ofRoundRobin, ofFanout, ofMux, ofStrand, ofFeeds>>

NoShared == live = Unused /\ flags = Unused /\ count = Unused /\ cb = Unused

NoRoundRobin ==
  /\ removes = TRUE /\ next = Unused /\ pullCB = Unused /\ q = Unused
  /\ timers = Unused /\ puller = Unused /\ served = Unused /\ skipped = Unused

NoFanout ==
  /\ conf = Unused /\ portMap = Unused /\ pushCB = Unused
  /\ ready = Unused /\ missed = Unused /\ removed = Unused

NoMux ==
  /\ blocked = Unused /\ callbacks = Unused /\ buffered = Unused /\ timer = Unused
  /\ sinkCB = Unused /\ waiting = Unused /\ pushed = Unused /\ delivered = Unused

NoStrand ==
  /\ notIn = Unused /\ fn = Unused /\ rows = Unused /\ strand = Unused
  /\ running = Unused /\ asked = Unused /\ commits = Unused

NoFeeds == kind = Unused /\ limit = Unused /\ feed = Unused /\ fed = Unused /\ got = Unused

MCInit ==
  /\ part \in Parts
  /\ \/ /\ part = "RoundRobin" /\ Init /\ sink = Unused
        /\ NoFanout /\ NoMux /\ NoStrand /\ NoFeeds
     \/ part = "Fanout" /\ Fanout!Init /\ NoRoundRobin /\ NoMux /\ NoStrand /\ NoFeeds
     \/ /\ part = "Mux" /\ Mux!Init /\ NoShared
        /\ NoRoundRobin /\ NoFanout /\ NoStrand /\ NoFeeds
     \/ /\ part = "Strand" /\ Strand!Init /\ NoShared /\ failed = Unused /\ sink = Unused
        /\ NoRoundRobin /\ NoFanout /\ NoMux /\ NoFeeds
     \/ /\ part = "Feeds" /\ Feeds!Init /\ NoShared /\ failed = Unused /\ sink = Unused
        /\ NoRoundRobin /\ NoFanout /\ NoMux /\ NoStrand

MCNext ==
  \/ /\ part = "RoundRobin" /\ Next
     /\ UNCHANGED <<part, sink, ofFanout, ofMux, ofStrand, ofFeeds>>
  \/ part = "Fanout" /\ Fanout!Next /\ UNCHANGED <<part, ofRoundRobin, ofMux, ofStrand, ofFeeds>>
  \/ /\ part = "Mux" /\ Mux!Next
     /\ UNCHANGED <<part, live, flags, count, cb, ofRoundRobin, ofFanout, ofStrand, ofFeeds>>
  \/ /\ part = "Strand" /\ Strand!Next
     /\ UNCHANGED <<part, shared, ofRoundRobin, ofFanout, ofMux, ofFeeds>>
  \/ /\ part = "Feeds" /\ Feeds!Next
     /\ UNCHANGED <<part, shared, ofRoundRobin, ofFanout, ofMux, ofStrand>>

MCSpec == MCInit /\ [][MCNext]_mcVars

\* The scheduler runs an ACTIVE PullPush, the loop its timers, and the queues behind
\* a Fanout are pulled.
RunPuller ==
  /\ part = "RoundRobin" /\ Pull
  /\ UNCHANGED <<part, removes, sink, ofFanout, ofMux, ofStrand, ofFeeds>>

RunTimer(i) ==
  /\ part = "RoundRobin" /\ Timer(i)
  /\ UNCHANGED <<part, removes, sink, ofFanout, ofMux, ofStrand, ofFeeds>>

DrainQueue(i) ==
  /\ part = "Fanout" /\ Fanout!Drain(i)
  /\ UNCHANGED <<part, conf, ofRoundRobin, ofMux, ofStrand, ofFeeds>>

RunStrand ==
  /\ part = "Strand" /\ Strand!Step
  /\ UNCHANGED <<part, shared, ofRoundRobin, ofFanout, ofMux, ofFeeds>>

RunFeed ==
  /\ part = "Feeds" /\ Feeds!Run
  /\ UNCHANGED <<part, shared, ofRoundRobin, ofFanout, ofMux, ofStrand>>

\* Weak fairness of RunFeed, which is enabled exactly while the PullPush is ACTIVE.
FairFeed == []<>~(part = "Feeds" /\ feed.active) \/ []<><<RunFeed>>_mcVars

RunFeedTimer ==
  /\ part = "Feeds" /\ Feeds!runTimer
  /\ UNCHANGED <<part, shared, ofRoundRobin, ofFanout, ofMux, ofStrand>>

MCFairSpec ==
  /\ MCSpec /\ WF_mcVars(RunPuller)
  /\ \A i \in Ports : WF_mcVars(RunTimer(i))
  /\ \A i \in Fanout!Ports : WF_mcVars(DrainQueue(i))
  /\ WF_mcVars(RunStrand) /\ FairFeed /\ WF_mcVars(RunFeedTimer)

-----------------------------------------------------------------------------
\* Types, and no assertion of the elements fails but for the ones that the components name.
\* No Slot and no lookup is overrun, and no empty callback is called.
ElementsSound ==
  CASE part = "RoundRobin" -> TypeOK /\ AssertionsHold
    [] part = "Fanout" -> Fanout!TypeOK /\ Fanout!AssertionsHold
    [] part = "Mux" -> Mux!TypeOK /\ Mux!AssertionsHold
    [] part = "Feeds" -> Feeds!AssertionsHold
    [] OTHER -> Strand!NothingDropped

\* Who waits will be called.  RoundRobin: what is blocked is counted and will be unblocked,
\* and who pulls does not sleep while an input has a tuple.  Fanout: who was pushed back
\* will be called, and a flag is set exactly while its output is full and will call back.
\* Mux: an input that waits will be called.  Feeds: the same for a PullPush behind a table
\* listener, a Slot or a Stage, and for a TimedPullPush.  Strand: at the end of a fixpoint
\* every PullPush waits for a queue or a lookup that has its callback.
WillBeCalled ==
  CASE part = "RoundRobin" -> BlockedWillUnblock /\ NoLostWakeup
    [] part = "Fanout" -> Fanout!PushedBackWillBeCalled /\ Fanout!FlagsMatchOutputs
    [] part = "Mux" -> Mux!WaitingWillBeCalled
    [] part = "Feeds" -> Feeds!WillBeCalled
    [] OTHER -> Strand!Stateless

\* What a polite pusher pushes gets to every output it is for, if the policy is
\* block-one-block-all; what is pushed to a Mux gets to its output; what a table listener
\* or a source hands in gets to who pulls, in order and once.
NothingLost ==
  CASE part = "Fanout" -> Fanout!NothingMissed
    [] part = "Mux" -> Mux!NothingLost
    [] part = "Feeds" -> Feeds!NothingLost
    [] OTHER -> TRUE

\* An event of a rule gives the join of the event with the tables it met, each tuple once,
\* or one tuple with the aggregate, all in the fixpoint of the event and in order.
Complete == part = "Strand" => Strand!Complete

\* When Aggwrap2 sends a result it is the aggregate over the whole join.
AggregatesWholeJoin == [][part = "Strand" => Strand!AggregatesWhole]_mcVars

\* A tuple that was sent keeps its value (src/p2core/table2.C, "Since tuples are immutable,
\* there are no update consistency issues").
TuplesImmutable == [][part = "Strand" => Strand!ValuesKept]_mcVars

\* RoundRobin: every input that has tuples is served, if no input is removed.  Fanout: the
\* pusher is let go again, if no assertion fails.  Strand: every event of a rule with an
\* aggregate is answered.  Feeds: all that was handed in has come out, and a periodic source
\* has been pulled as often as it should.
EventuallyServed ==
  /\ \A i \in Ports :
       (part = "RoundRobin" /\ q[i] > 0) ~> (part = "RoundRobin" => served = i \/ removes)
  /\ (part = "Fanout" /\ ~ready) ~> (part = "Fanout" => ready \/ failed)
  /\ \A n \in 1 .. MaxEvents :
       (part = "Strand" /\ Strand!Asked(n)) ~> (part = "Strand" => Strand!Outputs(n) # {})
  /\ []<>(part = "Feeds" => Feeds!Served)
=============================================================================
