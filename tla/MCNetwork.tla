----------------------------- MODULE MCNetwork -----------------------------
(***************************************************************************)
(* The network elements for TLC.  A behaviour is one of reliable delivery, *)
(* of the elements that time the tuples under way, or of key routing; the  *)
(* variables of the other parts do not change.                             *)
(***************************************************************************)
EXTENDS Reliability, TLC

CONSTANTS
  Parts,                              \* the parts that a run checks
  Kinds, MaxArrivals,                 \* Windows
  Keys, KeyRange, Links, MaxFails     \* KeyRouting

VARIABLES
  part,
  kind, wOffered, wSent, mapped, timers, freed, wWaiting, dataOn, flow, ackCount, ccr,
  lookup, answered, keyFailed

MCSetups ==
  LET S(stores, ordered, k, n, retry, lasting) ==
        [stores |-> stores, ordered |-> ordered, first |-> k, tuples |-> n, maxRetry |-> retry,
         lasting |-> lasting]
  IN {S(FALSE, TRUE, 3, 3, 1, FALSE), S(TRUE, FALSE, 3, 2, 1, FALSE), S(TRUE, TRUE, 0, 2, 1, FALSE),
      S(TRUE, TRUE, 3, 3, 0, TRUE)}
MCItems ==
  LET I(d, s, k) == [dest |-> d, seq |-> s, n |-> k]
  IN <<I("a", 1, 1), I("a", 1, 2), I("b", 7, 1), I("a", 2, 1)>>
MCLinks == 0 :> {2, 5} @@ 2 :> {5, 7, 0} @@ 5 :> {7} @@ 7 :> {0, 2}

Wnd == INSTANCE Windows WITH
  Items <- MCItems, Delays <- {0, 200, 1500}, Rates <- {0, 1, 3}, MaxWnd <- 5, MinRTO <- 500,
  MaxRTO <- 5000, Order <- 2, Arrivals <- 1 .. 7, Repeats <- FALSE, MaxAcks <- MaxArrivals,
  offered <- wOffered, sent <- wSent, waiting <- wWaiting
Key == INSTANCE KeyRouting WITH failed <- keyFailed

windows ==
  <<kind, wOffered, wSent, mapped, timers, freed, wWaiting, dataOn, flow, ackCount, ccr>>
routing == <<lookup, answered, keyFailed>>
mcVars == <<part, vars, windows, routing>>

MCInit ==
  /\ part \in Parts /\ Key!Init
  /\ IF part = "delivery" THEN Init ELSE Init /\ setup = CHOOSE s \in Setups : TRUE
  /\ IF part = "windows" THEN Wnd!Init ELSE Wnd!Init /\ kind = CHOOSE k \in Kinds : TRUE

MCNext ==
  \/ part = "delivery" /\ Next /\ UNCHANGED <<part, windows, routing>>
  \/ part = "windows" /\ Wnd!Next /\ UNCHANGED <<part, vars, routing>>
  \/ part = "routing" /\ Key!Next /\ UNCHANGED <<part, vars, windows>>

MCSpec == MCInit /\ [][MCNext]_mcVars

-----------------------------------------------------------------------------
\* Windows: neither a late nor a repeated acknowledgement makes CCT, RateCCT or
\* RoundTripTimer use a deleted record or timer; an element below CCT or RateCCT sleeps on
\* data only while a tuple with a pending timer fills the window; timeouts stay within their
\* bounds, and what RateCCR records as lost has not arrived (RoundTripTimer::add_rtt_meas,
\* RateCCR::Connection::handle_tuple).
MeasuresRight == Wnd!HandlesLive /\ Wnd!NeverStuck /\ Wnd!TimeoutSane /\ Wnd!LossesReal

\* Routing: greedy hops bring a lookup closer (SimpleKeyRouter::greedyRoute).
Closer == [][Key!Closer]_routing
=============================================================================
