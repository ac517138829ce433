------------------------------ MODULE MCTables ------------------------------
(***************************************************************************)
(* Tables for TLC.  A behaviour is one of a Table2 with a lifetime and a   *)
(* size limit, of one with a size limit only, of one without a queue, or   *)
(* of a RefTable.  The first has the variables of Table2, the other three  *)
(* share variables of their own; the variables not in use do not change.   *)
(*                                                                         *)
(* A tuple is a triple <<key, group, value>>, so that two keys may share a *)
(* group and a key may change its value and its group.                     *)
(***************************************************************************)
EXTENDS Table2

CONSTANT MaxCount

MCTuples == {<<1, 1, 1>>, <<1, 2, 2>>, <<2, 1, 2>>}
MCKey(t) == t[1]
MCGroup(t) == t[2]
MCCount(S) == Cardinality(S)

VARIABLES
  part,
  oLive, oTuple, oTime, oRefCount, oPrimary, oSecondary, oAgg, oView, oPc, oArg, oRet,
  oNow, oQueue, oOp, oExpiry, oPosted, oFound

Sized ==
  INSTANCE Table2 WITH
    MaxSize <- 1, Lifetime <- NO_EXPIRATION, MaxTime <- 0,
    live <- oLive, tuple <- oTuple, time <- oTime, refCount <- oRefCount,
    primary <- oPrimary, secondary <- oSecondary, agg <- oAgg, view <- oView,
    pc <- oPc, arg <- oArg, ret <- oRet, now <- oNow,
    queue <- oQueue, op <- oOp, expiry <- oExpiry, posted <- oPosted,
    found <- oFound

\* The constructor with a string never flushes: it is a table without a queue.
Unflushed ==
  INSTANCE Table2 WITH
    MaxSize <- 0, StringCtor <- TRUE, MaxTime <- 1,
    live <- oLive, tuple <- oTuple, time <- oTime, refCount <- oRefCount,
    primary <- oPrimary, secondary <- oSecondary, agg <- oAgg, view <- oView,
    pc <- oPc, arg <- oArg, ret <- oRet, now <- oNow,
    queue <- oQueue, op <- oOp, expiry <- oExpiry, posted <- oPosted,
    found <- oFound

Counted ==
  INSTANCE RefTable WITH
    live <- oLive, tuple <- oTuple, time <- oTime, refCount <- oRefCount,
    primary <- oPrimary, secondary <- oSecondary, agg <- oAgg, view <- oView,
    pc <- oPc, arg <- oArg, ret <- oRet

shared == <<oLive, oTuple, oTime, oRefCount, oPrimary, oSecondary, oAgg, oView, oPc, oArg, oRet>>
calls == <<oNow, oQueue, oOp, oExpiry, oPosted, oFound>>
mcVars == <<part, vars, shared, calls>>

NoCalls ==
  /\ oNow = 0 /\ oQueue = <<>> /\ oOp = "lookup"
  /\ oExpiry = 0 /\ oPosted = FALSE /\ oFound = {}

MCInit ==
  /\ Init
  /\ \/ part \in {"bounded", "counted"} /\ Counted!Init /\ NoCalls
     \/ part = "sized" /\ Sized!Init
     \/ part = "unflushed" /\ Unflushed!Init

MCNext ==
  \/ part = "bounded" /\ Next /\ UNCHANGED <<part, shared, calls>>
  \/ part = "sized" /\ Sized!Next /\ UNCHANGED <<part, vars>>
  \/ part = "unflushed" /\ Unflushed!Next /\ UNCHANGED <<part, vars>>
  \/ part = "counted" /\ Counted!Next /\ UNCHANGED <<part, vars, calls>>

MCSpec == MCInit /\ [][MCNext]_mcVars

-----------------------------------------------------------------------------
\* Tables without a lifetime: indices, listeners and aggregates follow the rows, the size
\* limit holds, the tuple given to insert is a row when it returns, every row of a RefTable
\* is owed a removal, and the destructor frees every entry.
UnexpiringOK ==
  CASE part = "counted" ->
         Counted!DerivativesOK /\ Counted!CountsPositive /\ Counted!NothingLeaked
    [] part = "sized" ->
         Sized!DerivativesOK /\ Sized!SizeBounded /\ Sized!InsertVisible /\ Sized!NothingLeaked
    [] part = "unflushed" -> Unflushed!DerivativesOK /\ Unflushed!NothingLeaked
    [] OTHER -> TRUE

CountedAbs ==
  INSTANCE CountedTable WITH
    rows <- IF part = "counted" THEN Counted!AbsRows ELSE {},
    count <- IF part = "counted" THEN Counted!AbsCount ELSE [t \in Tuples |-> 0]

\* A RefTable counts insertions and removals as refTable.h:20 says.
ImplementsCountedTable == CountedAbs!Spec
=============================================================================
