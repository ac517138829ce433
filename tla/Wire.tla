-------------------------------- MODULE Wire --------------------------------
(***************************************************************************)
(* How values leave a node: the byte buffers of p2core/fdbuf.[hC], and the *)
(* XDR form of every value type written to and read from them (val_*.C,    *)
(* list.C, set.C, ID.C, tuple.C; elements/marshalField, unmarshalField).   *)
(*                                                                         *)
(* A buffer is [mem, start, len]: the bytes at offsets start..start+len-1  *)
(* of mem are its contents.  WordBytes stands for the 4 bytes of an XDR    *)
(* unit, Increment for BUF_INCREMENT.  A byte nobody has written is        *)
(* Garbage.  The wire form of a value is a sequence of units: a word each  *)
(* for a number and for a character (XDR's padding is the library's).      *)
(***************************************************************************)
EXTENDS Values

CONSTANTS WordBytes,   \* bytes to an XDR word
          Increment,   \* what a buffer's memory grows by
          SecsFactor   \* PTIME_SECS_FACTOR: nanoseconds to a tick of the clock

Garbage == -1
align(n) == ((n + WordBytes - 1) \div WordBytes) * WordBytes

-----------------------------------------------------------------------------
(* Fdbuf.                                                                  *)

Capacity(b) == Len(b.mem)
Blank(n) == [i \in 1..n |-> Garbage]
NewFdbuf == [mem |-> Blank(Increment), start |-> 0, len |-> 0]
Contents(b) == SubSeq(b.mem, b.start + 1, b.start + b.len)
removed(b) == b.start

Grown(b, n) ==
  LET cap == ((n + Increment - 1) \div Increment) * Increment
  IN [b EXCEPT !.mem = Contents(b) \o Blank(cap - b.len), !.start = 0]
\* The contents are copied to the front, and start still says where they were.
Slid(b) == [b EXCEPT !.mem = Contents(b) \o SubSeq(b.mem, b.len + 1, Capacity(b))]
Settled(c, need) == IF Capacity(c) - c.start < need THEN Slid(c) ELSE c
ensure(b, n) == Settled(IF Capacity(b) < align(n) THEN Grown(b, align(n)) ELSE b, align(n))
ensure_additional(b, extra) == ensure(b, extra + b.len + b.start)

\* post_read, after bytes came in; post_write, after bytes went out.
post_read(b, n)  == [b EXCEPT !.len = @ + n]
post_write(b, n) == [b EXCEPT !.start = @ + n, !.len = @ - n]
\* Bytes past the end of the memory are lost: the heap is not the buffer's.
Written(c, end, s) == [c EXCEPT !.mem = [i \in 1..Capacity(c) |->
                         IF i \in end + 1..end + Len(s) THEN s[i - end] ELSE @[i]]]
Pushed(c, s) == post_read(Written(c, c.start + c.len, s), Len(s))
push_bytes(b, s) == Pushed(ensure_additional(b, Len(s)), s)
pop_bytes(b, n) == IF b.len < n THEN b ELSE post_write(b, n)
clear(b) == [b EXCEPT !.start = 0, !.len = 0]
\* align_write moves the end over bytes it neither writes nor makes room for.
align_write(b) == [b EXCEPT !.len = align(@)]
align_read(b) == LET s == align(b.start)
                 IN [b EXCEPT !.start = s, !.len = @ - (s - b.start)]
putint32(b, w) == push_bytes(align_write(b), w)
getint32(b) == IF b.len < WordBytes THEN b ELSE pop_bytes(align_read(b), WordBytes)

-----------------------------------------------------------------------------
(* The XDR form of values.                                                 *)

RECURSIVE xdr_marshal(_)
Elements(s) == <<Len(s)>> \o FlattenSeq([i \in 1..Len(s) |-> xdr_marshal(s[i])])
\* Hours, minutes, seconds and nanoseconds; an hour here has 2 minutes of 2 s.
Clock_Whole(n) == LET secs == n \div TPS IN <<secs \div 4, (secs \div 2) % 2, secs % 2, 0>>
Clock(n) == LET secs == n \div TPS
            IN <<secs \div 4, (secs \div 2) % 2, secs % 2, (n % TPS) * SecsFactor>>
Int64Form(n)  == <<n \div 2 ^ (IntBits \div 2), n % 2 ^ (IntBits \div 2)>>
StrForm(s)    == <<Len(s), Len(s)>> \o s
OpaqueForm(s) == <<Len(s)>> \o s
MatrixForm(m) == <<m.rows, m.cols>> \o Tail(Elements(m.data))
xdr_marshal_subtype(v) ==
  CASE v.t = NULLV  -> <<>>
    [] v.t = INT64  -> Int64Form(v.v)
    [] v.t = DOUBLE -> v.v
    [] v.t = STR    -> StrForm(v.v)
    [] v.t = OPAQUE -> OpaqueForm(v.v)
    [] v.t = IDENT  -> v.v
    [] v.t = MATRIX -> MatrixForm(v.v)
    [] v.t \in {TIME, TIME_DURATION} -> Clock(v.v)
    [] OTHER -> Elements(v.v)
xdr_marshal(v) == <<v.t>> \o xdr_marshal_subtype(v)

\* What is left of the wire after the value, and the value.
Got(v, rest) == [v |-> v, rest |-> rest]
From(s, i) == SubSeq(s, i, Len(s))
RECURSIVE xdr_unmarshal(_)
Also(g, e) == Got(Append(g.v, e.v), e.rest)
Several(n, s) == FoldLeft(LAMBDA g, i : Also(g, xdr_unmarshal(g.rest)), Got(<<>>, s), [i \in 1..n |-> i])
Seconds(s) == (s[1] * 4 + s[2] * 2 + s[3]) * TPS
StrFrom(s)    == Got(Str(SubSeq(s, 3, 2 + s[2])), From(s, 3 + s[2]))
OpaqueFrom(s) == Got(Val(OPAQUE, SubSeq(s, 2, 1 + s[1])), From(s, 2 + s[1]))
MatrixFrom(s, g) == Got(Val(MATRIX, [rows |-> s[1], cols |-> s[2], data |-> g.v]), g.rest)
TimeFrom(s)   == Got(Val(TIME, Seconds(s) + s[4]), From(s, 5))
DurationFrom(s) == Got(Val(TIME_DURATION, Seconds(s) + (s[4] \div SecsFactor)), From(s, 5))
SetFrom(g)    == Got(Set(FoldLeft(insert, <<>>, g.v)), g.rest)
\* The types made of others, from their elements g.
NestedFrom(t, s, g) == CASE t = MATRIX -> MatrixFrom(s, g)
                         [] t = SETV   -> SetFrom(g)
                         [] OTHER      -> Got(Val(t, g.v), g.rest)
subtype_unmarshal(t, s) ==
  CASE t = NULLV  -> Got(Null, s)
    [] t = INT64  -> Got(Int64(s[1] * 2 ^ (IntBits \div 2) + s[2]), From(s, 3))
    [] t = DOUBLE -> Got(Dbl(<<s[1], s[2]>>), From(s, 3))
    [] t = STR    -> StrFrom(s)
    [] t = OPAQUE -> OpaqueFrom(s)
    [] t = IDENT  -> Got(Id(SubSeq(s, 1, WORDS)), From(s, 1 + WORDS))
    [] t = TIME   -> TimeFrom(s)
    [] t = TIME_DURATION -> DurationFrom(s)
    [] OTHER      -> NestedFrom(t, s, IF t = MATRIX THEN Several(s[1] * s[2], From(s, 3))
                                      ELSE Several(s[1], From(s, 2)))
\* A type code out of the table reads as a null; a wire that has run out reads
\* as whatever the variable held, which no well-formed message makes happen.
xdr_unmarshal(s) == IF Head(s) \in NULLV..MATRIX
                    THEN subtype_unmarshal(Head(s), Tail(s)) ELSE Got(Null, Tail(s))

-----------------------------------------------------------------------------
(* MarshalField(i) and UnmarshalField(i), fields counted from 0.           *)

Replace(tup, i, v) == [k \in 1..Len(tup) |-> IF k = i + 1 THEN v ELSE tup[k]]
\* A tuple becomes its wire form; an opaque, and any other field, is let be.
MarshalField(tup, i) ==
  IF i + 1 > Len(tup) THEN tup
  ELSE IF tup[i + 1].t # TUPLE THEN tup
  ELSE Replace(tup, i, Val(OPAQUE, xdr_marshal(tup[i + 1])))
UnmarshalField(tup, i) ==
  IF i + 1 > Len(tup) THEN tup
  ELSE IF tup[i + 1].t # OPAQUE THEN tup
  ELSE Replace(tup, i, xdr_unmarshal(tup[i + 1].v).v)
=============================================================================
