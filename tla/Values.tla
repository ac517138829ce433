------------------------------- MODULE Values -------------------------------
(***************************************************************************)
(* P2's concrete type system: the values a tuple's fields hold, how they   *)
(* cast to each other, how they compare, and the operators of the OverLog  *)
(* expression language (p2core/value.h, val_*.C, oper.C, list.C, set.C).   *)
(*                                                                         *)
(* A value is [t |-> type code, v |-> payload].  A text is a sequence of   *)
(* character codes, an integer wraps at IntBits bits, a double is a ratio  *)
(* <<n, d>> in lowest terms (d = 0: infinities and NaN), a time or a       *)
(* duration is a number of ticks, TPS to the second.  What C++ throws is a *)
(* value of type ERR; "Fault" is a trap or an exception nobody catches.    *)
(***************************************************************************)
EXTENDS Integers, Sequences, FiniteSetsExt, SequencesExt

CONSTANTS WORDS, DIGITS, IntBits, TPS

ID_ == INSTANCE Ids

ERR == -1
NULLV == 0
STR == 1
INT64 == 2
DOUBLE == 3
OPAQUE == 4
TUPLE == 5
TIME == 6
IDENT == 7
TIME_DURATION == 8
SETV == 9
LISTV == 10
VECTOR == 11
MATRIX == 12

Val(t, v) == [t |-> t, v |-> v]
Null    == Val(NULLV, <<>>)
Str(s)  == Val(STR, s)
Dbl(r)  == Val(DOUBLE, r)
Id(i)   == Val(IDENT, i)
List(s) == Val(LISTV, s)
Set(s)  == Val(SETV, s)
Wrap(n) == ((n + 2 ^ (IntBits - 1)) % 2 ^ IntBits) - 2 ^ (IntBits - 1)
MinInt  == -(2 ^ (IntBits - 1))
Int64(n) == Val(INT64, Wrap(n))
Bool(b) == Int64(IF b THEN 1 ELSE 0)
Throw(e) == Val(ERR, e)
Failed(v) == v.t = ERR
Thrown(v, e) == IF Failed(v) THEN v.v = e ELSE FALSE
Sgn(n) == IF n < 0 THEN -1 ELSE IF n > 0 THEN 1 ELSE 0
Trunc(n, d) == IF n >= 0 THEN n \div d ELSE -((-n) \div d)

-----------------------------------------------------------------------------
(* Doubles.                                                                *)

GCD(a, b) == IF a = 0 /\ b = 0 THEN 1
             ELSE Max({k \in 1..Max({a, b}) : a % k = 0 /\ b % k = 0})
Abs(n) == IF n < 0 THEN -n ELSE n
Reduced(n, d, g) == <<n \div g, d \div g>>
Ratio(n, d) == IF d = 0 THEN <<Sgn(n), 0>>
               ELSE Reduced(IF d < 0 THEN -n ELSE n, Abs(d), GCD(Abs(n), Abs(d)))
RAdd(a, b) == IF a[2] = 0 /\ a = b THEN a ELSE Ratio(a[1] * b[2] + b[1] * a[2], a[2] * b[2])
RNeg(a)    == <<-a[1], a[2]>>
RMul(a, b) == Ratio(a[1] * b[1], a[2] * b[2])
RDiv(a, b) == Ratio(a[1] * b[2] * (IF b[1] < 0 THEN -1 ELSE 1), a[2] * Abs(b[1]))
RLess(a, b) == /\ a # <<0, 0>> /\ b # <<0, 0>>
               /\ IF a[2] = 0 /\ b[2] = 0 THEN a[1] < b[1] ELSE a[1] * b[2] < b[1] * a[2]

-----------------------------------------------------------------------------
(* Texts: toString, strtoll with base 0 and strtod.                        *)

RECURSIVE Digits(_)
Digits(n) == IF n < 10 THEN <<48 + n>> ELSE Append(Digits(n \div 10), 48 + (n % 10))
IntText(n) == IF n < 0 THEN <<45>> \o Digits(-n) ELSE Digits(n)
\* ostringstream << d: the decimals of the ratio, none when it is whole.
DblText(r) == IF r[2] = 0 THEN <<300 + r[1]>>
              ELSE (IF r[1] < 0 THEN <<45>> ELSE <<>>) \o Digits(Abs(r[1]) \div r[2])
                   \o (IF r[2] = 1 THEN <<>> ELSE <<46>> \o Digits(((Abs(r[1]) % r[2]) * 10) \div r[2]))

RECURSIVE toString(_)
Between(parts) ==
  <<parts.open>> \o FlattenSeq([i \in 1..Len(parts.s) |->
     (IF i > 1 THEN <<44, 32>> ELSE <<>>) \o toString(parts.s[i])]) \o <<parts.close>>
OpaqueText(s) == <<48, 120>> \o FlattenSeq([i \in 1..Len(s) |->
                   <<ID_!HexChar(s[i] \div 16), ID_!HexChar(s[i] % 16)>>])
VectorParts(s) == [open |-> 91, s |-> s, close |-> 93]
MatrixParts(m) == VectorParts(m.data)
ListParts(s)   == [open |-> 40, s |-> s, close |-> 41]
SetParts(s)    == [open |-> 123, s |-> s, close |-> 125]
TupleParts(s)  == ListParts(Tail(s))   \* behind the text of its name
Parts_(v) == CASE v.t = TUPLE -> TupleParts(v.v)  [] v.t = LISTV -> ListParts(v.v)
               [] v.t = SETV -> SetParts(v.v)     [] v.t = VECTOR -> VectorParts(v.v)
               [] v.t = MATRIX -> MatrixParts(v.v)
\* The text of a time names the time: one code of its own per tick.
toString(v) ==
  CASE v.t = NULLV  -> <<78, 85, 76, 76>>
    [] v.t = STR    -> v.v
    [] v.t = INT64  -> IntText(v.v)
    [] v.t = DOUBLE -> DblText(v.v)
    [] v.t = IDENT  -> ID_!toString(v.v)
    [] v.t = OPAQUE -> OpaqueText(v.v)
    [] v.t \in {TIME, TIME_DURATION} -> <<1000 * v.t + v.v>>
    [] OTHER        -> IF v.t = TUPLE /\ v.v = <<>> THEN <<69>>   \* EMPTY_TUPLE
                       ELSE (IF v.t = TUPLE THEN toString(Head(v.v)) ELSE <<>>) \o Between(Parts_(v))

Signed(s) == IF s # <<>> /\ Head(s) = 45 THEN [neg |-> TRUE, body |-> Tail(s)]
             ELSE [neg |-> FALSE, body |-> s]
Run(s, base) ==
  SubSeq(s, 1, Min({i \in 1..Len(s) : ID_!HexDigit(s[i]) >= base} \cup {Len(s) + 1}) - 1)
Number(s, base) == FoldLeft(LAMBDA n, c : n * base + ID_!HexDigit(c), 0, s)
Clip(n) == IF n < MinInt THEN MinInt ELSE IF n > -MinInt - 1 THEN -MinInt - 1 ELSE n
Negated(neg, n) == IF neg THEN -n ELSE n
BaseOf(b) == IF Len(b) > 1 /\ b[1] = 48 THEN (IF b[2] = 120 THEN 16 ELSE 8) ELSE 10
Leading(b, base) == Number(Run(IF base = 16 THEN SubSeq(b, 3, Len(b)) ELSE b, base), base)
SignedInt(g) == Clip(Negated(g.neg, Leading(g.body, BaseOf(g.body))))
strtoll(s) == SignedInt(Signed(s))
Fraction(rest) == IF rest # <<>> /\ Head(rest) = 46 THEN Run(Tail(rest), 10) ELSE <<>>
Decimal(neg, whole, frac) == Ratio(Negated(neg, Number(whole \o frac, 10)), 10 ^ Len(frac))
AfterRun(g, whole) == Decimal(g.neg, whole, Fraction(SubSeq(g.body, Len(whole) + 1, Len(g.body))))
SignedDouble(g) == AfterRun(g, Run(g.body, 10))
strtod(s) == SignedDouble(Signed(s))

-----------------------------------------------------------------------------
(* Casts: T::mk(T::cast(v)).                                               *)

Int64_cast(v) ==
  CASE v.t = INT64  -> v
    [] v.t = DOUBLE -> IF v.v[2] = 0 THEN Int64(MinInt) ELSE Int64(Trunc(v.v[1], v.v[2]))
    [] v.t = NULLV  -> Int64(0)
    [] v.t = STR    -> Int64(strtoll(v.v))
    [] OTHER        -> Throw("TypeError")
Double_cast(v) ==
  CASE v.t = DOUBLE -> v
    [] v.t = INT64  -> Dbl(<<v.v, 1>>)
    [] v.t = NULLV  -> Dbl(<<0, 1>>)
    [] v.t = STR    -> Dbl(strtod(v.v))
    [] OTHER        -> Throw("TypeError")
Str_cast(v) == Str(toString(v))
ID_cast(v) ==
  CASE v.t = IDENT  -> v
    [] v.t = INT64  -> IF v.v < 0 THEN Throw("TypeError") ELSE Id(ID_!mkWord(v.v))
    [] v.t = DOUBLE -> Id(ID_!mkWord(Int64_cast(v).v))
    [] v.t = STR    -> Id(ID_!ofText(v.v))
    [] OTHER        -> Throw("TypeError")
\* Ticks of a number of seconds: the whole seconds, then the rounded fraction.
Ticks(r) == LET from(secs) == secs * TPS + Trunc(2 * (r[1] - secs * r[2]) * TPS + r[2], 2 * r[2])
            IN from(Trunc(r[1], r[2]))
NotATime == 999
Time_cast(v) ==
  CASE v.t = TIME   -> v
    [] v.t = NULLV  -> Val(TIME, NotATime)
    [] v.t = INT64  -> Val(TIME, v.v * TPS)
    [] v.t = DOUBLE -> Val(TIME, Ticks(v.v))
    [] v.t = STR    -> Throw("Fault")   \* time_from_string: no sample is a date
    [] OTHER        -> Throw("TypeError")
Duration_cast(v) ==
  CASE v.t = TIME_DURATION -> v
    [] v.t = INT64  -> Val(TIME_DURATION, v.v * TPS)
    [] v.t = DOUBLE -> Val(TIME_DURATION, Ticks(v.v))
    [] v.t = NULLV  -> Val(TIME_DURATION, 0)
    [] v.t = TUPLE  -> IF Len(v.v) < 2 THEN Val(TIME_DURATION, 0)
                       ELSE LET sum(secs, frac) ==
                                  IF Failed(secs) \/ Failed(frac) THEN Throw("TypeError")
                                  ELSE Val(TIME_DURATION, secs.v * TPS + frac.v)
                            IN sum(Int64_cast(v.v[1]), Int64_cast(v.v[2]))
    [] OTHER        -> Throw("TypeError")
Only(t, v)      == IF v.t = t THEN v ELSE Throw("TypeError")
OrEmpty(t, v)   == IF v.t = NULLV THEN Val(t, <<>>) ELSE Only(t, v)
List_cast(v)    == OrEmpty(LISTV, v)
Set_cast(v)     == OrEmpty(SETV, v)
Tuple_cast(v)   == Only(TUPLE, v)
Opaque_cast(v)  == IF v.t = STR THEN Val(OPAQUE, v.v) ELSE Only(OPAQUE, v)
Cast(t, v) ==
  CASE t = INT64  -> Int64_cast(v)   [] t = DOUBLE -> Double_cast(v)
    [] t = STR    -> Str_cast(v)     [] t = IDENT  -> ID_cast(v)
    [] t = TIME   -> Time_cast(v)    [] t = TIME_DURATION -> Duration_cast(v)
    [] t = OPAQUE -> Opaque_cast(v)
    [] t = LISTV  -> List_cast(v)    [] t = SETV   -> Set_cast(v)
    [] t = TUPLE  -> Tuple_cast(v)
    [] OTHER      -> Only(t, v)

-----------------------------------------------------------------------------
(* compareTo: the order of tables, indices, sets and sorted lists.  The    *)
(* container types compare the type codes the other way round.             *)

Containers == {SETV, LISTV, VECTOR, MATRIX}
TypeOrder(a, b) == IF a.t \in Containers THEN Sgn(b.t - a.t) ELSE Sgn(a.t - b.t)

RECURSIVE compareTo(_, _)
Lexicographic(a, b) ==
  LET at(D) == IF D = {} THEN Sgn(Len(a) - Len(b)) ELSE compareTo(a[Min(D)], b[Min(D)])
  IN at({i \in 1..Min({Len(a), Len(b)}) : compareTo(a[i], b[i]) # 0})
SizeFirst(a, b) == IF Len(a) # Len(b) THEN Sgn(Len(a) - Len(b)) ELSE Lexicographic(a, b)
Codes(a, b) ==
  LET at(D) == IF D = {} THEN Sgn(Len(a) - Len(b)) ELSE Sgn(a[Min(D)] - b[Min(D)])
  IN at({i \in 1..Min({Len(a), Len(b)}) : a[i] # b[i]})
CompareDouble(a, b) == IF RLess(a, b) THEN -1 ELSE IF RLess(b, a) THEN 1 ELSE 0
CompareOpaque(a, b) == IF Len(a) # Len(b) THEN Sgn(Len(a) - Len(b)) ELSE Codes(a, b)
CompareMatrix(a, b) ==
  IF a.rows # b.rows THEN Sgn(a.rows - b.rows)
  ELSE IF a.cols # b.cols THEN Sgn(a.cols - b.cols) ELSE Lexicographic(a.data, b.data)
CompareTime(a, b) == IF NotATime \in {a, b} THEN 0 ELSE Sgn(a - b)
CompareDuration(a, b) == Sgn(a - b)
CompareInt64(a, b) == Sgn(a - b)
CompareSet(a, b) == Lexicographic(a, b)
CompareVector(a, b) == SizeFirst(a, b)
compareTo(a, b) ==
  CASE a.t # b.t     -> TypeOrder(a, b)
    [] a.t = NULLV   -> 0
    [] a.t = STR     -> Codes(a.v, b.v)
    [] a.t = INT64   -> CompareInt64(a.v, b.v)
    [] a.t = DOUBLE  -> CompareDouble(a.v, b.v)
    [] a.t = OPAQUE  -> CompareOpaque(a.v, b.v)
    [] a.t = IDENT   -> ID_!compare(a.v, b.v)
    [] a.t = TUPLE   -> SizeFirst(a.v, b.v)
    [] a.t = VECTOR  -> CompareVector(a.v, b.v)
    [] a.t = LISTV   -> Lexicographic(a.v, b.v)
    [] a.t = SETV    -> CompareSet(a.v, b.v)
    [] a.t = MATRIX  -> CompareMatrix(a.v, b.v)
    [] a.t = TIME    -> CompareTime(a.v, b.v)
    [] a.t = TIME_DURATION -> CompareDuration(a.v, b.v)

-----------------------------------------------------------------------------
(* Lists and sets.                                                         *)

member(s, x) == \E i \in 1..Len(s) : compareTo(s[i], x) = 0
Insert(s, x) == LET put(at) == SubSeq(s, 1, at - 1) \o <<x>> \o SubSeq(s, at, Len(s))
                IN put(Min({i \in 1..Len(s) : compareTo(x, s[i]) < 0} \cup {Len(s) + 1}))
sort(s) == FoldLeft(Insert, <<>>, s)
insert(s, x) == IF member(s, x) THEN s ELSE Insert(s, x)

\* The std:: algorithms on two sorted sequences: what to do with an element
\* of the first alone, of both, of the second alone.
RECURSIVE Merge(_, _, _)
Merge(a, b, keep) ==
  IF a = <<>> THEN IF keep[3] THEN b ELSE <<>>
  ELSE IF b = <<>> THEN IF keep[1] THEN a ELSE <<>>
  ELSE LET step(c) ==
             CASE c < 0 -> (IF keep[1] THEN <<Head(a)>> ELSE <<>>) \o Merge(Tail(a), b, keep)
               [] c = 0 -> (IF keep[2] THEN <<Head(a)>> ELSE <<>>) \o Merge(Tail(a), Tail(b), keep)
               [] OTHER -> (IF keep[3] THEN <<Head(b)>> ELSE <<>>) \o Merge(a, Tail(b), keep)
       IN step(compareTo(Head(a), Head(b)))

setunion(a, b)      == Merge(a, b, <<TRUE, TRUE, TRUE>>)
set_intersect(a, b) == Merge(a, b, <<FALSE, TRUE, FALSE>>)
difference(a, b)    == Merge(a, b, <<TRUE, FALSE, FALSE>>)
symmetricDiff(a, b) == Merge(a, b, <<TRUE, FALSE, TRUE>>)
subset(a, b)        == Merge(b, a, <<TRUE, FALSE, FALSE>>) = <<>>   \* a includes b
propersubset(a, b)  == subset(a, b) /\ Len(a) > Len(b)
list_intersect(a, b) == Merge(sort(a), sort(b), <<FALSE, TRUE, FALSE>>)

\* The values of l are counted under their texts; an element of the list takes
\* one of them and leaves itself in its place.
multiset_intersect(a, l) ==
  LET take(s, used, have, i) ==
        IF Cardinality(used) >= Cardinality(have) THEN s
        ELSE Append(s, IF used = {} THEN l[Max(have)] ELSE a[Max(used)])
      same(s, n, x) == {j \in 1..n : toString(s[j]) = x}
      step(s, i) == take(s, same(a, i - 1, toString(a[i])), same(l, Len(l), toString(a[i])), i)
  IN FoldLeft(step, <<>>, [i \in 1..Len(a) |-> i])

-----------------------------------------------------------------------------
(* The operators.  The type of the first operand (of the second one for    *)
(* the interval tests) chooses the implementation and the type both are    *)
(* cast to; vectors and matrices have no row in the table.                 *)

Then(c, f(_)) == IF Failed(c) THEN c ELSE f(c.v)
Holds(rel, n) == CASE rel = "eq" -> n = 0  [] rel = "neq" -> n # 0
                   [] rel = "gt" -> n > 0  [] rel = "gte" -> n >= 0
                   [] rel = "lt" -> n < 0  [] rel = "lte" -> n <= 0

\* OperCompare: the second operand, as a value of the first one's type, is
\* compared with the first (whose own cast changes nothing).
OperCompare(rel, v1, v2) == Then(Cast(v1.t, v2), LAMBDA x :
                              Bool(Holds(rel, compareTo(Val(v1.t, x), v1))))

OperSet_Compare(rel, a, v2) ==
  LET includes(x, y) == IF rel \in {"gt", "lt"} THEN propersubset(x, y) ELSE subset(x, y)
      up == rel \in {"gt", "gte"}
  IN Bool(IF v2.t = SETV THEN includes(IF up THEN a ELSE v2.v, IF up THEN v2.v ELSE a)
          ELSE rel # "lt" /\ member(a, v2) /\ (rel = "gt" => Len(a) > 1) /\ (rel = "lte" => Len(a) = 1))

Compare(rel, v1, v2) ==
  CASE v1.t \in {VECTOR, MATRIX} -> Throw("Fault")
    [] v1.t = NULLV -> CASE rel = "eq"  -> Bool(v2.t = NULLV)
                         [] rel = "neq" -> Bool(v2.t # NULLV)
                         [] OTHER       -> Throw("Unsupported")
    [] v1.t = TUPLE -> IF rel \in {"eq", "neq"} THEN Bool(Holds(rel, compareTo(v1, v2)))
                       ELSE Throw("Unsupported")
    [] v1.t = SETV /\ rel \notin {"eq", "neq"} -> OperSet_Compare(rel, v1.v, v2)
    [] OTHER -> OperCompare(rel, v1, v2)

\* operator== alone turns a failed cast into false.
Equal(v1, v2) == LET caught(r) == IF Thrown(r, "TypeError") THEN Bool(FALSE) ELSE r
                 IN caught(Compare("eq", v1, v2))

\* The interval tests, on whatever type the bounds have.
In(kind, v, f, t) ==
  LET low(n)  == IF kind \in {"OO", "OC"} THEN n > 0 ELSE n >= 0
      high(n) == IF kind \in {"OO", "CO"} THEN n < 0 ELSE n <= 0
      inside(vf, vt, tf) == \/ low(vf) /\ high(vt)
                            \/ tf <= 0 /\ low(vf)
                            \/ high(vt) /\ tf <= 0
      test(cv, ct) == IF Failed(cv) THEN cv ELSE IF Failed(ct) THEN ct
                      ELSE Bool(inside(compareTo(cv, f), compareTo(cv, ct), compareTo(ct, f)))
  IN IF f.t \in {NULLV, TUPLE} THEN Throw("Unsupported")
     ELSE IF f.t \in {VECTOR, MATRIX} THEN Throw("Fault")
     ELSE test(Cast(f.t, v), Cast(f.t, t))

Bits(f(_, _), m, n) ==
  Wrap(MapThenSumSet(LAMBDA k : f(ID_!Bit(m, k), ID_!Bit(n, k)) * 2 ^ k, 0..IntBits - 1))
\* The shift count is the low bits of the second operand, as the hardware takes it.
Count(n) == n % IntBits
Quotient(m, n) == IF (m < 0) = (n < 0) THEN Abs(m) \div Abs(n) ELSE -(Abs(m) \div Abs(n))
OperInt64(op, m, n) ==
  CASE op = "plus"   -> Int64(m + n)
    [] op = "minus"  -> Int64(m - n)
    [] op = "times"  -> Int64(m * n)
    [] op = "divide" -> IF n = 0 THEN Throw("DivisionByZero")
                        ELSE IF m = MinInt /\ n = -1 THEN Throw("Fault") ELSE Int64(Quotient(m, n))
    [] op = "mod"    -> IF n = 0 \/ (m = MinInt /\ n = -1) THEN Throw("Fault")
                        ELSE Int64(m - n * Quotient(m, n))
    [] op = "band"   -> Int64(Bits(LAMBDA x, y : x * y, m, n))
    [] op = "bor"    -> Int64(Bits(LAMBDA x, y : x + y - x * y, m, n))
    [] op = "bxor"   -> Int64(Bits(LAMBDA x, y : (x + y) % 2, m, n))
    [] op = "lshift" -> Int64(m * 2 ^ Count(n))
    [] op = "rshift" -> Int64(m \div 2 ^ Count(n))
OperDouble(op, a, b) ==
  CASE op = "plus"  -> Dbl(RAdd(a, b))  [] op = "minus"  -> Dbl(RAdd(a, RNeg(b)))
    [] op = "times" -> Dbl(RMul(a, b))  [] op = "divide" -> Dbl(RDiv(a, b))
    [] OTHER -> Throw("Unsupported")
OperID(op, a, b) ==
  CASE op = "plus" -> Id(ID_!add(a, b))         [] op = "minus" -> Id(ID_!distance(b, a))
    [] op = "band" -> Id(ID_!bitwiseAND(a, b))  [] op = "bor"   -> Id(ID_!bitwiseOR(a, b))
    [] op = "bxor" -> Id(ID_!bitwiseXOR(a, b))  [] OTHER -> Throw("Unsupported")
OperSet(op, a, b) ==
  CASE op = "divide" -> Set(difference(a, b))     [] op = "bor"  -> Set(setunion(a, b))
    [] op = "bxor"   -> Set(symmetricDiff(a, b))  [] op = "band" -> Set(set_intersect(a, b))
    [] OTHER -> Throw("Unsupported")
OperTime(v1, v2) ==
  IF v2.t = TIME THEN Val(TIME_DURATION, v1.v - v2.v)
  ELSE Then(Duration_cast(v2), LAMBDA d : Val(TIME, v1.v - d))
OperDuration(op, m, n) ==
  CASE op = "plus" -> Val(TIME_DURATION, m + n) [] op = "minus" -> Val(TIME_DURATION, m - n)
    [] OTHER -> Throw("Unsupported")

\* A two-operand operator: which ones a type has, what the second operand is
\* cast to, and the result.
Shifts == {"lshift", "rshift"}
OpsOf(t) ==
  CASE t = INT64  -> {"plus", "minus", "times", "divide", "mod", "band", "bor", "bxor"} \cup Shifts
    [] t = DOUBLE -> {"plus", "minus", "times", "divide"}
    [] t = IDENT  -> {"plus", "minus", "band", "bor", "bxor"} \cup Shifts
    [] t = SETV   -> {"divide", "bor", "bxor", "band"}
    [] t = TIME_DURATION -> {"plus", "minus"}
    [] OTHER -> {}
Applied(op, t, a, b) ==
  CASE t = INT64  -> OperInt64(op, a, b)
    [] t = DOUBLE -> OperDouble(op, a, b)
    [] t = IDENT /\ op = "lshift" -> Id(ID_!lshift(a, b % 2 ^ IntBits))
    [] t = IDENT /\ op = "rshift" -> Id(ID_!rshift(a, b % 2 ^ IntBits))
    [] t = IDENT /\ op \notin Shifts -> OperID(op, a, b)
    [] t = SETV   -> OperSet(op, a, b)
    [] t = TIME_DURATION -> OperDuration(op, a, b)
Oper(op, v1, v2) ==
  CASE v1.t = STR /\ op = "plus"   -> Str(v1.v \o toString(v2))
    [] v1.t = TIME /\ op = "minus" -> OperTime(v1, v2)
    [] v1.t \in {VECTOR, MATRIX}   -> Throw("Fault")
    [] op \in OpsOf(v1.t) -> Then(Cast(IF op \in Shifts THEN INT64 ELSE v1.t, v2),
                                  LAMBDA x : Applied(op, v1.t, v1.v, x))
    [] OTHER -> Throw("Unsupported")

\* A one-operand operator.
Unary(op, v) ==
  CASE op = "neg" /\ v.t = INT64  -> Int64(-v.v)
    [] op = "inc" /\ v.t = INT64  -> Int64(v.v + 1)
    [] op = "dec" /\ v.t = INT64  -> Int64(v.v - 1)
    [] op = "bnot" /\ v.t = INT64 -> Int64(-v.v - 1)
    [] op = "neg" /\ v.t = DOUBLE -> Dbl(RNeg(v.v))
    [] op = "inc" /\ v.t = DOUBLE -> Dbl(RAdd(v.v, <<1, 1>>))
    [] op = "dec" /\ v.t = DOUBLE -> Dbl(RAdd(v.v, <<-1, 1>>))
    [] op = "inc" /\ v.t = IDENT  -> Id(ID_!add(v.v, ID_!ONE))
    [] op = "dec" /\ v.t = IDENT  -> Id(ID_!distance(ID_!ONE, v.v))
    [] op = "bnot" /\ v.t = IDENT -> Id(ID_!bitwiseNOT(v.v))
    [] op = "bnot" /\ v.t = SETV  -> Int64(Len(v.v))
    [] op = "neg" /\ v.t = TIME_DURATION -> Val(TIME_DURATION, -v.v)
    [] v.t \in {VECTOR, MATRIX}   -> Throw("Fault")
    [] OTHER -> Throw("Unsupported")

-----------------------------------------------------------------------------
(* The schemas of the OverLog compiler (p2core/compileUtil.C): a schema is *)
(* a list of attributes, an attribute or an expression a tuple whose first *)
(* field names its kind and whose second is the node.  Field i of the code *)
(* is element i + 1 here.                                                  *)


VAR   == <<86>>
VALUE == <<75>>
LOC   == <<76>>
AGG   == <<65>>
BOOLX == <<66>>
MATH  == <<77>>
RANGE == <<82>>
FUNC  == <<70>>
SELECT == <<83>>
ASSIGN == <<61>>

Tup(kind, fields) == Val(TUPLE, <<Str(kind), Null>> \o fields)
Kind(a)  == a.v[1].v
Field(a, i) == a.v[i + 1]
\* v == Val_Null::mk(): what Null is as a value of v's type.
IsNull(v) == CASE v.t \in {INT64, TIME_DURATION} -> v.v = 0
               [] v.t = DOUBLE -> v.v[1] = 0
               [] v.t = STR    -> v.v = <<78, 85, 76, 76>>
               [] v.t \in {LISTV, SETV} -> v.v = <<>>
               [] OTHER -> v.t \in {NULLV, TIME}   \* no time differs from not_a_date_time
Same(v1, v2) == Equal(v1, v2) = Bool(TRUE)
Select(s, test(_)) == SelectSeq(s, test)
Where(s, test(_)) == {i \in 1..Len(s) : test(s[i])}

-----------------------------------------------------------------------------
(* Where a variable stands in a schema: from 0, or -1.                     *)

NameIn(a) == IF a.t # TUPLE THEN a
             ELSE IF Kind(a) \in {VAR, LOC} THEN Field(a, 2)
             ELSE IF Kind(a) # AGG THEN a
             ELSE IF IsNull(Field(a, 2)) THEN Field(a, 2) ELSE Field(Field(a, 2), 2)
Bears(a, text) ==
  CASE Kind(a) \in {VAR, LOC} -> Field(a, 2).v = text
    [] Kind(a) = AGG -> Field(a, 2).t = TUPLE /\ Field(Field(a, 2), 2).v = text
    [] OTHER -> FALSE
Bearing(args, text) == Where(args, LAMBDA a : Bears(a, text))
Least(found) == IF found = {} THEN -1 ELSE Min(found) - 1
position(args, variable) ==
  IF IsNull(variable) THEN -1 ELSE Least(Bearing(args, toString(NameIn(variable))))

\* A constant becomes a variable of a name of its own; n numbers the name.
Fresh(kind, n) == Tup(kind, <<Str(<<36, 95>> \o IntText(n))>>)
RECURSIVE toVar(_, _)
toVar(a, n) ==
  IF IsNull(a) \/ Kind(a) = VALUE THEN Fresh(VAR, n)
  ELSE CASE Kind(a) = VAR -> a
         [] Kind(a) = LOC -> Tup(VAR, <<Field(a, 2)>>)
         [] Kind(a) = AGG -> toVar(Field(a, 2), n)
\* The counter behind the names is static: toVar of a list draws as it goes.
toVars(s, n) == [i \in 1..Len(s) |-> IF Kind(s[i]) = LOC THEN s[i] ELSE toVar(s[i], n + i)]
uniqueSchema(s) == [i \in 1..Len(s) |-> Fresh(IF Kind(s[i]) = LOC THEN LOC ELSE VAR, i - 1)]

CountsAll(a) == Kind(a) = AGG /\ IsNull(Field(a, 2))
flatten(args) ==
  LET kept == Select(args, LAMBDA a : ~CountsAll(a)) IN toVars(kept, 0)
groupby(args) ==
  LET kept == Select(args, LAMBDA a : Kind(a) # AGG)
  IN [i \in 1..Len(kept) |-> toVar(kept[i], i)]
aggregation(args) == Least(Where(args, LAMBDA a : Kind(a) = AGG))
location(schema) ==
  LET under(a) == Kind(a) = AGG /\ ~IsNull(Field(a, 2)) /\ Kind(Field(a, 2)) = LOC
      found == Where(schema, LAMBDA a : Kind(a) = LOC \/ under(a))
  IN IF found = {} THEN Null ELSE Field(schema[Min(found)], 2)

RECURSIVE variables(_)
variables(e) ==
  IF IsNull(e) THEN <<>>
  ELSE CASE Kind(e) \in {BOOLX, MATH} -> variables(Field(e, 3)) \o variables(Field(e, 4))
         [] Kind(e) \in {VAR, LOC}   -> <<e>>
         [] Kind(e) = AGG            -> variables(Field(e, 2))
         [] Kind(e) = FUNC ->
              LET n == Int64_cast(Field(e, 3)).v
              IN FlattenSeq([i \in 1..n |-> variables(Field(e, 4 + n - i))])
         [] OTHER -> <<>>

RECURSIVE getMask(_)
getMask(e) ==
  CASE Kind(e) \in {LOC, VAR} -> <<e>>
    [] Kind(e) = AGG -> getMask(Field(e, 2))
    [] Kind(e) \in {BOOLX, RANGE, MATH} -> getMask(Field(e, 3)) \o getMask(Field(e, 4))
    [] Kind(e) = FUNC ->
         FlattenSeq([i \in 1..Int64_cast(Field(e, 3)).v |-> getMask(Field(e, 3 + i))])
    [] OTHER -> <<>>

-----------------------------------------------------------------------------
(* What the planner asks of two schemas.                                   *)

\* Attributes of original some part of the mask still needs; the last
\* oldPos - 1 parts belong to body terms that are already joined.
applyMask(original, mask, oldPos) ==
  LET live == Min({Len(mask), (Len(mask) - oldPos + 1) % 2 ^ IntBits})
  IN Select(original, LAMBDA a : \E i \in 1..live : position(mask[i].v, a) >= 0)

isTheta(e) ==
  /\ Kind(e) = BOOLX /\ ~IsNull(Field(e, 4))
  /\ toString(Field(e, 2)) # <<61, 61>>
  /\ {Kind(Field(e, 3)), Kind(Field(e, 4))} = {VAR, VALUE}
namesSubset(s1, s2) ==
  \A i \in 1..Len(s1) : Kind(s1[i]) = VALUE \/ position(s2, toVar(s1[i], i)) >= 0
filter(schema, e) ==
  LET vars == variables(e) IN \A i \in 1..Len(vars) : position(schema, toVar(vars[i], i)) >= 0

\* The sort attribute of a join on the attributes of join.
sortOf(join, outerOrder, innerOrder) ==
  LET named(v) == v.t = TUPLE
      vars  == Where(join, LAMBDA a : Kind(a) = VAR)
  IN IF named(outerOrder) /\ compareTo(outerOrder, innerOrder) = 0 THEN outerOrder
     ELSE IF named(outerOrder) /\ position(join, outerOrder) > 0 THEN outerOrder
     ELSE IF named(innerOrder) /\ position(join, innerOrder) > 0 THEN innerOrder
     ELSE IF vars = {} THEN Null ELSE join[Min(vars)]
sortAttr(outer, outerOrder, inner, innerOrder) ==
  sortOf(Select(inner, LAMBDA a : position(outer, a) >= 0), outerOrder, innerOrder)

equivalent(plan1, plan2) ==
  \A i \in 1..Len(plan1) : \E j \in 1..Len(plan2) : Same(plan1[i], plan2[j])
merge(outer, inner) ==
  Select(outer, LAMBDA a : Kind(a) # VALUE) \o
  Select(inner, LAMBDA a : position(outer, a) < 0 /\ Kind(a) # VALUE)
prefix(short, schema) ==
  \A i \in 1..Len(short) :
    position(schema, short[i]) >= IF i = 1 THEN 0 ELSE position(schema, short[i - 1])
project(positions, schema) ==
  LET at(i) == (Int64_cast(positions[i]).v - 1) % 2 ^ IntBits
  IN IF \E i \in 1..Len(positions) : at(i) >= Len(schema) THEN schema
     ELSE [i \in 1..Len(positions) |-> schema[at(i) + 1]]
adornment(bound, schema) ==
  LET fixed(a) == IF Kind(a) = VAR THEN position(bound, a) >= 0 ELSE Kind(a) # LOC
      numbers(s) == [k \in DOMAIN s |-> Int64(s[k])]
  IN numbers(SelectSeq([i \in 1..Len(schema) |-> i], LAMBDA i : fixed(schema[i])))
assignSchema(outer, var) == IF position(outer, var) < 0 THEN Append(outer, var) ELSE outer

\* Field numbers count the table name as 0: of the outer tuple, of the index
\* on the inner table, and the inner fields no outer variable binds.
KeysOf(at) ==
  LET pick(test(_)) == SelectSeq([i \in 1..Len(at) |-> i], test)
  IN [joinKey  |-> Select([i \in 1..Len(at) |-> at[i] + 1], LAMBDA p : p > 0),
      indexKey |-> pick(LAMBDA i : at[i] >= 0),
      baseKey  |-> pick(LAMBDA i : at[i] < 0)]
joinKeys(outer, inner) == KeysOf([i \in 1..Len(inner) |-> position(outer, inner[i])])

castassign(outer, inner, e) ==
  LET lhs == Field(e, 3)
      rhs == Field(e, 4)
  IN IF Kind(e) # BOOLX \/ IsNull(rhs) THEN Null
     ELSE IF position(outer, lhs) >= 0 /\ position(inner, rhs) >= 0 THEN List(<<rhs, lhs>>)
     ELSE IF position(outer, rhs) >= 0 /\ position(inner, lhs) >= 0 THEN List(<<lhs, rhs>>)
     ELSE Null
=============================================================================
