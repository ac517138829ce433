-------------------------------- MODULE Pel ---------------------------------
(***************************************************************************)
(* The PEL virtual machine (p2core/pel/pel_vm.C): the stack machine that   *)
(* runs every selection, assignment and projection of a compiled program.  *)
(*                                                                         *)
(* A program is a sequence of instructions [op, arg]; a machine is         *)
(*   st    the stack, its top last: [x |-> value, src |-> which object]    *)
(*   res   the result tuple's fields (res = <<>> before the first pop)     *)
(*   err   "SUCCESS", "STOP", an error of pel_vm.h, or "Fault" when the    *)
(*         process does not survive                                        *)
(*   tup   the operand tuple's fields, pool the constants, pc from 1.      *)
(* Values are shared by reference: src tells the objects apart, i for      *)
(* field i, -i for constant i, 100 + pc for what an instruction made, and  *)
(* Mutate changes an object wherever it is seen.                           *)
(***************************************************************************)
EXTENDS Values

CONSTANT MaxReplace   \* replacements after which STR_REPLACE counts as endless

Op(o)        == [op |-> o, arg |-> 0]
PushField(i) == [op |-> "PUSH_FIELD", arg |-> i]
PushConst(i) == [op |-> "PUSH_CONST", arg |-> i]

Machine(tup, pool) == [st |-> <<>>, res |-> <<>>, err |-> "SUCCESS",
                       tup |-> tup, pool |-> pool, pc |-> 1]
Arity(op) ==
  CASE op \in {"PUSH_CONST", "PUSH_FIELD", "T_SWALLOW", "L_INIT", "EMPTY"} -> 0
    [] op \in {"DROP", "DUP", "POP", "POP_ALL", "PEEK", "IFPOP_TUPLE", "IFSTOP", "T_MKTUPLE",
               "T_UNBOX", "T_UNBOXPOP", "TYPEOF", "L_CREATEKEY", "V_INITVEC", "NOT", "L_CAR",
               "L_CDR", "L_REMOVELAST", "L_LAST", "L_SIZE", "BIT_NOT", "MINUSMINUS", "PLUSPLUS",
               "STR_LEN", "STR_UPPER", "STR_LOWER", "STR_CONV", "A_TO_VAR", "A_UNIQUE_SCHEMA", "ISTHETA",
               "L_AGG_ATTR", "L_GROUPBY_ATTR", "L_FLATTEN", "L_VARIABLES", "L_GROUP", "SETMOD",
               "INITSET", "INITMASK", "GETMASK", "NEG", "INT_ABS", "DBL_FLOOR", "DBL_CEIL",
               "CONV_I64", "CONV_STR", "CONV_DBL", "CONV_TIME", "CONV_ID",
               "CONV_TIME_DURATION"} -> 1
    [] op \in {"IFELSE", "V_SETOFFSET", "M_GETOFFSET", "M_COMPAREMAT", "INOO", "INOC", "INCO",
               "INCC", "STR_SUBSTR", "STR_REPLACE", "T_MK_BOOL", "T_MK_MATH", "L_INDEXMATCH",
               "L_CASTASSIGN", "MASK"} -> 3
    [] op \in {"M_SETOFFSET", "L_SORTATTR"} -> 4
    [] OTHER -> 2

Top(m, k)    == m.st[Len(m.st) + 1 - k].x
Source(m, k) == m.st[Len(m.st) + 1 - k].src
Popped(m, n) == [m EXCEPT !.st = SubSeq(@, 1, Len(@) - n)]
PushAs(m, v, src) == [m EXCEPT !.st = Append(@, [x |-> v, src |-> src])]
Push(m, v)   == PushAs(m, v, 100 + m.pc)
Fail(m, e)   == [m EXCEPT !.err = e]
ErrorOf(e)   == CASE e = "TypeError" -> "TYPE_CONVERSION"
                  [] e \in {"Unsupported", "DivisionByZero"} -> "OPER_UNSUP"
                  [] OTHER -> e
\* Pop n operands and push the result, or fail with what it throws.
Put(m, n, v) == IF Failed(v) THEN Fail(Popped(m, n), ErrorOf(v.v)) ELSE Push(Popped(m, n), v)
Mutate(m, src, v) ==
  [m EXCEPT !.st   = [i \in DOMAIN @ |-> IF @[i].src = src THEN [@[i] EXCEPT !.x = v] ELSE @[i]],
            !.tup  = IF src \in DOMAIN @ THEN [@ EXCEPT ![src] = v] ELSE @,
            !.pool = IF -src \in DOMAIN @ THEN [@ EXCEPT ![-src] = v] ELSE @]
\* Operand k changed in place: n operands go, it comes back.
Changed(m, n, k, v) == PushAs(Popped(Mutate(m, Source(m, k), v), n), v, Source(m, k))
\* The operands, cast in the order they are popped: the first failure throws.
OnAll(vs, bad, f(_)) == IF bad = {} THEN f([i \in 1..Len(vs) |-> vs[i].v]) ELSE vs[Min(bad)]
On(vs, f(_)) == OnAll(vs, {i \in 1..Len(vs) : Failed(vs[i])}, f)
Out(m, v) == [m EXCEPT !.res = Append(@, v)]
Outs(m, s) == [m EXCEPT !.res = @ \o s]

-----------------------------------------------------------------------------
(* Stack operations.                                                       *)

\* pop_signed of operand k: its value, or its failure with the k operands gone.
Tested(m, k, c, f(_)) == IF Failed(c) THEN Put(m, k, c) ELSE f(c.v)
Test_(m, k, f(_)) == Tested(m, k, Int64_cast(Top(m, k)), f)
Copied(m, n, k) == PushAs(Popped(m, n), Top(m, k), Source(m, k))
StackOp(op, arg, m) ==
  LET n == Len(m.st)
  IN CASE op = "DROP" -> Popped(m, 1)
       [] op = "SWAP" -> PushAs(Copied(m, 2, 1), Top(m, 2), Source(m, 2))
       [] op = "DUP"  -> Copied(m, 0, 1)
       [] op = "PUSH_CONST" -> IF arg > Len(m.pool) THEN Fail(m, "BAD_CONSTANT")
                               ELSE IF arg = Len(m.pool) THEN Fail(m, "Fault")
                               ELSE PushAs(m, m.pool[arg + 1], -(arg + 1))
       [] op = "PUSH_FIELD" -> IF arg > Len(m.tup) THEN Fail(m, "BAD_FIELD")
                               ELSE IF arg = Len(m.tup) THEN Fail(m, "Fault")
                               ELSE PushAs(m, m.tup[arg + 1], arg + 1)
       [] op = "POP"  -> Out(Popped(m, 1), Top(m, 1))
       [] op = "POP_ALL" -> Outs(Popped(m, n), [i \in 1..n |-> Top(m, i)])
       [] op = "PEEK" -> Test_(m, 1, LAMBDA v : IF v >= n - 1 \/ v < 0 THEN Fail(Popped(m, 1), "STACK_UNDERFLOW")
                                                ELSE Copied(m, 1, v + 2))
       [] op = "IFELSE" -> Test_(m, 3, LAMBDA v : Copied(m, 3, IF v = 0 THEN 1 ELSE 2))
       [] op = "IFPOP"  -> Test_(m, 2, LAMBDA v : IF v # 0 THEN Out(Popped(m, 2), Top(m, 1)) ELSE Popped(m, 2))
       [] op = "IFSTOP" -> Test_(m, 1, LAMBDA v : IF v # 0 THEN Fail(Popped(m, 1), "STOP") ELSE Popped(m, 1))
       [] op = "IFPOP_TUPLE" -> Test_(m, 1, LAMBDA v : IF v # 0 THEN Outs(Popped(m, 1), m.tup) ELSE Popped(m, 1))

\* A tuple's fields unboxed end first.  MAX and MIN compare with the reversed
\* operators of opr::OperCompare: v1 <= v2 is "v2 is not above v1".
TupleOp(op, m) ==
  LET a == Top(m, 1)
      b == Top(m, 2)
      t == Only(TUPLE, a)
  IN CASE op = "T_MKTUPLE" -> Put(m, 1, Val(TUPLE, <<a>>))
       [] op = "T_APPEND" -> IF b.t # TUPLE THEN Put(m, 1, Throw("TypeError"))
                             ELSE Popped(Mutate(m, Source(m, 2), Val(TUPLE, Append(b.v, a))), 1)
       [] op = "T_UNBOX" -> IF Failed(t) THEN Put(m, 1, t)
                            ELSE FoldLeft(Push, Popped(m, 1), Reverse(t.v))
       [] op = "T_UNBOXPOP" -> IF Failed(t) THEN Put(m, 1, t) ELSE Outs(Popped(m, 1), t.v)
       [] op = "T_FIELD" -> Put(m, 2, On(<<Int64_cast(a), Only(TUPLE, b)>>, LAMBDA c :
                              IF c[1] \in 0..Len(c[2]) - 1 THEN c[2][c[1] + 1] ELSE Throw("Fault")))
       [] op = "T_SWALLOW" -> Push(m, Val(TUPLE, m.tup))
       [] op = "TYPEOF" -> Put(m, 1, Str(<<a.t>>))
       [] op \in {"MAX", "MIN"} ->
            LET chosen(c) == IF Failed(c) THEN c ELSE IF (c.v = 1) = (op = "MAX") THEN b ELSE a
            IN Put(m, 2, chosen(Compare("lte", a, b)))

-----------------------------------------------------------------------------
(* The compiler's operations on schemas.                                   *)

Lists(vs, f(_)) == On([i \in 1..Len(vs) |-> List_cast(vs[i])], f)
MaskOp(op, m) ==
  LET a == Top(m, 1)
      b == Top(m, 2)
  IN CASE op = "INITMASK" -> Put(m, 1, List(<<a>>))
       [] op = "GETMASK"  -> Put(m, 1, List(getMask(a)))
       [] op = "COMBINEMASK" ->
            IF Failed(List_cast(a)) THEN Put(m, 2, List_cast(a))
            ELSE Changed(m, 2, 1, List(Append(List_cast(a).v, b)))
       [] op = "MASK" -> Put(m, 3, Lists(<<b, a>>, LAMBDA l :
                           On(<<Int64_cast(Top(m, 3))>>, LAMBDA c :
                             List(applyMask(l[2], l[1], c[1] % 2 ^ IntBits)))))
       [] op = "A_TO_VAR" -> Put(m, 1, IF a.t = LISTV THEN List(toVars(a.v, 0)) ELSE toVar(a, 0))
       [] op = "A_UNIQUE_SCHEMA" -> Put(m, 1, List(IF a.t = LISTV THEN uniqueSchema(a.v) ELSE <<>>))
       [] op = "ISTHETA" -> Put(m, 1, Bool(isTheta(a)))

Ints(s) == [i \in 1..Len(s) |-> Int64(s[i])]
SchemaOp(op, m) ==
  LET a == Top(m, 1)
      b == Top(m, 2)
      c == Top(m, 3)
  IN CASE op = "L_CREATEKEY" -> Put(m, 1, Lists(<<a>>, LAMBDA l : List(Ints([i \in 1..Len(l[1]) |-> i]))))
       [] op = "L_FACT" ->
            Put(m, 2, Lists(<<b>>, LAMBDA l : Val(TUPLE, <<Str(toString(a))>> \o
              [i \in 1..Len(l[1]) |-> IF l[1][i].t = TUPLE THEN Field(l[1][i], 2) ELSE l[1][i]])))
       [] op = "L_INDEXMATCH" ->
            Put(m, 3, Lists(<<a, b, c>>, LAMBDA l :
              Bool(\A i \in 1..Len(l[3]) :
                     Int64_cast(l[3][i]).v \in ToSet(joinKeys(l[1], l[2]).indexKey))))
       [] op = "L_VARIABLES" -> Put(m, 1, List(variables(a)))
       [] op = "L_CASTASSIGN" -> Put(m, 3, Lists(<<a, b>>, LAMBDA l : castassign(l[1], l[2], c)))
       [] op = "L_ADORNMENT" -> Put(m, 2, Lists(<<a, b>>, LAMBDA l : List(adornment(l[1], l[2]))))
       [] op = "L_PROJECT" -> Put(m, 2, Lists(<<a, b>>, LAMBDA l : List(project(l[1], l[2]))))
       [] op = "L_SORTATTR" ->
            Put(m, 4, Lists(<<a, c>>, LAMBDA l : sortAttr(l[1], b, l[2], Top(m, 4))))

PlanOp(op, m) ==
  LET a == Top(m, 1)
      b == Top(m, 2)
  IN CASE op = "L_PREFIX" -> Put(m, 2, IF IsNull(a) \/ IsNull(b) THEN Bool(FALSE)
                                       ELSE Lists(<<a, b>>, LAMBDA l : Bool(prefix(l[1], l[2]))))
       [] op = "L_EQUIVALENT" -> Put(m, 2, Lists(<<a, b>>, LAMBDA l : Bool(equivalent(l[1], l[2]))))
       [] op = "L_GROUP" -> Put(m, 1, Lists(<<a>>, LAMBDA l :
            Str(FlattenSeq([i \in 1..Len(l[1]) |->
              IntText(SortSeq([j \in 1..Len(l[1]) |-> strtoll(toString(l[1][j]))], <)[i])]))))
       [] op = "L_MERGE" -> Put(m, 2, Lists(<<a, b>>, LAMBDA l : List(merge(l[1], l[2]))))
       [] op = "L_REMOVEVAR" -> Put(m, 2, Lists(<<b>>, LAMBDA l :
            List(Select(l[1], LAMBDA x : compareTo(x, a) # 0))))
       [] op = "L_REMOVEPOS" -> Put(m, 2, On(<<List_cast(b), Int64_cast(a)>>, LAMBDA l :
            List(IF l[2] \in 0..Len(l[1]) - 1 THEN RemoveAt(l[1], l[2] + 1) ELSE l[1])))
       [] op = "L_ASSIGNSCHEMA" -> Put(m, 2, Lists(<<a>>, LAMBDA l : List(assignSchema(l[1], b))))
       [] op = "L_POS_ATTR" -> Put(m, 2, Lists(<<b>>, LAMBDA l : Int64(position(l[1], a))))

AttrOp(op, m) ==
  LET a == Top(m, 1)
      b == Top(m, 2)
      c == Top(m, 3)
      first(l) == Where(l, LAMBDA x : Kind(x) = a.v)
  IN CASE op = "T_MK_TYPE" -> Put(m, 2, Tup(toString(a), <<b>>))
       [] op = "T_MK_AGG"  -> Put(m, 2, Tup(AGG, <<b, a>>))
       [] op = "T_MK_MATH" -> Put(m, 3, Tup(MATH, <<a, b, c>>))
       [] op = "T_MK_BOOL" -> Put(m, 3, Tup(BOOLX, <<a, b, c>>))
       [] op = "L_GET_ATTR" ->
            Put(m, 2, Lists(<<b>>, LAMBDA l :
              CASE a.t = INT64 /\ a.v \in 0..Len(l[1]) - 1 -> l[1][a.v + 1]
                [] a.t = STR /\ a.v = LOC -> IF IsNull(location(l[1])) THEN Throw("BAD_LIST_FIELD")
                                             ELSE Tup(LOC, <<location(l[1])>>)
                [] a.t = STR /\ a.v # LOC /\ first(l[1]) # {} -> l[1][Min(first(l[1]))]
                [] OTHER -> Null))
       [] op = "L_FLATTEN" -> Put(m, 1, Lists(<<a>>, LAMBDA l : List(flatten(l[1]))))
       [] op = "L_GROUPBY_ATTR" -> Put(m, 1, Lists(<<a>>, LAMBDA l : List(groupby(l[1]))))
       [] op = "L_AGG_ATTR" -> Put(m, 1, Lists(<<a>>, LAMBDA l : Int64(aggregation(l[1]))))

-----------------------------------------------------------------------------
(* Lists, vectors, matrices, sets.                                         *)

ListOp(op, m) ==
  LET a == Top(m, 1)
      b == Top(m, 2)
  IN CASE op = "L_CONCAT" -> Put(m, 2, Lists(<<a, b>>, LAMBDA l : List(l[1] \o l[2])))
       [] op = "L_APPEND" ->   \* a list that has elements is changed in place
            LET l == List_cast(b)
                v == List(Append(l.v, a))
            IN IF Failed(l) THEN Put(m, 2, l)
               ELSE IF l.v = <<>> THEN Put(m, 2, v) ELSE Changed(m, 2, 2, v)
       [] op = "L_SUBSET" -> IF a.t # LISTV \/ b.t # LISTV THEN Fail(Popped(m, 2), "BAD_LIST_FIELD")
                             ELSE Put(m, 2, Bool(namesSubset(a.v, b.v)))
       [] op = "L_MEMBER" -> Put(m, 2, On(<<IF b.t = LISTV THEN b ELSE Set_cast(b)>>,
                                          LAMBDA l : Bool(member(l[1], a))))
       [] op = "L_INTERSECT" -> Put(m, 2, Lists(<<a, b>>, LAMBDA l : List(list_intersect(l[1], l[2]))))
       [] op = "L_MULTISET_INTERSECT" ->
            Put(m, 2, Lists(<<a, b>>, LAMBDA l : List(multiset_intersect(l[1], l[2]))))

\* An offset out of range is unchecked: no sample reads past the end.
At(mx, i, j) == i * mx.cols + j + 1
VectorOp(op, m) ==
  LET a == Top(m, 1)
      b == Top(m, 2)
      c == Top(m, 3)
      changed(k, v) == IF Failed(v) THEN Put(m, k, v) ELSE Changed(m, k, k, v)
      fresh(n) == [i \in 1..n |-> Null]
  IN CASE op = "V_INITVEC" -> Put(m, 1, On(<<Int64_cast(a)>>, LAMBDA x : Val(VECTOR, fresh(x[1]))))
       [] op = "V_GETOFFSET" -> Put(m, 2, On(<<Int64_cast(a), Only(VECTOR, b)>>, LAMBDA x :
            IF x[1] \in 0..Len(x[2]) - 1 THEN x[2][x[1] + 1] ELSE Throw("Fault")))
       [] op = "V_SETOFFSET" -> changed(3, On(<<Int64_cast(b), Only(VECTOR, c)>>, LAMBDA x :
            IF x[1] \in 0..Len(x[2]) - 1 THEN Val(VECTOR, [x[2] EXCEPT ![x[1] + 1] = a])
            ELSE Throw("Fault")))
       [] op = "V_COMPAREVEC" -> Put(m, 2, On(<<Only(VECTOR, b)>>, LAMBDA x : Int64(compareTo(b, a))))
       [] op = "M_INITMAT" -> Put(m, 2, On(<<Int64_cast(a), Int64_cast(b)>>, LAMBDA x :
            Val(MATRIX, [rows |-> x[2], cols |-> x[1], data |-> fresh(x[1] * x[2])])))
       [] op = "M_GETOFFSET" -> Put(m, 3, On(<<Int64_cast(a), Int64_cast(b), Only(MATRIX, c)>>,
            LAMBDA x : IF x[1] \in 0..x[3].rows - 1 /\ x[2] \in 0..x[3].cols - 1
                       THEN x[3].data[At(x[3], x[1], x[2])] ELSE Throw("Fault")))
       [] op = "M_SETOFFSET" ->
            changed(4, On(<<Int64_cast(b), Int64_cast(c), Only(MATRIX, Top(m, 4))>>, LAMBDA x :
              IF x[1] \in 0..x[3].rows - 1 /\ x[2] \in 0..x[3].cols - 1
              THEN Val(MATRIX, [x[3] EXCEPT !.data[At(x[3], x[1], x[2])] = a])
              ELSE Throw("Fault")))
       [] op = "M_COMPAREMAT" -> Put(m, 2, On(<<Only(MATRIX, b)>>, LAMBDA x : Int64(compareTo(b, a))))

AsList(v) == IF v.t = NULLV THEN <<>> ELSE IF v.t = LISTV THEN v.v ELSE <<v>>
Nonempty(v, f(_)) == Lists(<<v>>, LAMBDA l : IF l[1] = <<>> THEN Throw("LIST_UNDERFLOW") ELSE f(l[1]))
ConsOp(op, m) ==
  LET a == Top(m, 1)
      b == Top(m, 2)
  IN CASE op = "L_CONS" -> Put(m, 2, List(AsList(a) \o AsList(b)))
       [] op = "L_CDR"  -> Put(m, 1, Nonempty(a, LAMBDA l : List(Tail(l))))
       [] op = "L_CAR"  -> Put(m, 1, Nonempty(a, Head))
       [] op = "L_CONTAINS" -> Put(m, 2, Lists(<<b>>, LAMBDA l : Bool(member(l[1], a))))
       [] op = "INITSET" -> Put(m, 1, Set(<<a>>))
       [] op = "SETMOD"  -> Put(m, 1, Int64(IF a.t = SETV THEN Len(a.v) ELSE 1))
LastOp(op, m) ==
  LET a == Top(m, 1)
  IN CASE op = "L_REMOVELAST" ->
            LET r == Nonempty(a, LAMBDA l : List(Front(l)))
            IN IF Failed(r) THEN Put(m, 1, r) ELSE Changed(m, 1, 1, r)
       [] op = "L_LAST" -> Put(m, 1, Nonempty(a, Last))
       [] op = "L_SIZE" -> Put(m, 1, Lists(<<a>>, LAMBDA l : Int64(Len(l[1]))))

-----------------------------------------------------------------------------
(* Booleans, arithmetic, comparisons.                                      *)

BoolOp(op, m) ==
  LET two(f(_)) == Put(m, 2, On(<<Int64_cast(Top(m, 1)), Int64_cast(Top(m, 2))>>, f))
  IN CASE op = "NOT" -> Put(m, 1, On(<<Int64_cast(Top(m, 1))>>, LAMBDA x : Bool(x[1] = 0)))
       [] op = "AND" -> two(LAMBDA x : Bool(x[2] # 0 /\ x[1] # 0))
       [] op = "OR"  -> two(LAMBDA x : Bool(x[2] # 0 \/ x[1] # 0))
       [] op = "L_INIT" -> Push(m, List(<<>>))
       [] op = "EMPTY"  -> Push(m, Set(<<>>))

ArithName == [ASR |-> "rshift", ASL |-> "lshift", BIT_AND |-> "band", BIT_OR |-> "bor",
              BIT_XOR |-> "bxor", PLUS |-> "plus", MINUS |-> "minus", MUL |-> "times",
              DIV |-> "divide", MOD |-> "mod"]
UnaryName == [BIT_NOT |-> "bnot", NEG |-> "neg", MINUSMINUS |-> "dec", PLUSPLUS |-> "inc"]
NonZero(v) == Compare("neq", v, Int64(0))
ArithOp_Swapped(op, m) ==
  LET v1 == Top(m, 1)
      v2 == Top(m, 2)
  IN IF op \in DOMAIN UnaryName THEN Put(m, 1, Unary(UnaryName[op], v1))
     ELSE IF op = "APPEND" THEN Put(m, 2, Str(toString(v1) \o toString(v2)))
     ELSE Put(m, 2, Oper(ArithName[op], v1, v2))
\* A division asks first whether the divisor differs from 0.
ArithResult(op, m, nonzero, r) ==
  LET divides == op \in {"DIV", "MOD"}
  IN IF divides /\ Failed(nonzero) THEN Put(m, 2, nonzero)
     ELSE IF divides /\ (nonzero.v = 0 \/ (op = "DIV" /\ Thrown(r, "DivisionByZero")))
          THEN Fail(Popped(m, 2), "DIVIDE_BY_ZERO")
     ELSE Put(m, 2, r)
ArithOp(op, m) ==
  LET v1 == Top(m, 1)
      v2 == Top(m, 2)
  IN IF op \in DOMAIN UnaryName THEN Put(m, 1, Unary(UnaryName[op], v1))
     ELSE IF op = "APPEND" THEN Put(m, 2, Str(toString(v1) \o toString(v2)))
     ELSE ArithResult(op, m, NonZero(v1), Oper(ArithName[op], v2, v1))

\* The relations are asked the other way round of operators that compare the
\* other way round.
Relation_ == [LT |-> "gt", LTE |-> "gte", GT |-> "lt", GTE |-> "lte"]
Interval == [INOO |-> "OO", INOC |-> "OC", INCO |-> "CO", INCC |-> "CC"]
CompareOp(op, m) ==
  LET a == Top(m, 1)
      b == Top(m, 2)
  IN CASE op = "TOTALCOMP" -> Put(m, 2, Int64(compareTo(a, b)))
       [] op = "EQ" -> Put(m, 2, Equal(b, a))
       [] op \in DOMAIN Relation_ -> Put(m, 2, Compare(Relation_[op], b, a))
       [] op \in DOMAIN Interval -> Put(m, 3, In(Interval[op], Top(m, 3), b, a))

TimeOps == {"TIME_LT", "TIME_LTE", "TIME_GT", "TIME_GTE", "TIME_EQ", "TIME_MINUS"}
\* Of the operands under and on top of the stack, s[2] and s[1].
TimeResult(op, s) ==
  CASE op \in {"TIME_LT", "TIME_DURATION_LT"}   -> Bool(s[2] < s[1])
    [] op \in {"TIME_LTE", "TIME_DURATION_LTE"} -> Bool(s[2] <= s[1])
    [] op \in {"TIME_GT", "TIME_DURATION_GT"}   -> Bool(s[2] > s[1])
    [] op \in {"TIME_GTE", "TIME_DURATION_GTE"} -> Bool(s[2] >= s[1])
    [] op \in {"TIME_EQ", "TIME_DURATION_EQ"}   -> Bool(s[2] = s[1])
    [] op \in {"TIME_MINUS", "TIME_DURATION_MINUS"} -> Val(TIME_DURATION, s[2] - s[1])
    [] op = "TIME_DURATION_PLUS" -> Val(TIME_DURATION, s[1] + s[2])
TimeOp(op, m) ==
  LET cast(v) == IF op \in TimeOps THEN Time_cast(v) ELSE Duration_cast(v)
  IN Put(m, 2, On(<<cast(Top(m, 1)), cast(Top(m, 2))>>, LAMBDA s : TimeResult(op, s)))

-----------------------------------------------------------------------------
(* Texts and conversions.                                                  *)

\* string::find from offset s: an offset from 0, or -1.
Find(text, p, s) ==
  LET hits == {i \in s..Len(text) - Len(p) : SubSeq(text, i + 1, i + Len(p)) = p}
  IN IF hits = {} THEN -1 ELSE Min(hits)
\* Each round resumes one past the place of the last, not past what it put there.
RECURSIVE Replaced(_, _, _, _, _)
Replaced(text, p, r, s, n) ==
  LET i == Find(text, p, s)
  IN IF i < 0 THEN Str(text)
     ELSE IF n = 0 THEN Throw("Fault")
     ELSE Replaced(SubSeq(text, 1, i) \o r \o SubSeq(text, i + Len(p) + 1, Len(text)),
                   p, r, i + 1, n - 1)
Upper(c) == IF c \in 97..122 THEN c - 32 ELSE c
Lower(c) == IF c \in 65..90 THEN c + 32 ELSE c
StringResult(op, m, a, b, c) ==
     CASE op = "STR_CAT" -> Put(m, 2, Str(b \o a))
       [] op = "STR_LEN" -> Put(m, 1, Int64(Len(a)))
       [] op = "STR_UPPER" -> Put(m, 1, Str([i \in 1..Len(a) |-> Upper(a[i])]))
       [] op = "STR_LOWER" -> Put(m, 1, Str([i \in 1..Len(a) |-> Lower(a[i])]))
       [] op = "STR_FIND" -> Put(m, 2, Int64(Find(a, b, 0)))
       [] op = "STR_SUBSTR" -> Put(m, 3, On(<<Int64_cast(Top(m, 1)), Int64_cast(Top(m, 2))>>, LAMBDA x :
            IF x[2] < 0 \/ x[1] <= 0 \/ x[2] + x[1] > Len(c) THEN Throw("BAD_STRING_OP")
            ELSE Str(SubSeq(c, x[2] + 1, x[2] + x[1]))))
       [] op = "STR_REPLACE" -> Put(m, 3, Replaced(c, a, b, 0, MaxReplace))
       [] op = "STR_CONV" -> Put(m, 1, Str(a))   \* a list or an expression has a text of its own

StringOp(op, m) == StringResult(op, m, toString(Top(m, 1)), toString(Top(m, 2)), toString(Top(m, 3)))

ConvType == [CONV_I64 |-> INT64, CONV_STR |-> STR, CONV_DBL |-> DOUBLE, CONV_TIME |-> TIME,
             CONV_ID |-> IDENT, CONV_TIME_DURATION |-> TIME_DURATION]
Floor(r) == IF r[2] = 0 THEN r ELSE <<r[1] \div r[2], 1>>
ConvOp(op, m) ==
  LET a == Top(m, 1)
  IN CASE op = "INT_ABS" -> Put(m, 1, On(<<Int64_cast(a)>>, LAMBDA x : Int64(Abs(x[1]))))
       [] op = "DBL_FLOOR" -> Put(m, 1, On(<<Double_cast(a)>>, LAMBDA x : Dbl(Floor(x[1]))))
       [] op = "DBL_CEIL" -> Put(m, 1, On(<<Double_cast(a)>>, LAMBDA x : Dbl(RNeg(Floor(RNeg(x[1]))))))
       [] OTHER -> Put(m, 1, Cast(ConvType[op], a))

OptimizerOp(op, m) ==
  LET a == Top(m, 1)
      b == Top(m, 2)
      selectivity(k) == Dbl(Ratio(Len(k.baseKey) + 1, Len(k.joinKey) + Len(k.baseKey) + 1))
  IN CASE op \in {"O_STATUS", "O_RANGEAM"} -> Popped(m, 2)
       [] op = "O_SELECT" -> Put(m, 2, Lists(<<b, a>>, LAMBDA l : selectivity(joinKeys(l[1], l[2]))))
       [] op = "O_FILTER" -> Put(m, 2, Lists(<<a>>, LAMBDA l : Bool(filter(l[1], b))))

-----------------------------------------------------------------------------
(* One instruction, and a program.                                         *)

StackOps == {"DROP", "SWAP", "DUP", "PUSH_CONST", "PUSH_FIELD", "POP", "POP_ALL", "PEEK", "IFELSE",
             "IFPOP", "IFSTOP", "IFPOP_TUPLE"}
TupleOps == {"T_MKTUPLE", "T_APPEND", "T_UNBOX", "T_UNBOXPOP", "T_FIELD", "T_SWALLOW", "TYPEOF",
             "MAX", "MIN"}
MaskOps == {"INITMASK", "GETMASK", "COMBINEMASK", "MASK", "A_TO_VAR", "A_UNIQUE_SCHEMA", "ISTHETA"}
SchemaOps == {"L_CREATEKEY", "L_FACT", "L_INDEXMATCH", "L_VARIABLES", "L_CASTASSIGN", "L_ADORNMENT",
              "L_PROJECT", "L_SORTATTR"}
PlanOps == {"L_PREFIX", "L_EQUIVALENT", "L_GROUP", "L_MERGE", "L_REMOVEVAR", "L_REMOVEPOS",
            "L_ASSIGNSCHEMA", "L_POS_ATTR"}
AttrOps == {"T_MK_TYPE", "T_MK_AGG", "T_MK_MATH", "T_MK_BOOL", "L_GET_ATTR", "L_FLATTEN",
            "L_GROUPBY_ATTR", "L_AGG_ATTR"}
ListOps == {"L_CONCAT", "L_APPEND", "L_SUBSET", "L_MEMBER", "L_INTERSECT", "L_MULTISET_INTERSECT"}
VectorOps == {"V_INITVEC", "V_GETOFFSET", "V_SETOFFSET", "V_COMPAREVEC", "M_INITMAT", "M_GETOFFSET",
              "M_SETOFFSET", "M_COMPAREMAT"}
ConsOps == {"L_CONS", "L_CDR", "L_CAR", "L_CONTAINS", "INITSET", "SETMOD"}
LastOps == {"L_REMOVELAST", "L_LAST", "L_SIZE"}
BoolOps == {"NOT", "AND", "OR", "L_INIT", "EMPTY"}
ArithOps == DOMAIN ArithName \cup DOMAIN UnaryName \cup {"APPEND"}
CompareOps == {"TOTALCOMP", "EQ", "LT", "LTE", "GT", "GTE", "INOO", "INOC", "INCO", "INCC"}
StringOps == {"STR_CAT", "STR_LEN", "STR_UPPER", "STR_LOWER", "STR_FIND", "STR_SUBSTR",
              "STR_REPLACE", "STR_CONV"}
ConvOps == DOMAIN ConvType \cup {"INT_ABS", "DBL_FLOOR", "DBL_CEIL"}
OptimizerOps == {"O_STATUS", "O_SELECT", "O_RANGEAM", "O_FILTER"}

execute_instruction(ins, m) ==
  LET op == ins.op
  IN IF Len(m.st) < Arity(op) THEN Fail(m, "STACK_UNDERFLOW")
     ELSE CASE op \in StackOps  -> StackOp(op, ins.arg, m)
            [] op \in TupleOps  -> TupleOp(op, m)
            [] op \in MaskOps   -> MaskOp(op, m)
            [] op \in SchemaOps -> SchemaOp(op, m)
            [] op \in PlanOps   -> PlanOp(op, m)
            [] op \in AttrOps   -> AttrOp(op, m)
            [] op \in ListOps   -> ListOp(op, m)
            [] op \in VectorOps -> VectorOp(op, m)
            [] op \in ConsOps   -> ConsOp(op, m)
            [] op \in LastOps   -> LastOp(op, m)
            [] op \in BoolOps   -> BoolOp(op, m)
            [] op \in ArithOps  -> ArithOp(op, m)
            [] op \in CompareOps -> CompareOp(op, m)
            [] op \in StringOps -> StringOp(op, m)
            [] op \in ConvOps   -> ConvOp(op, m)
            [] op \in OptimizerOps -> OptimizerOp(op, m)
            [] OTHER            -> TimeOp(op, m)

\* One turn of execute's loop; a stop asked for is a success.
Running(m, prog) == m.err = "SUCCESS" /\ m.pc <= Len(prog)
Advanced(m) == [m EXCEPT !.pc = @ + 1]
Turn(m, prog) == Advanced(execute_instruction(prog[m.pc], m))
RECURSIVE execute(_, _)
execute(m, prog) == IF Running(m, prog) THEN execute(Turn(m, prog), prog)
                    ELSE IF m.err = "STOP" THEN [m EXCEPT !.err = "SUCCESS"] ELSE m
=============================================================================
