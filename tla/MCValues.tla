------------------------------ MODULE MCValues ------------------------------
(***************************************************************************)
(* Identifiers, values, their wire form, the PEL machine, the two          *)
(* expression compilers and the chains of rules for TLC.  A behaviour      *)
(* takes one input of one part from the samples below (in holds it, or its *)
(* positions there) and computes with it; a program runs instruction by    *)
(* instruction, a rule runs its chain stage by stage, and the buffer part  *)
(* is a sequence of operations on one Fdbuf.                               *)
(***************************************************************************)
EXTENDS Expressions, TLC

CONSTANTS Parts,      \* the parts that a run checks
          Mixed,      \* whether containers are compared with other types
          WordBytes, Increment, SecsFactor, MaxBytes

VARIABLES part, in, out, buf, queue, drained

W == INSTANCE Wire

-----------------------------------------------------------------------------
(* Samples.                                                                *)

One == Int64(1)
Two == Int64(2)
A   == Str(<<97>>)
Half == Dbl(<<1, 2>>)
Simple == <<Null, Str(<<>>), A, Str(<<97, 98>>), Str(<<49>>), Int64(-2), One, Int64(-MinInt - 1),
            Half, Dbl(<<1, 1>>), Dbl(<<-3, 2>>), Id(ID_!ZERO), Id(ID_!ONE), Id(<<15, 0, 8>>),
            Val(TIME, 2), Val(TIME, 6), Val(TIME_DURATION, 0), Val(TIME_DURATION, 5),
            Val(OPAQUE, <<>>), Val(OPAQUE, <<7, 1>>),
            Val(TUPLE, <<One>>), Val(TUPLE, <<A, One>>), Val(TUPLE, <<A, Half>>)>>
Nested == <<List(<<>>), List(<<One>>), List(<<One, A>>), List(<<A>>),
            Set(<<>>), Set(<<A>>), Set(<<A, One>>), Set(<<One>>),
            Val(VECTOR, <<>>), Val(VECTOR, <<A>>), Val(VECTOR, <<One, A>>),
            Val(MATRIX, [rows |-> 1, cols |-> 2, data |-> <<One, A>>]),
            Val(MATRIX, [rows |-> 2, cols |-> 1, data |-> <<One, A>>]),
            Val(MATRIX, [rows |-> 1, cols |-> 2, data |-> <<A, A>>]),
            List(<<List(<<One>>), Null>>), Val(TUPLE, <<Set(<<A, One>>), List(<<>>)>>)>>
Samples == Simple \o Nested

\* Elements of sets and lists, in order, no two with one text.
Pool == <<A, One, Int64(3), Half>>

IdSamples == [k \in 1..36 |-> <<<<0, 8, 15>>[((k - 1) \div 12) + 1], <<0, 1, 15>>[(((k - 1) \div 4) % 3) + 1],
                                <<0, 1, 8, 15>>[((k - 1) % 4) + 1]>>]
RingSamples == <<<<0, 0, 0>>, <<0, 0, 1>>, <<0, 15, 15>>, <<1, 0, 0>>, <<7, 15, 15>>, <<8, 0, 0>>,
                 <<15, 15, 14>>, <<15, 15, 15>>>>
IntSamples == <<MinInt, -2, -1, 0, 1, 3, -MinInt - 1>>

-----------------------------------------------------------------------------
(* Expressions: X and Y hold numbers, L a list.                            *)

Var(c) == Tup(VAR, <<Str(<<c>>)>>)
X == Var(88)
Y == Var(89)
L == Var(76)
Z == Var(90)
Lit(v) == Tup(VALUE, <<v>>)
Math(o, a, b) == Tup(MATH, <<Str(o), a, b>>)
BoolE(o, a, b) == Tup(BOOLX, <<Str(o), a, b>>)
Range_(o, a, b) == Tup(RANGE, <<Str(o), a, b>>)
Func(f, args) == Tup(FUNC, <<Str(<<f>>), Int64(Len(args))>> \o args)
SelectE(b) == Tup(SELECT, <<One, Null, b, Null>>)
AssignE(v, e) == Tup(ASSIGN, <<One, Null, v, e, Null>>)
Schema == <<X, Y, L>>

MathTexts == <<<<43>>, <<45>>, <<42>>, <<47>>, <<37>>, <<60, 60>>, <<62, 62>>, <<38>>, <<124>>, <<94>>>>
CompareTexts == <<<<61, 61>>, <<33, 61>>, <<60>>, <<60, 61>>, <<62>>, <<62, 61>>>>
RangeTexts == <<<<40, 41>>, <<40, 93>>, <<91, 41>>, <<91, 93>>>>
Maths == [i \in DOMAIN MathTexts |-> Math(MathTexts[i], X, Y)]
Compares == [i \in DOMAIN CompareTexts |-> BoolE(CompareTexts[i], X, Y)]
Within == [i \in DOMAIN RangeTexts |-> BoolE(INOP, X, Range_(RangeTexts[i], Y, Lit(Int64(2))))]
Mixed_ == <<Math(<<45>>, X, Math(<<45>>, Y, Lit(One))), Math(<<45>>, Math(<<42>>, X, Lit(Two)), Y),
            BoolE(<<97>>, BoolE(<<60>>, X, Y), BoolE(<<110>>, BoolE(<<61, 61>>, Y, Lit(One)), Null)),
            BoolE(<<111>>, BoolE(<<62>>, Y, X), BoolE(<<61, 61>>, X, Lit(A)))>>
Lists_ == <<Func(1, <<X, L>>), Func(2, <<X, L>>), Func(3, <<L, L>>), Func(3, <<L, Func(5, <<Y, L>>)>>),
            Func(4, <<L, L>>), Func(9, <<L>>), Func(10, <<L>>), Func(14, <<L>>), Func(18, <<X, Y>>),
            Func(5, <<X, L>>), Func(6, <<L>>), Func(7, <<L>>), Func(8, <<Y, L>>), Func(2, <<L, Y>>),
            BoolE(INOP, X, L)>>
Tests == Compares \o Within \o SubSeq(Mixed_, 3, 4)
Selects(tests) == [i \in DOMAIN tests |-> SelectE(tests[i])]
Statements == Lists_ \o Maths \o Compares \o Within \o Mixed_ \o Selects(Tests)
              \o <<AssignE(Z, Maths[2]), AssignE(Y, Maths[1]), AssignE(X, Compares[1])>>

Numbers == <<Int64(-2), Int64(0), Int64(3), Half, Id(ID_!ONE), A, Null>>
Ls == <<List(<<>>), List(<<One, Int64(3), One>>)>>
Input(x, y, l) == <<Str(<<112>>), Numbers[x], Numbers[y], Ls[l]>>
Staged == in.compiler = 1
IsValue(e) == Kind(e) \notin {SELECT, ASSIGN}

\* What the planners write around an expression.
Tokens(compiler, e) ==
  IF IsValue(e) THEN (IF compiler = 1 THEN gen(Schema, e) ELSE expr2Pel(Schema, e)) \o Emit("POP")
  ELSE IF Kind(e) = SELECT THEN IF compiler = 1 THEN gen(Schema, e) ELSE pelSelect(Schema, e)
  ELSE IF compiler = 1 THEN Load(0) \o Emit("POP") \o gen(Schema, e) ELSE pelAssign(Schema, e)
\* The older planner has not every function, and puts the value of a variable
\* that is bound already one field too early; the list is the first argument of
\* its f_member and the second one of the other's.
Compiles(compiler, e) ==
  /\ compiler = 2 /\ Kind(e) = BOOLX /\ Field(e, 2).v = INOP => Kind(Field(e, 4)) = RANGE
  /\ compiler = 2 => ~(Kind(e) = ASSIGN /\ position(Schema, Field(e, 4)) >= 0)
  /\ Kind(e) = FUNC /\ FuncNumber(e) = 2 => (compiler = 2) = (Field(e, 4) = L)
Compiled(compiler, e, tokens, tup) ==
  /\ Compiles(compiler, e) /\ ~Rejected(tokens)
  /\ in = [compiler |-> compiler, e |-> e, tup |-> tup, prog |-> Compile(tokens)]

-----------------------------------------------------------------------------
(* Rules: the event is e(X, Y), the table p(_, _) has rows over {1, 2}.    *)

V == Var(86)
Agg(v) == Tup(AGG, <<v, Str(<<109>>)>>)
At1(v) == Tup(LOC, <<Field(v, 2)>>)
P(schema) == Functor("p", FALSE, schema)
NotP(schema) == Functor("p", TRUE, schema)
Bind(v, e) == Expr(AssignE(v, e))
Test(b) == Expr(SelectE(b))
RuleOf(head, terms) == [head |-> head, name |-> Str(<<104>>), event |-> <<X, Y>>, terms |-> terms]
RuleSamples ==
  <<RuleOf(<<X, Z>>, <<P(<<Y, Z>>)>>),
    RuleOf(<<Z, Math(<<43>>, X, Lit(One))>>, <<P(<<X, Z>>), Test(BoolE(<<62>>, Z, X))>>),
    RuleOf(<<X, Lit(Two)>>, <<P(<<Y, Lit(Two)>>)>>),
    RuleOf(<<Y, X>>, <<NotP(<<X, Y>>)>>),
    RuleOf(<<Z, V>>, <<Bind(Z, Math(<<45>>, Lit(Int64(3)), X)), P(<<Z, V>>)>>),
    RuleOf(<<Z, Y>>, <<Bind(Y, X), P(<<Y, Z>>)>>),
    RuleOf(<<V, Y>>, <<P(<<Y, Z>>), P(<<Z, V>>)>>),
    RuleOf(<<At1(X), Agg(Z), Agg(Null)>>, <<P(<<At1(Y), Z>>)>>),
    RuleOf(<<V, Z, Math(<<42>>, V, Z)>>, <<P(<<Lit(One), Z>>), P(<<V, Lit(Two)>>)>>),
    RuleOf(<<X, Z>>, <<P(<<Z, V>>), NotP(<<V, X>>), Test(BoolE(<<33, 61>>, Z, Y))>>)>>
Pairs == <<<<1, 1>>, <<1, 2>>, <<2, 1>>, <<2, 2>>>>
Row(name, k) == <<name, Int64(Pairs[k][1]), Int64(Pairs[k][2])>>
Rows(bits) == LET ks == SelectSeq(<<1, 2, 3, 4>>, LAMBDA k : ID_!Bit(bits, k - 1) = 1)
              IN [i \in DOMAIN ks |-> Row(Str(<<112>>), ks[i])]
Planned(rule, event, rows) ==
  in = [rule |-> rule, chain |-> condition(rule), event |-> event, rows |-> rows]

-----------------------------------------------------------------------------
(* The machine's operations one by one, and laws that relate several.      *)

Operands == <<Null, Str(<<49>>), One, Int64(-3), Half, Id(<<0, 0, 15>>), Val(TIME, 4),
              Val(TIME_DURATION, 3), List(<<One, A>>), Set(<<A, One>>), Val(VECTOR, <<One, A>>),
              Val(MATRIX, [rows |-> 2, cols |-> 2, data |-> <<One, A, Two, Half>>]),
              Val(TUPLE, <<A, One>>)>>
ShortOps == UNION {StackOps \ {"PUSH_CONST", "PUSH_FIELD"}, TupleOps, ListOps \ {"L_SUBSET"}, VectorOps,
              ConsOps, LastOps, BoolOps, ArithOps, CompareOps, StringOps, ConvOps,
              {"INITMASK", "COMBINEMASK", "TIME_LT", "TIME_MINUS", "TIME_DURATION_PLUS",
               "TIME_DURATION_MINUS", "TIME_DURATION_EQ"}}
Guard == Str(<<33>>)
Stacked == <<Guard>> \o [k \in 1..3 |-> Operands[in[k + 1]]]
Loaded == [Machine(Stacked, <<>>) EXCEPT !.st = [k \in 1..4 |-> [x |-> Stacked[k], src |-> k]]]

\* Values pushed by a successful operation, and the operations that change an
\* operand in place.
Pushes(op, m) ==
  CASE op \in {"DROP", "POP", "IFPOP", "IFSTOP", "IFPOP_TUPLE", "T_UNBOXPOP"} -> 0
    [] op \in {"SWAP", "DUP"} -> 2
    [] op = "T_UNBOX" -> Len(Top(m, 1).v)
    [] OTHER -> 1
InPlace == {"L_APPEND", "L_REMOVELAST", "COMBINEMASK", "T_APPEND", "V_SETOFFSET", "M_SETOFFSET"}

\* Two programs on the fields $1, $2, $3 that give one value when both succeed.
F1 == <<PushField(1)>>
F2 == <<PushField(2)>>
F3 == <<PushField(3)>>
Do(ops) == [i \in 1..Len(ops) |-> Op(ops[i])]
Laws == <<
  <<F1 \o F2 \o Do(<<"PLUS">>) \o F2 \o Do(<<"MINUS">>), F1, {INT64, IDENT}>>,
  <<F1 \o F2 \o Do(<<"BIT_XOR">>) \o F2 \o Do(<<"BIT_XOR">>), F1, {INT64, IDENT}>>,
  <<F1 \o Do(<<"BIT_NOT", "BIT_NOT">>), F1, {INT64, IDENT}>>,
  <<F1 \o Do(<<"PLUSPLUS", "MINUSMINUS">>), F1, {INT64, IDENT, DOUBLE}>>,
  <<F1 \o Do(<<"NEG", "NEG">>), F1, {INT64, DOUBLE, TIME_DURATION}>>,
  <<F1 \o F2 \o Do(<<"MOD">>) \o F1 \o F2 \o Do(<<"DIV">>) \o F2 \o Do(<<"MUL", "PLUS">>), F1, {INT64}>>,
  <<F1 \o F2 \o Do(<<"LT", "NOT">>), F1 \o F2 \o Do(<<"GTE">>), {STR, INT64, DOUBLE, IDENT, TIME, TIME_DURATION}>>,
  <<F1 \o F2 \o Do(<<"GT", "NOT">>), F1 \o F2 \o Do(<<"LTE">>), {STR, INT64, DOUBLE, IDENT, TIME, TIME_DURATION}>>,
  <<F1 \o F2 \o Do(<<"STR_CAT">>) \o <<PushConst(0)>> \o F1 \o Do(<<"STR_LEN", "STR_SUBSTR">>), F1, {STR}>>,
  <<F1 \o F2 \o Do(<<"STR_CAT", "STR_LEN">>), F1 \o Do(<<"STR_LEN">>) \o F2 \o Do(<<"STR_LEN", "PLUS">>), {STR, INT64, LISTV}>>,
  <<F1 \o <<PushConst(1)>> \o Do(<<"L_CONS", "L_CDR">>), F1, {LISTV}>>,
  <<F1 \o <<PushConst(1)>> \o Do(<<"L_CONS", "L_CAR">>), <<PushConst(1)>>, {LISTV, INT64}>>,
  <<F1 \o F2 \o Do(<<"L_APPEND", "L_LAST">>), F2, {LISTV, NULLV}>>,
  <<F1 \o F2 \o Do(<<"L_APPEND", "L_REMOVELAST", "L_SIZE">>), <<PushConst(1)>>, {LISTV}>>,
  <<F1 \o F2 \o F3 \o Do(<<"V_SETOFFSET">>) \o F2 \o Do(<<"V_GETOFFSET">>), F3, {VECTOR}>>,
  <<F2 \o F1 \o Do(<<"TIME_MINUS">>) \o F3 \o F1 \o Do(<<"TIME_MINUS", "TIME_DURATION_MINUS">>),
    F2 \o F3 \o Do(<<"TIME_MINUS">>), {TIME}>>,
  <<F1 \o F2 \o Do(<<"TIME_DURATION_PLUS">>) \o F2 \o Do(<<"TIME_DURATION_MINUS">>), F1, {TIME_DURATION}>>,
  <<F1 \o Do(<<"T_UNBOX", "SWAP", "DROP">>), F1 \o <<PushConst(0)>> \o Do(<<"T_FIELD">>), {TUPLE}>>,
  <<F1 \o F2 \o Do(<<"BIT_AND", "BIT_NOT">>), F1 \o Do(<<"BIT_NOT">>) \o F2 \o Do(<<"BIT_NOT", "BIT_OR">>), {INT64, IDENT}>>
>>

-----------------------------------------------------------------------------
(* What each part computes.                                                *)

NoBuffer == [mem |-> <<>>, start |-> 0, len |-> 0]
Pick(k) == Samples[in[k]]
Chosen(k) == FoldLeft(LAMBDA s, i : IF ID_!Bit(in[k], i - 1) = 1 THEN insert(s, Pool[i]) ELSE s,
                      <<>>, <<3, 1, 4, 2>>)
\* A list of at most three pool elements, its positions the base 4 digits of in[k].
Listed(k) == LET ds == <<in[k] % 4, (in[k] \div 4) % 4, in[k] \div 16>>
                 used == SelectSeq(ds, LAMBDA d : d > 0)
             IN [i \in DOMAIN used |-> Pool[used[i]]]
Kinds == <<"OO", "OC", "CO", "CC">>

IdResult == LET a == IdSamples[in[1]]
                b == IdSamples[in[2]]
            IN [add |-> ID_!add(a, b), distance |-> ID_!distance(a, b),
                lshift |-> ID_!lshift(a, in[3]), rshift |-> ID_!rshift(a, in[3]),
                text |-> ID_!toString(a)]
Bound(k) == IF in[4] = 0 THEN Id(RingSamples[in[k]]) ELSE Int64(IntSamples[in[k]])
RangeResult == [i \in 1..4 |-> In(Kinds[i], Bound(1), Bound(2), Bound(3))]
OrderResult == [k \in 1..3 |-> [j \in 1..3 |-> compareTo(Pick(k), Pick(j))]]
SetResult == LET a == Chosen(1)
                 b == Chosen(2)
             IN [a |-> a, b |-> b, union |-> setunion(a, b), meet |-> set_intersect(a, b),
                 minus |-> difference(a, b), xor |-> symmetricDiff(a, b),
                 sub |-> subset(a, b), proper |-> propersubset(a, b)]
ListResult == [meet |-> list_intersect(Listed(1), Listed(2)),
               multi |-> multiset_intersect(Listed(1), Listed(2)), sorted |-> sort(Listed(1))]
WireResult == W!UnmarshalField(W!MarshalField(<<A, Val(TUPLE, <<Pick(1), Pick(2)>>)>>, 1), 1)

\* The last two samples hold a container beside another type.
Orderable == 1..Len(Samples) - (IF Mixed THEN 0 ELSE 2)

\* Schemas: of events, of heads, with constants and aggregates.
SchemaSamples ==
  <<<<>>, <<X>>, <<At1(X), Y>>, <<Y, X>>, <<Lit(One), Z>>, <<Z, Lit(Two), X>>, <<At1(Y), Agg(Z)>>,
    <<X, Agg(Null)>>, <<L, Z, Y, X>>>>
SchemaExprs == <<Maths[1], Compares[1], Mixed_[1], Mixed_[4], Func(1, <<X, L>>), Func(9, <<L>>)>>
SchemaResult(a, b, e) ==
     [merge |-> merge(a, b), keys |-> joinKeys(a, b), flat |-> flatten(a), group |-> groupby(a),
      sub |-> namesSubset(a, b), adorned |-> project(adornment(a, b), b), filter |-> filter(a, e),
      vars |-> variables(e), mask |-> getMask(e), needed |-> applyMask(a, <<List(getMask(e))>>, 0),
      agg |-> aggregation(a), loc |-> location(a)]

OpResult == execute_instruction(Op(in[1]), Loaded)
Finished(prog) == execute(Machine(Stacked, <<Int64(0), Two>>), prog)
LawResult == [k \in 1..2 |-> Finished(Laws[in[1]][k])]

Init ==
  /\ part \in Parts
  /\ queue = <<>> /\ drained = FALSE
  /\ buf = IF part = "buffer" THEN W!NewFdbuf ELSE NoBuffer
  /\ \/ part = "ids" /\ in \in (1..Len(IdSamples)) \X (1..Len(IdSamples)) \X {0, 1, 3, 4, 5, 8, 11, 12, 13}
     \/ part = "range" /\ in \in (1..7) \X (1..7) \X (1..7) \X {0, 1}
     \/ /\ part = "order"
        /\ in \in Orderable \X Orderable \X Orderable
        /\ Mixed \/ \A j, k \in 1..3 : Pick(j).t \in Containers => Pick(k).t = Pick(j).t
     \/ part = "sets" /\ in \in (0..15) \X (0..15)
     \/ part = "lists" /\ in \in (0..63) \X (0..63)
     \/ part = "wire" /\ in \in (1..Len(Samples)) \X (1..Len(Samples))
     \/ part = "buffer" /\ in = <<>>
     \/ /\ part = "compile"
        /\ \E ss \in {Statements}, c \in {1, 2}, x, y \in 1..Len(Numbers) : \E i \in DOMAIN ss :
             \E l \in IF i <= Len(Lists_) THEN {1, 2} ELSE {2} :
               Compiled(c, ss[i], Tokens(c, ss[i]), Input(x, y, l))
     \/ /\ part = "ops"
        /\ in \in ShortOps \X (1..Len(Operands)) \X (1..Len(Operands)) \X (1..Len(Operands))
        /\ \A k \in {2, 3} : Arity(in[1]) <= 4 - k => in[k] = 1
     \/ /\ part = "laws"
        /\ in \in (1..Len(Laws)) \X (1..Len(Operands)) \X (1..Len(Operands)) \X (1..Len(Operands))
        /\ Stacked[2].t \in Laws[in[1]][3]
     \/ /\ part = "schema"
        /\ \E i, j \in DOMAIN SchemaSamples, k \in DOMAIN SchemaExprs :
             in = <<SchemaSamples[i], SchemaSamples[j], SchemaExprs[k]>>
     \/ /\ part = "rule"
        /\ \E i \in DOMAIN RuleSamples, k \in 1..4, bits \in 0..15 :
             Planned(RuleSamples[i], Row(Str(<<101>>), k), Rows(bits))
  /\ out = IF part = "compile" THEN <<Machine(in.tup, in.prog.pool)>>
           ELSE IF part = "rule" THEN <<<<in.event>>, 0>> ELSE <<>>

Evaluate ==
  /\ out = <<>> /\ part \in {"ids", "range", "order", "sets", "lists", "wire"}
  /\ out' = <<CASE part = "ids" -> IdResult       [] part = "range" -> RangeResult
                [] part = "order" -> OrderResult  [] part = "sets" -> SetResult
                [] part = "lists" -> ListResult   [] part = "wire" -> WireResult>>
  /\ UNCHANGED <<part, in, buf, queue, drained>>
\* The questions the compiler asks of two schemas and an expression.
Describe ==
  /\ part = "schema" /\ out = <<>>
  /\ out' = <<SchemaResult(in[1], in[2], in[3])>>
  /\ UNCHANGED <<part, in, buf, queue, drained>>
\* One operation of the PEL machine, and the two sides of a law.
Operate ==
  /\ part = "ops" /\ out = <<>>
  /\ out' = <<OpResult>>
  /\ UNCHANGED <<part, in, buf, queue, drained>>
Compute ==
  /\ part = "laws" /\ out = <<>>
  /\ out' = <<LawResult>>
  /\ UNCHANGED <<part, in, buf, queue, drained>>

\* One instruction of a compiled program.
Instruction ==
  /\ part = "compile" /\ Running(out[1], in.prog.ops)
  /\ out' = <<Turn(out[1], in.prog.ops)>>
  /\ UNCHANGED <<part, in, buf, queue, drained>>

\* One element of a rule's chain.
Element ==
  /\ part = "rule" /\ out[2] < Len(in.chain)
  /\ out' = <<Passed(in.chain[out[2] + 1], out[1], [p |-> in.rows]), out[2] + 1>>
  /\ UNCHANGED <<part, in, buf, queue, drained>>

\* The operations on an Fdbuf.  Its users write it and then read it; a byte
\* of queue that nobody wrote is alignment.
PushBytes ==
  /\ part = "buffer" /\ ~drained
  /\ \E n \in 0..3 : LET s == [i \in 1..n |-> Len(queue) + i] IN
       /\ Len(queue) + n <= MaxBytes
       /\ buf' = W!push_bytes(buf, s) /\ queue' = queue \o s
  /\ UNCHANGED <<part, in, out, drained>>
PushWord ==
  /\ part = "buffer" /\ ~drained /\ Len(queue) + 2 * WordBytes <= MaxBytes
  /\ LET pad == W!align(Len(queue)) - Len(queue)
         s == [i \in 1..WordBytes |-> 50 + Len(queue) + i]
     IN buf' = W!putint32(buf, s) /\ queue' = queue \o W!Blank(pad) \o s
  /\ UNCHANGED <<part, in, out, drained>>
PopBytes ==
  /\ part = "buffer"
  /\ \E n \in 1..3 : n <= Len(queue) /\ buf' = W!pop_bytes(buf, n) /\ queue' = SubSeq(queue, n + 1, Len(queue))
  /\ drained' = TRUE
  /\ UNCHANGED <<part, in, out>>
PopWord ==
  /\ part = "buffer"
  /\ buf' = W!getint32(buf)
  /\ queue' = LET pad == W!align(buf.start) - buf.start
              IN IF Len(queue) < WordBytes THEN queue ELSE SubSeq(queue, pad + WordBytes + 1, Len(queue))
  /\ Len(queue) < WordBytes \/ Len(queue) >= W!align(buf.start) - buf.start + WordBytes
  /\ drained' = TRUE
  /\ UNCHANGED <<part, in, out>>
Clear ==
  /\ part = "buffer"
  /\ buf' = W!clear(buf) /\ queue' = <<>> /\ drained' = FALSE
  /\ UNCHANGED <<part, in, out>>

Next == Evaluate \/ Describe \/ Operate \/ Compute \/ Instruction \/ Element \/ PushBytes \/ PushWord \/ PopBytes \/ PopWord \/ Clear

vars == <<part, in, out, buf, queue, drained>>
Spec == Init /\ [][Next]_vars

-----------------------------------------------------------------------------
(* Properties.                                                             *)

Done(p) == part = p /\ out # <<>>

\* The number an identifier stands for.
Num(a) == FoldLeft(LAMBDA n, w : n * ID_!Word + w, 0, a)
Size == ID_!Word ^ WORDS
\* How far round the ring from f, at least 0 or at least 1 step.
Ahead(size, f, v) == (v - f) % size
Beyond(size, f, v) == IF v = f THEN size ELSE Ahead(size, f, v)
Arc(kind, size, v, f, t) ==
  CASE kind = "OO" -> Beyond(size, f, v) < Beyond(size, f, t)
    [] kind = "OC" -> Beyond(size, f, v) <= Beyond(size, f, t)
    [] kind = "CO" -> Ahead(size, f, v) < Beyond(size, f, t)
    [] kind = "CC" -> Ahead(size, f, v) <= Beyond(size, f, t)

\* Ring arithmetic and interval tests (p2core/ID.C, p2core/oper.h): on words
\* with carries, identifiers add, subtract and shift as the numbers they stand
\* for modulo the ring, and an interval of identifiers, or of integers, is the
\* arc that leads from its first bound to its second, the whole ring when the
\* bounds are one.
RingRight ==
  /\ Done("ids") =>
       LET a == Num(IdSamples[in[1]])
           b == Num(IdSamples[in[2]])
           r == out[1]
       IN /\ Num(r.add) = (a + b) % Size
          /\ Num(r.distance) = (b - a) % Size
          /\ Num(r.lshift) = (a * 2 ^ in[3]) % Size
          /\ Num(r.rshift) = a \div 2 ^ in[3]
  /\ Done("range") =>
       \A k \in 1..4 :
         LET n(i) == IF in[4] = 0 THEN Num(RingSamples[in[i]]) ELSE IntSamples[in[i]]
             size == IF in[4] = 0 THEN Size ELSE 2 ^ IntBits
         IN out[1][k] = Bool(Arc(Kinds[k], size, n(1), n(2), n(3)))

\* compareTo (p2core/value.h and every val_*.C) orders values of all types
\* totally: what comes before stays before, and only equal values are equal.
OrderTotal ==
  Done("order") =>
    LET c == out[1]
    IN \A i, j, k \in 1..3 :
         /\ Sgn(c[i][j]) = -Sgn(c[j][i])
         /\ c[i][j] <= 0 /\ c[j][k] <= 0 => c[i][k] <= 0
         /\ c[i][j] = 0 <=> W!xdr_marshal(Pick(i)) = W!xdr_marshal(Pick(j))

Members(s) == {W!xdr_marshal(s[i]) : i \in 1..Len(s)}
Copies(s, x) == Cardinality({i \in 1..Len(s) : W!xdr_marshal(s[i]) = x})
Ascending(s) == \A i \in 1..Len(s) - 1 : compareTo(s[i], s[i + 1]) <= 0
\* Values are ordered totally, so that tables, indices and sets find them again.
\* Sets and lists (p2core/set.C, list.C): the algorithms that walk two sorted
\* sequences compute the union, intersection, differences and inclusions of
\* the sets, and the intersection of two lists as bags; a set has no element
\* twice and stays sorted, whatever the order of its insertions.
CollectionsRight ==
  /\ OrderTotal
  /\ Done("sets") =>
       LET r == out[1]
           a == Members(r.a)
           b == Members(r.b)
           is(s, m) == Members(s) = m /\ Len(s) = Cardinality(m) /\ Ascending(s)
       IN /\ is(r.a, a) /\ is(r.union, a \cup b) /\ is(r.meet, a \cap b) /\ is(r.minus, a \ b)
          /\ is(r.xor, (a \cup b) \ (a \cap b))
          /\ r.sub = (b \subseteq a) /\ r.proper = (b \subseteq a /\ a # b)
  /\ Done("lists") =>
       LET a == Listed(1)
           b == Listed(2)
           r == out[1]
       IN /\ \A x \in Members(a) \cup Members(b) :
               LET n == Min({Copies(a, x), Copies(b, x)})
               IN Copies(r.meet, x) = n /\ Copies(r.multi, x) = n
          /\ Ascending(r.sorted) /\ \A x \in Members(a) : Copies(r.sorted, x) = Copies(a, x)

\* Values compute as numbers and collections do: identifiers on the ring with
\* their carries and wrapped intervals, and sets and lists kept as sorted or
\* plain sequences (p2core/ID.C, set.C, list.C, val_*.C).
ValuesRight == RingRight /\ CollectionsRight

\* Marshalling (p2core/value.C, val_*.C, elements/marshalField.C and
\* unmarshalField.C): a tuple of any two values, nested ones too, arrives as
\* it was sent; each value's reader takes from the wire what its writer put
\* there, so that the next value starts where it should.  (A time that is not
\* a whole number of seconds does not survive: no sample is one.)
RoundTrips ==
  Done("wire") =>
    /\ Len(out[1]) = 2
    /\ \A i \in 1..2 : LET v == out[1][2].v[i]
                      IN v.t = Pick(i).t /\ compareTo(v, Pick(i)) = 0

\* Fdbuf (p2core/fdbuf.C): a buffer that is written and then read gives its
\* bytes back in order, across growth and alignment, and its contents lie
\* within its memory.
BufferRight ==
  part = "buffer" =>
    /\ buf.start + buf.len <= Len(buf.mem)
    /\ buf.len = Len(queue)
    /\ \A i \in 1..Len(queue) : queue[i] \in {-1, W!Contents(buf)[i]}

\* The wire forms of values, and the buffers they are written to and read from,
\* give back what was put in (p2core/value.C, val_*.C, fdbuf.C, xdrbuf.C).
WireRight == RoundTrips /\ BufferRight

\* The value of an expression, in the source's operand order.
MathName == <<43>> :> "plus" @@ <<45>> :> "minus" @@ <<42>> :> "times" @@ <<47>> :> "divide" @@
            <<37>> :> "mod" @@ <<60, 60>> :> "lshift" @@ <<62, 62>> :> "rshift" @@
            <<38>> :> "band" @@ <<124>> :> "bor" @@ <<94>> :> "bxor"
Truth(c) == IF Failed(c) THEN c ELSE Int64_cast(c)
RECURSIVE Meaning(_, _)
Arithmetic(text, a, b) ==
  LET divided(nonzero) == IF Failed(nonzero) THEN nonzero
                          ELSE IF nonzero.v = 0 THEN Throw("DivisionByZero")
                          ELSE Oper(MathName[text], a, b)
  IN divided(IF text \in {<<47>>, <<37>>} THEN NonZero(b) ELSE Bool(TRUE))
\* Both sides as values of the left side's type.
Related(text, a, c) ==
  LET n == compareTo(a, c)
  IN IF text \in {<<61, 61>>, <<33, 61>>}
     THEN Bool((text = <<61, 61>>) = (~Failed(c) /\ n = 0))
     ELSE IF a.t = NULLV THEN Throw("Unsupported") ELSE IF Failed(c) THEN c
     ELSE Bool(CASE text = <<60>> -> n < 0  [] text = <<60, 61>> -> n <= 0
                 [] text = <<62>> -> n > 0  [] text = <<62, 61>> -> n >= 0)
Relates(text, a, b) == Related(text, a, Cast(a.t, b))
\* An operator on its left side's value a; the right side is rhs, a range has
\* its bounds in lo and hi, and b is the value of anything else.
Bools(text, rhs, a, b, lo, hi) ==
     CASE text = <<110>> -> On(<<Int64_cast(a)>>, LAMBDA x : Bool(x[1] = 0))
       [] text = INOP /\ Kind(rhs) = RANGE ->
            LET k == CHOOSE i \in 1..4 : RangeTexts[i] = Field(rhs, 2).v
            IN In(Kinds[k], a, lo, hi)
       [] text = INOP -> Bool(member(b.v, a))
       [] text \in {<<97>>, <<111>>} ->
            On(<<Truth(a), Truth(b)>>, LAMBDA x :
               Bool(IF text = <<97>> THEN x[1] # 0 /\ x[2] # 0 ELSE x[1] # 0 \/ x[2] # 0))
       [] OTHER -> Relates(text, a, b)
Called(f, a) ==
  LET k == IF f = 2 /\ ~Staged THEN 1 ELSE Len(a)
      l == a[k].v
      some(r) == IF l = <<>> THEN Throw("LIST_UNDERFLOW") ELSE r
      at(i) == IF i \in DOMAIN l THEN l[i] ELSE Null
  IN CASE f = 1 -> List(Append(l, a[1]))  [] f \in {2, 8} -> Bool(member(l, a[3 - k]))
       [] f = 3 -> List(a[1].v \o l)      [] f = 4 -> List(sort(l))
       [] f = 5 -> List(AsList(a[1]) \o l) [] f = 6 -> some(at(1))
       [] f = 7 -> some(List(SubSeq(l, 2, Len(l)))) [] f = 9 -> some(at(Len(l)))
       [] f = 10 -> Int64(Len(l))         [] f = 14 -> some(List(SubSeq(l, 1, Len(l) - 1)))
       [] f = 18 -> Int64(IF Staged THEN compareTo(a[1], a[2]) ELSE compareTo(a[2], a[1]))
Meaning(e, env) ==
  CASE Kind(e) = VALUE -> Field(e, 2)
    [] Kind(e) = VAR   -> env[Field(e, 2).v]
    [] Kind(e) = FUNC  -> Called(FuncNumber(e), [i \in 1..ArgCount(e) |-> Meaning(Field(e, 3 + i), env)])
    [] OTHER -> LET of(i) == Meaning(Field(e, i), env)
                    in_(x, i) == Meaning(Field(x, i), env)
                    number(a, b) == IF Failed(a) THEN a ELSE IF Failed(b) THEN b
                                    ELSE Arithmetic(Field(e, 2).v, a, b)
                IN IF Kind(e) = MATH THEN number(of(3), of(4))
                   ELSE Bools(Field(e, 2).v, Field(e, 4), of(3), of(4), in_(Field(e, 4), 3), in_(Field(e, 4), 4))

\* What is left when expression e had value v.
Leaves(m, e, v) ==
  LET fields(s) == W!xdr_marshal(Val(TUPLE, s))
      at == position(Schema, Field(e, 4))
      gives == CASE IsValue(e) -> <<v>>
                 [] Kind(e) = SELECT -> IF Int64_cast(v).v = 0 THEN <<>> ELSE in.tup
                 [] OTHER -> IF at < 0 THEN Append(in.tup, v) ELSE [in.tup EXCEPT ![at + 2] = v]
  IN /\ m.err # "STACK_UNDERFLOW"
     /\ Failed(v) = (m.err \notin {"SUCCESS", "STOP"})
     /\ ~Failed(v) => fields(m.res) = fields(gives) /\ m.st = <<>>

\* Expressions (p2core/compileUtil.C, planner/rulePel.C, p2core/pel/pel_vm.C):
\* for every expression, selection and assignment, the program that either
\* compiler writes leaves exactly the source's value, tuple or error, and never
\* runs out of stack.
ExpressionsRight ==
  part = "compile" /\ ~Running(out[1], in.prog.ops) =>
    Leaves(out[1], in.e, Meaning(IF IsValue(in.e) THEN in.e ELSE IF Kind(in.e) = SELECT THEN Field(in.e, 4) ELSE Field(in.e, 5),
                                 <<88>> :> in.tup[2] @@ <<89>> :> in.tup[3] @@ <<76>> :> in.tup[4]))

\* The declarative meaning of a rule: the bindings of its variables that the
\* body allows, term by term.
NameOf(a) == IF Kind(a) = AGG THEN Field(Field(a, 2), 2).v ELSE Field(a, 2).v
IsVar(a) == Kind(a) \in {VAR, LOC}
Agrees(env, schema, row) ==
  \A i \in 1..Len(schema) :
    IF ~IsVar(schema[i]) THEN Same(row[i + 1], Field(schema[i], 2))
    ELSE NameOf(schema[i]) \in DOMAIN env => compareTo(env[NameOf(schema[i])], row[i + 1]) = 0
Extend(env, schema, row) ==
  env @@ [n \in {NameOf(schema[i]) : i \in Where(schema, IsVar)} |->
            row[1 + CHOOSE i \in Where(schema, IsVar) : NameOf(schema[i]) = n]]
Allowed(envs, t) ==
  IF t.k = "functor"
  THEN IF t.notin THEN {env \in envs : \A i \in DOMAIN in.rows : ~Agrees(env, t.schema, in.rows[i])}
       ELSE UNION {{Extend(env, t.schema, in.rows[i]) : i \in {j \in DOMAIN in.rows : Agrees(env, t.schema, in.rows[j])}}
                     : env \in envs}
  ELSE IF Kind(t.e) = SELECT THEN {env \in envs : Int64_cast(Meaning(Field(t.e, 4), env)).v # 0}
  ELSE {(NameOf(Field(t.e, 4)) :> Meaning(Field(t.e, 5), env)) @@ env : env \in envs}
Solutions == FoldLeft(Allowed, {<<88>> :> in.event[2] @@ <<89>> :> in.event[3]}, in.rule.terms)
Derived(env) ==
  LET args == SelectSeq(in.rule.head, LAMBDA a : ~CountsAll(a))
  IN <<in.rule.name>> \o [i \in 1..Len(args) |->
       IF IsVar(args[i]) \/ Kind(args[i]) = AGG THEN env[NameOf(args[i])] ELSE Meaning(args[i], env)]

Derives(tuples, envs) ==
  /\ {W!xdr_marshal(Val(TUPLE, t)) : t \in ToSet(tuples)}
       = {W!xdr_marshal(Val(TUPLE, Derived(env))) : env \in envs}
  /\ Len(tuples) = Cardinality(envs)

\* The names a schema has, constants and count<*> left out.
Named(a) == Kind(a) # VALUE /\ ~CountsAll(a)
NamesOf(s) == {NameOf(s[i]) : i \in Where(s, Named)}
SchemasRight ==
  LET a == in[1]
      b == in[2]
      r == out[1]
      free == {i \in 1..Len(b) : IF Kind(b[i]) = VALUE THEN TRUE
                                 ELSE Kind(b[i]) # LOC /\ (Kind(b[i]) = VAR => NameOf(b[i]) \in NamesOf(a))}
  IN /\ NamesOf(r.merge) = NamesOf(a) \cup NamesOf(b)
     /\ Len(Select(r.merge, Named)) = Cardinality(NamesOf(a) \cup NamesOf(b))
     /\ ToSet(r.keys.indexKey) \cup ToSet(r.keys.baseKey) = 1..Len(b)
     /\ \A k \in 1..Len(r.keys.joinKey) : NameOf(a[r.keys.joinKey[k]]) = NameOf(b[r.keys.indexKey[k]])
     /\ \A k \in 1..Len(r.keys.baseKey) :
          Named(b[r.keys.baseKey[k]]) => NameOf(b[r.keys.baseKey[k]]) \notin NamesOf(a)
     /\ NamesOf(a) \subseteq NamesOf(r.flat) /\ \A i \in 1..Len(r.flat) : IsVar(r.flat[i])
     /\ Len(r.group) = Len(a) - IF r.agg < 0 THEN 0 ELSE 1
     /\ r.sub = \A i \in 1..Len(a) : Kind(a[i]) # VALUE => ~CountsAll(a[i]) /\ NameOf(a[i]) \in NamesOf(b)
     /\ Len(r.adorned) = IF free = {} THEN 0 ELSE Cardinality(free)
     /\ r.filter = (NamesOf(r.vars) \subseteq NamesOf(a))
     /\ NamesOf(r.vars) = NamesOf(r.mask)
     /\ NamesOf(r.needed) = NamesOf(a) \cap NamesOf(r.mask)
     /\ IsNull(r.loc) = (Where(a, LAMBDA x : Kind(x) = LOC) = {})

\* A rule's chain (lang/planner/plannerContext.C with the schemas of
\* p2core/compileUtil.C): an event derives exactly the head tuples of the
\* rule's declarative meaning, one for each way to satisfy the body, although
\* the chain knows variables by position only and every probe, assignment and
\* constant shifts the positions; and what the compiler asks of schemas (which
\* names two of them share, which an expression needs, which fields are bound)
\* is answered as if they were sets of names.
RulesRight ==
  /\ Done("schema") => SchemasRight
  /\ part = "rule" /\ out[2] = Len(in.chain) =>
    /\ Accepted(in.chain)
    /\ Derives(out[1], Solutions)

\* What the compilers write, for one expression and for a whole rule, computes
\* what the source says (p2core/compileUtil.C, planner/rulePel.C,
\* lang/planner/plannerContext.C).
CompiledRight == ExpressionsRight /\ RulesRight

\* The machine (p2core/pel/pel_vm.C): an operation takes its operands and no
\* more, leaves what its opcode promises, and changes no other value, neither
\* under its operands nor in the tuple it runs on; and the arithmetic, bitwise,
\* ordering, text, list, vector, tuple and time operations satisfy the laws that
\* tie them together, wrapped integers and ring identifiers included.
MachineRight ==
  /\ Done("ops") =>
       LET m == out[1]
           op == in[1]
           uses == IF op = "POP_ALL" THEN 4 ELSE IF op = "M_COMPAREMAT" THEN 2 ELSE Arity(op)
           under == SubSeq(Loaded.st, 1, 4 - uses)
       IN m.err = "SUCCESS" =>
            /\ op \notin InPlace => m.tup = Stacked
            /\ op \notin InPlace \cup {"POP_ALL", "PEEK"} =>
                 /\ Len(m.st) = Len(under) + Pushes(op, Loaded)
                 /\ SubSeq(m.st, 1, Len(under)) = under
  /\ Done("laws") =>
       LET m == out[1][1]
           n == out[1][2]
       IN m.err = "SUCCESS" /\ n.err = "SUCCESS" =>
            W!xdr_marshal(Top(m, 1)) = W!xdr_marshal(Top(n, 1))
=============================================================================
