---------------------------- MODULE Expressions -----------------------------
(***************************************************************************)
(* From OverLog expressions to PEL: the generator of the staged compiler   *)
(* (p2core/compileUtil.C, namespace pel), that of the older planner        *)
(* (planner/rulePel.C), and the lexer that turns the text both emit into a *)
(* program.  The text is a sequence of tokens: a field, a literal, or the  *)
(* mnemonic of an opcode; "?" stands for a mnemonic no opcode has.         *)
(***************************************************************************)
EXTENDS Pel

Load(i)   == <<[tok |-> "field", v |-> i]>>
Literal(v) == <<[tok |-> "literal", v |-> v]>>
Emit(op)  == <<[tok |-> "op", v |-> op]>>
Emits(ops) == [i \in 1..Len(ops) |-> [tok |-> "op", v |-> ops[i]]]

\* The operators as their texts; "== not" is one operator of the parser and
\* two mnemonics of PEL.
Mnemonics(text) ==
  CASE text = <<43>> -> <<"PLUS">>       [] text = <<45>> -> <<"MINUS">>
    [] text = <<42>> -> <<"MUL">>        [] text = <<47>> -> <<"DIV">>
    [] text = <<37>> -> <<"MOD">>        [] text = <<60, 60>> -> <<"ASL">>
    [] text = <<62, 62>> -> <<"ASR">>    [] text = <<38>> -> <<"BIT_AND">>
    [] text = <<124>> -> <<"BIT_OR">>    [] text = <<94>> -> <<"BIT_XOR">>
    [] text = <<61, 61>> -> <<"EQ">>     [] text = <<33, 61>> -> <<"EQ", "NOT">>
    [] text = <<60>> -> <<"LT">>         [] text = <<60, 61>> -> <<"LTE">>
    [] text = <<62>> -> <<"GT">>         [] text = <<62, 61>> -> <<"GTE">>
    [] text = <<97>> -> <<"AND">>        [] text = <<111>> -> <<"OR">>
    [] text = <<110>> -> <<"NOT">>       [] text = <<40, 41>> -> <<"INOO">>
    [] text = <<40, 93>> -> <<"INOC">>   [] text = <<91, 41>> -> <<"INCO">>
    [] text = <<91, 93>> -> <<"INCC">>
INOP == <<105>>   \* the operator "in"

\* FUNCTIONDEF: the functions of the catalogue, by name, number of arguments
\* and mnemonic.  A function's name is its number here.
Function(f, n) ==
  CASE f = 1 /\ n = 1 -> "L_APPEND"   \* f_append(x): "Append with null"
    [] f = 1 /\ n = 2 -> "L_APPEND"     [] f = 2 /\ n = 2 -> "L_MEMBER"
    [] f = 3 /\ n = 2 -> "L_CONCAT"     [] f = 4 /\ n = 2 -> "L_INTERSECT"
    [] f = 5 /\ n = 2 -> "L_CONS"       [] f = 6 /\ n = 1 -> "L_CAR"
    [] f = 7 /\ n = 1 -> "L_CDR"        [] f = 8 /\ n = 2 -> "L_CONTAINS"
    [] f = 9 /\ n = 1 -> "L_LAST"       [] f = 10 /\ n = 1 -> "L_SIZE"
    [] f = 11 /\ n = 2 -> "MAX"         [] f = 12 /\ n = 2 -> "MIN"
    [] f = 13 /\ n = 3 -> "IFELSE"      [] f = 14 /\ n = 1 -> "L_REMOVELAST"
    [] f = 15 /\ n = 2 -> "?"           \* f_offset: no opcode is called "offset"
    [] f = 16 /\ n = 1 -> "SETMOD"      [] f = 17 /\ n = 1 -> "INITSET"
    [] f = 18 /\ n = 2 -> "TOTALCOMP"   [] f = 19 /\ n = 1 -> "TYPEOF"
FuncNumber(e) == Field(e, 2).v[1]
ArgCount(e)   == Field(e, 3).v
InList(x, l) == Tup(FUNC, <<Str(<<8>>), Int64(2), x, l>>)

-----------------------------------------------------------------------------
(* compile::pel.  What throws compile::Exception is the token "reject".    *)

Reject == <<[tok |-> "reject", v |-> 0]>>
LoadAt(pos) == IF pos < 0 THEN Reject ELSE Load(pos + 1)
variable(schema, e) == LoadAt(position(schema, e))

RECURSIVE gen(_, _)
func_Forward(schema, e) ==
  LET n == ArgCount(e)
  IN FlattenSeq([i \in 1..n |-> gen(schema, Field(e, 3 + i))]) \o Emit(Function(FuncNumber(e), n))
func(schema, e) ==
  LET n == ArgCount(e)
  IN FlattenSeq([i \in 1..n |-> gen(schema, Field(e, 4 + n - i))]) \o Emit(Function(FuncNumber(e), n))
boolean(schema, e) ==
  LET oper == Field(e, 2).v
      rhs  == Field(e, 4)
  IN IF oper = INOP /\ Kind(Field(e, 3)) \in {VAR, VALUE} /\ Kind(rhs) = VAR
     THEN func(schema, InList(Field(e, 3), rhs))
     ELSE gen(schema, Field(e, 3))
          \o (IF IsNull(rhs) THEN <<>> ELSE gen(schema, rhs))
          \o (IF oper = INOP THEN <<>> ELSE Emits(Mnemonics(oper)))
range(schema, e) ==
  gen(schema, Field(e, 3)) \o gen(schema, Field(e, 4)) \o Emits(Mnemonics(Field(e, 2).v))
math(schema, e) ==
  gen(schema, Field(e, 3)) \o gen(schema, Field(e, 4)) \o Emits(Mnemonics(Field(e, 2).v))
select(schema, e) == gen(schema, Field(e, 4)) \o Emits(<<"NOT", "IFSTOP", "T_SWALLOW", "T_UNBOXPOP">>)
AllBut(s, at, e) == FlattenSeq([k \in 1..Len(s) |->
                      (IF k - 1 = at THEN gen(s, Field(e, 5)) ELSE Load(k)) \o Emit("POP")])
assignAt(schema, e, pos) == AllBut(IF pos < 0 THEN Append(schema, Field(e, 4)) ELSE schema,
                                   IF pos < 0 THEN Len(schema) ELSE pos, e)
assign(schema, e) == assignAt(schema, e, position(schema, Field(e, 4)))
gen(schema, e) ==
  CASE Kind(e) = FUNC   -> func(schema, e)    [] Kind(e) = VALUE -> Literal(Field(e, 2))
    [] Kind(e) = VAR    -> variable(schema, e) [] Kind(e) = MATH  -> math(schema, e)
    [] Kind(e) = BOOLX  -> boolean(schema, e)  [] Kind(e) = RANGE -> range(schema, e)
    [] Kind(e) = SELECT -> select(schema, e)   [] Kind(e) = ASSIGN -> assign(schema, e)
    [] OTHER -> Reject

-----------------------------------------------------------------------------
(* planner/rulePel.C.  A planner error ends the process.                   *)

RECURSIVE expr2Pel(_, _)
pelMath(names, e)  == expr2Pel(names, Field(e, 3)) \o expr2Pel(names, Field(e, 4))
                      \o Emits(Mnemonics(Field(e, 2).v))
pelRange(names, e) ==
  FlattenSeq([i \in 1..3 |-> expr2Pel(names, <<Field(e, 3), Field(Field(e, 4), 3), Field(Field(e, 4), 4)>>[i])])
  \o Emits(Mnemonics(Field(Field(e, 4), 2).v))
\* The functions whose arguments are pushed last to first, and the others.
Backward == {1, 3}
pelFunction(names, e) ==
  LET f == FuncNumber(e)
      n == ArgCount(e)
      arg(i) == expr2Pel(names, Field(e, 3 + i))
  IN IF f = 1 /\ n = 1 THEN Literal(Null) \o arg(1) \o Emit("L_APPEND")
     ELSE IF f \in Backward /\ n = 2 THEN arg(2) \o arg(1) \o Emit(Function(f, n))
     ELSE IF f \in {2, 4, 9, 10, 14, 16, 17, 18, 19}
     THEN FlattenSeq([i \in 1..n |-> arg(i)]) \o Emit(Function(f, n))
     ELSE Reject
pelBool(names, e) ==
  CASE Field(e, 2).v = INOP -> pelRange(names, e)
    [] Field(e, 2).v = <<110>> -> expr2Pel(names, Field(e, 3)) \o Emit("NOT")
    [] OTHER -> pelMath(names, e)
expr2Pel(names, e) ==
  CASE Kind(e) = VAR   -> variable(names, e)
    [] Kind(e) = VALUE -> Literal(IF Field(e, 2).t = DOUBLE /\ Field(e, 2).v[2] = 1   \* 2.0 prints as 2
                                  THEN Int64(Field(e, 2).v[1]) ELSE Field(e, 2))
    [] Kind(e) = BOOLX -> pelBool(names, e)
    [] Kind(e) = MATH  -> pelMath(names, e)
    [] Kind(e) = FUNC  -> pelFunction(names, e)
    [] OTHER -> Reject
pelSelect(names, e) ==
  pelBool(names, Field(e, 4)) \o Emits(<<"NOT", "IFSTOP">>)
  \o FlattenSeq([k \in 1..Len(names) + 1 |-> Load(k - 1) \o Emit("POP")])
\* The field to replace is looked for among the names and counted from the
\* table's name.
pelAssignAt(names, pos, rhs) ==
  FlattenSeq([k \in 1..Len(names) + 1 |-> (IF k - 1 = pos THEN rhs ELSE Load(k - 1)) \o Emit("POP")])
  \o (IF pos < 0 THEN rhs \o Emit("POP") ELSE <<>>)
pelAssign(names, e) ==
  pelAssignAt(names, position(names, Field(e, 4)), expr2Pel(names, Field(e, 5)))

-----------------------------------------------------------------------------
(* Pel_Lexer::compile: a mnemonic no opcode has is reported and skipped.   *)

Compile(tokens) ==
  LET add(prog, t) ==
        CASE t.tok = "field"   -> [prog EXCEPT !.ops = Append(@, PushField(t.v))]
          [] t.tok = "literal" -> [ops  |-> Append(prog.ops, PushConst(Len(prog.pool))),
                                   pool |-> Append(prog.pool, t.v)]
          [] t.v = "?"         -> prog
          [] OTHER             -> [prog EXCEPT !.ops = Append(@, Op(t.v))]
  IN FoldLeft(add, [ops |-> <<>>, pool |-> <<>>], tokens)
Rejected(tokens) == \E i \in 1..Len(tokens) : tokens[i].tok = "reject"

\* Math::value: the parser folds an arithmetic fact of constants by itself.
Folded(text, l, r) ==
  Oper(CASE text \in {<<60, 60>>, <<62, 62>>} -> "lshift"
         [] text = <<43>> -> "plus"  [] text = <<45>> -> "minus"  [] text = <<42>> -> "times"
         [] text = <<47>> -> "divide"  [] text = <<37>> -> "mod", l, r)

-----------------------------------------------------------------------------
(* The condition of a rule, as Context::condition of the planner compiles  *)
(* it (lang/planner/plannerContext.C): a chain of probes, selections and   *)
(* assignments between the event and the head, and what the chain makes of *)
(* an event tuple.                                                         *)
(*                                                                         *)
(* A rule is [head, name, event, terms]: the schema of the head and its    *)
(* name, the schema of the event, and the body, whose terms are functors   *)
(* [k |-> "functor", table, notin, schema] or expressions                  *)
(* [k |-> "expr", e] that assign or select.  A database maps a table to a  *)
(* sequence of rows; a row's first field is the table's name.              *)

Functor(table, notin, schema) == [k |-> "functor", table |-> table, notin |-> notin, schema |-> schema]
Expr(e) == [k |-> "expr", e |-> e]

\* A schema without the attributes of no kind in kinds: each gets a variable
\* of its own, and the term that ties it to the attribute goes last.
Canonical(terms, schema, kinds, letter, tie(_, _)) ==
  LET fresh(i) == Tup(VAR, <<Str(<<36, letter, Len(terms), i>>)>>)
      odd == SelectSeq([i \in 1..Len(schema) |-> i], LAMBDA i : Kind(schema[i]) \notin kinds)
  IN [terms  |-> terms \o [j \in 1..Len(odd) |-> Expr(tie(fresh(odd[j]), schema[odd[j]]))],
      schema |-> [i \in 1..Len(schema) |-> IF Kind(schema[i]) \in kinds THEN schema[i] ELSE fresh(i)]]
canonicalizeAssign(terms, schema) ==
  Canonical(terms, schema, {VAR, LOC, AGG}, 67, LAMBDA v, a : Tup(ASSIGN, <<Int64(0), Null, v, a, Null>>))
canonicalizeSelection(terms, schema) ==
  Canonical(terms, schema, {VAR, LOC}, 80, LAMBDA v, a :
    Tup(SELECT, <<Int64(0), Null, Tup(BOOLX, <<Str(<<61, 61>>), v, a>>), Null>>))

-----------------------------------------------------------------------------
(* The chain: probes and PEL transforms.                                   *)

probeOn(term, keys, keep) ==
  [k |-> "probe", table |-> term.table, notin |-> term.notin, joinKey |-> keys.joinKey,
   indexKey |-> keys.indexKey, keep |-> keep, take |-> IF term.notin THEN <<>> ELSE keys.baseKey]
probe(term, schema, tupleSchema) == probeOn(term, joinKeys(tupleSchema, schema), Len(tupleSchema))
Transform(tokens) == [k |-> "pel", tokens |-> tokens]
assign_(s, e) == [schema |-> s, stage |-> Transform(Load(0) \o Emit("POP") \o gen(s, e))]
headProject(rule, headSchema, tupleSchema) ==
  Transform(Literal(rule.name) \o Emit("POP") \o FlattenSeq([i \in 1..Len(headSchema) |->
    LET field(pos) == IF pos >= 0 THEN Load(pos + 1) \o Emit("POP")
                      ELSE IF CountsAll(headSchema[i]) THEN <<>> ELSE Reject
    IN field(position(tupleSchema, headSchema[i]))]))

\* Terms are compiled one by one, the ones the canonical forms add included.
RECURSIVE Chain(_, _, _, _)
Chain(terms, i, tupleSchema, stages) ==
  LET t == terms[i]
      joined(c) == Chain(c.terms, i + 1, IF t.notin THEN tupleSchema ELSE merge(tupleSchema, c.schema),
                         Append(stages, probe(t, c.schema, tupleSchema)))
      plain(a) == Chain(terms, i + 1, a.schema, Append(stages, a.stage))
  IN IF i > Len(terms) THEN [schema |-> tupleSchema, stages |-> stages]
     ELSE IF t.k = "functor" THEN joined(canonicalizeSelection(terms, t.schema))
     ELSE plain(IF Kind(t.e) = ASSIGN THEN assign_(assignSchema(tupleSchema, Field(t.e, 4)), t.e)
                ELSE [schema |-> tupleSchema, stage |-> Transform(gen(tupleSchema, t.e))])

condition(rule) ==
  LET whole(h, c) == Append(c.stages, headProject(rule, h.schema, c.schema))
      from(h) == whole(h, Chain(h.terms, 1, rule.event, <<>>))
  IN from(canonicalizeAssign(rule.terms, rule.head))
Accepted(chain) == \A i \in 1..Len(chain) : chain[i].k = "pel" => ~Rejected(chain[i].tokens)

-----------------------------------------------------------------------------
(* What the elements of the chain do with a tuple.                         *)

\* Lookup2, then NoNullField or OnlyNullField, then the projection of the probe.
Probed(stage, t, db) ==
  LET rows == db[stage.table]
      hit(r) == \A i \in 1..Len(stage.joinKey) :
                  compareTo(t[stage.joinKey[i] + 1], r[stage.indexKey[i] + 1]) = 0
      found == SelectSeq(rows, hit)
      kept == SubSeq(t, 1, stage.keep + 1)
  IN IF stage.notin THEN IF found = <<>> THEN <<kept>> ELSE <<>>
     ELSE [i \in 1..Len(found) |->
             kept \o [j \in 1..Len(stage.take) |-> found[i][stage.take[j] + 1]]]
\* PelTransform: the result of the program, nothing when it has none or fails.
ResultOf(m) == IF m.err = "SUCCESS" /\ m.res # <<>> THEN <<m.res>> ELSE <<>>
Run_(prog, t) == ResultOf(execute(Machine(t, prog.pool), prog.ops))
Transformed(stage, t) == Run_(Compile(stage.tokens), t)
Passed(stage, ts, db) ==
  FlattenSeq([i \in 1..Len(ts) |-> IF stage.k = "probe" THEN Probed(stage, ts[i], db)
                                   ELSE Transformed(stage, ts[i])])
=============================================================================
