------------------------------- MODULE Stages -------------------------------
(***************************************************************************)
(* The stages of the OverLog compiler (lang/parse, lang/secure,            *)
(* lang/rewrite0, lang/rewrite1, lang/rewrite2, lang/eca, lang/debug, and  *)
(* the term list of lang/planner).  Stages share nothing but the catalogue *)
(* tables: each one reads a program's rows of RULE, FUNCTOR, ASSIGN and    *)
(* SELECT, rewrites them and adds rows.  What ties a rule together is only *)
(* numbers, the POSITION of each term and the TERM_COUNT of the rule: a    *)
(* term whose position is wrong is silently left out of the plan.          *)
(*                                                                         *)
(* A rule is [head, count, delete, new, t, ...]: t is the sequence of its  *)
(* rows and an index of t is the row's identifier; inserting a clone       *)
(* replaces the row, a row with a new identifier goes at the end.  The     *)
(* rows a functor has in NEW and SAYS are its fields wrapper and says.     *)
(* Names are sequences, since the stages build names by adding suffixes;   *)
(* of an expression only the variables it reads are kept.                  *)
(***************************************************************************)
EXTENDS Integers, Sequences, FiniteSets, SequencesExt

CONSTANT Texts     \* [programs, stages]: programs to compile, and the stages installed

NEWFIELDS == 3
LOCSPECPOS == 4    \* List::at counts from 0
UNIQUEIDPOS == 2
NUMSECUREFIELDS == 4
PROOFPOS == 6

NoVar == <<"", 0>>
Attr(k, v) == [k |-> k, v |-> v]
Var(v) == Attr("VAR", v)
Row == [type |-> "functor", name |-> <<>>, notin |-> FALSE, tid |-> FALSE, eca |-> "NULL", attributes |-> <<>>,
        position |-> 0, new |-> FALSE, wrapper |-> <<>>, says |-> <<>>, var |-> NoVar, uses |-> {}, src |-> 0]
Functor(name, attributes) == [Row EXCEPT !.name = name, !.attributes = attributes]
Assign(v, uses) == [Row EXCEPT !.type = "assign", !.var = v, !.uses = uses]
Select(uses) == [Row EXCEPT !.type = "select", !.uses = uses]
Vars(attributes) == {a.v : a \in Range(attributes)} \ {NoVar}

\* Terms at the positions from pos on.
Placed(terms, pos) == [i \in 1..Len(terms) |-> [terms[i] EXCEPT !.position = pos + i - 1]]
\* TID is the TABLE row of that name, if there is one.
Bind(tbls, f) == [f EXCEPT !.tid = f.name \in DOMAIN tbls]
IsFunctor(term) == term.type = "functor"
Body(r) == SelectSeq([i \in 1..Len(r.t) |-> i], LAMBDA i : IsFunctor(r.t[i]) /\ i # r.head)
MapRows(r, op(_)) == [r EXCEPT !.t = [i \in DOMAIN r.t |-> op(i)]]
\* A rule a stage makes up, with the TERM_COUNT the stage writes for it.
Made(terms, count) ==
  [head |-> 1, count |-> count, delete |-> FALSE, new |-> FALSE, t |-> Placed(terms, 0), located |-> FALSE,
   source |-> 0, n |-> 0, broken |-> FALSE]
Generated(prefix, from, n) == [i \in 1..n |-> Attr(IF i = 1 THEN "LOC" ELSE "VAR", <<prefix, from + i - 1>>)]

-----------------------------------------------------------------------------
(* lang/parse: statements become rows.                                     *)

\* Constants and repeated variables leave the head: each slot gets a fresh
\* variable and the body ends with its assignment.  @X and X differ.
canonicalizeAttributes(rule) ==
  LET h == rule.head
      slots == h.attributes \o h.wrapper \o h.says
      odd == SelectSeq([i \in 1..Len(slots) |-> i], LAMBDA i :
               slots[i].k = "VAL" \/ \E j \in 1..(i - 1) : slots[i] = slots[j])
      tmp(i) == <<"PS", SelectInSeq(odd, LAMBDA o : o = i)>>
      now == [i \in 1..Len(slots) |-> IF i \in Range(odd) THEN Var(tmp(i)) ELSE slots[i]]
      n == Len(h.attributes)
      m == n + Len(h.wrapper)
  IN IF h.name = <<"periodic">> THEN rule
     ELSE [rule EXCEPT
             !.head = [h EXCEPT !.attributes = SubSeq(now, 1, n), !.wrapper = SubSeq(now, n + 1, m),
                                !.says = SubSeq(now, m + 1, Len(now))],
             !.body = @ \o [i \in 1..Len(odd) |-> Assign(tmp(odd[i]), Vars(<<slots[odd[i]]>>))]]

\* NOTIN needs a table, and not in the head.
MisusesNotin(tbls, f, pos) == f.notin /\ (pos = 0 \/ f.name \notin DOMAIN tbls)
materialize(tbls, rule, i) ==
  [head |-> 1, count |-> Len(rule.body) + 1, delete |-> rule.delete, new |-> rule.new,
   t |-> Placed([j \in 1..(Len(rule.body) + 1) |->
           Bind(tbls, [(IF j = 1 THEN rule.head ELSE rule.body[j - 1]) EXCEPT !.src = j - 1])], 0),
   located |-> FALSE, source |-> i, n |-> Len(rule.body), broken |-> FALSE]

\* The key fields of a table: the fields of a says go after the location.
saysSuffix == "Says"
TableName(d) == IF d.says THEN d.name \o <<saysSuffix>> ELSE d.name
TableKeys(d) ==
  LET lead == SelectInSeq(d.keys, LAMBDA k : k > 1)
      first == IF lead = 0 THEN Len(d.keys) ELSE lead - 1
      rest == SubSeq(d.keys, first + 1, Len(d.keys))
      offset == IF d.says THEN 5 ELSE 0
  IN SubSeq(d.keys, 1, first) \o (IF d.says THEN <<2, 3, 4, 5, 6>> ELSE <<>>)
       \o [i \in 1..Len(rest) |-> IF rest[i] > 1 THEN rest[i] + offset ELSE rest[i]]

-----------------------------------------------------------------------------
(* lang/secure: says.                                                      *)

SV(n) == <<"SV", n>>   \* newVariable++: each variable of a rule has its own number
headProof == SV(1)
headSaysType == SV(2)
keyTypeVar == SV(3)
opaqueVar == SV(4)
sysHint == SV(5)
listVar(i) == SV(5 + i)
hintVar(i) == SV(9 + i)
bufVar == SV(15)
genProof == SV(16)
proofOf(i) == SV(20 + i)

\* The location of the rule: that of its event, else one of its body that is
\* no location specifier held in a field of the body.
Events(r) == SelectSeq(Body(r), LAMBDA i : ~r.t[i].tid)
LocSpecs(refs, r) ==
  UNION {{r.t[i].attributes[ref.field + 1].v : ref \in {x \in refs : x.from = r.t[i].name}} : i \in Range(Body(r))}
Locations(r) == {(IF r.t[i].wrapper # <<>> THEN r.t[i].wrapper[1] ELSE r.t[i].attributes[1]).v : i \in Range(Body(r))}
Nowhere(refs, r) == Events(r) = <<>> /\ Locations(r) \subseteq LocSpecs(refs, r)
initLocSpecMap(refs, r) ==
  IF Events(r) # <<>> THEN r.t[Events(r)[1]].attributes[1]
  ELSE Attr("LOC", CHOOSE v \in Locations(r) \ LocSpecs(refs, r) : TRUE)

\* Two lists of terms are compared field by field; equal terms are left out.
Differ(as, bs, count) == SelectSeq([i \in 1..count |-> i], LAMBDA i : as[i] # bs[i])
generateSelectTerms(as, bs) ==
  LET d == Differ(as, bs, NUMSECUREFIELDS) IN [i \in 1..Len(d) |-> Select(Vars(<<as[d[i]], bs[d[i]]>>))]
generateAssignTerms(as, bs, count) ==
  LET d == Differ(as, bs, count) IN [i \in 1..Len(d) |-> Assign(as[d[i]].v, Vars(<<bs[d[i]]>>))]
\* Who says it for whom, and how many principals stand behind it.
generateAlgebraLT(as, bs) == Append(generateSelectTerms(as, bs), Select(Vars(<<as[1], bs[1], as[3], bs[3]>>)))

\* The fields of a says and the proof follow the location.
Said(attributes, says, proof) == <<attributes[1]>> \o says \o <<Var(proof)>> \o Tail(attributes)
normalizeVerify(tbls, f, i) ==
  Bind(tbls, [f EXCEPT !.name = @ \o <<saysSuffix>>, !.attributes = Said(f.attributes, f.says, proofOf(i)), !.says = <<>>])

\* The head of a says rule: a stored tuple carries who said it in its hint,
\* an event in its fields.
StoredHead(h, loc) ==
  IF h.new THEN [h EXCEPT !.wrapper[3] = Var(sysHint), !.says = <<>>]
  ELSE [h EXCEPT !.new = TRUE, !.wrapper = <<loc, Var(opaqueVar), Var(sysHint)>>, !.says = <<>>]
SentHead(tbls, h) ==
  Bind(tbls, [h EXCEPT !.new = FALSE, !.wrapper = <<>>, !.name = @ \o <<"makeSays">>,
                       !.attributes = Said(h.attributes, h.says, genProof), !.says = <<>>])
\* The terms that look up a key, and for an event build its proof.
KeyTerms(tbls, h, loc) ==
  LET hints == [i \in 1..(NUMSECUREFIELDS + 1) |-> Var(hintVar(i))]
  IN <<Bind(tbls, Functor(<<"encHint">>, <<loc>> \o hints)),
       Bind(tbls, Functor(<<"genKey">>, <<loc, hints[5], Var(keyTypeVar), Var(headProof)>>))>>
       \o generateAlgebraLT(h.says, hints)
ProofTerms(h) ==
  <<Assign(bufVar, Vars(Tail(h.attributes))), Assign(genProof, {bufVar, keyTypeVar, headProof})>>
\* The hint of a stored tuple is a list built up one field at a time.
HintTerms(h) ==
  <<Assign(listVar(1), {headSaysType, keyTypeVar, headProof})>>
    \o [i \in 1..NUMSECUREFIELDS |-> Assign(IF i < NUMSECUREFIELDS THEN listVar(i + 1) ELSE sysHint,
                                           Vars(<<h.says[i]>>) \cup {listVar(i)})]

\* A body term with the head's name offers its own proof instead of a new one.
Forward(h, f, said, compound) ==
  generateAssignTerms(h.attributes, said.attributes, Len(f.attributes)) \o generateAlgebraLT(h.says, f.says)
    \o <<Assign(headProof, Vars(<<said.attributes[PROOFPOS + 1]>>))>>
    \o (IF compound THEN <<Assign(headSaysType, {}), Assign(keyTypeVar, {})>> ELSE <<>>)

Alternative(terms, lists, from) == Placed(terms, from) \o Placed(lists, from + Len(terms))
\* One rule for each way to vouch for the head; the last reuses the rule's
\* rows, and the copies take the head's attributes as they were at first.
SecureRule(tbls, refs, r) ==
  LET h == r.t[r.head]
      loc == initLocSpecMap(refs, r)
      stored == h.name \in DOMAIN tbls
      compound == \E ref \in refs : ref.from = h.name
      verified == MapRows([r EXCEPT !.located = TRUE], LAMBDA i :
                    IF i # r.head /\ r.t[i].says # <<>> THEN normalizeVerify(tbls, r.t[i], i) ELSE r.t[i])
      opaque == IF stored /\ ~h.new THEN <<Assign(opaqueVar, {})>> ELSE <<>>
      based == [verified EXCEPT !.t[r.head] = IF stored THEN StoredHead(h, loc) ELSE SentHead(tbls, h),
                                !.t = @ \o Placed(opaque, r.count), !.count = @ + Len(opaque)]
      create == KeyTerms(tbls, h, loc) \o (IF stored THEN <<>> ELSE ProofTerms(h))
                  \o (IF compound THEN <<Assign(headSaysType, {})>> ELSE <<>>)
      echoes == SelectSeq(Body(r), LAMBDA i : r.t[i].says # <<>> /\ r.t[i].name = h.name)
      ways == <<create>> \o [k \in 1..Len(echoes) |->
                              Forward(h, r.t[echoes[k]], verified.t[echoes[k]], compound)]
      lists == IF stored THEN HintTerms(h) ELSE <<>>
      with(k) == [based EXCEPT !.t = @ \o Alternative(ways[k], lists, based.count),
                               !.t[r.head].attributes = IF k < Len(ways) THEN h.attributes ELSE @,
                               !.count = @ + Len(ways[k]) + Len(lists),
                               !.broken = Len(ways) > 1 /\ ~stored]
  IN IF h.says = <<>> THEN <<verified>> ELSE [k \in 1..Len(ways) |-> with(k)]

\* Each table read through a says gets the rule that checks what is received.
generateVerificationRules(tbls, read) ==
  LET v(x) == Generated("SV", 0, x.size)
      rule(x) == [Made(<<Bind(tbls, Functor(x.name \o <<saysSuffix>>, v(x))), Functor(x.name \o <<"makeSays">>, v(x)),
                         Assign(SV(x.size), Vars(SubSeq(v(x), 7, x.size))),
                         Select({SV(x.size)} \cup Vars(SubSeq(v(x), 2, 6)))>>, 4)
                    EXCEPT !.located = x.name \o <<saysSuffix>> \in DOMAIN tbls]
  IN [i \in 1..Len(read) |-> rule(read[i])]

generateMaterialize(tbls) ==
  [n \in {<<"encHint">>, <<"verKey">>, <<"genKey">>} \ DOMAIN tbls |->
     IF n = <<"encHint">> THEN <<2, 3, 4, 5, 6>> ELSE <<2>>] @@ tbls
\* verificationTables: the tables that rules read through a says.
Read(rs) ==
  SetToSeq(UNION {{[name |-> r.t[i].name, size |-> Len(r.t[i].attributes) + NUMSECUREFIELDS + 1] :
                     i \in {j \in Range(Body(r)) : r.t[j].says # <<>>}} : r \in Range(rs)})
secure(tbls, refs, rs) ==
  LET all == generateMaterialize(tbls)
      known == [i \in 1..Len(rs) |->
                  MapRows(rs[i], LAMBDA j : IF rs[i].t[j].name \in DOMAIN all \ DOMAIN tbls
                                            THEN [rs[i].t[j] EXCEPT !.tid = TRUE] ELSE rs[i].t[j])]
  IN [end |-> IF \E r \in Range(known) : Nowhere(refs, r) THEN "error" ELSE "", tables |-> all,
      rules |-> FlattenSeq([i \in 1..Len(known) |-> SecureRule(all, refs, known[i])])
                  \o generateVerificationRules(all, Read(known))]

-----------------------------------------------------------------------------
(* lang/rewrite0: a functor in new(loc, opaque) becomes an event.          *)

newSuffix == "New"
At(p) == "_" \o ToString(p)
asVar(a) == Var(a.v)
serializeNewFunctor(f) ==
  [f EXCEPT !.name = @ \o <<newSuffix>>, !.tid = FALSE, !.wrapper = <<>>,
            !.attributes = f.wrapper \o <<asVar(f.attributes[1])>> \o Tail(f.attributes)]
NewBody(r) == SelectSeq(Body(r), LAMBDA i : r.t[i].new)
\* A rule fired by a new tuple builds the head at one of the new locations.
LocationAt(f, loc) == SelectInSeq(f.attributes, LAMBDA a : a.v = loc.v)
constructorHead(r, h, loc) ==
  LET v == <<<<"RW0", 0>>, <<"RW0", 1>>>>
  IN [r EXCEPT !.t[r.head] = [h EXCEPT !.name = @ \o <<newSuffix>>, !.tid = FALSE, !.new = TRUE,
                                !.attributes = <<loc, Var(v[2]), Var(v[1]), asVar(h.attributes[1])>> \o Tail(h.attributes)],
               !.t = @ \o Placed(<<Assign(v[1], {}), Assign(v[2], {})>>, r.count),
               !.count = @ + 2]
rewrite0Rule(r) ==
  LET h == r.t[r.head]
      firer(f) == [f EXCEPT !.name = @ \o <<At(LocationAt(f, h.attributes[1]) - NEWFIELDS)>>]
      served == MapRows(r, LAMBDA i :
                  IF ~r.t[i].new THEN r.t[i]
                  ELSE IF r.new /\ i # r.head THEN firer(serializeNewFunctor(r.t[i])) ELSE serializeNewFunctor(r.t[i]))
  IN IF r.new /\ ~h.new THEN constructorHead(served, h, served.t[Last(NewBody(r))].attributes[1]) ELSE served
rewrite0(tbls, rs) ==
  LET lost(r) == \E i \in Range(NewBody(r)) : LocationAt(serializeNewFunctor(r.t[i]), r.t[r.head].attributes[1]) = 0
      bad == SelectInSeq(rs, LAMBDA r : r.new /\ (NewBody(r) = <<>> \/ lost(r)))
  IN [end |-> IF bad = 0 THEN "" ELSE IF lost(rs[bad]) THEN "aborted" ELSE "error",
      tables |-> tbls, rules |-> [i \in 1..Len(rs) |-> rewrite0Rule(rs[i])]]

-----------------------------------------------------------------------------
(* lang/rewrite1: the rules that make, send and store new tuples.          *)

\* NewHeadState: a head that makes tuples, and where it makes new locations.
NewHeadState(r) ==
  LET h == r.t[r.head]
  IN [base |-> h.name, vars |-> Len(h.attributes), newRule |-> r.new,
      pos |-> SelectSeq([p \in 1..(Len(h.attributes) - NEWFIELDS) |-> p],
                        LAMBDA p : h.attributes[p + NEWFIELDS].k = "NEWLOC")]
newRuleHead(s) == s.base \o [i \in 1..Len(s.pos) |-> At(s.pos[i])]
\* Every new location is made by an assignment at the end of the body.
rewrite1Rule(r) ==
  LET s == NewHeadState(r)
      attrs == r.t[r.head].attributes
  IN IF ~r.t[r.head].new \/ s.pos = <<>> THEN r
     ELSE [r EXCEPT !.t[r.head] = [@ EXCEPT !.name = newRuleHead(s),
                                            !.attributes = [i \in 1..Len(attrs) |->
                                               IF attrs[i].k = "NEWLOC" THEN asVar(attrs[i]) ELSE attrs[i]]],
                    !.t = @ \o Placed([i \in 1..Len(s.pos) |-> Assign(attrs[s.pos[i] + NEWFIELDS].v, {})], r.count),
                    !.count = @ + Len(s.pos)]

RW1(n) == <<"RW1", n>>
V(n) == Generated("RW1", 0, n)
\* The tuple with several new locations fires the rules of each of them.
pass2(tbls, s) ==
  LET each == IF Len(s.pos) > 1 THEN [i \in 1..Len(s.pos) |-> Append(s.base, At(s.pos[i]))] ELSE <<>>
      lhs == IF s.pos = <<>> THEN <<>> ELSE Append(each, s.base)
  IN [i \in 1..Len(lhs) |-> Made(<<Bind(tbls, Functor(lhs[i], V(s.vars))), Functor(newRuleHead(s), V(s.vars))>>, 2)]

\* A rule of a constructor stores the tuple, under a version of its own; any
\* other rule sends it.
stem(s) == Front(s.base)
Version(s) == Functor(Append(s.base, "Ver"), V(s.vars + 1))
materializeNewTupleVersionEvent(tbls, s) ==
  LET v == V(s.vars + 1)
  IN Made(<<Bind(tbls, Version(s)), Functor(s.base, Front(v)),
            Assign(RW1(s.vars + 1), {v[LOCSPECPOS + 1].v}), Select({RW1(s.vars + 1)}), Assign(Last(v).v, {})>>, 5)
materializeLocSpecTuple(tbls, s) ==
  LET v == V(s.vars + 1)
  IN Made(<<Bind(tbls, Functor(<<"locSpecTable">>, <<v[1], v[LOCSPECPOS + 1], asVar(v[1]), Last(v)>>)),
            Bind(tbls, Version(s))>>, 2)
materializeNewTupleVersion(tbls, s, says) ==
  LET v == V(s.vars + 1)
      name == IF says THEN stem(s) \o <<newSuffix, saysSuffix>> ELSE stem(s)
  IN Made(<<Bind(tbls, Functor(name, <<v[1], Last(v)>> \o SubSeq(v, IF says THEN 2 ELSE NEWFIELDS + 2, s.vars))),
            Bind(tbls, Version(s)), Select({v[3].v})>>, 3)
Process(s) == Functor(Append(s.base, "Process"), V(s.vars + 1))
materializeProcessTuple(tbls, s) ==
  LET v == V(s.vars + 1)
      unstamped == RemoveAt(v, UNIQUEIDPOS)
  IN Made(<<Bind(tbls, Process(s)), Bind(tbls, Functor(s.base, unstamped)),
            Select({unstamped[LOCSPECPOS + 1].v}), Assign(v[UNIQUEIDPOS].v, {})>>, 4)
sendtuple == <<"sendtuple">>
materializeSendTuple(tbls, s) ==
  LET v == V(s.vars + 1)
      name == RW1(s.vars + 1)
      buf == RW1(s.vars + 2)
  IN Made(<<Bind(tbls, Functor(sendtuple, <<Attr("LOC", v[LOCSPECPOS + 2].v), Var(name), Var(buf)>>)),
            Bind(tbls, Process(s)), Assign(name, {}), Assign(buf, {name, v[UNIQUEIDPOS + 1].v})>>, 4)
materializeRecvTuple(tbls) ==
  LET v == V(3)
  IN Made(<<Bind(tbls, Functor(<<"dummy">>, <<v[1]>>)), Bind(tbls, Functor(sendtuple, v)),
            Assign(RW1(3), Vars(Tail(v)))>>, 3)

\* headState keeps one state for each name of a head, the first; of a base
\* only the state with the first name is served.
Before(p, q) ==
  \E k \in 1..Len(q) : /\ \A j \in 1..(k - 1) : j <= Len(p) /\ p[j] = q[j]
                       /\ k > Len(p) \/ p[k] < q[k]
headState(rs) ==
  LET heads == SelectSeq(rs, LAMBDA r : r.t[r.head].new)
      all == [i \in 1..Len(heads) |-> NewHeadState(heads[i])]
      firsts == SelectSeq([i \in 1..Len(all) |-> i], LAMBDA i :
                  \A j \in 1..(i - 1) : newRuleHead(all[j]) # newRuleHead(all[i]))
  IN [i \in 1..Len(firsts) |-> all[firsts[i]]]
Served(states) ==
  SelectSeq(states, LAMBDA s : \A x \in Range(states) : x.base = s.base /\ x # s => Before(s.pos, x.pos))
StoreOf(s) == IF s.newRule THEN stem(s) \o <<newSuffix, saysSuffix>> ELSE Append(s.base, "Process")
pass3(tbls, s) ==
  IF s.newRule
  THEN <<materializeNewTupleVersionEvent(tbls, s), materializeLocSpecTuple(tbls, s),
         materializeNewTupleVersion(tbls, s, TRUE), materializeNewTupleVersion(tbls, s, FALSE)>>
  ELSE <<materializeProcessTuple(tbls, s), materializeSendTuple(tbls, s)>>
rewrite1(tbls, rs) ==
  LET located == [n \in {<<"locSpecTable">>, <<"linkExpanderTable">>} \ DOMAIN tbls |->
                    IF n = <<"locSpecTable">> THEN <<1, 2, 3, 4>> ELSE <<2>>] @@ tbls
      states == headState(rs)
      served == Served(states)
      all == [n \in {StoreOf(s) : s \in Range(served)} |-> <<UNIQUEIDPOS>>] @@ located
      short(s) == s.vars < LOCSPECPOS + 1
      taken(s) == StoreOf(s) \in DOMAIN located \/ (s.newRule /\ stem(s) \notin DOMAIN located)
      bad == SelectInSeq(served, LAMBDA s : short(s) \/ taken(s))
  IN [end |-> IF bad = 0 THEN "" ELSE IF short(served[bad]) THEN "aborted" ELSE "escaped",
      tables |-> all,
      rules |-> IF bad # 0 THEN rs
                ELSE [i \in 1..Len(rs) |-> rewrite1Rule(rs[i])]
                  \o FlattenSeq([i \in 1..Len(states) |-> pass2(all, states[i])])
                  \o FlattenSeq([i \in 1..Len(served) |-> pass3(all, served[i])])
                  \o (IF \E s \in Range(served) : ~s.newRule THEN <<materializeRecvTuple(all)>> ELSE <<>>)]

-----------------------------------------------------------------------------
(* lang/rewrite2: no table is versioned in this build, so a located rule   *)
(* is only read term by term.                                              *)

Positions(r) == {r.t[i].position : i \in DOMAIN r.t}
rewrite2(tbls, rs) ==
  [end |-> IF \E r \in Range(rs) : r.located /\ ~(0..(r.count - 1) \subseteq Positions(r)) THEN "error" ELSE "",
   tables |-> tbls, rules |-> [i \in 1..Len(rs) |-> [rs[i] EXCEPT !.located = FALSE]]]

-----------------------------------------------------------------------------
(* lang/eca: which body term is the event.                                 *)

\* The event: the one term that is no table, else the one that a stage has
\* marked, else the only term.
Marked(r) == SelectSeq(Body(r), LAMBDA i : r.t[i].eca \notin {"NULL", "PROBE"})
EventOf(r) ==
  CASE Events(r) # <<>> -> Events(r)[1]
    [] Events(r) = <<>> /\ Marked(r) # <<>> -> Marked(r)[1]
    [] OTHER -> IF Len(Body(r)) = 1 THEN Body(r)[1] ELSE 0
Rejects(r) == Len(Events(r)) > 1 \/ Len(Marked(r)) > 1 \/ EventOf(r) = 0
headEca(r, h) == IF h.tid THEN IF r.delete THEN "DELETE" ELSE "ADD" ELSE "SEND"
eventEca(f) ==
  CASE f.name = <<"periodic">> -> "INSERT"
    [] f.name # <<"periodic">> /\ f.eca = "NULL" -> IF f.tid THEN "DELTA_INSERT" ELSE "RECV"
    [] OTHER -> f.eca
\* The terms before the event move up by one to make room for it.
moved_After(term, eventPos) == IF term.position >= eventPos THEN term.position + 1 ELSE term.position
moved(term, eventPos) == IF term.position <= eventPos THEN term.position + 1 ELSE term.position
ecaRule(r) ==
  LET e == EventOf(r)
      at == r.t[e].position
      row(i) == LET f == r.t[i] IN
        CASE i = r.head -> [f EXCEPT !.eca = headEca(r, f), !.position = 0]
          [] i = e -> [f EXCEPT !.eca = eventEca(f), !.position = 1]
          [] i \notin {r.head, e} /\ IsFunctor(f) -> [f EXCEPT !.eca = "PROBE", !.position = moved(f, at)]
          [] OTHER -> [f EXCEPT !.position = moved(f, at)]
  IN MapRows(r, row)
eca(tbls, rs) ==
  IF \E r \in Range(rs) : Rejects(r) THEN [end |-> "error", tables |-> tbls, rules |-> rs]
  ELSE [end |-> "", tables |-> tbls, rules |-> [i \in 1..Len(rs) |-> ecaRule(rs[i])]]

-----------------------------------------------------------------------------
(* lang/debug and lang/planner: the terms of a rule in order.  A term at a *)
(* position that another has is left out, and so is all that follows a gap.*)

ruleTerms(r) ==
  LET at(p, type) == {i \in DOMAIN r.t : r.t[i].position = p /\ r.t[i].type = type}
      pick(p) == CHOOSE i \in IF at(p, "functor") # {} THEN at(p, "functor")
                              ELSE IF at(p, "assign") # {} THEN at(p, "assign") ELSE at(p, "select") : TRUE
      gap == CHOOSE n \in 0..Len(r.t) : n \notin Positions(r) /\ 0..(n - 1) \subseteq Positions(r)
  IN [k \in 1..gap |-> pick(k - 1)]
debugRule(r) == ruleTerms(r)

-----------------------------------------------------------------------------
(* The programs pass through the stages one after the other.  A stage that *)
(* throws drops the program, but not the tables it has made; an exception  *)
(* of the table manager is caught by no stage and ends the node.           *)

VARIABLES
  source,       \* the programs and the stages
  stage,        \* the stage the program is at
  tables, refs, \* TABLE and REF
  ruleTbl,      \* the program's rules in the catalogue
  shown,        \* the terms of each rule that the debug stage lists
  statements,   \* the parser holds on to a program
  outcomes      \* how each program ended

svars == <<source, stage, tables, refs, ruleTbl, shown, statements, outcomes>>

Program == source.programs[Len(outcomes) + 1]
Alive == Len(outcomes) < Len(source.programs) /\ Range(outcomes) \cap {"aborted", "escaped"} = {}
AtStage(name) == Alive /\ source.stages[stage] = name
Finish(end) == outcomes' = Append(outcomes, end) /\ stage' = 1 /\ ruleTbl' = <<>> /\ shown' = <<>>
simple_action(name, result) ==
  /\ AtStage(name)
  /\ tables' = result.tables
  /\ IF result.end # "" THEN Finish(result.end)
     ELSE stage' = stage + 1 /\ ruleTbl' = result.rules /\ UNCHANGED <<shown, outcomes>>
  /\ UNCHANGED <<source, refs, statements>>

StagesInit ==
  /\ source \in Texts
  /\ stage = 1 /\ tables = [n \in {} |-> <<>>] /\ refs = {} /\ ruleTbl = <<>> /\ shown = <<>>
  /\ statements = FALSE /\ outcomes = <<>>

Canonical(p) == [i \in 1..Len(p.rules) |-> canonicalizeAttributes(p.rules[i])]
Declared(p) == [i \in 1..Len(p.tables) |-> TableName(p.tables[i])]
Creates(p) == [n \in Range(Declared(p)) |-> TableKeys(p.tables[SelectInSeq(Declared(p), LAMBDA m : m = n)])]
Parse ==
  LET twice == ~IsInjective(Declared(Program)) \/ Range(Declared(Program)) \cap DOMAIN tables # {}
      all == Creates(Program) @@ tables
      rs == Canonical(Program)
      misuse == \E i \in 1..Len(rs) : \/ MisusesNotin(all, rs[i].head, 0)
                                      \/ \E j \in DOMAIN rs[i].body : MisusesNotin(all, rs[i].body[j], j)
  IN /\ AtStage("parse")
     /\ \/ statements /\ Finish("aborted") /\ UNCHANGED <<tables, refs, statements>>
        \/ ~statements /\ twice /\ Finish("escaped") /\ statements' = TRUE /\ UNCHANGED <<tables, refs>>
        \/ ~statements /\ ~twice /\ misuse /\ Finish("error") /\ statements' = TRUE
           /\ tables' = all /\ refs' = refs \cup Program.refs
        \/ ~statements /\ ~twice /\ ~misuse /\ stage' = stage + 1
           /\ tables' = all /\ refs' = refs \cup Program.refs
           /\ ruleTbl' = [i \in 1..Len(rs) |-> materialize(all, rs[i], i)]
           /\ UNCHANGED <<shown, statements, outcomes>>
     /\ UNCHANGED source
Secure == simple_action("secure", secure(tables, refs, ruleTbl))
Rewrite0 == simple_action("rewrite0", rewrite0(tables, ruleTbl))
Rewrite1 == simple_action("rewrite1", rewrite1(tables, ruleTbl))
Rewrite2 == simple_action("rewrite2", rewrite2(tables, ruleTbl))
Eca == simple_action("eca", eca(tables, ruleTbl))
Debug ==
  /\ AtStage("debug") /\ stage' = stage + 1
  /\ shown' = [i \in 1..Len(ruleTbl) |-> debugRule(ruleTbl[i])]
  /\ UNCHANGED <<source, tables, refs, ruleTbl, statements, outcomes>>
Planner ==
  /\ AtStage("planner") /\ Finish("planned") /\ UNCHANGED <<source, tables, refs, statements>>

StagesNext == Parse \/ Secure \/ Rewrite0 \/ Rewrite1 \/ Rewrite2 \/ Eca \/ Debug \/ Planner

-----------------------------------------------------------------------------
EventChosen == \E i \in 1..(stage - 1) : source.stages[i] = "eca"
Filled(r) == Len(r.t) = r.count /\ Positions(r) = 0..(r.count - 1) /\ r.t[r.head].position = 0
\* The plan starts with the head and the event, the only term it is not to
\* probe for, and keeps the other terms of the program in their order.
InOrder(r) ==
  LET plan == ruleTerms(r)
      rest == SelectSeq(SubSeq(plan, 3, Len(plan)), LAMBDA i : r.t[i].src > 0)
      event == r.t[plan[2]]
  IN /\ Range(plan) = DOMAIN r.t
     /\ IsFunctor(event) /\ event.eca # "PROBE"
     /\ \A k \in 3..Len(plan) : IsFunctor(r.t[plan[k]]) => r.t[plan[k]].eca = "PROBE"
     /\ {r.t[i].src : i \in Range(rest)} \cup ({event.src} \ {0}) = 1..r.n
     /\ \A j, k \in 1..Len(rest) : j < k => r.t[rest[j]].src < r.t[rest[k]].src

(* A term of a rule is found only by its position, and RULE.TERM_COUNT is  *)
(* updated apart from the rows (rewrite0Context.C 143-167, rewrite1Context *)
(* .C 96-117, secureContext.C 293-437, ecaContext.C 124-190).  After each  *)
(* stage the terms of each rule fill the positions up to its TERM_COUNT,   *)
(* one each, and once the event is chosen the plan and the listing have    *)
(* every term, in the order of the program but for the event.              *)
WholeRules ==
  /\ \A r \in Range(ruleTbl) : Filled(r)
  /\ EventChosen => \A r \in Range(ruleTbl) : InOrder(r)
  /\ \A i \in 1..Len(shown) : Range(shown[i]) = DOMAIN ruleTbl[i].t

\* Each variable is bound before it is read: terms in the order given, and
\* the head last, whose new locations after its first field are made for it.
Evaluable(terms, head) ==
  LET binds(f) == IF IsFunctor(f) THEN IF f.notin THEN {} ELSE Vars(f.attributes \o f.wrapper \o f.says) ELSE {f.var}
      bound(k) == UNION {binds(terms[j]) : j \in 1..(k - 1)}
  IN /\ \A k \in 1..Len(terms) : terms[k].uses \subseteq bound(k)
     /\ Vars(<<head.attributes[1]>> \o SelectSeq(Tail(head.attributes), LAMBDA a : a.k # "NEWLOC") \o head.wrapper \o head.says)
          \subseteq bound(Len(terms) + 1)
EventFirst(tbls, body) ==
  LET functors == SelectSeq([i \in 1..Len(body) |-> i], LAMBDA i : IsFunctor(body[i]))
      events == SelectSeq(functors, LAMBDA i : body[i].new \/ body[i].name \o (IF body[i].says = <<>> THEN <<>> ELSE <<saysSuffix>>)
                                                                \notin DOMAIN tbls)
      e == IF events = <<>> THEN functors[1] ELSE events[1]
  IN <<body[e]>> \o RemoveAt(body, e)
Planned(r) == LET plan == ruleTerms(r) IN [k \in 1..(Len(plan) - 1) |-> r.t[plan[k + 1]]]
\* Names that no program wrote.
Written == UNION {{f.name : f \in {x \in {r.head} \cup Range(r.body) : IsFunctor(x)}} : r \in Range(Program.rules)}
Heads == {r.t[r.head] : r \in Range(ruleTbl)}
Bodies == UNION {{r.t[i] : i \in Range(Body(r))} : r \in Range(ruleTbl)}
LeftOpen(r) == \/ r.t[r.head].name = <<"dummy">> \/ Last(r.t[r.head].name) = "makeSays"
               \/ r.source = 0 /\ \E p \in 1..9 : Last(r.t[r.head].name) = At(p)
KeysFollow(f, o) ==
  LET declared == Program.tables[SelectInSeq(Declared(Program), LAMBDA n : n = f.name)]
  IN {f.attributes[k] : k \in Range(tables[f.name])} \ {Var(v) : v \in {proofOf(i) : i \in 1..9}}
       = {o.attributes[k] : k \in Range(declared.keys)} \cup Range(o.says)

(* The stages name events and variables for one another: what one makes up *)
(* another, or the next rule, must find (secureContext.C 529-953, rewrite0 *)
(* Context.C 195-211, rewrite1Context.C 132-1025, parseContext.C 825-925,  *)
(* 1200-1231).  When the planner gets the rules, a rule that could be      *)
(* evaluated as written still can, with each variable bound before it is   *)
(* read; a term taken for a table is one; an event or table that a stage   *)
(* made up has one arity, and what is sent under such a name some rule     *)
(* reads; and the key of a table read through a says still stands for the  *)
(* same terms.                                                             *)
RulesConnect ==
  AtStage("planner") =>
    /\ \A r \in Range(ruleTbl) :
         LET s == Canonical(Program)[r.source]
             written == r.source # 0 => Evaluable(EventFirst(tables, s.body), s.head)
         IN written /\ ~r.broken => Evaluable(Planned(r), r.t[r.head])
    /\ \A f \in Heads \cup Bodies : f.tid => f.name \in DOMAIN tables
    /\ \A h \in Heads, b \in Bodies : h.name = b.name /\ h.name \notin Written => Len(h.attributes) = Len(b.attributes)
    /\ \A r \in Range(ruleTbl) : LET h == r.t[r.head] IN
         h.name \notin Written /\ ~h.tid /\ ~LeftOpen(r) => \E b \in Bodies : b.name = h.name
    /\ \A r \in Range(ruleTbl) : \A i \in Range(Body(r)) :
         LET f == r.t[i] IN
         f.src > 0 /\ f.tid /\ f.name \in Range(Declared(Program)) /\ Last(f.name) = saysSuffix
           => KeysFollow(f, Program.rules[r.source].body[f.src])

(* The parser takes a program only when it holds none:                     *)
(* "assert(_statements == NULL || !parserCall)" (parseContext.C:1418).     *)
StatementsFree == AtStage("parse") => ~statements
=============================================================================
