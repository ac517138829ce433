----------------------------- MODULE EcaPlanner -----------------------------
(***************************************************************************)
(* The older compiler (src/overlog, src/planner, src/p2cpp/p2.C), from the *)
(* rules of a program to the strands of its dataflow, and the dataflows of *)
(* several nodes at work on the tables and the messages between them:      *)
(*                                                                         *)
(*   OL_Context::rule -> Localize_Context -> ECA_Context -> compileECARule *)
(*                                                                         *)
(* A functor is [k |-> "functor", name, args, loc]; its arguments are      *)
(* Var(x), Val(v) and Agg(x, op), and loc is the variable of its location. *)
(* A row is a tuple's name followed by its fields, so that field number i  *)
(* of the code is row[i + 1].                                              *)
(***************************************************************************)
EXTENDS Integers, Sequences, FiniteSets, Bags, SequencesExt, FiniteSetsExt, TLC

CONSTANTS
  Nodes,       \* addresses
  Programs,    \* [rules, infos, watches, facts, events, settled, most]: most bounds the events
  MaxTicks     \* bound on the tuples of a periodic without a count

NO_EXPIRATION == 1000
NO_SIZE == 0

Var(x) == <<"var", x>>
Val(v) == <<"val", v>>
Agg(x, op) == <<"agg", x, op>>
DONT_CARE == "*"
Functor(name, args, loc) == [k |-> "functor", name |-> name, args |-> args, loc |-> loc]
Select(l, r) == [k |-> "select", l |-> l, r |-> r]       \* l != r
Assign(x, a) == [k |-> "assign", x |-> x, a |-> a]       \* x := a
TableInfo(timeout, size, keys) == [timeout |-> timeout, size |-> size, keys |-> keys]

IsFunctor(t) == t.k = "functor"
materialized(infos, f) == f.name \in DOMAIN infos
aggregate(f) == SelectInSeq(f.args, LAMBDA a : a[1] = "agg")
Indices(s) == [i \in 1..Len(s) |-> i]
AppendNew(s, r) == IF \E i \in 1..Len(s) : s[i] = r THEN s ELSE Append(s, r)

-----------------------------------------------------------------------------
(* planContext.C, FieldNamesTracker.  Position 0 is the code's -1, and a   *)
(* name's position is the number of its field.                             *)

initialize(f) ==
  LET vars_ == SelectSeq(f.args, LAMBDA a : a[1] = "var") IN [i \in 1..Len(vars_) |-> vars_[i][2]]
fieldPosition(names, x) == SelectInSeq(names, LAMBDA y : y = x)
mergeWith(names, more) ==
  FoldLeft(LAMBDA acc, x : IF fieldPosition(acc, x) = 0 THEN Append(acc, x) ELSE acc, names, more)
joinKeys(mine, probe) ==
  LET in == SelectSeq(Indices(mine), LAMBDA i : fieldPosition(probe, mine[i]) # 0)
  IN [lookupKey |-> [k \in 1..Len(in) |-> fieldPosition(probe, mine[in[k]])],
      indexKey |-> in,
      remaining |-> SelectSeq(Indices(mine), LAMBDA i : fieldPosition(probe, mine[i]) = 0)]

-----------------------------------------------------------------------------
(* ol_context.C: a literal or a repeated variable of the head becomes a    *)
(* variable of its own, with an assignment in front of the body.           *)

rule(r) ==
  LET args == r.head.args
      odd(i) == args[i][1] = "val" \/ (args[i][1] = "var" /\ \E j \in 1..(i - 1) : args[j] = args[i])
      odds == SelectSeq(Indices(args), odd)
      fresh(i) == "$" \o ToString(SelectInSeq(odds, LAMBDA j : j = i))
  IN [r EXCEPT !.head.args = [i \in 1..Len(args) |-> IF odd(i) THEN Var(fresh(i)) ELSE args[i]],
               !.terms = [k \in 1..Len(odds) |-> Assign(fresh(odds[k]), args[odds[k]])] \o @]

-----------------------------------------------------------------------------
(* localize_context.C: the body up to the first change of location is sent *)
(* there as one tuple, which stands for it in the rest of the rule.        *)

\* Events go first, each in front of the ones before it.
ProbeTerms(r, infos) ==
  FoldLeft(LAMBDA acc, t : IF materialized(infos, t) THEN Append(acc, t) ELSE <<t>> \o acc,
           <<>>, SelectSeq(r.terms, IsFunctor))
OtherTerms(r) == SelectSeq(r.terms, LAMBDA t : ~IsFunctor(t))
Compiled(ok, rules, infos) == [ok |-> ok, rules |-> rules, infos |-> infos]

addSendRule(r, before, loc, infos) ==
  LET names == FoldLeft(LAMBDA acc, f : mergeWith(acc, initialize(f)), initialize(before[1]), Tail(before))
      sent == Functor(FoldLeft(LAMBDA acc, f : acc \o f.name, r.id, before) \o loc,
                      [i \in 1..Len(names) |-> Var(names[i])], loc)
      lifetime == IF \E i \in 1..Len(before) : ~materialized(infos, before[i]) THEN 0
                  ELSE Min({infos[before[i].name].timeout : i \in 1..Len(before)})
      info == IF materialized(infos, before[1]) /\ lifetime # 0
              THEN sent.name :> [infos[before[1].name] EXCEPT !.timeout = lifetime] ELSE << >>
  IN Compiled(fieldPosition(names, loc) # 0,
              <<[id |-> r.id \o "Local1", head |-> sent, delete |-> FALSE, terms |-> before]>>,
              infos @@ info)

\* What a body before the boundary was replaced by is a rule of its own, without deleteFlag.
Rest(r, sent, after) ==
  [id |-> r.id \o "Local2", head |-> r.head, delete |-> FALSE,
   terms |-> <<sent>> \o after \o OtherTerms(r)]

RECURSIVE rewriteRule(_, _)
Joint(s, l) == Compiled(l.ok, s.rules \o l.rules, l.infos)
Split(r, s, after) ==
  IF s.ok THEN Joint(s, rewriteRule(Rest(r, s.rules[1].head, after), s.infos)) ELSE Compiled(FALSE, <<>>, s.infos)
rewriteRule(r, infos) ==
  LET ps == ProbeTerms(r, infos)
      boundary == SelectInSeq([k \in 1..(Len(ps) - 1) |-> ps[k].loc # ps[k + 1].loc], LAMBDA b : b)
      stored == {i \in 1..Len(ps) : materialized(infos, ps[i])}
      streaming == /\ stored # 1..Len(ps) /\ aggregate(r.head) # 0
                   /\ Cardinality({ps[i].loc : i \in stored}) > 1
  IN IF boundary = 0 THEN Compiled(TRUE, <<r>>, infos)
     ELSE IF streaming THEN Compiled(FALSE, <<>>, infos)
     ELSE Split(r, addSendRule(r, SubSeq(ps, 1, boundary), ps[boundary + 1].loc, infos), SubSeq(ps, boundary + 1, Len(ps)))

localize(rules, infos) ==
  LET more(acc, l) == Compiled(acc.ok /\ l.ok, FoldLeft(AppendNew, acc.rules, l.rules), l.infos)
  IN FoldLeft(LAMBDA acc, r : more(acc, rewriteRule(r, acc.infos)), Compiled(TRUE, <<>>, infos), rules)

-----------------------------------------------------------------------------
(* eca_context.C: a localized rule as rules with one event and one action. *)

When(p, e) == IF p THEN <<e>> ELSE <<>>
Event(kind, f) == [kind |-> kind, pf |-> f]
Action(kind, f) == [kind |-> kind, pf |-> f]
Eca(id, event, action) ==
  [id |-> id, event |-> event, action |-> action, probeTerms |-> <<>>, others |-> <<>>, aggWrap |-> FALSE]

\* add_rule: a rule that reads like an earlier one is left out.
SameText(r, s) == [r EXCEPT !.id = ""] = [s EXCEPT !.id = ""]
add_rule(rules, r) == IF \E i \in 1..Len(rules) : SameText(rules[i], r) THEN rules ELSE Append(rules, r)

Store(r) == IF r.delete THEN "DELETE" ELSE "ADD"
SendFunctor(r) == [r.head EXCEPT !.name = r.id \o r.head.name \o "send"]
DeleteFunctor(r) == [r.head EXCEPT !.name = r.head.name \o "delete"]
IsLocal(r, loc) == r.head.loc # "" /\ r.head.loc = loc

\* The action of a rule, and the rule of the node that stores its head.
generateActionHead(r, bodyLoc, infos) ==
  CASE ~materialized(infos, r.head) -> [action |-> Action("SEND", r.head), more |-> <<>>]
    [] materialized(infos, r.head) /\ IsLocal(r, bodyLoc) ->
         [action |-> Action(Store(r), r.head), more |-> <<>>]
    [] OTHER ->
         [action |-> Action("SEND", SendFunctor(r)),
          more |-> <<Eca(r.id \o "ECAMat", Event("RECV", SendFunctor(r)), Action(Store(r), r.head))>>]

\* A periodic sends its node and event number to the rest of the rule.
rewriteEventRule(r, infos) ==
  LET fs == SelectSeq(r.terms, IsFunctor)
      event == SelectSeq(fs, LAMBDA f : ~materialized(infos, f))[1]
      id == r.id \o "_eca"
      ticks == Functor(id \o "periodic", SubSeq(event.args, 1, 2), event.loc)
      periodic == event.name = "periodic"
      head == generateActionHead(r, Last(fs).loc, infos)
  IN (IF periodic THEN <<Eca(id \o "periodic", Event("INSERT", event), Action("SEND", ticks))>> ELSE <<>>)
     \o head.more
     \o <<[Eca(id, Event("RECV", IF periodic THEN ticks ELSE event), head.action)
             EXCEPT !.probeTerms = SelectSeq(fs, LAMBDA f : materialized(infos, f)),
                    !.others = OtherTerms(r), !.aggWrap = aggregate(r.head) # 0]>>

SoftState_Always(infos, f) == TRUE
SoftState(infos, f) == ~materialized(infos, f) \/ infos[f.name].timeout # NO_EXPIRATION

\* The rules for the changes of one table of a view.
DeltaRules(r, c, infos, softRule) ==
  LET f == r.terms[c]
      stored == materialized(infos, r.head)
      remote == stored /\ ~IsLocal(r, f.loc)
      add == IF ~stored THEN Action("SEND", r.head)
             ELSE IF remote THEN Action("SEND", SendFunctor(r)) ELSE Action("ADD", r.head)
      drop == IF stored /\ ~remote THEN Action("DELETE", r.head) ELSE Action("SEND", DeleteFunctor(r))
      id(kind) == r.id \o "Eca" \o ToString(c - 1) \o kind
      delta(kind, event, action) ==
        [Eca(id(kind), Event(event, f), action)
           EXCEPT !.probeTerms = SelectSeq(RemoveAt(r.terms, c), IsFunctor), !.others = OtherTerms(r)]
  IN When(remote, Eca(id("RemoteIns"), Event("RECV", SendFunctor(r)), Action("ADD", r.head)))
     \o When(remote /\ SoftState(infos, f),
             Eca(id("RemoteRef"), Event("RECV", SendFunctor(r)), Action("ADD", r.head)))
     \o When(remote /\ ~softRule,
             Eca(id("RemoteDel"), Event("RECV", DeleteFunctor(r)), Action("DELETE", r.head)))
     \o <<delta("Ins", "INSERT", add)>>
     \o When(SoftState(infos, f), delta("Ref", "REFRESH", add))
     \o When(~softRule, delta("Del", "DELETE", drop))

rewriteViewRule(r, infos) ==
  LET at == SelectSeq(Indices(r.terms), LAMBDA i : IsFunctor(r.terms[i]))
      softRule == \/ SoftState(infos, r.head)
                  \/ \E k \in 1..Len(at) : SoftState(infos, r.terms[at[k]])
  IN FlattenSeq([k \in 1..Len(at) |-> DeltaRules(r, at[k], infos, softRule)])

\* "Currently only support simple table view aggregates"
rewriteAggregateView(r, infos) ==
  LET f == r.terms[1]
      head == generateActionHead(r, f.loc, infos)
  IN head.more \o <<Eca(r.id \o "eca", Event("INSERT", f), head.action)>>

CountEvents(r, infos) == Len(SelectSeq(r.terms, LAMBDA t : IsFunctor(t) /\ ~materialized(infos, t)))
Rewritten(r, infos) ==
  CASE CountEvents(r, infos) = 1 -> rewriteEventRule(r, infos)
    [] CountEvents(r, infos) = 0 /\ aggregate(r.head) # 0 -> rewriteAggregateView(r, infos)
    [] OTHER -> rewriteViewRule(r, infos)
Refused(r, infos) ==
  \/ CountEvents(r, infos) > 1
  \/ /\ CountEvents(r, infos) = 0 /\ aggregate(r.head) # 0
     /\ Len(r.terms) # 1 \/ ~IsFunctor(r.terms[1])

\* A rule that drops what is watched and triggers no other rule.
Watched(mods, letter) == mods = {} \/ letter \in mods
Stub(name, kind) ==
  LET f == Functor(name, <<Var("A")>>, "A")
  IN Eca(name \o kind \o "watchStub", Event(kind, f), Action("DROP", f))
WatchStubs(rules, infos, watches) ==
  LET names == SetToSeq(DOMAIN watches)
      received(acc, w) ==
        IF /\ Watched(watches[w], "c")
           /\ ~\E i \in 1..Len(acc) : acc[i].event.kind = "RECV" /\ acc[i].event.pf.name = w
        THEN add_rule(acc, Stub(w, "RECV")) ELSE acc
      changed(acc, w) ==
        IF w \notin DOMAIN infos THEN acc
        ELSE FoldLeft(LAMBDA a, m : IF Watched(watches[w], m[1]) THEN add_rule(a, Stub(w, m[2])) ELSE a,
                      acc, <<<<"i", "INSERT">>, <<"d", "DELETE">>, <<"r", "REFRESH">>>>)
  IN FoldLeft(changed, FoldLeft(received, rules, names), names)

rewrite(l, watches) ==
  LET all == FlattenSeq([i \in 1..Len(l.rules) |-> Rewritten(l.rules[i], l.infos)])
      ok == l.ok /\ ~\E i \in 1..Len(l.rules) : Refused(l.rules[i], l.infos)
  IN IF ok THEN Compiled(TRUE, WatchStubs(FoldLeft(add_rule, <<>>, all), l.infos, watches), l.infos)
     ELSE Compiled(FALSE, <<>>, l.infos)

-----------------------------------------------------------------------------
(* rulePlanner.C: the chain of elements of an ECA rule.  Print elements    *)
(* pass every tuple on and are left out.                                   *)

El(kind, x) == [el |-> kind, x |-> x]
Plan(chain, names, ok) == [chain |-> chain, names |-> names, ok |-> ok]
TimedPullPush == El("TimedPullPush", <<>>)
Extend(p, chain) == [p EXCEPT !.chain = @ \o chain]

\* The source of an aggregate view names its group's fields and its value.
generateAggEvent(r) ==
  LET names == initialize(r.event.pf)
      head == r.action.pf.args
      groups == SelectSeq(Indices(head), LAMBDA k : head[k][1] = "var")
      agg == head[aggregate(r.action.pf)]
  IN Plan(<<El("Aggregate", [table |-> r.event.pf.name, op |-> agg[3],
                             field |-> fieldPosition(names, agg[2]),
                             groupBy |-> [k \in 1..Len(groups) |-> fieldPosition(names, head[groups[k]][2])]])>>,
          [k \in 1..Len(groups) |-> head[groups[k]][2]] \o <<agg[2]>>, TRUE)

generatePeriodicEvent(r) ==
  LET args == r.event.pf.args
  IN Plan(<<El("StaticTupleSource", <<>>),
            El("TimedPullPush", IF Len(args) > 3 THEN args[4][2] ELSE 0)>> \o When(r.probeTerms = <<>>, El("Slot", <<>>)),
          initialize(r.event.pf), Len(args) >= 3)

generateTableEvent(r, element) ==
  Plan(<<El(element, r.event.pf.name)>> \o When(r.probeTerms # <<>>, TimedPullPush), initialize(r.event.pf), TRUE)
generateReceiveEvent(r) ==
  Plan(When(r.probeTerms = <<>>, El("Queue", <<>>)), initialize(r.event.pf), TRUE)

generateEventElement(r) ==
  CASE r.event.kind = "REFRESH" -> generateTableEvent(r, "Refresh")
    [] r.event.kind = "DELETE" -> generateTableEvent(r, "Removed")
    [] r.event.kind = "RECV" -> generateReceiveEvent(r)
    [] r.event.kind = "INSERT" /\ aggregate(r.action.pf) # 0 -> generateAggEvent(r)
    [] r.event.kind = "INSERT" /\ aggregate(r.action.pf) = 0 /\ r.event.pf.name = "periodic" -> generatePeriodicEvent(r)
    [] OTHER -> generateTableEvent(r, "Update")

\* The join keeps the fields of the probe and takes the fields that are no key.
generateProbeElements(p, f) ==
  LET keys == joinKeys(initialize(f), p.names)
  IN Plan(p.chain \o <<El("Lookup2", [table |-> f.name, lookupKey |-> keys.lookupKey, indexKey |-> keys.indexKey]),
                       El("NoNull", <<>>),
                       El("Join", [keep |-> Len(p.names), take |-> keys.remaining])>>,
          mergeWith(p.names, initialize(f)), p.ok /\ keys.indexKey # <<>>)

generateMultipleProbeElements(p, fs) ==
  FoldLeft(LAMBDA acc, k : LET q == generateProbeElements(acc, fs[k])
                           IN IF k # Len(fs) THEN Extend(q, <<TimedPullPush>>) ELSE q, p, Indices(fs))

\* pelSelect and pelAssign, for comparisons of variables and new variables.
Operand(names, a) == IF a[1] = "var" THEN <<"field", fieldPosition(names, a[2])>> ELSE a
generateSelectionAssignmentElements(p, others) ==
  FoldLeft(LAMBDA acc, t :
             IF t.k = "select"
             THEN Extend(acc, <<El("Select", <<Operand(acc.names, t.l), Operand(acc.names, t.r)>>)>>)
             ELSE [Extend(acc, <<El("Assign", Operand(acc.names, t.a))>>) EXCEPT !.names = Append(@, t.x)],
           p, others)

generateProjectElements(p, f) ==
  LET kept == SelectSeq(f.args, LAMBDA a : a[1] = "var" \/ (a[1] = "agg" /\ fieldPosition(p.names, a[2]) # 0))
      at == [k \in 1..Len(kept) |-> fieldPosition(p.names, kept[k][2])]
  IN Plan(Append(p.chain, El("Project", <<f.name, at>>)), [k \in 1..Len(kept) |-> kept[k][2]],
          p.ok /\ \A k \in 1..Len(at) : at[k] # 0)

\* RuleStrand::aggWrapperElement: the end of the chain is pushed into the
\* aggregate, whose result waits in a slot.
generateAggWrap(p, r) ==
  LET f == r.action.pf
      names == initialize(r.event.pf)
      at == aggregate(f)
      outer == [k \in 1..Len(f.args) |-> IF k = at THEN 0 ELSE fieldPosition(names, f.args[k][2])]
  IN IF ~r.aggWrap THEN p
     ELSE [Extend(p, <<TimedPullPush,
                       El("AggWrap", [name |-> f.name, field |-> at, star |-> f.args[at][2] = DONT_CARE,
                                      op |-> f.args[at][3], outer |-> outer]),
                       El("Slot", <<>>)>>)
             EXCEPT !.ok = @ /\ \A k \in DOMAIN outer : k = at \/ outer[k] # 0]

generateAddAction(p, f) == Extend(p, <<TimedPullPush, El("Insert", f.name), El("Discard", <<>>)>>)
generateDeleteAction(p, f) == Extend(p, <<TimedPullPush, El("Delete", f.name)>>)
generateDropAction(p) == Extend(p, <<TimedPullPush, El("Discard", <<>>)>>)
\* The address is the last argument that is the location's variable.
generateSendAction(p, f) ==
  LET at == {k \in 1..Len(f.args) : f.args[k][1] # "val" /\ f.args[k][2] = f.loc}
  IN [Extend(p, <<El("Send", IF at = {} THEN 0 ELSE Max(at))>>) EXCEPT !.ok = @ /\ at # {}]
generateActionElement(p, r) ==
  CASE r.action.kind = "ADD" -> generateAddAction(p, r.action.pf)
    [] r.action.kind = "DELETE" -> generateDeleteAction(p, r.action.pf)
    [] r.action.kind = "SEND" -> generateSendAction(p, r.action.pf)
    [] r.action.kind = "DROP" -> generateDropAction(p)

Strand(r, p) == [rule |-> r, chain |-> p.chain, ok |-> p.ok]
compileECARule(r) ==
  LET headed(joined) ==
        generateProjectElements(generateSelectionAssignmentElements(joined, r.others), r.action.pf)
  IN Strand(r, generateActionElement(
       generateAggWrap(headed(generateMultipleProbeElements(generateEventElement(r), r.probeTerms)), r), r))

\* Planner::generateStageStrand: a slot, the stage, its output's name, its address.
generateStageStrand == <<El("Slot", <<>>), El("Stage", <<>>), El("Project", <<>>), El("Send", 1)>>

Dataflow(e, strands) ==
  [ok |-> e.ok /\ \A i \in 1..Len(strands) : strands[i].ok, strands |-> strands, infos |-> e.infos]
compileECARules(e) == Dataflow(e, [i \in 1..Len(e.rules) |-> compileECARule(e.rules[i])])
createDataflow(p) ==
  compileECARules(rewrite(localize([i \in 1..Len(p.rules) |-> rule(p.rules[i])], p.infos), p.watches))

-----------------------------------------------------------------------------
(* The installed dataflows.  A tuple rests in a source, a queue, a slot, a *)
(* lookup or an aggregate; a TimedPullPush, or the sender of the node,     *)
(* moves it from one resting place to the next.                            *)

Sources == {"Update", "Refresh", "Removed", "Aggregate", "StaticTupleSource"}
Holders == Sources \cup {"Queue", "Slot", "Lookup2", "AggWrap"}
Personality(el) ==
  CASE el \in Sources -> <<"none", "pull">>
    [] el = "TimedPullPush" -> <<"pull", "push">>
    [] el \in {"Queue", "Slot", "Lookup2"} -> <<"push", "pull">>
    [] el \in {"Discard", "Delete"} -> <<"push", "none">>
    [] el = "AggWrap" -> <<"push", "push">>
    [] el = "Stage" -> <<"pull", "pull">>
    [] OTHER -> <<"agnostic", "agnostic">>

VARIABLES
  prog,   \* index of the program all nodes run
  plan,   \* its dataflow, compiled before a node starts
  db,     \* node -> table -> row -> number of references
  held,   \* node -> strand -> element -> [q, t, open]
  dead,   \* <<n, s, i>>: a TimedPullPush whose last call ended in an exception
  left,   \* <<n, s, i>> -> calls left of a periodic
  net,    \* bag of <<destination, row>>
  heard,  \* every <<node, row>> that was delivered
  missed, \* some lookup had no result, or an aggregate found its slot full
  raised  \* number of events injected
pvars == <<prog, plan, db, held, dead, left, net, heard, missed, raised>>

Strands == DOMAIN plan.strands
Chain(s) == plan.strands[s].chain
Rule(s) == plan.strands[s].rule
Field(row, k) == row[k + 1]

Nothing == [q |-> <<>>, t |-> <<>>, open |-> FALSE]
Before(s, i) == Max({j \in 1..(i - 1) : Chain(s)[j].el \in Holders})
After(s, i) == {j \in (i + 1)..Len(Chain(s)) : Personality(Chain(s)[j].el)[1] = "push"}
Movers(s) ==
  {i \in 1..Len(Chain(s)) : Chain(s)[i].el = "TimedPullPush"}
  \cup (IF Rule(s).action.kind = "SEND" THEN {Len(Chain(s)) + 1} ELSE {})

\* What a pull passes through: [on, t], or [throws] from a field that is not there.
Pass(t) == [on |-> TRUE, t |-> t, throws |-> FALSE]
Drop == [on |-> FALSE, t |-> <<>>, throws |-> FALSE]
Throw == [on |-> FALSE, t |-> <<>>, throws |-> TRUE]
Value(t, a) == IF a[1] = "field" THEN Field(t, a[2]) ELSE a[2]
Through(e, t) ==
  CASE e.el = "Join" ->
         IF t[2] = <<>> /\ e.x.take # <<>> THEN Throw
         ELSE Pass(SubSeq(t[1], 1, e.x.keep + 1) \o [k \in 1..Len(e.x.take) |-> Field(t[2], e.x.take[k])])
    [] e.el = "Select" -> IF Value(t, e.x[1]) # Value(t, e.x[2]) THEN Pass(t) ELSE Drop
    [] e.el = "Assign" -> Pass(Append(t, Value(t, e.x)))
    [] e.el = "Project" -> Pass(<<e.x[1]>> \o [k \in 1..Len(e.x[2]) |-> Field(t, e.x[2][k])])
    [] OTHER -> Pass(t)
PassThrough(s, i, j, t) ==
  FoldLeft(LAMBDA acc, e : IF acc.on THEN Through(e, acc.t) ELSE acc, Pass(t), SubSeq(Chain(s), i + 1, j - 1))

\* Lookup2::pull, after a tuple was accepted: the first call takes the
\* iterator; a search without a result gives the tuple with an empty one.
Matches(n, e, t) ==
  {r \in DOMAIN db[n][e.x.table] :
     \A k \in 1..Len(e.x.indexKey) : Field(r, e.x.indexKey[k]) = Field(t, e.x.lookupKey[k])}
LookupPull(n, e, h) ==
  LET found == IF h.open THEN h.q ELSE SetToSeq(Matches(n, e, h.t))
  IN CASE found # <<>> -> [h |-> [h EXCEPT !.open = TRUE, !.q = Tail(found)], t |-> <<h.t, Head(found)>>]
       [] found = <<>> /\ ~h.open -> [h |-> [h EXCEPT !.open = TRUE], t |-> <<h.t, <<>> >>]
       [] OTHER -> [h |-> Nothing, t |-> <<>>]
Tick(n) == <<"periodic", n, 0>>
HolderPull(n, e, h) ==
  CASE e.el = "StaticTupleSource" -> [h |-> h, t |-> Tick(n)]
    [] e.el = "Lookup2" /\ h.t # <<>> -> LookupPull(n, e, h)
    [] e.el # "Lookup2" /\ h.q # <<>> -> [h |-> [h EXCEPT !.q = Tail(@)], t |-> Head(h.q)]
    [] OTHER -> [h |-> h, t |-> <<>>]

\* Element::pull tries again while the elements on the way drop what they get.
RECURSIVE Pull(_, _, _, _)
Pull(n, s, i, h) ==
  LET b == Before(s, i)
      tried(one, out) ==
        IF one.t = <<>> THEN [h |-> one.h, t |-> <<>>, throws |-> FALSE]
        ELSE IF out.on \/ out.throws THEN [h |-> one.h, t |-> out.t, throws |-> out.throws]
        ELSE Pull(n, s, i, one.h)
      from(one) == tried(one, PassThrough(s, b, i, one.t))
  IN from(HolderPull(n, Chain(s)[b], h))

-----------------------------------------------------------------------------
(* Tables, and the sources that listen to them.                            *)

KeyOf(table, row) == [k \in 1..Len(plan.infos[table].keys) |-> Field(row, plan.infos[table].keys[k])]
\* TableStore::createTable makes a RefTable of a table without lifetime and size.
Counted(table) == plan.infos[table].timeout = NO_EXPIRATION /\ plan.infos[table].size = NO_SIZE
Same(n, table, row) == {r \in DOMAIN db[n][table] : KeyOf(table, r) = KeyOf(table, row)}
Without(f, S) == [x \in DOMAIN f \ S |-> f[x]]

Inserted(n, table, row) ==
  LET rows == db[n][table]
      old == Same(n, table, row)
  IN IF row \in old
     THEN [rows |-> IF Counted(table) THEN [rows EXCEPT ![row] = @ + 1] ELSE rows,
           events |-> When(~Counted(table), <<"Refresh", row>>)]
     ELSE [rows |-> (row :> 1) @@ Without(rows, old),
           events |-> Append([k \in 1..Cardinality(old) |-> <<"Removed", SetToSeq(old)[k]>>], <<"Update", row>>)]
Deleted(n, table, row) ==
  LET rows == db[n][table]
      old == Same(n, table, row)
  IN IF old = {} \/ \E r \in old : rows[r] > 1
     THEN [rows |-> [r \in DOMAIN rows |-> IF r \in old THEN rows[r] - 1 ELSE rows[r]], events |-> <<>>]
     ELSE [rows |-> Without(rows, old), events |-> <<<<"Removed", CHOOSE r \in old : TRUE>>>>]

NULL == -1
Total(op, S) == CASE op = "count" -> Cardinality(S)
                  [] op # "count" /\ S = {} -> NULL
                  [] op = "max" /\ S # {} -> Max({x[2] : x \in S})
                  [] OTHER -> Min({x[2] : x \in S})
\* The result of a group of an aggregate over a set of rows.
AggRow(e, rows, row) ==
  LET group(r) == [k \in 1..Len(e.x.groupBy) |-> Field(r, e.x.groupBy[k])]
      mine == {r \in rows : group(r) = group(row)}
  IN IF mine = {} THEN <<>>
     ELSE <<"aggResult">> \o group(row) \o <<Total(e.x.op, {<<r, Field(r, e.x.field)>> : r \in mine})>>

\* Update, Refresh and Removed keep every event; Aggregate only the latest result.
Listens(e, table) == e.el \in Sources \ {"StaticTupleSource"}
                     /\ table = IF e.el = "Aggregate" THEN e.x.table ELSE e.x
Heard(e, h, n, table, c) ==
  IF e.el # "Aggregate"
  THEN LET mine == SelectSeq(c.events, LAMBDA v : v[1] = e.el)
       IN [h EXCEPT !.q = @ \o [k \in 1..Len(mine) |-> mine[k][2]]]
  ELSE FoldLeft(LAMBDA acc, v :
                  IF AggRow(e, DOMAIN c.rows, v[2]) \in {<<>>, AggRow(e, DOMAIN db[n][table], v[2])} THEN acc
                  ELSE [acc EXCEPT !.q = <<AggRow(e, DOMAIN c.rows, v[2])>>],
                h, SelectSeq(c.events, LAMBDA v : v[1] # "Refresh"))
Notify(hs, n, table, c) ==
  [s \in Strands |->
     IF Len(Chain(s)) > 0 /\ Listens(Chain(s)[1], table)
     THEN [hs[s] EXCEPT ![1] = Heard(Chain(s)[1], @, n, table, c)] ELSE hs[s]]

-----------------------------------------------------------------------------
(* Aggwrap2Callback: the event waits while its joins are aggregated, until *)
(* the first of them is at its end.                                        *)

AggAt(s) == SelectInSeq(Chain(s), LAMBDA e : e.el = "AggWrap")
agg_finalize(s, hs) ==
  LET a == AggAt(s)
      e == Chain(s)[a].x
      vals == hs[a].q
      result == Total(e.op, {<<k, vals[k]>> : k \in 1..Len(vals)})
      row == <<e.name>> \o [k \in 1..Len(e.outer) |-> IF k = e.field THEN result ELSE Field(hs[a].t, e.outer[k])]
  IN [hs EXCEPT ![a] = Nothing, ![a + 1].q = IF @ = <<>> THEN <<row>> ELSE @]
agg_accum(e, h, t) == [h EXCEPT !.q = Append(@, IF e.x.star THEN 0 ELSE Field(t, e.x.field))]

First(s) == Min({i \in 1..Len(Chain(s)) : Chain(s)[i].el \in Holders})
Accepts(n, s) ==
  /\ AggAt(s) # 0 => held[n][s][AggAt(s)].t = <<>>
  /\ Chain(s)[First(s)].el = "Lookup2" => held[n][s][First(s)].t = <<>>
Put(e, h, t) == IF e.el = "Lookup2" THEN [h EXCEPT !.t = t] ELSE [h EXCEPT !.q = Append(@, t)]
Receive(s, hs, t) ==
  LET in == [hs EXCEPT ![First(s)] = Put(Chain(s)[First(s)], @, t)]
  IN IF AggAt(s) = 0 THEN in ELSE [in EXCEPT ![AggAt(s)].t = t]

-----------------------------------------------------------------------------
Sender(s) == Len(Chain(s)) + 1
Periodic(s, i) == Chain(s)[i - 1].el = "StaticTupleSource"

Init ==
  /\ prog \in 1..Len(Programs)
  /\ plan = createDataflow(Programs[prog]) /\ plan.ok
  /\ db = [n \in Nodes |-> [t \in DOMAIN plan.infos |->
             [r \in {f \in Programs[prog].facts : f[1] = t /\ f[2] = n} |-> 1]]]
  /\ held = [n \in Nodes |-> [s \in Strands |-> [i \in 1..Len(Chain(s)) |-> Nothing]]]
  /\ dead = {}
  /\ left = [m \in {<<n, s>> \in Nodes \X Strands : \E i \in Movers(s) : Periodic(s, i)} |->
               LET count == Chain(m[2])[2].x IN IF count = 0 THEN MaxTicks ELSE count]
  /\ net = EmptyBag /\ heard = {} /\ missed = FALSE /\ raised = 0

Ready(n, s, i) ==
  LET h == held[n][s][Before(s, i)]
      next == Chain(s)[i + 1]
  IN /\ <<n, s, i>> \notin dead
     /\ IF Periodic(s, i) THEN left[<<n, s>>] > 0 ELSE h.q # <<>> \/ h.t # <<>>
     /\ i # Sender(s) /\ next.el \in {"Lookup2", "Slot"} =>
          held[n][s][i + 1].t = <<>> /\ held[n][s][i + 1].q = <<>>

\* The strand after a pull: the end of the first join completes an aggregate.
Completes(s, b, h, next) ==
  AggAt(s) # 0 /\ b = First(s) /\ Chain(s)[b].el = "Lookup2" /\ h.t # <<>> /\ next.t = <<>>
Pulled(s, b, hs, h) ==
  LET now == [hs EXCEPT ![b] = h] IN IF Completes(s, b, hs[b], h) THEN agg_finalize(s, now) ELSE now

\* What a pull with result p does to the strand, now hs, and to its caller.
Push(n, s, i, p, hs) ==
  LET next == IF i = Sender(s) THEN El("Network", <<>>) ELSE Chain(s)[i + 1]
      rests(new) == held' = [held EXCEPT ![n] = [@ EXCEPT ![s] = new]]
      changed(c) ==
        /\ db' = [db EXCEPT ![n][next.x] = c.rows]
        /\ held' = [held EXCEPT ![n] = Notify([@ EXCEPT ![s] = hs], n, next.x, c)]
        /\ UNCHANGED net
  IN IF p.t # <<>> /\ next.el \in {"Insert", "Delete"}
     THEN changed(IF next.el = "Insert" THEN Inserted(n, next.x, p.t) ELSE Deleted(n, next.x, p.t))
     ELSE /\ rests(CASE p.t = <<>> -> hs
                      [] p.t # <<>> /\ next.el \in {"Lookup2", "Slot"} -> [hs EXCEPT ![i + 1] = Put(next, @, p.t)]
                      [] p.t # <<>> /\ next.el = "AggWrap" -> [hs EXCEPT ![i + 1] = agg_accum(next, @, p.t)]
                      [] OTHER -> hs)
          /\ net' = IF p.t # <<>> /\ next.el = "Network"
                    THEN net (+) SetToBag({<<Field(p.t, Last(Chain(s)).x), p.t>>}) ELSE net
          /\ UNCHANGED db

\* The call of a TimedPullPush, or of the node's sender: a pull and a push.
Called(n, s, i, b, p) ==
  /\ missed' = \/ missed
               \/ Chain(s)[b].el = "Lookup2" /\ ~held[n][s][b].open /\ Matches(n, Chain(s)[b], held[n][s][b].t) = {}
               \/ Completes(s, b, held[n][s][b], p.h) /\ held[n][s][AggAt(s) + 1].q # <<>>
  /\ left' = IF Periodic(s, i) THEN [left EXCEPT ![<<n, s>>] = @ - 1] ELSE left
  /\ dead' = IF ~p.throws THEN dead
             ELSE IF i = Sender(s) THEN dead \cup {<<n, z, Sender(z)>> : z \in Strands} ELSE dead \cup {<<n, s, i>>}
  /\ Push(n, s, i, p, Pulled(s, b, held[n][s], p.h))
Move(n, s, i) ==
  /\ Ready(n, s, i)
  /\ \E b \in {Before(s, i)} : \E p \in {Pull(n, s, i, held[n][s][b])} : Called(n, s, i, b, p)
  /\ UNCHANGED <<prog, plan, heard, raised>>

\* NetPlanner::registerAllRuleStrands: the strands that receive a name share
\* a duplicator, which pushes when all of them accept.
Receivers(name) == {s \in Strands : Rule(s).event.kind = "RECV" /\ Rule(s).event.pf.name = name}
Deliver ==
  \E m \in DOMAIN net :
    LET n == m[1]
        to == Receivers(m[2][1])
    IN /\ \A s \in to : Accepts(n, s)
       /\ held' = [held EXCEPT ![n] = [s \in Strands |-> IF s \in to THEN Receive(s, @[s], m[2]) ELSE @[s]]]
       /\ net' = net (-) SetToBag({m})
       /\ heard' = heard \cup {m}
       /\ UNCHANGED <<prog, plan, db, dead, left, missed, raised>>

\* Nothing rests anywhere, and no message is on its way.
Quiet ==
  /\ net = EmptyBag
  /\ \A m \in DOMAIN left : left[m] = 0
  /\ \A n \in Nodes, s \in Strands : \A i \in DOMAIN held[n][s] : held[n][s][i] = Nothing

\* TupleInjector: a tuple goes where its first field says.
Inject ==
  /\ raised < Programs[prog].most
  /\ Programs[prog].settled => Quiet
  /\ \E row \in Programs[prog].events : net' = net (+) SetToBag({<<row[2], row>>})
  /\ raised' = raised + 1
  /\ UNCHANGED <<prog, plan, db, held, dead, left, heard, missed>>

Next == Deliver \/ Inject \/ \E n \in Nodes, s \in Strands : \E i \in Movers(s) : Move(n, s, i)
Spec == Init /\ [][Next]_pvars

-----------------------------------------------------------------------------
(* What the program says, from its own rules: the rows its tables hold and *)
(* the events that were delivered, joined without regard to where they are.*)

Stored(name) == name \in DOMAIN Programs[prog].infos
Pool(name) == IF Stored(name) THEN UNION {DOMAIN db[n][name] : n \in Nodes}
              ELSE IF name = "periodic" THEN {Tick(n) : n \in Nodes}
              ELSE {m[2] : m \in {x \in heard : x[2][1] = name}}

\* An environment binds variables; new: some row it stems from is no fact.
Binds(f, row, bound) ==
  \A k \in 1..(Len(row) - 1) :
    LET a == f.args[k]
    IN /\ a[1] = "val" => Field(row, k) = a[2]
       /\ a[1] = "var" /\ a[2] \in DOMAIN bound => bound[a[2]] = Field(row, k)
       /\ a[1] = "var" => \A j \in 1..(k - 1) : f.args[j] = a => Field(row, j) = Field(row, k)
Binding(f, row) ==
  [x \in {f.args[k][2] : k \in {j \in 1..(Len(row) - 1) : f.args[j][1] = "var"}} |->
     Field(row, CHOOSE k \in 1..(Len(row) - 1) : f.args[k] = Var(x))]
Joined(envs, f) ==
  UNION {{[bound |-> v.bound @@ Binding(f, row), new |-> v.new \/ row \notin Programs[prog].facts] :
            row \in {x \in Pool(f.name) : Binds(f, x, v.bound)}} : v \in envs}
Worth(bound, a) == IF a[1] = "var" THEN bound[a[2]] ELSE a[2]
Filtered(envs, t) ==
  CASE t.k = "select" -> {v \in envs : Worth(v.bound, t.l) # Worth(v.bound, t.r)}
    [] OTHER -> {[v EXCEPT !.bound = (t.x :> Worth(v.bound, t.a)) @@ @] : v \in envs}
Environments(start, terms) ==
  FoldLeft(Filtered, FoldLeft(Joined, start, SelectSeq(terms, IsFunctor)),
           SelectSeq(terms, LAMBDA t : ~IsFunctor(t)))
Blank == {[bound |-> << >>, new |-> FALSE]}

HeadRow(r, bound, total) ==
  <<r.head.name>> \o [k \in 1..Len(r.head.args) |->
                        IF r.head.args[k][1] = "agg" THEN total ELSE Worth(bound, r.head.args[k])]
Events(r) == SelectSeq(r.terms, LAMBDA t : IsFunctor(t) /\ ~Stored(t.name))
\* An aggregate of an event covers its joins; one of a table covers each group.
AggHeads(r) ==
  LET a == r.head.args[aggregate(r.head)]
      all == Environments(Blank, r.terms)
      worth(v) == IF a[2] = DONT_CARE THEN 0 ELSE v.bound[a[2]]
      groups == IF Events(r) = <<>> THEN all ELSE Environments(Blank, Events(r))
      vars_ == {r.head.args[k][2] : k \in {j \in 1..Len(r.head.args) : r.head.args[j][1] = "var"}}
      shared(g) == IF Events(r) = <<>> THEN vars_ ELSE DOMAIN g.bound
      of(g) == {v \in all : \A x \in shared(g) : v.bound[x] = g.bound[x]}
  IN {<<HeadRow(r, g.bound, Total(a[3], {<<v.bound, worth(v)>> : v \in of(g)})), TRUE>> : g \in groups}
Derivations(r) ==
  IF aggregate(r.head) # 0 THEN AggHeads(r)
  ELSE {<<HeadRow(r, v.bound, 0), v.new>> : v \in Environments(Blank, r.terms)}

HeadNames == {Programs[prog].rules[i].head.name : i \in 1..Len(Programs[prog].rules)}
Dropped == {Programs[prog].rules[i].head.name : i \in {j \in 1..Len(Programs[prog].rules) : Programs[prog].rules[j].delete}}
Derived(name) == UNION {Derivations(Programs[prog].rules[i]) :
                          i \in {j \in 1..Len(Programs[prog].rules) : Programs[prog].rules[j].head.name = name}}
Actual(name, n) == IF Stored(name) THEN DOMAIN db[n][name]
                   ELSE {m[2] : m \in {x \in heard : x[1] = n /\ x[2][1] = name}}

\* However the strands of all nodes and their messages interleave, and as long
\* as no lookup is without a result and no slot overrun: once the dataflows
\* are at rest, a node holds exactly the head rows whose location it is and
\* that the program's rules derive from the tables and the events (rows the facts alone derive
\* are optional: facts are inserted before any strand listens), and at no time
\* does a program without deletions hold or hear a row its rules do not derive.
PlannedRight ==
  missed \/ \A name \in HeadNames \ Dropped, n \in Nodes :
    LET here == {d \in Derived(name) : d[1][2] = n}
        may == {d[1] : d \in here} \cup {f \in Programs[prog].facts : f[1] = name}
        must == {d[1] : d \in {x \in here : x[2]}}
    IN /\ Quiet => must \subseteq Actual(name, n) /\ Actual(name, n) \subseteq may
       /\ ~Programs[prog].settled => Actual(name, n) \subseteq may

Flows(chain, receives, sends) ==
  LET sides == SelectSeq([i \in 1..Len(chain) |-> Personality(chain[i].el)], LAMBDA p : p[1] # "agnostic")
      ends == When(receives, <<"none", "push">>) \o sides \o When(sends, <<"pull", "none">>)
  IN /\ \A i \in 1..(Len(ends) - 1) : ends[i][2] = ends[i + 1][1]
     /\ ends[1][1] = "none" /\ Last(ends)[2] = "none"

\* In the chain that compileECARule builds for any rule, and in a stage's,
\* what an element hands over (push or pull) is what the next one takes,
\* looking through the elements that do either; a strand that receives begins with a push, and one
\* that sends ends with a pull.
PlanFlows ==
  /\ Flows(generateStageStrand, TRUE, TRUE)
  /\ \A s \in Strands : Flows(Chain(s), Rule(s).event.kind = "RECV", Rule(s).action.kind = "SEND")
=============================================================================
