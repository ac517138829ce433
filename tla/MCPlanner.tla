----------------------------- MODULE MCPlanner ------------------------------
(***************************************************************************)
(* Programs for EcaPlanner: an event joined with the facts of two tables,  *)
(* an aggregate of such a join, a view over the tables of two nodes, hard  *)
(* state with deletions, an aggregate view and a periodic event.           *)
(* Programs for Stages: rules in every order of their terms, one after     *)
(* another with views and rejected ones, and rules that build tuples at    *)
(* new locations or say them, through the default and the full pipeline.   *)
(***************************************************************************)
EXTENDS EcaPlanner

Soft(keys) == TableInfo(10, 5, keys)
Hard(keys) == TableInfo(NO_EXPIRATION, NO_SIZE, keys)
Rl(id, head, terms) == [id |-> id, head |-> head, delete |-> FALSE, terms |-> terms]
Del(id, head, terms) == [id |-> id, head |-> head, delete |-> TRUE, terms |-> terms]
A == Var("A")
B == Var("B")
C == Var("C")

\* reach(@A, C) :- ask(@A, B), link(@A, B, C), good(@A, C), B != C.   (two joins)
Joins ==
  [rules |-> <<Rl("r1", Functor("reach", <<A, C, A, Val(1)>>, "A"),
                  <<Functor("ask", <<A, B>>, "A"), Functor("link", <<A, B, C>>, "A"),
                    Functor("good", <<A, C>>, "A"), Select(B, C)>>)>>,
   infos |-> ("link" :> Soft(<<1, 2, 3>>)) @@ ("good" :> Hard(<<1, 2>>)),
   watches |-> "reach" :> {"c"},
   facts |-> {<<"link", 1, 1, 1>>, <<"link", 1, 1, 2>>, <<"link", 1, 2, 2>>, <<"good", 1, 1>>, <<"good", 1, 2>>},
   events |-> {<<"ask", 1, 1>>, <<"ask", 1, 2>>}, settled |-> FALSE, most |-> 3]

\* total(@B, A, count<*>) :- ask(@A, B), link(@A, B, C), good(@A, C).
Totals ==
  [Joins EXCEPT
     !.rules = <<Rl("r1", Functor("total", <<B, A, Agg(DONT_CARE, "count")>>, "B"),
                    <<Functor("ask", <<A, B>>, "A"), Functor("link", <<A, B, C>>, "A"), Functor("good", <<A, C>>, "A")>>),
                 Rl("r2", Functor("most", <<B, Agg("C", "max"), A>>, "B"),
                    <<Functor("ask", <<A, B>>, "A"), Functor("link", <<A, B, C>>, "A")>>)>>,
     !.watches = << >>, !.most = 2]

\* path(@C, A) :- link(@A, B), peer(@B, C).   with rows added by events
Remote ==
  [rules |-> <<Rl("r1", Functor("path", <<C, A>>, "C"),
                  <<Functor("link", <<A, B>>, "A"), Functor("peer", <<B, C>>, "B")>>),
               Rl("r2", Functor("link", <<A, B>>, "A"), <<Functor("addLink", <<A, B>>, "A")>>)>>,
   infos |-> ("link" :> Soft(<<1, 2>>)) @@ ("peer" :> Soft(<<1, 2>>)) @@ ("path" :> Soft(<<1, 2>>)),
   watches |-> "path" :> {},
   facts |-> {<<"peer", 1, 2>>, <<"peer", 2, 1>>, <<"peer", 2, 2>>, <<"link", 1, 1>>},
   events |-> {<<"addLink", 1, 2>>, <<"addLink", 1, 1>>, <<"addLink", 2, 2>>}, settled |-> FALSE, most |-> 2]

\* seen(@A, C) :- link(@A, B), kind(@A, B, C).   hard state, with deletions
Hardly ==
  [rules |-> <<Rl("r1", Functor("seen", <<A, C>>, "A"),
                  <<Functor("link", <<A, B>>, "A"), Functor("kind", <<A, B, C>>, "A")>>),
               Rl("r2", Functor("far", <<B, A>>, "B"), <<Functor("link", <<A, B>>, "A")>>),
               Rl("r3", Functor("link", <<A, B>>, "A"), <<Functor("addLink", <<A, B>>, "A")>>),
               Del("r4", Functor("link", <<A, B>>, "A"), <<Functor("dropLink", <<A, B>>, "A")>>)>>,
   infos |-> ("link" :> Hard(<<1, 2>>)) @@ ("kind" :> Hard(<<1, 2, 3>>)) @@ ("seen" :> Hard(<<1, 2>>))
             @@ ("far" :> Hard(<<1, 2>>)),
   watches |-> << >>,
   facts |-> {<<"kind", 1, 1, 1>>, <<"kind", 1, 2, 1>>, <<"kind", 1, 2, 2>>},
   events |-> {<<"addLink", 1, 1>>, <<"addLink", 1, 2>>, <<"dropLink", 1, 1>>, <<"dropLink", 1, 2>>}, settled |-> TRUE, most |-> 4]

\* best(@A, max<B>) :- link(@A, B).   and beat(@A, E) :- periodic(@A, E, 5, 2).
Steady ==
  [rules |-> <<Rl("r1", Functor("best", <<A, Agg("B", "max")>>, "A"), <<Functor("link", <<A, B>>, "A")>>),
               Rl("r2", Functor("link", <<A, B>>, "A"), <<Functor("addLink", <<A, B>>, "A")>>),
               Rl("r3", Functor("beat", <<A, B>>, "A"), <<Functor("periodic", <<A, B, Val(5), Val(2)>>, "A")>>)>>,
   infos |-> ("link" :> Soft(<<1, 2>>)) @@ ("best" :> Soft(<<1>>)),
   watches |-> "link" :> {"i", "d", "r"}, facts |-> {},
   events |-> {<<"addLink", 1, 1>>, <<"addLink", 1, 2>>}, settled |-> TRUE, most |-> 3]

MCPrograms == <<Joins, Totals, Remote, Hardly, Steady>>

-----------------------------------------------------------------------------
(* Programs for the staged compiler.                                       *)
CONSTANTS Parts,   \* "plan": the older compiler; "stages": the staged one
          Texts
VARIABLES part, source, stage, tables, refs, ruleTbl, shown, statements, outcomes
S == INSTANCE Stages
Made == INSTANCE Stages WITH Texts <- {}   \* for what the programs are made of

At(v) == Made!Attr("LOC", <<v, 0>>)
Vr(v) == Made!Attr("VAR", <<v, 0>>)
NewAt(v) == Made!Attr("NEWLOC", <<v, 0>>)
One == Made!Attr("VAL", <<"", 0>>)
Fn(name, attributes) == Made!Functor(<<name>>, attributes)
New(f, loc, opaque, hint) == [f EXCEPT !.new = TRUE, !.wrapper = <<At(loc), opaque, hint>>]
Says(f, by) == [f EXCEPT !.says = <<Vr(by), One, One, One>>]
SaidBy(f, says) == [f EXCEPT !.says = says]
Not(f) == [f EXCEPT !.notin = TRUE]
Decl(name, keys) == [name |-> <<name>>, keys |-> keys, says |-> FALSE]
Text(tbls, rfs, rls) == [tables |-> tbls, refs |-> rfs, rules |-> rls]
Clause(head, body) == [head |-> head, body |-> body, delete |-> FALSE, new |-> FALSE]

\* Bodies in every order, under heads with constants and repeated variables.
Terms == <<Fn("e", <<At("X"), Vr("A")>>), Fn("p", <<At("X"), Vr("A"), Vr("B")>>),
           Made!Select({<<"A", 0>>}), Made!Assign(<<"C", 0>>, {<<"A", 0>>})>>
PlainHeads == {Fn("h", <<At("X"), Vr("A"), Vr("A"), One>>), Fn("p", <<At("X"), Vr("C"), One>>), Fn("h", <<At("X"), Vr("X")>>)}
Orders == {o \in [1..4 -> 1..4] : Cardinality(Range(o)) = 4}
Plain == {Text(<<Decl("p", <<1, 2>>)>>, {}, <<[Clause(h, [i \in 1..4 |-> Terms[o[i]]]) EXCEPT !.delete = d]>>) :
            h \in PlainHeads, o \in Orders, d \in BOOLEAN}
View(body) == Text(<<Decl("q", <<1>>), Decl("v", <<1, 2>>)>>, {}, <<Clause(Fn("v", <<At("X"), Vr("A")>>), body)>>)
Views == {View(<<Fn("q", <<At("X"), Vr("A")>>), Made!Select({<<"A", 0>>})>>),
          View(<<Made!Assign(<<"A", 0>>, {}), Fn("q", <<At("X"), One>>)>>),
          View(<<Fn("q", <<At("X"), Vr("A")>>), Fn("v", <<At("X"), Vr("A")>>)>>),
          View(<<Fn("e", <<At("X"), Vr("A")>>), Fn("f", <<At("X"), Vr("A")>>)>>),
          View(<<Fn("e", <<At("X"), Vr("A")>>), Not(Fn("q", <<At("X"), Vr("A")>>))>>),
          View(<<Fn("periodic", <<At("X"), Vr("A"), One>>)>>)}
Rejected == View(<<Fn("e", <<At("X"), Vr("A")>>), Not(Fn("f", <<At("X"), Vr("A")>>))>>)
Again == Text(<<>>, {}, <<Clause(Fn("v", <<At("X"), Vr("A")>>), <<Fn("e", <<At("X"), Vr("A")>>)>>)>>)
DefaultStages == <<"parse", "eca", "debug", "planner">>

\* Tuples built at new locations: t(@L, M, A) makes either or both of its
\* first two fields, and constructors put u at one of them.
Built(made) == <<IF 1 \in made THEN NewAt("L") ELSE At("X"), IF 2 \in made THEN NewAt("M") ELSE Vr("X"), Vr("A")>>
Maker(made, i) == Clause(New(Fn("t", Built(made)), "X", One, One),
                       IF i = 1 THEN <<Fn("e", <<At("X"), Vr("A")>>)>>
                       ELSE <<Fn("p", <<At("X"), Vr("A"), Vr("B")>>), Fn("e", <<At("X"), Vr("A")>>), Made!Select({<<"B", 0>>})>>)
Constructor(where, made, i) ==
  [Clause(IF made = {} THEN Fn("u", <<At(where), Vr("A")>>)
        ELSE New(Fn("u", <<At(where), NewAt("N")>>), "X", Vr("O"), Vr("H")),
        (IF i = 1 THEN <<>> ELSE <<Fn("p", <<At("X"), Vr("A"), Vr("B")>>)>>)
          \o <<New(Fn("t", <<At("L"), Vr("M"), Vr("A")>>), "X", Vr("O"), Vr("H")), Made!Select({<<"A", 0>>})>>)
     EXCEPT !.new = TRUE]
Stored3 == <<Decl("t", <<1, 2>>), Decl("u", <<1, 2>>), Decl("p", <<1, 2>>)>>
Building == {Text(Stored3, {[from |-> <<"t">>, field |-> 1]}, <<Maker(m, i), Constructor(w, c, i)>>) :
               m \in SUBSET {1, 2}, i \in {1, 2}, w \in {"L", "M", "X"}, c \in {{}, {2}}}
            \cup {Text(Stored3, {}, <<Maker(m, 1), Maker(n, 2)>>) : m, n \in SUBSET {1, 2}}
            \cup {Text(Stored3, {}, <<Clause(New(Fn("t", <<NewAt("L")>>), "X", One, One), <<Fn("e", <<At("X"), Vr("A")>>)>>)>>),
                  Text(<<Decl("p", <<1, 2>>)>>, {}, <<Maker({1}, 1), Constructor("L", {}, 1)>>)}

\* Tuples said by principals: read, sent, stored and passed on.
By == <<Vr("P"), Vr("R"), Vr("K"), Vr("V")>>
SaidTables(keys) == <<[name |-> <<"s">>, keys |-> keys, says |-> TRUE], Decl("t", <<1, 2>>), Decl("p", <<1, 2>>)>>
SayHeads == {Fn("h", <<At("X"), Vr("A")>>), Says(Fn("g", <<At("X"), Vr("A")>>), "A"), Says(Fn("t", <<At("X"), Vr("A")>>), "A"),
             Says(New(Fn("t", <<NewAt("L"), Vr("A")>>), "X", One, One), "A")}
SayBodies == {<<Fn("e", <<At("X"), Vr("A")>>), SaidBy(Fn("s", <<At("X"), Vr("B"), Vr("A")>>), By)>>,
              <<SaidBy(Fn("s", <<At("X"), Vr("A"), Vr("B")>>), By), Made!Select({<<"P", 0>>})>>,
              <<Made!Assign(<<"C", 0>>, {}), SaidBy(Fn("g", <<At("X"), Vr("A")>>), By)>>,
              <<Fn("e", <<At("X"), Vr("A")>>), SaidBy(Fn("t", <<At("X"), Vr("A")>>), By)>>}
Saying == {Text(SaidTables(k), {[from |-> <<"t">>, field |-> 1]}, <<Clause(h, b)>>) :
             k \in {<<1, 2>>, <<2>>, <<1, 3, 2>>}, h \in SayHeads, b \in SayBodies}
          \cup {Text(SaidTables(<<1>>), {[from |-> <<"p">>, field |-> 1], [from |-> <<"p">>, field |-> 0]},
                     <<Clause(Fn("t", <<At("X"), Vr("A")>>), <<Fn("p", <<At("X"), Vr("A"), Vr("B")>>)>>)>>)}
FullStages == <<"parse", "secure", "rewrite0", "rewrite1", "rewrite2", "eca", "debug", "planner">>

MCTexts == {[programs |-> <<p>>, stages |-> DefaultStages] : p \in Plain}
           \cup {[programs |-> <<v, p>>, stages |-> DefaultStages] : v \in Views, p \in Views \cup {Rejected, Again}}
           \cup {[programs |-> <<p>>, stages |-> FullStages] : p \in Building \cup Saying \cup Plain}
           \cup {[programs |-> <<Rejected, Again>>, stages |-> DefaultStages]}
AfterRejected == {[programs |-> <<p, Again>>, stages |-> DefaultStages] : p \in Views \cup {Rejected}}

-----------------------------------------------------------------------------
planvars == <<prog, plan, db, held, dead, left, net, heard, missed, raised>>
stagevars == <<source, stage, tables, refs, ruleTbl, shown, statements, outcomes>>
Idle == [programs |-> <<>>, stages |-> <<>>]

MCInit ==
  /\ part \in Parts
  /\ \/ part = "plan" /\ Init /\ source = Idle /\ stage = 1 /\ tables = <<>> /\ refs = {} /\ ruleTbl = <<>> /\ shown = <<>>
        /\ statements = FALSE /\ outcomes = <<>>
     \/ part = "stages" /\ S!StagesInit
        /\ prog = 1 /\ plan = <<>> /\ db = <<>> /\ held = <<>> /\ dead = {} /\ left = <<>> /\ net = <<>> /\ heard = {} /\ missed = {} /\ raised = 0
MCNext ==
  \/ part = "plan" /\ Next /\ UNCHANGED <<part, source, stage, tables, refs, ruleTbl, shown, statements, outcomes>>
  \/ part = "stages" /\ S!StagesNext
     /\ UNCHANGED <<part, prog, plan, db, held, dead, left, net, heard, missed, raised>>
MCSpec == MCInit /\ [][MCNext]_<<part, planvars, stagevars>>

(* The older compiler, PlannedRight and PlanFlows of EcaPlanner: what the  *)
(* plan derives is what the rules say, and no two elements of a strand     *)
(* wait on each other (eca_context.C, rulePlanner.C, netPlanner.C).        *)
PlansRight == part = "plan" => PlannedRight /\ PlanFlows

(* WholeRules and RulesConnect of Stages: after every stage the terms of a *)
(* rule fill its positions, and the plan keeps them all, in order, event   *)
(* first; the planner gets rules whose variables are bound before use, and *)
(* the events and tables the stages made up fit together (ecaContext.C     *)
(* 124-190, secureContext.C 293-437, rewrite0Context.C, rewrite1Context.C  *)
(* 96-117, plannerContext.C 423-503).                                      *)
StagesRight == part = "stages" => S!WholeRules /\ S!RulesConnect

(* The parser takes a program only when it holds none:                     *)
(* "assert(_statements == NULL || !parserCall)" (parseContext.C:1418).     *)
StatementsFree == part = "stages" => S!StatementsFree
=============================================================================
