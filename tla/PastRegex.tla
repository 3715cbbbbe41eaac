----------------------------- MODULE PastRegex -----------------------------
(***************************************************************************)
(* The past-regex engine of rust-validator: src/syntax and src/validator.rs.*)
(*                                                                         *)
(* A rule names a candidate event by a head pattern and says that the      *)
(* committed history must (or must not) lie in its tail, an extended       *)
(* regular expression over event tests that may refer to the head's        *)
(* variables.  The engine never searches for splits.  It compiles the tail *)
(* into a normal form, takes symbolic derivatives of it that depend on no  *)
(* event and no binding, tabulates the successors of the small ones, and   *)
(* replays the history through them with two caches.  Every constructor    *)
(* rewrites what it builds, so a wrong law anywhere changes a verdict and  *)
(* says nothing.                                                           *)
(*                                                                         *)
(* A hash-consed node is its value: a tuple of a tag and its children, a   *)
(* set of children where the code keeps them sorted and deduplicated.  The *)
(* code's order of nodes is the order they were first built in; it decides *)
(* which operand an expansion starts from, here any.  The memo tables of   *)
(* derivatives and of atoms hold pure functions and are left out.          *)
(***************************************************************************)
EXTENDS Naturals, FiniteSets, Sequences, SequencesExt

CONSTANTS
    Principals, Actions, Resources, \* the values of the three coordinates
    Policies,       \* the lists of source rules a builder is given
    MaxHistory,     \* committed events
    MaxMarks,       \* checkpoints held at once
    MaxAtoms,       \* atoms expanded in one table         (12 in the code)
    MaxMinterms,    \* entries of all the tables of a rule (4096)
    MaxStates       \* states explored at compile time     (64)

Component == {"principal", "action", "resource"}

Event == [principal : Principals, action : Actions, resource : Resources]

\* A pattern is <<component, "const", value>> or <<component, "var", name>>.
\* A source expression has the tags of a node and a sequence of children.

-----------------------------------------------------------------------------
(* Tests over one event: normalize.rs.                                     *)

True == <<"true">>
False == <<"false">>
Atom(equal, pattern) == <<"atom", equal, pattern>>

Dual(connective) == IF connective = "and" THEN "or" ELSE "and"
Identity(connective) == IF connective = "and" THEN True ELSE False
Absorber(connective) == Identity(Dual(connective))

\* The operands of an associative connective, a nested one opened.
Flat(tag, S) == UNION {IF x[1] = tag THEN x[2] ELSE {x} : x \in S}

\* No operand is the unit, one needs no connective.
Close(tag, unit, S) ==
    IF S = {} THEN unit
    ELSE IF Cardinality(S) = 1 THEN CHOOSE x \in S : TRUE
    ELSE <<tag, S>>

IsAtom(x) == x[1] = "atom"

DistinctConstants(p, q) ==
    p[1] = q[1] /\ p[2] = "const" /\ q[2] = "const" /\ p[3] # q[3]

\* x is a compound of the dual connective that a sibling implies.
Absorbed(dual, x, S) ==
    /\ x[1] = dual
    /\ \E s \in S \ {x} :
          IF s[1] = dual THEN s[2] \subseteq x[2] ELSE s \in x[2]

\* Eq(c) /\ Neq(d) is Eq(c), and Neq(d) \/ Eq(c) is Neq(d).
RedundantAtom(connective, x, S) ==
    /\ IsAtom(x)
    /\ x[2] # (connective = "and")
    /\ \E s \in S : /\ IsAtom(s)
                    /\ s[2] # x[2]
                    /\ DistinctConstants(x[3], s[3])

\* Two equalities with distinct constants cannot both hold.
ClashingAtoms(connective, S) ==
    \E x, y \in S : /\ IsAtom(x) /\ IsAtom(y)
                    /\ x[2] = (connective = "and") /\ y[2] = x[2]
                    /\ DistinctConstants(x[3], y[3])

RECURSIVE TestJoin(_, _), TestNot(_)

\* A complement in the flat form De Morgan leaves: (a \/ b) beside ~a and ~b.
Complementary(connective, S) ==
    \/ \E x, y \in S : IsAtom(x) /\ IsAtom(y) /\ x[3] = y[3] /\ x[2] # y[2]
    \/ \E x \in S : /\ x[1] = Dual(connective)
                    /\ \A k \in x[2] : TestNot(k) \in S

JoinFlat(connective, S) ==
    IF \/ Absorber(connective) \in S
       \/ Complementary(connective, S)
       \/ ClashingAtoms(connective, S)
    THEN Absorber(connective)
    ELSE Close(connective, Identity(connective),
               {x \in S : /\ ~Absorbed(Dual(connective), x, S)
                          /\ ~RedundantAtom(connective, x, S)})

TestJoin(connective, S) ==
    JoinFlat(connective, Flat(connective, S \ {Identity(connective)}))

TestNot(t) ==
    CASE t = True  -> False
      [] t = False -> True
      [] IsAtom(t) -> Atom(~t[2], t[3])
      [] OTHER     -> TestJoin(Dual(t[1]), {TestNot(k) : k \in t[2]})

-----------------------------------------------------------------------------
(* Languages of histories: normalize.rs.                                   *)

Empty == <<"empty">>
All == <<"all">>
Epsilon == <<"epsilon">>

RECURSIVE Nullable(_)
Nullable(r) ==
    CASE r[1] \in {"empty", "test"}          -> FALSE
      [] r[1] \in {"all", "epsilon", "star"} -> TRUE
      [] r[1] = "union"     -> \E k \in r[2] : Nullable(k)
      [] r[1] = "intersect" -> \A k \in r[2] : Nullable(k)
      [] r[1] = "concat"    -> \A i \in DOMAIN r[2] : Nullable(r[2][i])
      [] r[1] = "not"       -> ~Nullable(r[2])

RegexTest(t) == IF t = False THEN Empty ELSE <<"test", t>>

TestsOf(S) == {x[2] : x \in {y \in S : y[1] = "test"}}
Untested(S) == {x \in S : x[1] # "test"}

HasComplement(S) == \E x \in S : x[1] = "not" /\ x[2] \in S

CloseUnion(S) ==
    Close("union", Empty, {x \in S : ~Absorbed("intersect", x, S)})

\* Operands that hold at most one test.
UnionJoined(S) ==
    IF All \in S \/ HasComplement(S) THEN All
    ELSE CloseUnion(IF \E x \in S \ {Epsilon} : Nullable(x)
                    THEN S \ {Epsilon} ELSE S)

UnionFlat(S) ==
    UnionJoined((Untested(S) \union {RegexTest(TestJoin("or", TestsOf(S)))})
                  \ {Empty})

RegexUnion(S) == UnionFlat(Flat("union", S \ {Empty}))

NotEpsilon == <<"not", Epsilon>>

CloseIntersect(S) ==
    Close("intersect", All, {x \in S : ~Absorbed("union", x, S)})

IntersectJoined(S) ==
    IF Empty \in S \/ HasComplement(S) THEN Empty
    ELSE IF Epsilon \in S
    THEN IF \A x \in S : Nullable(x) THEN Epsilon ELSE Empty
    ELSE CloseIntersect(IF \E x \in S \ {NotEpsilon} : ~Nullable(x)
                        THEN S \ {NotEpsilon} ELSE S)

IntersectFlat(S) ==
    IntersectJoined(IF TestsOf(S) = {} THEN S
                    ELSE Untested(S)
                           \union {RegexTest(TestJoin("and", TestsOf(S)))})

RegexIntersect(S) == IntersectFlat(Flat("intersect", S \ {All}))

Factors(r) ==
    CASE r = Epsilon     -> <<>>
      [] r[1] = "concat" -> r[2]
      [] OTHER           -> <<r>>

RegexConcat(s) ==
    LET flat == FlattenSeq([i \in DOMAIN s |-> Factors(s[i])])
    IN  IF \E i \in DOMAIN s : s[i] = Empty THEN Empty
        ELSE IF flat = <<>> THEN Epsilon
        ELSE IF Len(flat) = 1 THEN flat[1]
        ELSE <<"concat", flat>>

RegexStar(r) ==
    CASE r \in {Empty, Epsilon}             -> Epsilon
      [] r \in {All, <<"test", True>>}      -> All
      [] r[1] = "star"                      -> r
      [] OTHER                              -> <<"star", r>>

RegexNot(r) ==
    CASE r = Empty      -> All
      [] r = All        -> Empty
      [] r[1] = "not"   -> r[2]
      [] OTHER          -> <<"not", r>>

-----------------------------------------------------------------------------
(* Symbolic transitions, one unresolved event away: transition.rs.         *)

Const(r) == <<"const", r>>
IsIf(x) == x[1] = "if"
Constants(S) == {x[2] : x \in {y \in S : y[1] = "const"}}
Open(S) == {x \in S : x[1] # "const"}

InternIf(test, then, else) ==
    IF test = True \/ then = else THEN then
    ELSE IF test = False THEN else
    ELSE <<"if", test, then, else>>

\* The one constructor of transitions, given a tag and children built before.
RECURSIVE Build(_)

Clean(x, path) == Build(<<"under", x, path>>)
CleanIf(test, then, else, path) == Build(<<"if", test, then, else, path>>)
TransitionIf(test, then, else) == CleanIf(test, then, else, True)
TransitionUnion(S) == Build(<<"union", S>>)
TransitionIntersect(S) == Build(<<"intersect", S>>)
TransitionNot(x) == Build(<<"not", x>>)
TransitionAppend(x, suffix) == Build(<<"append", x, suffix>>)

\* A transition under the condition of the path that leads to it.
BuildUnder(x, path) ==
    CASE x[1] = "const"     -> x
      [] x[1] = "if"        -> CleanIf(x[2], x[3], x[4], path)
      [] x[1] = "union"     -> TransitionUnion({Clean(k, path) : k \in x[2]})
      [] x[1] = "intersect" -> TransitionIntersect({Clean(k, path) : k \in x[2]})
      [] x[1] = "not"       -> TransitionNot(Clean(x[2], path))
      [] x[1] = "append"    -> TransitionAppend(Clean(x[2], path), x[3])

BuildIf(test, then, else, path) ==
    LET holds == TestJoin("and", {path, test})
        fails == TestJoin("and", {path, TestNot(test)})
    IN  IF test = True \/ then = else THEN Clean(then, path)
        ELSE IF test = False THEN Clean(else, path)
        ELSE IF holds = False THEN Clean(else, fails)
        ELSE IF fails = False THEN Clean(then, holds)
        ELSE InternIf(test, Clean(then, holds), Clean(else, fails))

CloseTransitions(open, constant) ==
    IF constant = All THEN Const(All)
    ELSE Close("union", Const(Empty),
               open \union ({Const(constant)} \ {Const(Empty)}))

BuildUnion(S) ==
    LET flat == Flat("union", S \ {Const(Empty)})
    IN  CloseTransitions(Open(flat), RegexUnion(Constants(flat)))

\* Two conditionals.  A guard (nothing on its else side) is expanded first,
\* so it never sinks below an unguarded conditional.
IntersectIfs(x, y) ==
    LET guarded(z) == z[4] = Const(Empty)
        over(z, w) == TransitionIf(z[2], TransitionIntersect({z[3], w}),
                                         TransitionIntersect({z[4], w}))
    IN  IF guarded(x) /\ guarded(y)
        THEN TransitionIf(TestJoin("and", {x[2], y[2]}),
                          TransitionIntersect({x[3], y[3]}), Const(Empty))
        ELSE IF x[2] = y[2]
        THEN TransitionIf(x[2], TransitionIntersect({x[3], y[3]}),
                                TransitionIntersect({x[4], y[4]}))
        ELSE IF guarded(y) /\ ~guarded(x) THEN over(y, x)
        ELSE over(x, y)

IntersectPair(x, y) ==
    LET distribute(z, w) ==
            TransitionUnion({TransitionIntersect({k, w}) : k \in z[2]})
        push(z, w) == TransitionIf(z[2], TransitionIntersect({z[3], w}),
                                         TransitionIntersect({z[4], w}))
    IN  IF x = y \/ y = Const(All) THEN x
        ELSE IF x = Const(All) THEN y
        ELSE IF Const(Empty) \in {x, y} THEN Const(Empty)
        ELSE IF x[1] = "const" /\ y[1] = "const"
        THEN Const(RegexIntersect({x[2], y[2]}))
        ELSE IF IsIf(x) /\ IsIf(y) THEN IntersectIfs(x, y)
        ELSE IF x[1] = "union" THEN distribute(x, y)
        ELSE IF y[1] = "union" THEN distribute(y, x)
        ELSE IF IsIf(x) THEN push(x, y)
        ELSE IF IsIf(y) THEN push(y, x)
        ELSE <<"intersect", {x, y}>>

IntersectAll(operands) ==
    IF Const(Empty) \in operands THEN Const(Empty)
    ELSE FoldLeft(IntersectPair, Const(All), SetToSeq(operands))

BuildIntersect(S) ==
    LET flat == Flat("intersect", S \ {Const(All)})
    IN  IntersectAll(Open(flat)
            \union ({Const(RegexIntersect(Constants(flat)))} \ {Const(All)}))

\* Complement reaches the leaves, except under an append.
BuildNot(x) ==
    CASE x[1] = "const" -> Const(RegexNot(x[2]))
      [] IsIf(x) ->
             IF x[3] = Const(All) /\ x[4] = Const(Empty)
             THEN TransitionIf(TestNot(x[2]), Const(All), Const(Empty))
             ELSE TransitionIf(x[2], TransitionNot(x[3]), TransitionNot(x[4]))
      [] x[1] = "union"     -> TransitionIntersect({TransitionNot(k) : k \in x[2]})
      [] x[1] = "intersect" -> TransitionUnion({TransitionNot(k) : k \in x[2]})
      [] x[1] = "not"       -> x[2]
      [] x[1] = "append"    -> <<"not", x>>

\* A fixed language after whatever the event leaves.
BuildAppend(x, suffix) ==
    LET normal == RegexConcat(suffix)
        factors == Factors(normal)
    IN  CASE normal = Epsilon -> x
          [] normal = Empty   -> Const(Empty)
          [] OTHER ->
             CASE x[1] = "const"  -> Const(RegexConcat(<<x[2]>> \o factors))
               [] x[1] = "union"  ->
                      TransitionUnion({TransitionAppend(k, factors) : k \in x[2]})
               [] x[1] = "if"     ->
                      TransitionIf(x[2], TransitionAppend(x[3], factors),
                                         TransitionAppend(x[4], factors))
               [] x[1] = "append" -> TransitionAppend(x[2], x[3] \o factors)
               [] OTHER           -> <<"append", x, factors>>

Build(raw) ==
    CASE raw[1] = "under"     -> BuildUnder(raw[2], raw[3])
      [] raw[1] = "if"        -> BuildIf(raw[2], raw[3], raw[4], raw[5])
      [] raw[1] = "union"     -> BuildUnion(raw[2])
      [] raw[1] = "intersect" -> BuildIntersect(raw[2])
      [] raw[1] = "not"       -> BuildNot(raw[2])
      [] raw[1] = "append"    -> BuildAppend(raw[2], raw[3])

-----------------------------------------------------------------------------
(* Derivatives and their successors: symbolic.rs.                          *)

RECURSIVE Derivative(_)
Derivative(r) ==
    CASE r \in {Empty, Epsilon} -> Const(Empty)
      [] r = All                -> Const(All)
      [] r[1] = "test"      -> TransitionIf(r[2], Const(Epsilon), Const(Empty))
      [] r[1] = "union"     -> TransitionUnion({Derivative(k) : k \in r[2]})
      [] r[1] = "intersect" -> TransitionIntersect({Derivative(k) : k \in r[2]})
      [] r[1] = "not"       -> TransitionNot(Derivative(r[2]))
      [] r[1] = "star"      -> TransitionAppend(Derivative(r[2]), <<r>>)
      [] r[1] = "concat"    ->
             LET f == r[2]
                 reached == {i \in DOMAIN f : \A j \in 1..(i - 1) : Nullable(f[j])}
             IN  TransitionUnion(
                     {TransitionAppend(Derivative(f[i]), SubSeq(f, i + 1, Len(f)))
                        : i \in reached})

RECURSIVE TestAtoms(_)
TestAtoms(t) ==
    CASE t \in {True, False} -> {}
      [] IsAtom(t)           -> {t[3]}
      [] OTHER               -> UNION {TestAtoms(k) : k \in t[2]}

\* The patterns a transition asks about; a suffix waits for a later event.
RECURSIVE Atoms(_)
Atoms(x) ==
    CASE x[1] = "const" -> {}
      [] x[1] = "if"    -> TestAtoms(x[2]) \union Atoms(x[3]) \union Atoms(x[4])
      [] x[1] \in {"not", "append"} -> Atoms(x[2])
      [] OTHER          -> UNION {Atoms(k) : k \in x[2]}

\* A test, when the patterns in "holding" are those the event matches.
RECURSIVE EvalTest(_, _)
EvalTest(t, holding) ==
    CASE t = True     -> TRUE
      [] t = False    -> FALSE
      [] IsAtom(t)    -> (t[3] \in holding) = t[2]
      [] t[1] = "and" -> \A k \in t[2] : EvalTest(k, holding)
      [] t[1] = "or"  -> \E k \in t[2] : EvalTest(k, holding)

RECURSIVE Successor(_, _)
Successor(x, holding) ==
    CASE x[1] = "const"     -> x[2]
      [] x[1] = "if"        ->
             Successor(IF EvalTest(x[2], holding) THEN x[3] ELSE x[4], holding)
      [] x[1] = "union"     -> RegexUnion({Successor(k, holding) : k \in x[2]})
      [] x[1] = "intersect" -> RegexIntersect({Successor(k, holding) : k \in x[2]})
      [] x[1] = "not"       -> RegexNot(Successor(x[2], holding))
      [] x[1] = "append"    -> RegexConcat(<<Successor(x[2], holding)>> \o x[3])

Spent(tables) ==
    FoldLeft(LAMBDA n, y : n + Cardinality(DOMAIN tables[y]),
             0, SetToSeq(DOMAIN tables))

\* A transition past a budget has no table: it is interpreted when it is met.
Tabled(x, tables) ==
    IF \/ x \in DOMAIN tables
       \/ x[1] = "const"
       \/ Cardinality(Atoms(x)) > MaxAtoms
       \/ Spent(tables) + Cardinality(SUBSET Atoms(x)) > MaxMinterms
    THEN tables
    ELSE [y \in DOMAIN tables \union {x} |->
            IF y = x THEN [holding \in SUBSET Atoms(x) |-> Successor(x, holding)]
            ELSE tables[y]]

\* The states whose successors are known, at a transition.
Follows(x, tables) ==
    IF x \in DOMAIN tables
    THEN SetToSeq({tables[x][h] : h \in DOMAIN tables[x]}) ELSE <<>>

\* The tables of a rule, breadth first within its budgets.
RECURSIVE Explore(_, _, _)
Explore(pending, seen, tables) ==
    LET step(r, x, T) == Explore(Tail(pending) \o Follows(x, T), seen \union {r}, T)
        visit(r, x) == step(r, x, Tabled(x, tables))
    IN  IF pending = <<>> \/ Cardinality(seen) = MaxStates THEN tables
        ELSE IF Head(pending) \in seen THEN Explore(Tail(pending), seen, tables)
        ELSE visit(Head(pending), Derivative(Head(pending)))

NoTables == [x \in {} |-> <<>>]
Precompile(root) == Explore(<<root>>, {}, NoTables)

-----------------------------------------------------------------------------
(* Compilation: compile.rs, environment.rs, component.rs.                  *)

\* The variables of a head, each with its coordinate.
Environment(head) ==
    {<<head[c][3], c>> : c \in {d \in Component : head[d][2] = "var"}}

OneComponent(env) == \A b, c \in env : b[1] = c[1] => b = c

\* (mutant) Any variable of the head will do, whatever its coordinate.
ResolvesByName(env, pattern) ==
    pattern[2] = "var" => \E b \in env : b[1] = pattern[3]

Resolves(env, pattern) ==
    pattern[2] = "var" => <<pattern[3], pattern[1]>> \in env

RECURSIVE TestCompiles(_, _), RegexCompiles(_, _)
TestCompiles(env, t) ==
    CASE IsAtom(t)               -> Resolves(env, t[3])
      [] t[1] \in {"and", "or"}  -> \A i \in DOMAIN t[2] : TestCompiles(env, t[2][i])
      [] OTHER                   -> TRUE

RegexCompiles(env, r) ==
    CASE r[1] = "test"             -> TestCompiles(env, r[2])
      [] r[1] \in {"star", "not"}  -> RegexCompiles(env, r[2])
      [] r[1] \in {"union", "intersect", "concat"} ->
             \A i \in DOMAIN r[2] : RegexCompiles(env, r[2][i])
      [] OTHER -> TRUE

Compiles(rule) ==
    LET env == Environment(rule.head)
    IN  OneComponent(env) /\ RegexCompiles(env, rule.tail)

Each(Op(_), s) == {Op(s[i]) : i \in DOMAIN s}

RECURSIVE CompileTest(_), CompileRegex(_)
CompileTest(t) ==
    IF t[1] \in {"and", "or"} THEN TestJoin(t[1], Each(CompileTest, t[2])) ELSE t

CompileRegex(r) ==
    CASE r[1] = "test"      -> RegexTest(CompileTest(r[2]))
      [] r[1] = "union"     -> RegexUnion(Each(CompileRegex, r[2]))
      [] r[1] = "intersect" -> RegexIntersect(Each(CompileRegex, r[2]))
      [] r[1] = "concat"    -> RegexConcat([i \in DOMAIN r[2] |-> CompileRegex(r[2][i])])
      [] r[1] = "star"      -> RegexStar(CompileRegex(r[2]))
      [] r[1] = "not"       -> RegexNot(CompileRegex(r[2]))
      [] OTHER              -> r

CompileRule(rule) ==
    LET tail == CompileRegex(rule.tail)
    IN  [mode |-> rule.mode, head |-> rule.head, tail |-> tail,
         tables |-> Precompile(tail)]

\* The bindings of a candidate: at most one set of <<name, coordinate, value>>.
MatchCandidate(head, e) ==
    LET bound == {<<b[1], b[2], e[b[2]]>> : b \in Environment(head)}
    IN  {s \in {bound} :
           /\ \A c \in Component : head[c][2] = "const" => head[c][3] = e[c]
           /\ \A b, d \in s : b[1] = d[1] => b = d}

Matches(pattern, sub, e) ==
    IF pattern[2] = "const" THEN pattern[3] = e[pattern[1]]
    ELSE <<pattern[3], pattern[1], e[pattern[1]]>> \in sub

Holding(x, sub, e) == {a \in Atoms(x) : Matches(a, sub, e)}

-----------------------------------------------------------------------------
(* Replaying a history: symbolic.rs.  The caches live for one replay.      *)

Evaluate(x, sub, e) == Successor(x, Holding(x, sub, e))

\* (mutant) Successors are remembered by their transition alone.
TransitionOnly(x, sub, e) == <<x, {}>>

Assignment(x, sub, e) == <<x, Holding(x, sub, e)>>

SameAsLast(m, x, e) == m.last # <<>> /\ m.last[1] = x /\ m.last[2] = e

Instantiate(tables, m, x, sub, e) ==
    LET key == Assignment(x, sub, e)
        known == {v \in m.values : v[1] = key}
        to(r) == [m EXCEPT !.state = r, !.last = <<x, e, r>>]
    IN  IF x[1] = "const" THEN [m EXCEPT !.state = x[2]]
        ELSE IF SameAsLast(m, x, e) THEN [m EXCEPT !.state = m.last[3]]
        ELSE IF x \in DOMAIN tables THEN to(tables[x][Holding(x, sub, e)])
        ELSE IF known # {} THEN to((CHOOSE v \in known : TRUE)[2])
        ELSE LET r == Evaluate(x, sub, e)
             IN  [to(r) EXCEPT !.values = @ \union {<<key, r>>}]

Accepts(tables, root, h, sub) ==
    LET step(m, e) == IF m.state \in {All, Empty} THEN m
                      ELSE Instantiate(tables, m, Derivative(m.state), sub, e)
    IN  Nullable(FoldLeft(step, [state |-> root, values |-> {}, last |-> <<>>],
                          h).state)

\* The modes of the rules a candidate violates, in source order.
Violated(rules, h, e) ==
    SelectSeq(rules, LAMBDA rule :
        \E sub \in MatchCandidate(rule.head, e) :
            Accepts(rule.tables, rule.tail, h, sub) = (rule.mode = "forbid"))

Decide(rules, h, e) ==
    LET v == Violated(rules, h, e)
    IN  IF v = <<>> THEN "grant" ELSE v[1].mode

-----------------------------------------------------------------------------
(* The validator: validator.rs.                                            *)

VARIABLES
    sources,        \* the source rules the builder took
    rules,          \* what they were compiled to
    built,          \* the builder is finished
    history,        \* the committed events
    marks           \* checkpoints still held

vars == <<sources, rules, built, history, marks>>

Init ==
    /\ sources = <<>>
    /\ rules = <<>>
    /\ built = FALSE
    /\ history = <<>>
    /\ marks = {}

\* A rule that does not compile is refused and leaves the builder as it was.
AddRule(policy) ==
    /\ ~built
    /\ Len(sources) < Len(policy)
    /\ IsPrefix(sources, policy)
    /\ LET rule == policy[Len(sources) + 1]
       IN  /\ Compiles(rule)
           /\ sources' = Append(sources, rule)
           /\ rules' = Append(rules, CompileRule(rule))
    /\ UNCHANGED <<built, history, marks>>

Finish ==
    /\ ~built
    /\ built' = TRUE
    /\ UNCHANGED <<sources, rules, history, marks>>

Check(e) ==
    /\ built
    /\ Len(history) < MaxHistory
    /\ history' = IF Decide(rules, history, e) = "grant"
                  THEN Append(history, e) ELSE history
    /\ UNCHANGED <<sources, rules, built, marks>>

Checkpoint ==
    /\ built
    /\ Cardinality(marks) < MaxMarks
    /\ marks' = marks \union {Len(history)}
    /\ UNCHANGED <<sources, rules, built, history>>

\* A position past the end of history panics.
Rollback(mark) ==
    /\ mark <= Len(history)
    /\ history' = SubSeq(history, 1, mark)
    /\ marks' = marks \ {mark}
    /\ UNCHANGED <<sources, rules, built>>

Next ==
    \/ \E policy \in Policies : AddRule(policy)
    \/ Finish
    \/ \E e \in Event : Check(e)
    \/ Checkpoint
    \/ \E mark \in marks : Rollback(mark)

Spec == Init /\ [][Next]_vars

-----------------------------------------------------------------------------
(* What a rule means: source.rs, by the words of its language.             *)

RECURSIVE Satisfies(_, _, _)
Satisfies(e, t, sub) ==
    CASE t = True     -> TRUE
      [] t = False    -> FALSE
      [] IsAtom(t)    -> Matches(t[3], sub, e) = t[2]
      [] t[1] = "and" -> \A i \in DOMAIN t[2] : Satisfies(e, t[2][i], sub)
      [] t[1] = "or"  -> \E i \in DOMAIN t[2] : Satisfies(e, t[2][i], sub)

\* The history w is in the language of the source expression r.
RECURSIVE InLanguage(_, _, _)
InLanguage(w, r, sub) ==
    LET front(n) == SubSeq(w, 1, n)
        back(n) == SubSeq(w, n + 1, Len(w))
    IN  CASE r[1] = "empty"     -> FALSE
          [] r[1] = "all"       -> TRUE
          [] r[1] = "epsilon"   -> w = <<>>
          [] r[1] = "test"      -> Len(w) = 1 /\ Satisfies(w[1], r[2], sub)
          [] r[1] = "union"     -> \E i \in DOMAIN r[2] : InLanguage(w, r[2][i], sub)
          [] r[1] = "intersect" -> \A i \in DOMAIN r[2] : InLanguage(w, r[2][i], sub)
          [] r[1] = "not"       -> ~InLanguage(w, r[2], sub)
          [] r[1] = "star"      ->
                 \/ w = <<>>
                 \/ \E n \in 1..Len(w) : /\ InLanguage(front(n), r[2], sub)
                                         /\ InLanguage(back(n), r, sub)
          [] r[1] = "concat"    ->
                 IF r[2] = <<>> THEN w = <<>>
                 ELSE \E n \in 0..Len(w) :
                        /\ InLanguage(front(n), r[2][1], sub)
                        /\ InLanguage(back(n), <<"concat", Tail(r[2])>>, sub)

\* The bindings under which a head names a candidate.
Bindings(head, e) ==
    {s \in {{<<head[c][3], c, e[c]>> : c \in {d \in Component : head[d][2] = "var"}}} :
        \A c \in Component : head[c][2] = "const" => head[c][3] = e[c]}

Breaks(rule, h, e) ==
    \E sub \in Bindings(rule.head, e) :
        InLanguage(h, rule.tail, sub) = (rule.mode = "forbid")

\* What the rules say of a candidate: the mode of the first it breaks.
Meaning(h, e) ==
    LET broken == {i \in DOMAIN sources : Breaks(sources[i], h, e)}
    IN  IF broken = {} THEN "grant"
        ELSE sources[CHOOSE i \in broken : \A j \in broken : i <= j].mode

(* The engine decides every candidate the way the source rules say,        *)
(* whatever rewriting, tables and caches lie between (validator.rs:118-148, *)
(* symbolic.rs:440-463).                                                   *)
Decides == built => \A e \in Event : Decide(rules, history, e) = Meaning(history, e)

(* Compilation leaves no variable a matching candidate does not bind in    *)
(* the coordinate it is asked for: an unresolved pattern would silently    *)
(* read as "differs" (component.rs:249-271, evaluate.rs:159-166).          *)
RECURSIVE PatternsOf(_)
PatternsOf(r) ==
    CASE r[1] = "test"              -> TestAtoms(r[2])
      [] r[1] \in {"star", "not"}   -> PatternsOf(r[2])
      [] r[1] \in {"union", "intersect"} -> UNION {PatternsOf(k) : k \in r[2]}
      [] r[1] = "concat" -> UNION {PatternsOf(r[2][i]) : i \in DOMAIN r[2]}
      [] OTHER -> {}

Scoped ==
    \A i \in DOMAIN rules : \A e \in Event :
        \A sub \in Bindings(rules[i].head, e) :
            \A p \in PatternsOf(rules[i].tail) : p[2] = "var" =>
                /\ Cardinality({b \in sub : b[1] = p[3]}) = 1
                /\ \E b \in sub : b[1] = p[3] /\ b[2] = p[1]
=============================================================================
