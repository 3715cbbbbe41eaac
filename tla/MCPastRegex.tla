---------------------------- MODULE MCPastRegex ----------------------------
(***************************************************************************)
(* Instances of PastRegex for TLC: the tail shapes the git policy is made  *)
(* of, and combinations of up to three operators over a few tests that     *)
(* share coordinates, so that each rewriting law has something to rewrite. *)
(***************************************************************************)
EXTENDS PastRegex

CONSTANTS p1, p2, p3, edit, read, r1

Is(pattern) == Atom(TRUE, pattern)
Isnt(pattern) == Atom(FALSE, pattern)
Both(s, t) == <<"and", <<s, t>>>>
Either(s, t) == <<"or", <<s, t>>>>
T(t) == <<"test", t>>

P(v) == <<"principal", "const", v>>
V(name, component) == <<component, "var", name>>
Own == V("p", "principal")
Edit == <<"action", "const", edit>>
Read == <<"action", "const", read>>

Both3 == Both(Isnt(Own), Both(Is(Edit), Isnt(P(p1))))

Tests == {Is(Own), Is(P(p1)), Is(P(p2)), Isnt(P(p2)), Is(Edit),
          Both(Is(Own), Is(Edit)), Either(Isnt(Own), Isnt(P(p1)))}

Compound ==
    {Both(s, t) : s, t \in Tests} \union {Either(s, t) : s, t \in Tests}
      \union {Both(Either(Is(p), Is(q)), Both(Isnt(p), Isnt(q))) :
                p, q \in {Own, P(p1), Edit}}
      \union {Either(Both(Is(p), Is(q)), Either(Isnt(p), Isnt(q))) :
                p, q \in {Own, P(p1), Edit}}
      \union {Either(Both(Is(Own), Is(Edit)), Both(Is(P(p2)), Both(Is(Own), Is(Edit)))),
              Both(Either(Is(Own), Is(Edit)), Either(Is(P(p2)), Either(Is(Own), Is(Edit))))}

\* language.rs
LastStateChange(setter, stable) ==
    <<"concat", <<All, T(setter), <<"star", T(stable)>>>>>>

Unary(S) == UNION {{<<"star", a>>, <<"not", a>>} : a \in S}
Pairs(S) == UNION {{<<"union", <<a, b>>>>, <<"intersect", <<a, b>>>>,
                    <<"concat", <<a, b>>>>} : a, b \in S}

Leaves == {Epsilon, All, Empty, T(True), T(Is(Own)), T(Isnt(Own)), T(Both3)}

Small == {T(Is(Own)), T(Is(Edit)), <<"concat", <<T(Is(Own)), All>>>>,
          <<"not", T(Isnt(Own))>>, <<"star", T(Either(Is(P(p2)), Both3))>>}

Deep == Unary(Pairs(Small)) \union Unary(Unary(Small))
          \union {<<op, <<<<"not", <<"concat", <<a, b>>>>>>, c>>>> :
                    op \in {"union", "intersect", "concat"},
                    a, b \in Small, c \in {T(Is(Own)), <<"star", T(Is(Edit))>>}}

Tails == {T(t) : t \in Compound} \union Pairs(Leaves) \union Deep
           \union {LastStateChange(s, t) : s, t \in Tests}

HeadOf(principal, action) ==
    [principal |-> principal, action |-> action,
     resource |-> V("r", "resource")]

Usual == HeadOf(Own, Edit)
Rule(mode, head, tail) == [mode |-> mode, head |-> head, tail |-> tail]

\* A variable in two coordinates, one the head does not bind, one it binds
\* elsewhere, and a head that binds the action too.
Heads == {HeadOf(Own, V("p", "action")), HeadOf(P(p1), Edit),
          HeadOf(P(p1), V("p", "action")), HeadOf(Own, V("a", "action"))}

MCPolicies ==
    {<<Rule("forbid", Usual, t)>> : t \in Tails}
      \union {<<Rule("require", h, LastStateChange(Is(Own), Is(Read)))>> : h \in Heads}
      \union {<<Rule("forbid", Usual, LastStateChange(Isnt(Own), s)),
                Rule("require", Usual, <<"star", T(t)>>)>> : s, t \in Tests}
=============================================================================
