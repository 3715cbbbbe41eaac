---------------------------- MODULE MCAuthority ----------------------------
(* A small authority: two principals and every action, commands of one     *)
(* event and the compound commands a shell line makes of them.             *)
EXTENDS Authority, TLC

CONSTANTS alice, bob, a, b

By(p, act, r) == [principal |-> p, action |-> act, resource |-> r]

\* Every action on one file, a history request being as a diff, and a second
\* file that commands touch beside it.
\* cat a; rm a      sed -i s/x/y/ a b      cp a b; git add -- b
MCCommands ==
    {<<e>> : e \in {f \in Event : f.resource = a /\ f.action # "history"}}
    \union {<<By(p, "read", a), By(p, "delete", a)>> : p \in Principals}
    \union {<<By(p, "edit", a), By(p, "edit", b)>> : p \in Principals}
    \union {<<By(p, "read", a), By(p, "edit", b), By(p, "stage", b)>> : p \in Principals}

MCSymmetry == Permutations(Principals)
=============================================================================
