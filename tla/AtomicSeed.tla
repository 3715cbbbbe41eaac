----------------------------- MODULE AtomicSeed -----------------------------
(***************************************************************************)
(* What publication promises whatever crashes: the seed passes from one    *)
(* whole version to the next, and the capability log gains the command     *)
(* that made the version in the same instant.  A command that asked to be  *)
(* published may never be, but is not published twice or in part.          *)
(***************************************************************************)
EXTENDS Naturals, Sequences

CONSTANTS
    Trees,          \* what the seed may hold
    Transactions,   \* the identities of publications
    Nothing         \* not asked for yet

VARIABLES
    asked,          \* the tree each transaction is to publish
    tree,           \* the version a reader of the seed is entitled to
    log             \* the publications made, in order

vars == <<asked, tree, log>>

Init ==
    /\ asked = [t \in Transactions |-> Nothing]
    /\ tree \in Trees
    /\ log = <<>>

Ask(t) ==
    /\ asked[t] = Nothing
    /\ asked'[t] \in Trees
    /\ asked' = [asked EXCEPT ![t] = asked'[t]]
    /\ UNCHANGED <<tree, log>>

Publish(t) ==
    /\ asked[t] # Nothing
    /\ UNCHANGED asked
    /\ \A i \in DOMAIN log : log[i] # t
    /\ log' = Append(log, t)
    /\ tree' = asked[t]

Next == \E t \in Transactions : Ask(t) \/ Publish(t)

Spec == Init /\ [][Next]_vars
=============================================================================
