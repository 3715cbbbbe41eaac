----------------------------- MODULE SerialSeed -----------------------------
(***************************************************************************)
(* What a transactional shell promises about the seed: every published     *)
(* command behaves as if it had run alone, all at once, at the moment it   *)
(* was published.  What it says it observed is what the seed held at that  *)
(* moment, and the seed changes by its own writes and nothing else.        *)
(***************************************************************************)
CONSTANTS
    Jobs,
    Paths,
    Contents,       \* what a path may hold, absence included
    NoCommand       \* nothing has been published yet

VARIABLES
    seed,           \* the published tree
    last            \* the last published command: who, what it saw and wrote

vars == <<seed, last>>

Init ==
    /\ seed \in [Paths -> Contents]
    /\ last = NoCommand

Run(j, R, W) ==
    \E wrote \in [W -> Contents] :
        /\ seed' = [x \in Paths |-> IF x \in W THEN wrote[x] ELSE seed[x]]
        /\ last' = [job |-> j,
                    observed |-> [x \in R |-> seed[x]],
                    wrote |-> wrote]

Next ==
    \E j \in Jobs, R \in SUBSET Paths, W \in SUBSET Paths : Run(j, R, W)

Spec == Init /\ [][Next]_vars
=============================================================================
