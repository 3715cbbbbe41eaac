--------------------------- MODULE MCTransactions ---------------------------
(* Two jobs, one file and the git index.                                   *)
EXTENDS Transactions, TLC

CONSTANTS alice, bob, a, index, absent, v

Footprint(reads, gitReads, blind, writes, acts) ==
    [reads |-> reads, gitReads |-> gitReads, blind |-> blind,
     writes |-> writes, acts |-> acts]

Do(act, r) == [action |-> act, resource |-> r]

Cat(r) == Footprint({r}, {}, {}, {}, <<Do("read", r)>>)
\* `: >> r; git add -- r`: r is opened for writing and left as it is.
TouchStage(r) == Footprint({}, {r, index}, {}, {index},
                           <<Do("edit", r), Do("stage", r)>>)
\* A write decided by whether another file exists, and one under .git/.
Probe(r, s) == Footprint({}, {}, {r}, {s}, <<Do("edit", s)>>)
RawIndex == Footprint({index}, {}, {}, {index}, <<>>)

\* `git checkout HEAD -- r dir || true`: r is written before the builtin fails
\* at the directory.
FailedCheckout(r) == Footprint({}, {r, index}, {}, {r}, <<>>)

MCAnnounced == {Cat(a), TouchStage(a), Probe(index, a), RawIndex}
MCPrograms == MCAnnounced \union {FailedCheckout(a)}

\* Which content the seed starts with does not matter, nor which job is which.
MCInit == TransactionsInit /\ seed = [x \in Paths |-> absent]
MCSpec == MCInit /\ [][TransactionsNext]_tvars
MCSymmetry == Permutations(Jobs)
=============================================================================
