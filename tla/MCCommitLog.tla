---------------------------- MODULE MCCommitLog ----------------------------
(* Two files in the root, or a name that is a file or a directory.         *)
EXTENDS CommitLog, TLC

CONSTANTS a, b, d, dx, v, w

MCDepth == [x \in Paths |-> IF x = dx THEN 2 ELSE 1]
MCUnder == {<<dx, d>>} \intersect (Paths \X Paths)
MCSymmetry == Permutations(Contents)

\* Every tree; the trees in which d is a file; those in which it is not.
MCTrees == Tree
MCFileTrees == {t \in Tree : d \in Paths => t[d] # Absent}
MCDirectoryTrees == {t \in Tree : d \in Paths => t[d] = Absent}
=============================================================================
