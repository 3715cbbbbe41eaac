---------------------------- MODULE ReaderTrees ----------------------------
(***************************************************************************)
(* The trees bypassed commands share: acquire_reader, release_reader and   *)
(* discard_reader of src/shellmux/src/mux.rs.                              *)
(*                                                                         *)
(* One tree per version of the seed, counted in a map under the readers    *)
(* mutex.  acquire_reader deletes and creates trees under the mutex;       *)
(* release_reader and discard_reader take a tree out of the map under it   *)
(* and delete the tree after letting go, which is a step of its own here.  *)
(***************************************************************************)
EXTENDS Naturals, FiniteSets

CONSTANTS
    Readers,        \* bypassed commands
    Escapers,       \* those that may write to their tree after all
    Unlisted,       \* the map has no entry
    MaxSeq,         \* bound: the last version
    MaxUsers        \* bound: leases counted on one tree

ASSUME EscapersAssumption == Escapers \subseteq Readers
ASSUME MaxSeqAssumption == MaxSeq \in Nat /\ MaxUsers \in Nat \ {0}
ASSUME UnlistedAssumption == Unlisted \notin 0..MaxUsers

Versions == 0..MaxSeq

VARIABLES
    seq,            \* AuthorityState::seq
    readers,        \* [Versions -> users of the version's tree, or Unlisted]
    tree,           \* [Versions -> {"none", "clean", "dirty"}], on disk
    pc,             \* where each command is
    version,        \* base_seq of each command
    wrote           \* whether it escaped

vars == <<seq, readers, tree, pc, version, wrote>>

\* Commands that hold a lease on version v.
Holders(v) == {j \in Readers : version[j] = v /\ pc[j] \in {"taken", "running"}}

TypeOK ==
    /\ seq \in Versions
    /\ readers \in [Versions -> 0..MaxUsers \union {Unlisted}]
    /\ tree \in [Versions -> {"none", "clean", "dirty"}]
    /\ pc \in [Readers -> {"idle", "taken", "running", "deleting", "released",
                           "discarding"}]
    /\ version \in [Readers -> Versions]
    /\ wrote \in [Readers -> BOOLEAN]
    /\ \A j \in Readers : version[j] <= seq
    /\ \A v \in Versions : v > seq => readers[v] = Unlisted /\ tree[v] = "none"

Init ==
    /\ seq = 0
    /\ readers = [v \in Versions |-> Unlisted]
    /\ tree = [v \in Versions |-> "none"]
    /\ pc = [j \in Readers |-> "idle"]
    /\ version = [j \in Readers |-> 0]
    /\ wrote = [j \in Readers |-> FALSE]

\* A transaction is published.
Commit ==
    /\ seq < MaxSeq
    /\ seq' = seq + 1
    /\ UNCHANGED <<readers, tree, pc, version, wrote>>

\* Superseded trees nobody reads; the first form would take those in use too.
OldVersions == {v \in Versions : v # seq /\ readers[v] # Unlisted}

SupersededVersions == {v \in Versions : v # seq /\ readers[v] = 0}

\* The trees deleted for the entries taken out of the map.
NoTrees == {}

ReclaimedTrees == SupersededVersions

\* The version a tree is taken at.
CurrentVersion == seq

\* The map at the current version counts one more reader, or a new tree is
\* taken; what is superseded and unread goes.
Acquire(j) ==
    /\ pc[j] = "idle"
    /\ readers[seq] # MaxUsers
    /\ LET listed == readers[seq] # Unlisted
       IN  /\ readers' = [v \in Versions |->
                             IF v = seq THEN (IF listed THEN readers[v] + 1 ELSE 1)
                             ELSE IF v \in SupersededVersions THEN Unlisted
                             ELSE readers[v]]
           /\ tree' = [v \in Versions |->
                          IF v = seq THEN (IF listed THEN tree[v] ELSE "clean")
                          ELSE IF v \in ReclaimedTrees THEN "none" ELSE tree[v]]
    /\ pc' = [pc EXCEPT ![j] = "taken"]
    /\ version' = [version EXCEPT ![j] = CurrentVersion]
    /\ wrote' = [wrote EXCEPT ![j] = FALSE]
    /\ UNCHANGED seq

\* launch resolves the tree's path; one that is not there fails the launch,
\* and the lease is not given back.
Resolve(j) ==
    /\ pc[j] = "taken"
    /\ pc' = [pc EXCEPT ![j] = IF tree[version[j]] = "none" THEN "idle" ELSE "running"]
    /\ UNCHANGED <<seq, readers, tree, version, wrote>>

\* A command taken for read-only writes into its tree.
Escape(j) ==
    /\ pc[j] = "running" /\ j \in Escapers
    /\ wrote' = [wrote EXCEPT ![j] = TRUE]
    /\ tree' = [tree EXCEPT ![version[j]] = IF @ = "none" THEN @ ELSE "dirty"]
    /\ UNCHANGED <<seq, readers, pc, version>>

\* Whether a tree stays in the map when its users come to n.
Keeps(v, n) == n > 0 \/ v = seq

\* release_reader, up to the end of its critical section.
Release(j) ==
    /\ pc[j] = "running"
    /\ LET v == version[j]
           users == IF readers[v] > 0 THEN readers[v] - 1 ELSE 0
       IN  IF readers[v] = Unlisted
           THEN UNCHANGED readers /\ pc' = [pc EXCEPT ![j] = "released"]
           ELSE IF Keeps(v, users)
           THEN /\ readers' = [readers EXCEPT ![v] = users]
                /\ pc' = [pc EXCEPT ![j] = "released"]
           ELSE /\ readers' = [readers EXCEPT ![v] = Unlisted]
                /\ pc' = [pc EXCEPT ![j] = "deleting"]
    /\ UNCHANGED <<seq, tree, version, wrote>>

\* The deletion after it.
DeleteReleased(j) ==
    /\ pc[j] = "deleting"
    /\ tree' = [tree EXCEPT ![version[j]] = "none"]
    /\ pc' = [pc EXCEPT ![j] = "released"]
    /\ UNCHANGED <<seq, readers, version, wrote>>

\* conclude_bypass of a command that only read.
Conclude(j) ==
    /\ pc[j] = "released" /\ ~wrote[j]
    /\ pc' = [pc EXCEPT ![j] = "idle"]
    /\ UNCHANGED <<seq, readers, tree, version, wrote>>

\* discard_reader, up to the end of its critical section.  A tree that still
\* has readers is left to them.
DiscardableAlways(v) == readers[v] # Unlisted

DiscardableNever(v) == FALSE

Discardable(v) == readers[v] = 0

Discard(j) ==
    /\ pc[j] = "released" /\ wrote[j]
    /\ IF Discardable(version[j])
       THEN /\ readers' = [readers EXCEPT ![version[j]] = Unlisted]
            /\ pc' = [pc EXCEPT ![j] = "discarding"]
       ELSE UNCHANGED readers /\ pc' = [pc EXCEPT ![j] = "idle"]
    /\ UNCHANGED <<seq, tree, version, wrote>>

\* The deletion after it.
DeleteDiscarded(j) ==
    /\ pc[j] = "discarding"
    /\ tree' = [tree EXCEPT ![version[j]] = "none"]
    /\ pc' = [pc EXCEPT ![j] = "idle"]
    /\ UNCHANGED <<seq, readers, version, wrote>>

Next ==
    \/ Commit
    \/ \E j \in Readers :
          \/ Acquire(j)
          \/ Resolve(j)
          \/ Escape(j)
          \/ Release(j)
          \/ DeleteReleased(j)
          \/ Conclude(j)
          \/ Discard(j)
          \/ DeleteDiscarded(j)

Spec == Init /\ [][Next]_vars

-----------------------------------------------------------------------------
(* Properties.                                                             *)

\* The map never counts fewer readers than there are, so no tree is taken out
\* of it under a command.
LeasesCounted ==
    \A v \in Versions :
        Holders(v) # {} =>
            readers[v] # Unlisted /\ readers[v] >= Cardinality(Holders(v))

\* No tree is forgotten: one that is on disk is in the map, where a later
\* acquisition reclaims it, or somebody is about to delete it.
NoneForgotten ==
    \A v \in Versions :
        tree[v] # "none" =>
            \/ readers[v] # Unlisted
            \/ \E j \in Readers :
                  pc[j] \in {"deleting", "discarding"} /\ version[j] = v
=============================================================================
