---------------------------- MODULE BypassProofs ----------------------------
(***************************************************************************)
(* Proofs about the trees bypassed commands share and about the learned    *)
(* purity checker, for every set of commands, versions and command lines.  *)
(*                                                                         *)
(* The counts and the trees of ReaderTrees are inductive together: a tree  *)
(* without an entry has no command on it.  The composition adds to them    *)
(* what the log has to agree with before a restart may read it, and who    *)
(* answers for a tree that was written to.                                 *)
(***************************************************************************)
EXTENDS Bypass, TLAPS, FiniteSetTheorems

-----------------------------------------------------------------------------
(* The trees.                                                              *)

\* No entry, no reader; an entry counts all of them.
Counted(v) ==
    /\ IsFiniteSet(Holders(v))
    /\ readers[v] = Unlisted => Holders(v) = {}
    /\ readers[v] # Unlisted => Cardinality(Holders(v)) <= readers[v]

\* A tree being deleted by the last reader to leave it is superseded, and
\* nobody can acquire it again.
LeftBehind(j) ==
    pc[j] = "deleting" => version[j] < seq /\ readers[version[j]] = Unlisted

TreesInv ==
    /\ TypeOK
    /\ \A v \in Versions : Counted(v)
    /\ \A j \in Readers : LeftBehind(j)
    /\ NoneForgotten

\* A version keeps its count while no command joins it and its entry stays.
LEMMA CountedKept ==
    ASSUME NEW v, Counted(v), Holders(v)' \subseteq Holders(v),
           readers'[v] = readers[v], readers[v] = Unlisted \/ readers[v] \in Nat
    PROVE  Counted(v)'
<1>1. /\ IsFiniteSet(Holders(v)')
      /\ Cardinality(Holders(v)') <= Cardinality(Holders(v))
  BY FS_Subset DEF Counted
<1>2. Cardinality(Holders(v)) \in Nat /\ Cardinality(Holders(v)') \in Nat
  BY <1>1, FS_CardinalityType DEF Counted
<1> QED
  BY <1>1, <1>2 DEF Counted

\* The map and the trees have their types after every step (TypeOK).
LEMMA TreesTyping ==
    ASSUME TypeOK, [Next]_vars
    PROVE  TypeOK'
<1> USE MaxSeqAssumption, UnlistedAssumption DEF TypeOK, Versions
<1>1. CASE Commit
  BY <1>1 DEF Commit
<1>2. ASSUME NEW j \in Readers, Acquire(j)
      PROVE  TypeOK'
  <2>1. \A v \in Versions :
           /\ readers'[v] \in 0..MaxUsers \union {Unlisted}
           /\ v > seq => readers'[v] = Unlisted
    BY <1>2 DEF Acquire
  <2>2. readers' \in [Versions -> 0..MaxUsers \union {Unlisted}]
    BY <1>2, <2>1 DEF Acquire
  <2>3. /\ tree' \in [Versions -> {"none", "clean", "dirty"}]
        /\ \A v \in Versions : v > seq => tree'[v] = "none"
    BY <1>2 DEF Acquire
  <2>4. /\ version' \in [Readers -> Versions] /\ wrote' \in [Readers -> BOOLEAN]
        /\ pc' \in [Readers -> {"idle", "taken", "running", "deleting", "released",
                                "discarding"}]
        /\ \A i \in Readers : version'[i] <= seq
        /\ seq' = seq
    BY <1>2 DEF Acquire, CurrentVersion
  <2>5. /\ seq' \in Versions
        /\ \A v \in Versions : v > seq' => readers'[v] = Unlisted /\ tree'[v] = "none"
    BY <2>1, <2>3, <2>4
  <2> QED
    BY <2>2, <2>3, <2>4, <2>5
<1>3. ASSUME NEW j \in Readers, Resolve(j)
      PROVE  TypeOK'
  BY <1>3 DEF Resolve
<1>4. ASSUME NEW j \in Readers, Escape(j)
      PROVE  TypeOK'
  BY <1>4 DEF Escape
<1>5. ASSUME NEW j \in Readers, Release(j)
      PROVE  TypeOK'
  <2> DEFINE v == version[j]
             users == IF readers[v] > 0 THEN readers[v] - 1 ELSE 0
  <2>1. /\ v \in Versions /\ v <= seq
        /\ readers[v] # Unlisted => users \in 0..MaxUsers
    OBVIOUS
  <2>2. \E n \in 0..MaxUsers \union {Unlisted} : readers' = [readers EXCEPT ![v] = n]
    <3>1. CASE readers[v] = Unlisted
      <4>1. readers' = readers /\ readers = [readers EXCEPT ![v] = Unlisted]
        BY <1>5, <2>1, <3>1 DEF Release
      <4> QED
        BY <4>1
    <3>2. CASE readers[v] # Unlisted /\ Keeps(v, users)
      <4>1. readers' = [readers EXCEPT ![v] = users]
        BY <1>5, <3>2 DEF Release
      <4> QED
        BY <2>1, <3>2, <4>1
    <3>3. CASE readers[v] # Unlisted /\ ~Keeps(v, users)
      BY <1>5, <3>3 DEF Release
    <3> QED
      BY <3>1, <3>2, <3>3
  <2>3. pc' \in [Readers -> {"idle", "taken", "running", "deleting", "released",
                            "discarding"}]
    BY <1>5 DEF Release
  <2>4. UNCHANGED <<seq, tree, version, wrote>>
    BY <1>5 DEF Release
  <2>5. \A w \in Versions : w > seq => readers'[w] = readers[w]
    BY <2>1, <2>2
  <2> QED
    BY <2>2, <2>3, <2>4, <2>5
<1>6. ASSUME NEW j \in Readers, DeleteReleased(j)
      PROVE  TypeOK'
  BY <1>6 DEF DeleteReleased
<1>7. ASSUME NEW j \in Readers, Conclude(j)
      PROVE  TypeOK'
  BY <1>7 DEF Conclude
<1>8. ASSUME NEW j \in Readers, Discard(j)
      PROVE  TypeOK'
  BY <1>8 DEF Discard, Discardable
<1>9. ASSUME NEW j \in Readers, DeleteDiscarded(j)
      PROVE  TypeOK'
  BY <1>9 DEF DeleteDiscarded
<1>10. CASE UNCHANGED vars
  BY <1>10 DEF vars
<1> QED
  BY <1>1, <1>2, <1>3, <1>4, <1>5, <1>6, <1>7, <1>8, <1>9, <1>10 DEF Next

\* What release_reader leaves: one user fewer, or no entry for a superseded
\* tree that its last user is about to delete.
LEMMA ReleaseOutcomes ==
    ASSUME TreesInv, NEW j \in Readers, Release(j)
    PROVE  LET v == version[j]
           IN  /\ v \in Versions /\ j \in Holders(v) /\ pc[j] = "running"
               /\ readers[v] \in 1..MaxUsers
               /\ \/ /\ readers' = [readers EXCEPT ![v] = readers[v] - 1]
                     /\ pc' = [pc EXCEPT ![j] = "released"]
                  \/ /\ readers[v] = 1 /\ v < seq
                     /\ readers' = [readers EXCEPT ![v] = Unlisted]
                     /\ pc' = [pc EXCEPT ![j] = "deleting"]
               /\ UNCHANGED <<seq, tree, version, wrote>>
<1> DEFINE v == version[j]
<1>1. v \in Versions /\ v <= seq /\ seq \in Nat /\ v \in Nat /\ pc[j] = "running"
  BY MaxSeqAssumption DEF TreesInv, TypeOK, Versions, Release
<1>2. j \in Holders(v)
  BY <1>1 DEF Holders
<1>3. Counted(v)
  BY <1>1 DEF TreesInv
<1>4. readers[v] # Unlisted
  BY <1>2, <1>3 DEF Counted
<1>5. Cardinality(Holders(v)) \in Nat /\ Cardinality(Holders(v)) # 0
  BY <1>2, <1>3, FS_CardinalityType, FS_EmptySet DEF Counted
<1>6. readers[v] \in 0..MaxUsers
  BY <1>1, <1>4 DEF TreesInv, TypeOK
<1>7. readers[v] \in 1..MaxUsers
  BY <1>3, <1>4, <1>5, <1>6, MaxSeqAssumption DEF Counted
<1>8. CASE readers[v] - 1 > 0 \/ v = seq
  BY <1>1, <1>2, <1>4, <1>7, <1>8 DEF Release, Keeps
<1>9. CASE ~(readers[v] - 1 > 0 \/ v = seq)
  <2>1. readers[v] = 1 /\ v < seq
    BY <1>1, <1>7, <1>9, MaxSeqAssumption
  <2> QED
    BY <1>1, <1>2, <1>4, <1>7, <2>1 DEF Release, Keeps
<1> QED
  BY <1>8, <1>9

\* A new reader of the current version is counted, and the versions given up
\* had none.
LEMMA AcquireCounts ==
    ASSUME TreesInv, NEW j \in Readers, Acquire(j)
    PROVE  \A v \in Versions : Counted(v)'
<1> SUFFICES ASSUME NEW v \in Versions PROVE Counted(v)'
  OBVIOUS
<1>1. /\ seq \in Versions /\ v \in Nat /\ seq \in Nat
      /\ readers[v] \in Nat \/ readers[v] = Unlisted
      /\ pc \in [Readers -> {"idle", "taken", "running", "deleting", "released",
                             "discarding"}]
      /\ version \in [Readers -> Versions]
  BY MaxSeqAssumption DEF TreesInv, TypeOK, Versions
<1>2. Counted(v)
  BY DEF TreesInv
<1>3. CASE v = seq
  <2>1. Holders(v)' = Holders(v) \union {j} /\ j \notin Holders(v)
    BY <1>1, <1>3 DEF Acquire, CurrentVersion, Holders
  <2>2. /\ IsFiniteSet(Holders(v)')
        /\ Cardinality(Holders(v)') = Cardinality(Holders(v)) + 1
        /\ Cardinality(Holders(v)) \in Nat
    BY <1>2, <2>1, FS_AddElement, FS_CardinalityType DEF Counted
  <2>3. CASE readers[v] # Unlisted
    <3>1. readers'[v] = readers[v] + 1
      BY <1>1, <1>3, <2>3 DEF Acquire
    <3>2. TypeOK'
      BY TreesTyping DEF TreesInv, Next
    <3>3. readers'[v] # Unlisted
      BY <1>1, <1>3, <2>3, <3>1, <3>2, UnlistedAssumption, MaxSeqAssumption
         DEF TreesInv, TypeOK, Acquire
    <3> QED
      BY <1>1, <1>2, <2>2, <2>3, <3>1, <3>3 DEF Counted
  <2>4. CASE readers[v] = Unlisted
    <3>1. readers'[v] = 1
      BY <1>1, <1>3, <2>4 DEF Acquire
    <3>2. readers'[v] # Unlisted
      BY <3>1, UnlistedAssumption, MaxSeqAssumption
    <3>3. Cardinality(Holders(v)) = 0
      BY <1>2, <2>4, FS_EmptySet DEF Counted
    <3> QED
      BY <2>2, <3>1, <3>2, <3>3 DEF Counted
  <2> QED
    BY <2>3, <2>4
<1>4. CASE v # seq
  <2>1. Holders(v)' = Holders(v)
    BY <1>1, <1>4 DEF Acquire, CurrentVersion, Holders
  <2>2. CASE v \in SupersededVersions
    <3>1. readers[v] = 0 /\ readers'[v] = Unlisted
      BY <1>4, <2>2 DEF Acquire, SupersededVersions
    <3>2. readers[v] # Unlisted
      BY <3>1, UnlistedAssumption, MaxSeqAssumption
    <3>3. Holders(v) = {}
      BY <1>2, <3>1, <3>2, FS_EmptySet, FS_CardinalityType DEF Counted
    <3> QED
      BY <1>2, <2>1, <3>1, <3>3 DEF Counted
  <2>3. CASE v \notin SupersededVersions
    <3>1. readers'[v] = readers[v]
      BY <1>4, <2>3 DEF Acquire
    <3> QED
      BY <1>1, <1>2, <2>1, <3>1, CountedKept
  <2> QED
    BY <2>2, <2>3
<1> QED
  BY <1>3, <1>4

\* A step that only moves commands out of their leases, j among them, or
\* leaves them where they are, keeps every count.
LEMMA LeavingKeepsCounts ==
    ASSUME TreesInv, UNCHANGED <<readers, version>>,
           \A i \in Readers : pc'[i] \in {"taken", "running"} =>
                                 pc[i] \in {"taken", "running"}
    PROVE  \A v \in Versions : Counted(v)'
<1> SUFFICES ASSUME NEW v \in Versions PROVE Counted(v)'
  OBVIOUS
<1>1. Holders(v)' \subseteq Holders(v)
  BY DEF Holders
<1>2. readers[v] \in Nat \/ readers[v] = Unlisted
  BY MaxSeqAssumption DEF TreesInv, TypeOK
<1> QED
  BY <1>1, <1>2, CountedKept DEF TreesInv

\* A release keeps the counts of the tree it leaves and of all others.
LEMMA ReleaseCounts ==
    ASSUME TreesInv, NEW j \in Readers, Release(j)
    PROVE  \A v \in Versions : Counted(v)'
<1> SUFFICES ASSUME NEW v \in Versions PROVE Counted(v)'
  OBVIOUS
<1> DEFINE w == version[j]
<1>1. /\ w \in Versions /\ j \in Holders(w) /\ readers[w] \in 1..MaxUsers
      /\ UNCHANGED version
      /\ \A i \in Readers : pc'[i] = IF i = j THEN pc'[j] ELSE pc[i]
      /\ pc'[j] \notin {"taken", "running"}
      /\ readers \in [Versions -> 0..MaxUsers \union {Unlisted}]
  BY ReleaseOutcomes DEF TreesInv, TypeOK
<1>2. Counted(v) /\ (readers[v] \in Nat \/ readers[v] = Unlisted)
  BY <1>1, MaxSeqAssumption DEF TreesInv
<1>3. CASE v # w
  <2>1. Holders(v)' \subseteq Holders(v) /\ readers'[v] = readers[v]
    BY <1>1, <1>3, ReleaseOutcomes DEF Holders
  <2> QED
    BY <1>2, <2>1, CountedKept
<1>4. CASE v = w
  <2>1. Holders(v)' = Holders(v) \ {j}
    BY <1>1, <1>4 DEF Holders
  <2>2. /\ IsFiniteSet(Holders(v)')
        /\ Cardinality(Holders(v)') = Cardinality(Holders(v)) - 1
        /\ Cardinality(Holders(v)) \in Nat
        /\ Cardinality(Holders(v)') \in Nat
    BY <1>1, <1>2, <1>4, <2>1, FS_RemoveElement, FS_CardinalityType DEF Counted
  <2>3. Cardinality(Holders(v)) <= readers[v]
    BY <1>1, <1>2, <1>4 DEF Counted
  <2>4. CASE readers' = [readers EXCEPT ![w] = readers[w] - 1]
    <3>1. readers'[v] = readers[v] - 1 /\ readers[v] - 1 \in 0..MaxUsers
      BY <1>1, <1>4, <2>4, MaxSeqAssumption
    <3> QED
      BY <1>1, <1>4, <2>2, <2>3, <3>1, UnlistedAssumption DEF Counted
  <2>5. CASE readers[w] = 1 /\ readers' = [readers EXCEPT ![w] = Unlisted]
    <3>1. Cardinality(Holders(v)') = 0
      BY <1>4, <2>2, <2>3, <2>5
    <3>2. Holders(v)' = {}
      BY <2>2, <3>1, FS_EmptySet
    <3>3. readers'[v] = Unlisted
      BY <1>1, <1>4, <2>5
    <3> QED
      BY <2>2, <3>2, <3>3 DEF Counted
  <2> QED
    BY <2>4, <2>5, ReleaseOutcomes
<1> QED
  BY <1>3, <1>4

\* Every step on the trees keeps the counts, leaves superseded trees behind
\* and forgets none.
LEMMA TreesStep ==
    ASSUME TreesInv, [Next]_vars
    PROVE  TreesInv'
<1>1. TypeOK /\ TypeOK'
  BY TreesTyping DEF TreesInv
<1>2. /\ \A v \in Versions : v \in Nat
      /\ seq \in Versions
      /\ \A j \in Readers : version[j] \in Versions /\ version[j] <= seq
      /\ \A j \in Readers : LeftBehind(j)
      /\ pc \in [Readers -> {"idle", "taken", "running", "deleting", "released",
                             "discarding"}]
      /\ readers \in [Versions -> 0..MaxUsers \union {Unlisted}]
      /\ tree \in [Versions -> {"none", "clean", "dirty"}]
      /\ version \in [Readers -> Versions]
  BY <1>1, MaxSeqAssumption DEF TypeOK, Versions, TreesInv
<1>3. CASE Commit
  <2>1. \A v \in Versions : Counted(v)'
    BY <1>3, LeavingKeepsCounts DEF Commit
  <2>2. (\A j \in Readers : LeftBehind(j)') /\ NoneForgotten'
    BY <1>2, <1>3 DEF TreesInv, Commit, LeftBehind, NoneForgotten
  <2> QED
    BY <1>1, <2>1, <2>2 DEF TreesInv
<1>4. ASSUME NEW j \in Readers, Acquire(j)
      PROVE  TreesInv'
  <2>1. \A v \in Versions : Counted(v)'
    BY <1>4, AcquireCounts
  <2>2. \A i \in Readers : LeftBehind(i)'
    <3> SUFFICES ASSUME NEW i \in Readers, pc'[i] = "deleting"
                 PROVE  version'[i] < seq' /\ readers'[version'[i]] = Unlisted
      BY DEF LeftBehind
    <3>1. i # j /\ pc[i] = "deleting" /\ version'[i] = version[i] /\ seq' = seq
      BY <1>2, <1>4 DEF Acquire
    <3>2. version[i] < seq /\ readers[version[i]] = Unlisted
      BY <1>2, <3>1 DEF LeftBehind
    <3>3. readers'[version[i]] = Unlisted
      BY <1>2, <1>4, <3>2 DEF Acquire
    <3> QED
      BY <3>1, <3>2, <3>3
  <2>3. NoneForgotten'
    <3> SUFFICES ASSUME NEW v \in Versions, tree'[v] # "none",
                        readers'[v] = Unlisted
                 PROVE  \E i \in Readers :
                           pc'[i] \in {"deleting", "discarding"} /\ version'[i] = v
      BY DEF NoneForgotten
    <3>1. v # seq
      BY <1>1, <1>2, <1>4, UnlistedAssumption, MaxSeqAssumption
         DEF Acquire, TypeOK, CurrentVersion
    <3>2. v \notin SupersededVersions /\ tree[v] # "none" /\ readers[v] = Unlisted
      BY <1>4, <3>1 DEF Acquire, ReclaimedTrees
    <3>3. PICK i \in Readers :
             pc[i] \in {"deleting", "discarding"} /\ version[i] = v
      BY <3>2 DEF TreesInv, NoneForgotten
    <3>4. i # j /\ pc'[i] = pc[i] /\ version'[i] = version[i]
      BY <1>2, <1>4, <3>3 DEF Acquire
    <3> QED
      BY <3>3, <3>4
  <2> QED
    BY <1>1, <2>1, <2>2, <2>3 DEF TreesInv
<1>5. ASSUME NEW j \in Readers, Resolve(j) \/ Escape(j) \/ Conclude(j)
      PROVE  TreesInv'
  <2>1. /\ UNCHANGED <<seq, readers, version>>
        /\ \A v \in Versions : tree'[v] # "none" => tree[v] # "none"
        /\ \A i \in Readers :
              /\ pc'[i] \in {"taken", "running"} => pc[i] \in {"taken", "running"}
              /\ pc'[i] = "deleting" => pc[i] = "deleting"
              /\ pc[i] \in {"deleting", "discarding"} => pc'[i] = pc[i]
    BY <1>2, <1>5 DEF Resolve, Escape, Conclude
  <2>2. \A v \in Versions : Counted(v)'
    BY <2>1, LeavingKeepsCounts
  <2>3. (\A i \in Readers : LeftBehind(i)') /\ NoneForgotten'
    BY <1>2, <2>1 DEF TreesInv, LeftBehind, NoneForgotten
  <2> QED
    BY <1>1, <2>2, <2>3 DEF TreesInv
<1>6. ASSUME NEW j \in Readers, Release(j)
      PROVE  TreesInv'
  <2> DEFINE w == version[j]
  <2>1. \A v \in Versions : Counted(v)'
    BY <1>6, ReleaseCounts
  <2>2. /\ w \in Versions /\ pc[j] = "running" /\ readers[w] # Unlisted
        /\ UNCHANGED <<seq, tree, version, wrote>>
        /\ \A i \in Readers \ {j} : pc'[i] = pc[i]
        /\ \A v \in Versions \ {w} : readers'[v] = readers[v]
        /\ \/ pc'[j] = "released" /\ readers'[w] # Unlisted
           \/ pc'[j] = "deleting" /\ w < seq /\ readers'[w] = Unlisted
    BY <1>2, <1>6, ReleaseOutcomes, UnlistedAssumption, MaxSeqAssumption
  <2>3. \A i \in Readers : LeftBehind(i)'
    BY <1>2, <2>2 DEF LeftBehind
  <2>4. NoneForgotten'
    BY <2>2 DEF TreesInv, NoneForgotten
  <2> QED
    BY <1>1, <2>1, <2>3, <2>4 DEF TreesInv
<1>7. ASSUME NEW j \in Readers, DeleteReleased(j) \/ DeleteDiscarded(j)
      PROVE  TreesInv'
  <2>1. /\ UNCHANGED <<seq, readers, version>>
        /\ tree' = [tree EXCEPT ![version[j]] = "none"]
        /\ pc[j] \in {"deleting", "discarding"}
        /\ pc'[j] \in {"released", "idle"}
        /\ \A i \in Readers \ {j} : pc'[i] = pc[i]
    BY <1>2, <1>7 DEF DeleteReleased, DeleteDiscarded
  <2>2. \A v \in Versions : Counted(v)'
    BY <2>1, LeavingKeepsCounts
  <2>3. (\A i \in Readers : LeftBehind(i)') /\ NoneForgotten'
    BY <1>2, <2>1 DEF TreesInv, LeftBehind, NoneForgotten
  <2> QED
    BY <1>1, <2>2, <2>3 DEF TreesInv
<1>8. ASSUME NEW j \in Readers, Discard(j)
      PROVE  TreesInv'
  <2> DEFINE w == version[j]
  <2>1. /\ UNCHANGED <<seq, tree, version>>
        /\ pc[j] = "released"
        /\ \A i \in Readers \ {j} : pc'[i] = pc[i]
    BY <1>2, <1>8 DEF Discard
  <2>2. CASE readers[w] # 0
    <3>1. UNCHANGED readers /\ pc'[j] = "idle"
      BY <1>2, <1>8, <2>2 DEF Discard, Discardable
    <3>2. \A v \in Versions : Counted(v)'
      BY <2>1, <3>1, LeavingKeepsCounts
    <3>3. (\A i \in Readers : LeftBehind(i)') /\ NoneForgotten'
      BY <1>2, <2>1, <3>1 DEF TreesInv, LeftBehind, NoneForgotten
    <3> QED
      BY <1>1, <3>2, <3>3 DEF TreesInv
  <2>3. CASE readers[w] = 0
    <3>1. readers' = [readers EXCEPT ![w] = Unlisted] /\ pc'[j] = "discarding"
      BY <1>2, <1>8, <2>3 DEF Discard, Discardable
    <3>2. Counted(w) /\ readers[w] # Unlisted
      BY <1>2, <2>3, UnlistedAssumption, MaxSeqAssumption DEF TreesInv
    <3>3. Holders(w) = {}
      BY <2>3, <3>2, FS_EmptySet, FS_CardinalityType DEF Counted
    <3>4. ASSUME NEW v \in Versions PROVE Counted(v)'
      <4>1. Holders(v)' \subseteq Holders(v) /\ Counted(v)
        BY <2>1, <3>1 DEF Holders, TreesInv
      <4>2. CASE v = w
        BY <1>2, <3>1, <3>2, <3>3, <4>1, <4>2 DEF Counted
      <4>3. CASE v # w
        <5>1. /\ readers'[v] = readers[v]
              /\ readers[v] \in Nat \/ readers[v] = Unlisted
          BY <1>2, <3>1, <4>3, MaxSeqAssumption
        <5> QED
          BY <4>1, <5>1, CountedKept
      <4> QED
        BY <4>2, <4>3
    <3>5. \A i \in Readers : LeftBehind(i)'
      BY <1>2, <2>1, <3>1 DEF LeftBehind
    <3>6. NoneForgotten'
      BY <1>2, <2>1, <3>1 DEF TreesInv, NoneForgotten
    <3> QED
      BY <1>1, <3>4, <3>5, <3>6 DEF TreesInv
  <2> QED
    BY <2>2, <2>3
<1>9. CASE UNCHANGED vars
  <2>1. \A v \in Versions : Counted(v)'
    BY <1>9, LeavingKeepsCounts DEF vars
  <2>2. (\A i \in Readers : LeftBehind(i)') /\ NoneForgotten'
    BY <1>9 DEF vars, TreesInv, LeftBehind, NoneForgotten
  <2> QED
    BY <1>1, <2>1, <2>2 DEF TreesInv
<1> QED
  BY <1>3, <1>4, <1>5, <1>6, <1>7, <1>8, <1>9 DEF Next

\* Nothing is on disk at first, and nobody reads.
LEMMA TreesStart ==
    Init => TreesInv
<1> SUFFICES ASSUME Init PROVE TreesInv
  OBVIOUS
<1>1. \A v \in Versions : Holders(v) = {}
  BY DEF Init, Holders
<1>2. TypeOK
  BY MaxSeqAssumption DEF Init, TypeOK, Versions
<1>3. \A v \in Versions : Counted(v)
  BY <1>1, FS_EmptySet DEF Init, Counted
<1> QED
  BY <1>2, <1>3 DEF Init, TreesInv, LeftBehind, NoneForgotten

\* What the invariant says of a tree with readers (LeasesCounted).
LEMMA CountedMeans ==
    ASSUME TreesInv
    PROVE  LeasesCounted
<1> SUFFICES ASSUME NEW v \in Versions, Holders(v) # {}
             PROVE  readers[v] # Unlisted /\ readers[v] >= Cardinality(Holders(v))
  BY DEF LeasesCounted
<1>1. Counted(v) /\ readers[v] # Unlisted
  BY DEF TreesInv, Counted
<1>2. readers[v] \in Nat /\ Cardinality(Holders(v)) \in Nat
  BY <1>1, FS_CardinalityType, MaxSeqAssumption DEF TreesInv, TypeOK, Counted
<1> QED
  BY <1>1, <1>2 DEF Counted

\* The readers map and the trees stay typed, however commands come and go
\* (TypeOK).
THEOREM TreesTyped == Spec => []TypeOK
<1>1. Init => TypeOK
  BY TreesStart DEF TreesInv
<1> QED
  BY <1>1, TreesTyping, PTL DEF Spec

\* The readers map counts every lease, and a tree that is on disk is in the
\* map or about to be deleted (acquire_reader, release_reader, discard_reader).
THEOREM TreesSafe == Spec => [](LeasesCounted /\ NoneForgotten)
<1>1. TreesInv => LeasesCounted /\ NoneForgotten
  BY CountedMeans DEF TreesInv
<1> QED
  BY <1>1, TreesStart, TreesStep, PTL DEF Spec

-----------------------------------------------------------------------------
(* The checker.                                                            *)

Owed(k) == \E i \in Readers : due[i] # "none" /\ key[i] = k

\* The map and the last run of a command line agree, and so does the log once
\* nothing is owed to it, for every command line whose record was not lost.
Believed ==
    /\ \A k \in Keys \ behind : /\ known[k] = seen[k]
                                /\ ~Owed(k) => lines[k] = known[k]
    /\ \A j \in Readers : due[j] # "none" => /\ known[key[j]] = seen[key[j]]
                                             /\ plan[j] \in {"recording", "withdrawn"}

\* A transaction has no tree of this kind, and a tree is discarded after the
\* withdrawal was appended.
Orderly ==
    \A j \in Readers : /\ plan[j] = "transaction" => pc[j] = "idle"
                       /\ pc[j] = "discarding" => due[j] = "none"

\* An escapee of version v that has not been concluded.
Escapee(i, v) ==
    /\ plan[i] \in {"bypass", "withdrawn"} /\ pc[i] # "idle"
    /\ version[i] = v /\ wrote[i]

\* Somebody answers for every dirty tree that can still be handed out.
Answered ==
    /\ \A v \in Versions : tree[v] = "dirty" /\ readers[v] # Unlisted =>
          v \in shared \union unseen \/ \E i \in Readers : Escapee(i, v)
    /\ \A j \in Readers : pc[j] = "taken" => ~wrote[j]

BypassInv ==
    /\ TreesInv
    /\ BypassTypeOK
    /\ restarts \in Nat
    /\ Orderly
    /\ Believed
    /\ Answered

\* The composition moves the trees as ReaderTrees does, but for a session that
\* starts over and a command stopped by force.
LEMMA StepKinds ==
    ASSUME [BypassNext]_bvars
    PROVE  [Next]_vars \/ Restart \/ \E j \in Readers : ConcludeKilled(j)
<1>1. CASE BypassNext
  BY <1>1 DEF BypassNext, Publish, PlanFor, Append, ConcludeTraced, Observe, Bypassed,
              LaunchResolved, ConcludeRead, Withdraw, DiscardTree, DeleteTree, Next, vars
<1>2. CASE UNCHANGED bvars
  BY <1>2 DEF bvars
<1> QED
  BY <1>1, <1>2

\* The two of them keep the trees' invariant as well.
LEMMA BypassTreesStep ==
    ASSUME TreesInv, [BypassNext]_bvars
    PROVE  TreesInv'
<1>1. CASE [Next]_vars
  BY <1>1, TreesStep
<1>2. CASE Restart
  <2>1. TypeOK'
    BY <1>2, MaxSeqAssumption DEF Restart, TreesInv, TypeOK, Versions
  <2>2. \A v \in Versions : Holders(v)' = {}
    BY <1>2 DEF Restart, Holders
  <2>3. \A v \in Versions : Counted(v)'
    BY <1>2, <2>2, FS_EmptySet DEF Restart, Counted
  <2>4. (\A j \in Readers : LeftBehind(j)') /\ NoneForgotten'
    BY <1>2 DEF Restart, LeftBehind, NoneForgotten
  <2> QED
    BY <2>1, <2>3, <2>4 DEF TreesInv
<1>3. ASSUME NEW j \in Readers, ConcludeKilled(j)
      PROVE  TreesInv'
  <2>1. /\ UNCHANGED <<seq, readers, tree, version, wrote>>
        /\ pc[j] = "released" /\ pc' = [pc EXCEPT ![j] = "idle"]
    BY <1>3 DEF ConcludeKilled
  <2>2. TypeOK'
    BY <2>1 DEF TreesInv, TypeOK
  <2>3. /\ pc'[j] = "idle"
        /\ \A i \in Readers \ {j} : pc'[i] = pc[i]
    BY <2>1 DEF TreesInv, TypeOK
  <2>4. \A v \in Versions : Counted(v)'
    BY <2>1, <2>3, LeavingKeepsCounts
  <2>5. (\A i \in Readers : LeftBehind(i)') /\ NoneForgotten'
    BY <2>1, <2>3 DEF TreesInv, LeftBehind, NoneForgotten
  <2> QED
    BY <2>2, <2>4, <2>5 DEF TreesInv
<1> QED
  BY <1>1, <1>2, <1>3, StepKinds

\* The checker's state keeps its type (BypassTypeOK).
LEMMA BypassTyping ==
    ASSUME TreesInv, BypassTypeOK, restarts \in Nat, [BypassNext]_bvars
    PROVE  BypassTypeOK' /\ restarts' \in Nat
<1>1. TypeOK' /\ TypeOK
  BY BypassTreesStep DEF TreesInv
<1> USE <1>1 DEF BypassTypeOK, Lasting, Verdicts, learned, bounds, trees
<1>2. CASE Publish
  BY <1>2 DEF Publish
<1>3. CASE Restart
  <2>1. behind' \subseteq Keys
    BY <1>3 DEF Restart
  <2>2. /\ plan' \in [Readers -> {"none", "bypass", "transaction", "recording", "withdrawn"}]
        /\ due' \in [Readers -> Verdicts \union {"none"}]
    BY <1>3 DEF Restart
  <2>3. /\ known' = lines /\ torn' = FALSE /\ shared' = {} /\ unseen' = {}
        /\ UNCHANGED <<key, lines, corrupt, seen>> /\ restarts' = restarts + 1
    BY <1>3 DEF Restart
  <2>4. restarts' \in Nat
    BY <2>3
  <2>5. BypassTypeOK'
    BY <2>1, <2>2, <2>3
  <2> QED
    BY <2>4, <2>5
<1>4. ASSUME NEW j \in Readers, NEW k \in Keys, PlanFor(j, k)
      PROVE  BypassTypeOK' /\ restarts' \in Nat
  BY <1>4 DEF PlanFor
<1>5. ASSUME NEW j \in Readers, Append(j)
      PROVE  BypassTypeOK' /\ restarts' \in Nat
  <2>1. /\ lines' \in Lasting /\ behind' \subseteq Keys
        /\ due' \in [Readers -> Verdicts \union {"none"}]
    BY <1>5 DEF Append
  <2>2. torn' \in BOOLEAN /\ corrupt' \in BOOLEAN
    BY <1>5 DEF Append
  <2>3. plan' \in [Readers -> {"none", "bypass", "transaction", "recording", "withdrawn"}]
    BY <1>5 DEF Append
  <2>4. UNCHANGED <<key, known, seen, shared, unseen, restarts>>
    BY <1>5 DEF Append
  <2> QED
    BY <2>1, <2>2, <2>3, <2>4
<1>6. ASSUME NEW j \in Readers, NEW v \in Verdicts, ConcludeTraced(j, v)
      PROVE  BypassTypeOK' /\ restarts' \in Nat
  BY <1>6 DEF ConcludeTraced, Observe
<1>7. ASSUME NEW j \in Readers, Bypassed(j)
      PROVE  BypassTypeOK' /\ restarts' \in Nat
  <2>1. shared' \subseteq shared /\ unseen' \subseteq unseen
    BY <1>7 DEF Bypassed
  <2>2. UNCHANGED <<plan, key, known, due, lines, torn, corrupt, seen, behind, restarts>>
    BY <1>7 DEF Bypassed
  <2> QED
    BY <2>1, <2>2
<1>8. ASSUME NEW j \in Readers, LaunchResolved(j)
      PROVE  BypassTypeOK' /\ restarts' \in Nat
  BY <1>8 DEF LaunchResolved
<1>9. ASSUME NEW j \in Readers, ConcludeRead(j)
      PROVE  BypassTypeOK' /\ restarts' \in Nat
  BY <1>9 DEF ConcludeRead
<1>10. ASSUME NEW j \in Readers, ConcludeKilled(j)
      PROVE  BypassTypeOK' /\ restarts' \in Nat
  BY <1>10 DEF ConcludeKilled, TypeOK
<1>11. ASSUME NEW j \in Readers, Withdraw(j)
      PROVE  BypassTypeOK' /\ restarts' \in Nat
  BY <1>11 DEF Withdraw, Observe
<1>12. ASSUME NEW j \in Readers, DiscardTree(j)
      PROVE  BypassTypeOK' /\ restarts' \in Nat
  BY <1>12 DEF DiscardTree, TypeOK
<1>13. ASSUME NEW j \in Readers, DeleteTree(j)
      PROVE  BypassTypeOK' /\ restarts' \in Nat
  BY <1>13 DEF DeleteTree
<1>14. CASE UNCHANGED bvars
  BY <1>14 DEF bvars
<1> QED
  BY <1>2, <1>3, <1>4, <1>5, <1>6, <1>7, <1>8, <1>9, <1>10, <1>11, <1>12,
     <1>13, <1>14 DEF BypassNext

\* An observation settles what is known of a command line, and owes the log
\* the answer exactly when it changed (LearnedPurity::observe).
LEMMA ObserveBelieved ==
    ASSUME BypassTypeOK, Believed, NEW j \in Readers, NEW v \in Verdicts,
           Observe(j, v), due[j] = "none", UNCHANGED key,
           \A i \in Readers \ {j} : plan'[i] = plan[i],
           due'[j] # "none" => plan'[j] \in {"recording", "withdrawn"}
    PROVE  Believed'
<1> DEFINE k == key[j]
<1>1. /\ k \in Keys /\ key' = key /\ behind' = behind /\ lines' = lines
      /\ \A c \in Keys \ {k} : known'[c] = known[c] /\ seen'[c] = seen[c]
      /\ known'[k] = v /\ seen'[k] = v
      /\ \A i \in Readers \ {j} : due'[i] = due[i]
      /\ due'[j] = IF known[k] = v THEN "none" ELSE v
      /\ v # "none"
  BY DEF Observe, BypassTypeOK, Lasting, Verdicts
<1>2. ASSUME NEW c \in Keys \ behind
      PROVE  known'[c] = seen'[c] /\ (~Owed(c)' => lines'[c] = known'[c])
  <2>1. CASE c # k
    <3>1. Owed(c)' <=> Owed(c)
      BY <1>1, <2>1 DEF Owed
    <3> QED
      BY <1>1, <2>1, <3>1 DEF Believed
  <2>2. CASE c = k /\ known[k] = v
    <3>1. Owed(c)' <=> Owed(c)
      BY <1>1, <2>2 DEF Owed
    <3> QED
      BY <1>1, <2>2, <3>1 DEF Believed
  <2>3. CASE c = k /\ known[k] # v
    <3>1. Owed(c)'
      BY <1>1, <2>3 DEF Owed
    <3> QED
      BY <1>1, <2>3, <3>1
  <2> QED
    BY <2>1, <2>2, <2>3
<1>3. ASSUME NEW i \in Readers, due'[i] # "none"
      PROVE  known'[key'[i]] = seen'[key'[i]] /\ plan'[i] \in {"recording", "withdrawn"}
  <2>1. CASE i = j
    BY <1>1, <1>3, <2>1
  <2>2. CASE i # j
    <3>1. key[i] \in Keys
      BY DEF BypassTypeOK
    <3> QED
      BY <1>1, <1>3, <2>2, <3>1 DEF Believed
  <2> QED
    BY <2>1, <2>2
<1> QED
  BY <1>1, <1>2, <1>3 DEF Believed

\* An append pays what was owed, or leaves the command line among those whose
\* record was lost or overtaken.
LEMMA AppendBelieved ==
    ASSUME BypassTypeOK, Believed, NEW j \in Readers, Append(j)
    PROVE  Believed'
<1> DEFINE k == key[j]
<1>1. /\ k \in Keys /\ due[j] # "none"
      /\ UNCHANGED <<key, known, seen>>
      /\ due'[j] = "none"
      /\ \A i \in Readers \ {j} : due'[i] = due[i] /\ plan'[i] = plan[i]
      /\ \A c \in Keys \ {k} : lines'[c] = lines[c]
      /\ known[k] = seen[k]
  BY DEF Append, BypassTypeOK, Lasting, Verdicts, Believed
<1>2. \A c \in Keys \ {k} : c \in behind' <=> c \in behind
  BY DEF Append
<1>3. k \in behind' \/ lines'[k] = known[k]
  BY <1>1 DEF Append, BypassTypeOK, Lasting
<1>4. ASSUME NEW c \in Keys \ behind'
      PROVE  known'[c] = seen'[c] /\ (~Owed(c)' => lines'[c] = known'[c])
  <2>1. CASE c = k
    BY <1>1, <1>3, <1>4, <2>1
  <2>2. CASE c # k
    <3>1. Owed(c)' <=> Owed(c)
      BY <1>1, <2>2 DEF Owed
    <3> QED
      BY <1>1, <1>2, <2>2, <3>1 DEF Believed
  <2> QED
    BY <2>1, <2>2
<1>5. \A i \in Readers : due'[i] # "none" =>
         known'[key'[i]] = seen'[key'[i]] /\ plan'[i] \in {"recording", "withdrawn"}
  BY <1>1 DEF Believed
<1> QED
  BY <1>4, <1>5 DEF Believed

\* What the map, the log and the last runs say of each command line stays in
\* agreement (observe, withdraw, restore).
LEMMA BelievedStep ==
    ASSUME BypassTypeOK, Orderly, Believed, [BypassNext]_bvars
    PROVE  Believed'
<1>1. ASSUME UNCHANGED <<learned, key>>,
             \A j \in Readers : plan[j] \in {"recording", "withdrawn"} =>
                                   plan'[j] = plan[j] \/ due[j] = "none"
      PROVE  Believed'
  BY <1>1 DEF Believed, Owed, learned
<1>2. CASE Restart
  <2>1. /\ known' = lines /\ UNCHANGED <<key, lines, seen>>
        /\ \A i \in Readers : due'[i] = "none"
        /\ \A c \in Keys \ behind' : c \notin behind /\ ~Owed(c)
    BY <1>2 DEF Restart, Owed
  <2> QED
    BY <2>1 DEF Believed
<1>3. ASSUME NEW j \in Readers, NEW k \in Keys, PlanFor(j, k)
      PROVE  Believed'
  <2>1. /\ due[j] = "none" /\ UNCHANGED learned
        /\ \A i \in Readers \ {j} : plan'[i] = plan[i] /\ key'[i] = key[i]
    BY <1>3 DEF PlanFor, BypassTypeOK, Believed
  <2>2. \A c \in Keys : Owed(c)' <=> Owed(c)
    BY <2>1 DEF Owed, learned
  <2> QED
    BY <2>1, <2>2 DEF Believed, learned
<1>4. ASSUME NEW j \in Readers, Append(j)
      PROVE  Believed'
  BY <1>4, AppendBelieved
<1>5. ASSUME NEW j \in Readers, NEW v \in Verdicts, ConcludeTraced(j, v)
      PROVE  Believed'
  <2>1. /\ Observe(j, v) /\ due[j] = "none" /\ UNCHANGED key
        /\ \A i \in Readers \ {j} : plan'[i] = plan[i]
        /\ due'[j] # "none" => plan'[j] = "recording"
    BY <1>5 DEF ConcludeTraced, BypassTypeOK, Believed
  <2> QED
    BY <2>1, ObserveBelieved
<1>6. ASSUME NEW j \in Readers, Withdraw(j)
      PROVE  Believed'
  <2>1. /\ Observe(j, "sandboxed") /\ due[j] = "none" /\ UNCHANGED key
        /\ \A i \in Readers \ {j} : plan'[i] = plan[i]
        /\ plan'[j] = "withdrawn"
    BY <1>6 DEF Withdraw, BypassTypeOK, Believed
  <2> QED
    BY <2>1, ObserveBelieved DEF Verdicts
<1>7. ASSUME NEW j \in Readers, Bypassed(j) \/ LaunchResolved(j) \/ ConcludeRead(j)
                                   \/ ConcludeKilled(j)
      PROVE  Believed'
  BY <1>1, <1>7 DEF Bypassed, LaunchResolved, ConcludeRead, ConcludeKilled, BypassTypeOK,
                    learned
<1>8. ASSUME NEW j \in Readers, DiscardTree(j)
      PROVE  Believed'
  BY <1>1, <1>8 DEF DiscardTree, BypassTypeOK
<1>9. ASSUME NEW j \in Readers, DeleteTree(j)
      PROVE  Believed'
  <2>1. due[j] = "none"
    BY <1>9 DEF DeleteTree, DeleteDiscarded, Orderly
  <2> QED
    BY <1>1, <1>9, <2>1 DEF DeleteTree, BypassTypeOK
<1>10. CASE Publish \/ UNCHANGED bvars
  BY <1>1, <1>10 DEF Publish, bvars
<1> QED
  BY <1>2, <1>3, <1>4, <1>5, <1>6, <1>7, <1>8, <1>9, <1>10 DEF BypassNext

\* Plans, leases and appends of a command keep their order.
LEMMA OrderlyStep ==
    ASSUME TypeOK, BypassTypeOK, Orderly, [BypassNext]_bvars
    PROVE  Orderly'
<1> USE DEF TypeOK, BypassTypeOK, Orderly, learned, vars
<1>1. CASE Publish \/ UNCHANGED bvars
  BY <1>1 DEF Publish, Commit, bvars
<1>2. CASE Restart
  BY <1>2 DEF Restart
<1>3. ASSUME NEW j \in Readers, NEW k \in Keys, PlanFor(j, k)
      PROVE  Orderly'
  BY <1>3 DEF PlanFor
<1>4. ASSUME NEW j \in Readers, Append(j)
      PROVE  Orderly'
  <2>1. /\ UNCHANGED pc
        /\ \A i \in Readers : plan'[i] = "transaction" => plan[i] = "transaction"
        /\ \A i \in Readers : due[i] = "none" => due'[i] = "none"
    BY <1>4 DEF Append
  <2> QED
    BY <2>1
<1>5. ASSUME NEW j \in Readers, NEW v \in Verdicts, ConcludeTraced(j, v)
      PROVE  Orderly'
  BY <1>5 DEF ConcludeTraced, Observe
<1>6. ASSUME NEW j \in Readers, Withdraw(j)
      PROVE  Orderly'
  BY <1>6 DEF Withdraw, Observe
<1>7. ASSUME NEW j \in Readers, Bypassed(j)
      PROVE  Orderly'
  <2>1. /\ plan[j] = "bypass" /\ UNCHANGED <<plan, due>>
        /\ \A i \in Readers \ {j} : pc'[i] = pc[i]
        /\ pc'[j] # "discarding"
    BY <1>7 DEF Bypassed, Acquire, Escape, Release, DeleteReleased
  <2> QED
    BY <2>1
<1>8. ASSUME NEW j \in Readers,
             LaunchResolved(j) \/ ConcludeRead(j) \/ ConcludeKilled(j) \/ DeleteTree(j)
      PROVE  Orderly'
  BY <1>8 DEF LaunchResolved, Resolve, ConcludeRead, Conclude, ConcludeKilled,
              DeleteTree, DeleteDiscarded
<1>9. ASSUME NEW j \in Readers, DiscardTree(j)
      PROVE  Orderly'
  BY <1>9 DEF DiscardTree, Discard
<1> QED
  BY <1>1, <1>2, <1>3, <1>4, <1>5, <1>6, <1>7, <1>8, <1>9 DEF BypassNext

\* Whoever answers for a dirty tree goes on doing so, or hands it over to the
\* readers it is shared with, or deletes it.
LEMMA AnsweredStep ==
    ASSUME TreesInv, BypassTypeOK, Answered, [BypassNext]_bvars
    PROVE  Answered'
<1> DEFINE Claimed(v) == v \in shared \union unseen \/ \E i \in Readers : Escapee(i, v)
<1>1. /\ \A v \in Versions : tree[v] = "dirty" /\ readers[v] # Unlisted => Claimed(v)
      /\ \A j \in Readers : pc[j] = "taken" => ~wrote[j]
      /\ pc \in [Readers -> {"idle", "taken", "running", "deleting", "released",
                             "discarding"}]
      /\ version \in [Readers -> Versions] /\ wrote \in [Readers -> BOOLEAN]
      /\ readers \in [Versions -> 0..MaxUsers \union {Unlisted}]
      /\ tree \in [Versions -> {"none", "clean", "dirty"}]
      /\ plan \in [Readers -> {"none", "bypass", "transaction", "recording", "withdrawn"}]
      /\ \A j \in Readers : Counted(version[j])
      /\ seq \in Versions
  BY DEF Answered, TreesInv, TypeOK, BypassTypeOK
\* Most steps leave the trees alone and every escapee where it is.
<1>2. ASSUME UNCHANGED <<readers, tree, version, wrote>>,
             shared \subseteq shared', unseen \subseteq unseen',
             \A i \in Readers :
                /\ pc'[i] = "taken" => pc[i] = "taken"
                /\ plan[i] \in {"bypass", "withdrawn"} /\ pc[i] # "idle" /\ wrote[i] =>
                      \/ plan'[i] \in {"bypass", "withdrawn"} /\ pc'[i] # "idle"
                      \/ version[i] \in shared' \union unseen'
                      \/ readers[version[i]] = Unlisted
      PROVE  Answered'
  <2> SUFFICES ASSUME NEW v \in Versions, tree[v] = "dirty", readers[v] # Unlisted
               PROVE  Claimed(v)'
    BY <1>1, <1>2 DEF Answered
  <2>1. CASE v \in shared \union unseen
    BY <1>2, <2>1
  <2>2. ASSUME NEW i \in Readers, Escapee(i, v)
        PROVE  Claimed(v)'
    BY <1>2, <2>2 DEF Escapee
  <2> QED
    BY <1>1, <2>1, <2>2
<1>3. CASE Publish \/ UNCHANGED bvars
  BY <1>2, <1>3 DEF Publish, Commit, bvars, vars, trees
<1>4. CASE Restart
  BY <1>4 DEF Restart, Answered
<1>5. ASSUME NEW j \in Readers, NEW k \in Keys, PlanFor(j, k)
      PROVE  Answered'
  <2>1. /\ UNCHANGED <<readers, tree, version, wrote, pc, shared, unseen>>
        /\ pc[j] = "idle" /\ \A i \in Readers \ {j} : plan'[i] = plan[i]
    BY <1>1, <1>5 DEF PlanFor, vars, trees
  <2> QED
    BY <1>2, <2>1
<1>6. ASSUME NEW j \in Readers, Append(j)
      PROVE  Answered'
  <2>1. /\ UNCHANGED <<readers, tree, version, wrote, pc, shared, unseen>>
        /\ \A i \in Readers : plan[i] \in {"bypass", "withdrawn"} => plan'[i] = plan[i]
    BY <1>1, <1>6 DEF Append, vars, trees
  <2> QED
    BY <1>2, <2>1
<1>7. ASSUME NEW j \in Readers, Withdraw(j) \/ \E v \in Verdicts : ConcludeTraced(j, v)
      PROVE  Answered'
  <2>1. /\ UNCHANGED <<readers, tree, version, wrote, pc, shared, unseen>>
        /\ \A i \in Readers : plan[i] \in {"bypass", "withdrawn"} =>
                                 plan'[i] \in {"bypass", "withdrawn"}
    BY <1>1, <1>7 DEF Withdraw, ConcludeTraced, vars, trees
  <2> QED
    BY <1>2, <2>1
<1>8. ASSUME NEW j \in Readers, LaunchResolved(j)
      PROVE  Answered'
  <2>1. /\ UNCHANGED <<readers, tree, version, wrote, shared, unseen>>
        /\ ~wrote[j] /\ pc'[j] # "taken"
        /\ \A i \in Readers \ {j} : pc'[i] = pc[i] /\ plan'[i] = plan[i]
    BY <1>1, <1>8 DEF LaunchResolved, Resolve, trees
  <2> QED
    BY <1>2, <2>1
<1>9. ASSUME NEW j \in Readers, ConcludeRead(j)
      PROVE  Answered'
  <2>1. /\ UNCHANGED <<readers, tree, version, wrote, shared, unseen>>
        /\ ~wrote[j] /\ pc'[j] # "taken"
        /\ \A i \in Readers \ {j} : pc'[i] = pc[i] /\ plan'[i] = plan[i]
    BY <1>1, <1>9 DEF ConcludeRead, Conclude, trees
  <2> QED
    BY <1>2, <2>1
<1>10. ASSUME NEW j \in Readers, ConcludeKilled(j)
      PROVE  Answered'
  <2>1. /\ UNCHANGED <<readers, tree, version, wrote, shared>>
        /\ unseen' = unseen \union {version[j]} /\ pc'[j] # "taken"
        /\ \A i \in Readers \ {j} : pc'[i] = pc[i] /\ plan'[i] = plan[i]
    BY <1>1, <1>10 DEF ConcludeKilled
  <2> QED
    BY <1>2, <2>1
\* An escapee's tree is left to its readers, if there are any.
<1>11. ASSUME NEW j \in Readers, DiscardTree(j), readers[version[j]] # 0
      PROVE  Answered'
  <2>1. /\ UNCHANGED <<readers, tree, version, wrote, unseen>>
        /\ shared \subseteq shared' /\ pc'[j] # "taken"
        /\ readers[version[j]] \in Nat \ {0} => version[j] \in shared'
        /\ \A i \in Readers \ {j} : pc'[i] = pc[i] /\ plan'[i] = plan[i]
    BY <1>1, <1>11 DEF DiscardTree, Discard, Discardable
  <2>2. readers[version[j]] = Unlisted \/ readers[version[j]] \in Nat \ {0}
    BY <1>1, <1>11, MaxSeqAssumption
  <2> QED
    BY <1>2, <2>1, <2>2
\* The other steps change the map or a tree: the versions they change are not
\* dirty and listed afterwards, but for the one an escapee writes into.
<1>12. ASSUME NEW j \in Readers, pc'[j] = "taken" => ~wrote'[j],
              \A i \in Readers \ {j} : /\ pc'[i] = pc[i] /\ plan'[i] = plan[i]
                                       /\ version'[i] = version[i] /\ wrote'[i] = wrote[i],
              \A v \in Versions : tree'[v] = "dirty" /\ readers'[v] # Unlisted =>
                 \/ Escapee(j, v)'
                 \/ /\ tree[v] = "dirty" /\ readers[v] # Unlisted /\ ~Escapee(j, v)
                    /\ v \in shared => v \in shared'
                    /\ v \in unseen => v \in unseen'
       PROVE  Answered'
  <2> SUFFICES ASSUME NEW v \in Versions, tree'[v] = "dirty", readers'[v] # Unlisted,
                      ~Escapee(j, v)'
               PROVE  Claimed(v)'
    BY <1>1, <1>12 DEF Answered
  <2>1. CASE v \in shared \union unseen
    BY <1>12, <2>1
  <2>2. ASSUME NEW i \in Readers, Escapee(i, v)
        PROVE  Claimed(v)'
    BY <1>12, <2>2 DEF Escapee
  <2> QED
    BY <1>1, <1>12, <2>1, <2>2
<1>13. ASSUME NEW j \in Readers, Bypassed(j)
       PROVE  Answered'
  <2>1. /\ plan[j] = "bypass" /\ UNCHANGED plan
        /\ \A v \in Versions : tree'[v] # "none" => /\ v \in shared => v \in shared'
                                                    /\ v \in unseen => v \in unseen'
    BY <1>13 DEF Bypassed
  <2>2. CASE Acquire(j)
    <3>1. /\ pc[j] = "idle" /\ pc'[j] = "taken" /\ ~wrote'[j]
          /\ \A i \in Readers \ {j} : /\ pc'[i] = pc[i] /\ version'[i] = version[i]
                                      /\ wrote'[i] = wrote[i]
      BY <1>1, <2>2 DEF Acquire
    <3>2. \A v \in Versions : tree'[v] = "dirty" /\ readers'[v] # Unlisted =>
                                 tree[v] = "dirty" /\ readers[v] # Unlisted
      BY <1>1, <2>2 DEF Acquire, ReclaimedTrees
    <3> QED
      BY <1>12, <2>1, <3>1, <3>2 DEF Escapee
  <2>3. CASE Escape(j)
    <3>1. /\ pc[j] = "running" /\ UNCHANGED <<pc, version, readers>> /\ wrote'[j]
          /\ \A i \in Readers \ {j} : wrote'[i] = wrote[i]
          /\ \A v \in Versions : v # version[j] => tree'[v] = tree[v]
      BY <1>1, <2>3 DEF Escape
    <3>2. Escapee(j, version[j])'
      BY <2>1, <3>1 DEF Escapee
    <3> QED
      BY <1>12, <2>1, <3>1, <3>2 DEF Escapee
  <2>4. CASE Release(j)
    <3>1. /\ pc[j] = "running" /\ pc'[j] \in {"released", "deleting"}
          /\ UNCHANGED <<tree, version, wrote>>
          /\ \A i \in Readers \ {j} : pc'[i] = pc[i]
          /\ \A v \in Versions : readers'[v] # Unlisted => readers[v] # Unlisted
      BY <1>1, <2>4, ReleaseOutcomes, UnlistedAssumption, MaxSeqAssumption
    <3>2. \A v \in Versions : Escapee(j, v) => Escapee(j, v)'
      BY <2>1, <3>1 DEF Escapee
    <3> QED
      BY <1>12, <2>1, <3>1, <3>2
  <2>5. CASE DeleteReleased(j)
    <3>1. /\ pc[j] = "deleting" /\ pc'[j] = "released"
          /\ UNCHANGED <<readers, version, wrote>>
          /\ \A i \in Readers \ {j} : pc'[i] = pc[i]
          /\ \A v \in Versions : tree'[v] = "dirty" => tree[v] = "dirty"
      BY <1>1, <2>5 DEF DeleteReleased
    <3>2. \A v \in Versions : Escapee(j, v) => Escapee(j, v)'
      BY <2>1, <3>1 DEF Escapee
    <3> QED
      BY <1>12, <2>1, <3>1, <3>2
  <2> QED
    BY <1>13, <2>2, <2>3, <2>4, <2>5 DEF Bypassed
<1>14. ASSUME NEW j \in Readers, DiscardTree(j), readers[version[j]] = 0
       PROVE  Answered'
  <2>1. /\ UNCHANGED <<tree, version, wrote, unseen>> /\ pc'[j] = "discarding"
        /\ shared \subseteq shared'
        /\ readers' = [readers EXCEPT ![version[j]] = Unlisted]
        /\ \A i \in Readers \ {j} : pc'[i] = pc[i] /\ plan'[i] = plan[i]
    BY <1>1, <1>14 DEF DiscardTree, Discard, Discardable
  <2>2. \A v \in Versions : readers'[v] # Unlisted =>
           readers[v] # Unlisted /\ v # version[j]
    BY <1>1, <2>1
  <2> QED
    BY <1>12, <2>1, <2>2 DEF Escapee
<1>15. ASSUME NEW j \in Readers, DeleteTree(j)
       PROVE  Answered'
  <2>1. /\ UNCHANGED <<readers, version, wrote>> /\ pc'[j] = "idle"
        /\ \A v \in Versions : tree'[v] = "dirty" => tree[v] = "dirty" /\ v # version[j]
        /\ shared' = shared \ {version[j]} /\ unseen' = unseen \ {version[j]}
        /\ \A i \in Readers \ {j} : pc'[i] = pc[i] /\ plan'[i] = plan[i]
    BY <1>1, <1>15 DEF DeleteTree, DeleteDiscarded
  <2> QED
    BY <1>12, <2>1 DEF Escapee
<1> QED
  BY <1>3, <1>4, <1>5, <1>6, <1>7, <1>8, <1>9, <1>10, <1>11, <1>13, <1>14, <1>15
     DEF BypassNext

-----------------------------------------------------------------------------
(* The theorems.                                                           *)

\* The invariant holds of a first session.
LEMMA BypassStart ==
    BypassInit => BypassInv
<1> SUFFICES ASSUME BypassInit PROVE BypassInv
  OBVIOUS
<1>1. (CHOOSE k \in Keys : TRUE) \in Keys
  BY KeysAssumption
<1>2. TreesInv /\ TypeOK
  BY TreesStart DEF BypassInit, TreesInv
<1>3. BypassTypeOK
  BY <1>1, <1>2 DEF BypassInit, BypassTypeOK, Lasting, Verdicts
<1>4. Orderly /\ Believed /\ Answered
  BY DEF BypassInit, Init, Orderly, Believed, Owed, Answered
<1> QED
  BY <1>2, <1>3, <1>4 DEF BypassInit, BypassInv

\* Every step of the composition keeps it.
LEMMA BypassStep ==
    BypassInv /\ [BypassNext]_bvars => BypassInv'
<1> SUFFICES ASSUME BypassInv, [BypassNext]_bvars PROVE BypassInv'
  OBVIOUS
<1>1. TreesInv /\ TypeOK /\ BypassTypeOK /\ restarts \in Nat /\ Orderly /\ Believed
        /\ Answered
  BY DEF BypassInv, TreesInv
<1> QED
  BY <1>1, BypassTreesStep, BypassTyping, OrderlyStep, BelievedStep, AnsweredStep
     DEF BypassInv

\* Nobody acquires a dirty tree that nobody answers for: one with an
\* acquisition under way has an entry.
LEMMA AnsweredMeans ==
    ASSUME BypassInv
    PROVE  Quarantined
<1> SUFFICES ASSUME NEW j \in Readers, pc[j] = "taken", tree[version[j]] = "dirty"
             PROVE  \/ version[j] \in shared \union unseen
                    \/ Concluding(j, version[j])
  BY DEF Quarantined
<1>1. version[j] \in Versions /\ j \in Holders(version[j])
  BY DEF BypassInv, TreesInv, TypeOK, Holders
<1>2. readers[version[j]] # Unlisted
  BY <1>1 DEF BypassInv, TreesInv, Counted
<1>3. ~wrote[j]
  BY DEF BypassInv, Answered
<1> QED
  BY <1>1, <1>2, <1>3 DEF BypassInv, Answered, Escapee, Concluding

\* The composition keeps the promises of the trees, trusts no command line
\* whose last run escaped, and hands no escapee's tree out again (observe,
\* withdraw, restore, acquire_reader, release_reader, discard_reader).
THEOREM BypassSafe ==
    BypassSpec => [](LeasesCounted /\ NoneForgotten /\ TrustEarned /\ Quarantined)
<1>1. BypassInv => LeasesCounted /\ NoneForgotten /\ TrustEarned /\ Quarantined
  <2> SUFFICES ASSUME BypassInv
               PROVE  LeasesCounted /\ NoneForgotten /\ TrustEarned /\ Quarantined
    OBVIOUS
  <2>1. TreesInv /\ Believed
    BY DEF BypassInv
  <2> QED
    BY <2>1, CountedMeans, AnsweredMeans DEF TreesInv, Believed, TrustEarned
<1> QED
  BY <1>1, BypassStart, BypassStep, PTL DEF BypassSpec

\* A tree that goes while commands hold leases on it was an escapee's: what
\* superseding and releasing delete has no reader left.
LEMMA OnlyDiscardPullsStep ==
    ASSUME BypassInv, [BypassNext]_bvars, restarts' = restarts,
           NEW v \in Versions, tree[v] # "none", tree'[v] = "none", Holders(v) # {}
    PROVE  \E j \in Readers : pc[j] = "discarding" /\ version[j] = v /\ pc'[j] = "idle"
<1>1. /\ Counted(v) /\ readers[v] # Unlisted
      /\ \A j \in Readers : LeftBehind(j)
      /\ restarts \in Nat
      /\ pc \in [Readers -> {"idle", "taken", "running", "deleting", "released",
                             "discarding"}]
      /\ tree \in [Versions -> {"none", "clean", "dirty"}]
  BY DEF BypassInv, TreesInv, TypeOK, Counted
<1>2. readers[v] # 0
  BY <1>1, FS_CardinalityType, FS_EmptySet DEF Counted
<1>3. ~Restart
  BY <1>1 DEF Restart
<1>4. Next
  BY <1>3, StepKinds DEF vars, ConcludeKilled
<1>5. PICK j \in Readers : DeleteReleased(j) \/ DeleteDiscarded(j)
  BY <1>1, <1>2, <1>4 DEF Next, Commit, Acquire, ReclaimedTrees, SupersededVersions,
        Resolve, Escape, Release, Conclude, Discard
<1>6. version[j] = v
  BY <1>1, <1>5 DEF DeleteReleased, DeleteDiscarded
<1>7. ~DeleteReleased(j)
  BY <1>1, <1>6 DEF DeleteReleased, LeftBehind
<1> QED
  BY <1>1, <1>5, <1>6, <1>7 DEF DeleteDiscarded

\* While a session lasts, discard_reader of an escapee alone deletes a tree
\* under a command that reads it.
THEOREM BypassPulls == BypassSpec => OnlyDiscardPulls
<1>1. BypassInv /\ [BypassNext]_bvars =>
         [restarts' = restarts =>
            \A v \in Versions :
               tree[v] # "none" /\ tree'[v] = "none" /\ Holders(v) # {} =>
                  \E j \in Readers :
                     pc[j] = "discarding" /\ version[j] = v /\ pc'[j] = "idle"]_bvars
  BY OnlyDiscardPullsStep
<1> QED
  BY <1>1, BypassStart, BypassStep, PTL DEF BypassSpec, OnlyDiscardPulls

\* The readers map never counts fewer readers than hold a lease, so no tree is
\* taken out of it under a command (acquire_reader, release_reader).
THEOREM LeasesAreCounted == BypassSpec => []LeasesCounted
BY BypassSafe, PTL

\* A tree on disk is in the map, where a later acquisition reclaims it, or
\* somebody is about to delete it (acquire_reader, discard_reader).
THEOREM NoTreeForgotten == BypassSpec => []NoneForgotten
BY BypassSafe, PTL

\* A command line is taken for pure only while its last concluded run only
\* read, unless the record of an escape was lost or overtaken (observe,
\* withdraw, restore).
THEOREM TrustIsEarned == BypassSpec => []TrustEarned
BY BypassSafe, PTL

\* The tree an escapee dirtied is handed to nobody after its conclusion, except
\* where readers it shared the tree with kept it alive or it left no evidence
\* (discard_reader, acquire_reader).
THEOREM EscapeesQuarantined == BypassSpec => []Quarantined
BY BypassSafe, PTL
=============================================================================
