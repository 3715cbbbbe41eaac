--------------------------- MODULE GitExecProofs ---------------------------
(***************************************************************************)
(* What the git builtins promise, for every set of files and directories,  *)
(* every command line and every state the steps lead to.                   *)
(*                                                                         *)
(* A builtin's outcome depends on the repository and the worktree it finds *)
(* and on nothing else, so the argument is a case analysis: one lemma for  *)
(* each operation says what it keeps, whatever the repository holds, and   *)
(* an invariant says that the steps lead to repositories only.  The rows   *)
(* the policy keeps are true of them since each operation's events move    *)
(* the rows as the operation moves the repository.                         *)
(***************************************************************************)
EXTENDS GitExec, TLAPS, WellFoundedInduction

\* The pathspecs of a builtin, resolved.
Pathspecs == Seq(Seq(STRING))

-----------------------------------------------------------------------------
(* Lists of pathspecs and trees.                                           *)

\* A set of naturals that is not empty has a least element.
LEMMA LeastNatural ==
    ASSUME NEW S \in SUBSET Nat, S # {}
    PROVE  \E k \in S : \A l \in S : k <= l
<1> DEFINE before == {ss \in Nat \X Nat : ss[1] < ss[2]}
<1>1. IsWellFoundedOn(before, Nat)
  BY NatLessThanWellFounded DEF OpToRel
<1>2. PICK k \in S : \A l \in S : <<l, k>> \notin before
  <2> HIDE DEF before
  <2> QED
    BY <1>1, WFMin
<1>3. \A l \in S : k \in Nat /\ l \in Nat /\ ~(l < k)
  BY <1>2
<1> QED
  BY <1>3

\* No pathspec has failed exactly when each has the code 0.
LEMMA FirstCode ==
    ASSUME NEW n \in Nat, NEW codes \in [1..n -> Nat]
    PROVE  First(codes) = 0 <=> \A i \in 1..n : codes[i] = 0
<1> DEFINE failed == {i \in DOMAIN codes : codes[i] # 0}
<1>1. CASE failed = {}
  BY <1>1 DEF First
<1>2. CASE failed # {}
  <2>1. failed \in SUBSET Nat
    OBVIOUS
  <2>2. \E k \in failed : \A l \in failed : k <= l
    <3> HIDE DEF failed
    <3> QED
      BY <1>2, <2>1, LeastNatural
  <2>3. Min(failed) \in failed
    BY <2>2 DEF Min
  <2>4. First(codes) = codes[Min(failed)]
    BY <1>2 DEF First
  <2> QED
    BY <2>3, <2>4
<1> QED
  BY <1>1, <1>2

\* The pathspecs reached are among those given, and are all of them when none
\* is bad.
LEMMA ReachedNames ==
    ASSUME NEW specs \in Pathspecs, NEW bad
    PROVE  /\ Reached(specs, bad) \subseteq ToSet(specs)
           /\ Reached(specs, bad) \intersect bad = {}
           /\ ToSet(specs) \intersect bad = {} => Reached(specs, bad) = ToSet(specs)
<1>1. DOMAIN specs = 1..Len(specs) /\ Len(specs) \in Nat
  BY DEF Pathspecs
<1>2. \A i \in DOMAIN specs : i <= i
  BY <1>1
<1> QED
  BY <1>2 DEF Reached, ToSet

\* Overlaid trees are a tree, which differs from the first at the names only.
LEMMA OverlayTree ==
    ASSUME NEW f \in Trees, NEW names,
           NEW g, \A p \in Paths \intersect names : g[p] \in Contents \union {None}
    PROVE  /\ Overlay(f, names, g) \in Trees
           /\ \A p \in Paths \intersect names : Overlay(f, names, g)[p] = g[p]
           /\ \A p \in Paths \ names : Overlay(f, names, g)[p] = f[p]
BY DEF Overlay, Trees

\* What HEAD commits to is a tree, and so is the empty one.
LEMMA CommittedIsTree ==
    ASSUME NEW g \in Repo
    PROVE  Committed(g) \in Trees /\ Nothing \in Trees
BY DEF Committed, Nothing, Repo, Trees

\* What a file lies below is a directory.
LEMMA AboveIsDir ==
    ASSUME NEW d \in Seq(STRING), NEW p \in Below(d)
    PROVE  d \in Dirs
<1>1. p \in Paths /\ p \in Seq(STRING) /\ Len(d) <= Len(p) /\ d # p
         /\ SubSeq(d, 1, Len(d)) = SubSeq(p, 1, Len(d))
  BY PathsAssumption DEF Below, IsStrictPrefix, IsPrefix
<1>2. d = SubSeq(d, 1, Len(d)) /\ p = SubSeq(p, 1, Len(p))
  BY <1>1
<1>3. Len(d) # Len(p)
  BY <1>1, <1>2
<1>4. Len(d) \in 0..(Len(p) - 1)
  BY <1>1, <1>3
<1> QED
  BY <1>1, <1>2, <1>4, PathsAssumption

\* Only a directory is a tree in a tree.
LEMMA TreeIsDir ==
    ASSUME NEW tree \in Trees, NEW spec \in Seq(STRING),
           tree_blob(tree, spec) = "tree"
    PROVE  spec \in Dirs
<1>1. CASE spec \in Paths
  <2>1. tree[spec] \in Contents \union {None}
    BY <1>1 DEF Trees
  <2>2. tree[spec] = "tree"
    BY <1>1 DEF tree_blob
  <2> QED
    BY <2>1, <2>2, PathsAssumption
<1>2. CASE spec \notin Paths
  <2>1. CASE Below(spec) = {}
    <3>1. None = "tree"
      BY <1>2, <2>1 DEF tree_blob
    <3> QED
      BY <3>1, PathsAssumption
  <2>2. CASE Below(spec) # {}
    BY <2>2, AboveIsDir
  <2> QED
    BY <2>1, <2>2
<1> QED
  BY <1>1, <1>2

-----------------------------------------------------------------------------
(* The operations: gitexec.rs.                                             *)

\* What an operation of the given kind that is done keeps of the repository and
\* the worktree it found: their types; both, when it refuses and no directory
\* is named; the files it does not name; and the work it takes away.
Kept(action, specs, g, w, done) ==
    LET named == ToSet(specs)
        halfway == action \in {"checkout", "clean", "commit"} /\ named \cap Dirs # {}
    IN  /\ done.repo \in Repo
        /\ done.work \in Trees
        /\ done.code # 0 /\ ~halfway => done.repo = g /\ done.work = w
        /\ \A p \in Paths \ named :
              /\ done.work[p] = w[p]
              /\ done.repo.index[p] = g.index[p]
              /\ halfway \/ Committed(done.repo)[p] = Committed(g)[p]
        /\ action \notin {"checkout", "clean"} =>
              \A p \in Paths :
                  \/ w[p] \in {None, done.work[p]}
                  \/ Committed(done.repo)[p] = w[p]
                  \/ \E i \in DOMAIN done.repo.stash :
                        done.repo.stash[i].working[p] = w[p]

\* An operation that leaves everything alone.
LEMMA NothingDone ==
    ASSUME NEW g \in Repo, NEW w \in Trees, NEW specs, NEW action, NEW code
    PROVE  Kept(action, specs, g, w, Outcome(code, g, w))
BY DEF Kept, Outcome

\* An operation that ends with 0 and moves the index of the names to a tree.
LEMMA IndexMoved ==
    ASSUME NEW g \in Repo, NEW w \in Trees, NEW specs, NEW action,
           NEW index \in Trees,
           \A p \in Paths \ ToSet(specs) : index[p] = g.index[p]
    PROVE  Kept(action, specs, g, w, Outcome(0, [g EXCEPT !.index = index], w))
<1> DEFINE after == [g EXCEPT !.index = index]
<1>1. /\ after \in Repo
      /\ after.index = index
      /\ after.head = g.head
  BY DEF Repo
<1>2. Committed(after) = Committed(g)
  BY <1>1 DEF Committed
<1>3. Kept(action, specs, g, w, Outcome(0, after, w))
  <2> HIDE DEF after
  <2> QED
    BY <1>1, <1>2 DEF Kept, Outcome
<1> QED
  BY <1>3 DEF after

\* git add: the index takes the worktree's files.
LEMMA StageKeeps ==
    ASSUME NEW g \in Repo, NEW w \in Trees, NEW specs
    PROVE  Kept("stage", specs, g, w, stage(g, w, specs))
<1> DEFINE index == Overlay(g.index, ToSet(specs), w)
<1>1. /\ index \in Trees
      /\ \A p \in Paths \ ToSet(specs) : index[p] = g.index[p]
  BY DEF Overlay, Trees, Repo
<1>2. \/ \E code : stage(g, w, specs) = Outcome(code, g, w)
      \/ stage(g, w, specs) = Outcome(0, [g EXCEPT !.index = index], w)
  BY DEF stage
<1> HIDE DEF index
<1> QED
  BY <1>1, <1>2, NothingDone, IndexMoved

\* git restore --staged: the index takes HEAD's files.
LEMMA UnstageKeeps ==
    ASSUME NEW g \in Repo, NEW w \in Trees, NEW specs
    PROVE  Kept("unstage", specs, g, w, unstage(g, w, specs))
<1> DEFINE index == Overlay(g.index, ToSet(specs), Committed(g))
<1>1. /\ index \in Trees
      /\ \A p \in Paths \ ToSet(specs) : index[p] = g.index[p]
  BY CommittedIsTree DEF Overlay, Trees, Repo
<1>2. \/ \E code : unstage(g, w, specs) = Outcome(code, g, w)
      \/ unstage(g, w, specs) = Outcome(0, [g EXCEPT !.index = index], w)
  BY DEF unstage
<1> HIDE DEF index
<1> QED
  BY <1>1, <1>2, NothingDone, IndexMoved

\* git rm: a file in the worktree that is removed is HEAD's.
LEMMA DeleteKeeps ==
    ASSUME NEW g \in Repo, NEW w \in Trees, NEW specs \in Pathspecs
    PROVE  Kept("delete", specs, g, w, delete(g, w, specs))
<1> DEFINE code(spec) == IF index_blob(g, spec) = None THEN FATAL
                         ELSE IF LocalMods(g, w, spec) THEN REFUSED ELSE 0
           codes == [i \in DOMAIN specs |-> code(specs[i])]
           named == ToSet(specs)
           after == [g EXCEPT !.index = Overlay(@, named, Nothing)]
           left == Overlay(w, named, Nothing)
<1>1. CASE First(codes) # 0
  <2>1. delete(g, w, specs) = Outcome(First(codes), g, w)
    BY <1>1 DEF delete
  <2> QED
    BY <2>1, NothingDone
<1>2. CASE First(codes) = 0
  <2>1. delete(g, w, specs) = Outcome(0, after, left)
    BY <1>2 DEF delete
  <2>2. /\ g.index \in Trees /\ Nothing \in Trees
        /\ \A p \in Paths : Nothing[p] = None
    BY CommittedIsTree DEF Repo, Nothing
  <2>3. /\ Overlay(g.index, named, Nothing) \in Trees
        /\ \A p \in Paths \ named : Overlay(g.index, named, Nothing)[p] = g.index[p]
    BY <2>2, OverlayTree DEF Trees
  <2>4. /\ after \in Repo
        /\ after.index = Overlay(g.index, named, Nothing)
        /\ after.head = g.head
    BY <2>3 DEF Repo
  <2>5. Committed(after) = Committed(g)
    BY <2>4 DEF Committed
  <2>6. /\ left \in Trees
        /\ \A p \in Paths \ named : left[p] = w[p]
    BY <2>2, OverlayTree DEF Trees
  <2>7. ASSUME NEW p \in Paths
        PROVE  w[p] \in {None, left[p]} \/ Committed(g)[p] = w[p]
    <3>1. CASE p \in named
      <4>1. PICK i \in DOMAIN specs : specs[i] = p
        BY <3>1 DEF ToSet
      <4>2. codes[i] = 0
        <5>1. DOMAIN specs = 1..Len(specs) /\ Len(specs) \in Nat
          BY DEF Pathspecs
        <5>2. codes \in [1..Len(specs) -> Nat]
          BY <5>1 DEF FATAL, REFUSED
        <5> QED
          BY <1>2, <4>1, <5>1, <5>2, FirstCode
      <4>3. ~LocalMods(g, w, p)
        BY <4>1, <4>2 DEF FATAL, REFUSED
      <4> QED
        BY <4>3 DEF LocalMods, worktree_blob, index_blob, tree_blob
    <3>2. CASE p \notin named
      BY <3>2, <2>6
    <3> QED
      BY <3>1, <3>2
  <2>8. Kept("delete", specs, g, w, Outcome(0, after, left))
    <3> HIDE DEF after, left
    <3> QED
      BY <2>3, <2>4, <2>5, <2>6, <2>7 DEF Kept, Outcome
  <2> QED
    BY <2>1, <2>8
<1> QED
  BY <1>1, <1>2

\* git commit: HEAD and the index take the worktree's files; a directory among
\* the names is taken for a deleted file.
LEMMA CommitKeeps ==
    ASSUME NEW g \in Repo, NEW w \in Trees, NEW specs \in Pathspecs, NEW message
    PROVE  Kept("commit", specs, g, w, commit(g, w, specs, message))
<1> DEFINE named == ToSet(specs)
           tree == CommittedTree(g, w, named)
           moved == [g EXCEPT !.head = tree]
           after == [moved EXCEPT !.index = Overlay(@, named, w)]
<1>1. \/ \E code : commit(g, w, specs, message) = Outcome(code, g, w)
      \/ /\ g.head # Unborn
         /\ \/ /\ named \cap Dirs # {}
               /\ commit(g, w, specs, message) = Outcome(FATAL, moved, w)
            \/ /\ named \cap Dirs = {}
               /\ commit(g, w, specs, message) = Outcome(0, after, w)
  <2>1. CASE ~message \/ g.head = Unborn
    BY <2>1, Zenon DEF commit
  <2>2. CASE /\ message /\ g.head # Unborn
             /\ commit(g, w, specs, message) # Outcome(REFUSED, g, w)
             /\ commit(g, w, specs, message) # Outcome(FATAL, g, w)
    BY <2>2, Zenon DEF commit
  <2> QED
    BY <2>1, <2>2, Zenon
<1>2. CASE \E code : commit(g, w, specs, message) = Outcome(code, g, w)
  BY <1>2, NothingDone
<1>3. CASE /\ g.head # Unborn
           /\ ~\E code : commit(g, w, specs, message) = Outcome(code, g, w)
  <2>1. g.head \in Trees /\ g.index \in Trees
    BY <1>3 DEF Repo
  <2>2. tree \in Trees /\ tree # Unborn
    BY <2>1, PathsAssumption DEF CommittedTree, Trees
  <2>3. /\ moved \in Repo /\ moved.head = tree /\ moved.index = g.index
    BY <2>2 DEF Repo
  <2>4. /\ Overlay(g.index, named, w) \in Trees
        /\ \A p \in Paths \ named : Overlay(g.index, named, w)[p] = g.index[p]
    BY <2>1, OverlayTree DEF Trees
  <2>5. /\ after \in Repo /\ after.head = tree
        /\ after.index = Overlay(g.index, named, w)
    <3> HIDE DEF moved
    <3> QED
      BY <2>3, <2>4 DEF Repo
  <2>6. /\ Committed(moved) = tree /\ Committed(after) = tree
        /\ Committed(g) = g.head
    BY <1>3, <2>2, <2>3, <2>5 DEF Committed
  <2>7. ASSUME NEW p \in Paths \ named, named \cap Dirs = {}
        PROVE  tree[p] = g.head[p]
    <3>1. ~\E d \in named : p \in Below(d)
      BY <2>7, AboveIsDir DEF ToSet, Pathspecs
    <3> QED
      BY <2>7, <3>1 DEF CommittedTree
  <2>8. /\ named \cap Dirs # {} =>
              Kept("commit", specs, g, w, Outcome(FATAL, moved, w))
        /\ named \cap Dirs = {} =>
              Kept("commit", specs, g, w, Outcome(0, after, w))
    <3> HIDE DEF moved, after, tree
    <3> QED
      BY <2>3, <2>4, <2>5, <2>6, <2>7 DEF Kept, Outcome
  <2> QED
    BY <1>1, <1>3, <2>8
<1> QED
  BY <1>1, <1>2, <1>3

\* git checkout HEAD: the worktree and the index take HEAD's files; a directory
\* of HEAD stops it halfway.
LEMMA CheckoutKeeps ==
    ASSUME NEW g \in Repo, NEW w \in Trees, NEW specs \in Pathspecs
    PROVE  Kept("checkout", specs, g, w, checkout(g, w, specs))
<1> DEFINE named == ToSet(specs)
           trees == {spec \in named : tree_blob(Committed(g), spec) = "tree"}
           written == Reached(specs, trees)
           left == Overlay(w, written, Committed(g))
           after == [g EXCEPT !.index = Overlay(@, written, Committed(g))]
<1>1. CASE \E spec \in named : tree_blob(Committed(g), spec) = None
  <2>1. checkout(g, w, specs) = Outcome(REFUSED, g, w)
    BY <1>1 DEF checkout
  <2> QED
    BY <2>1, NothingDone
<1>2. CASE ~\E spec \in named : tree_blob(Committed(g), spec) = None
  <2>1. Committed(g) \in Trees /\ g.index \in Trees
    BY CommittedIsTree DEF Repo
  <2>2. /\ written \subseteq named
        /\ named \cap trees = {} => written = named
    BY ReachedNames
  <2>3. trees \subseteq Dirs
    BY <2>1, TreeIsDir DEF Pathspecs, ToSet
  <2>4. /\ left \in Trees
        /\ \A p \in Paths \ named : left[p] = w[p]
    BY <2>1, <2>2, OverlayTree DEF Trees
  <2>5. /\ Overlay(g.index, written, Committed(g)) \in Trees
        /\ \A p \in Paths \ named :
              Overlay(g.index, written, Committed(g))[p] = g.index[p]
    BY <2>1, <2>2, OverlayTree DEF Trees
  <2>6. /\ after \in Repo /\ after.head = g.head
        /\ after.index = Overlay(g.index, written, Committed(g))
    BY <2>5 DEF Repo
  <2>7. Committed(after) = Committed(g)
    BY <2>6 DEF Committed
  <2>8. CASE written # named
    <3>1. checkout(g, w, specs) = Outcome(FATAL, g, left)
      BY <1>2, <2>8 DEF checkout
    <3>2. named \cap Dirs # {}
      BY <2>2, <2>3, <2>8
    <3>3. Kept("checkout", specs, g, w, Outcome(FATAL, g, left))
      <4> HIDE DEF left
      <4> QED
        BY <2>4, <3>2 DEF Kept, Outcome
    <3> QED
      BY <3>1, <3>3
  <2>9. CASE written = named
    <3>1. checkout(g, w, specs) = Outcome(0, after, left)
      BY <1>2, <2>9 DEF checkout
    <3>2. Kept("checkout", specs, g, w, Outcome(0, after, left))
      <4> HIDE DEF left, after, written
      <4> QED
        BY <2>4, <2>5, <2>6, <2>7 DEF Kept, Outcome
    <3> QED
      BY <3>1, <3>2
  <2> QED
    BY <2>8, <2>9
<1> QED
  BY <1>1, <1>2

\* git stash push: the index and the worktree go back to HEAD's files, and what
\* the worktree held is saved.
LEMMA StashKeeps ==
    ASSUME NEW g \in Repo, NEW w \in Trees, NEW specs \in Pathspecs
    PROVE  Kept("stash", specs, g, w, stash(g, w, specs))
<1> DEFINE named == ToSet(specs)
           saved == [staged |-> Overlay(g.head, named, g.index),
                     working |-> Overlay(g.head, named, w)]
           index == Overlay(g.index, named, g.head)
           after == [g EXCEPT !.stash = Append(@, saved), !.index = index]
           left == Overlay(w, named, g.head)
<1>1. \/ \E code : stash(g, w, specs) = Outcome(code, g, w)
      \/ g.head # Unborn /\ stash(g, w, specs) = Outcome(0, after, left)
  BY Zenon DEF stash
<1>2. CASE \E code : stash(g, w, specs) = Outcome(code, g, w)
  BY <1>2, NothingDone
<1>3. CASE g.head # Unborn /\ stash(g, w, specs) = Outcome(0, after, left)
  <2>1. g.head \in Trees /\ g.index \in Trees
        /\ g.stash \in Seq([staged : Trees, working : Trees])
    BY <1>3 DEF Repo
  <2>2. /\ left \in Trees
        /\ \A p \in Paths \ named : left[p] = w[p]
    BY <2>1, OverlayTree DEF Trees
  <2>3. /\ index \in Trees
        /\ \A p \in Paths \ named : index[p] = g.index[p]
    BY <2>1, OverlayTree DEF Trees
  <2>4. /\ saved \in [staged : Trees, working : Trees]
        /\ \A p \in Paths \intersect named : saved.working[p] = w[p]
    BY <2>1, OverlayTree DEF Trees
  <2>5. /\ Append(g.stash, saved) \in Seq([staged : Trees, working : Trees])
        /\ Len(g.stash) + 1 \in DOMAIN Append(g.stash, saved)
        /\ Append(g.stash, saved)[Len(g.stash) + 1] = saved
    <3> HIDE DEF saved
    <3> QED
      BY <2>1, <2>4
  <2>6. /\ after \in Repo /\ after.head = g.head /\ after.index = index
        /\ after.stash = Append(g.stash, saved)
    <3> HIDE DEF saved, index
    <3> QED
      BY <2>3, <2>5 DEF Repo
  <2>7. Committed(after) = Committed(g)
    BY <2>6 DEF Committed
  <2>8. ASSUME NEW p \in Paths
        PROVE  \/ w[p] = left[p]
               \/ \E i \in DOMAIN after.stash : after.stash[i].working[p] = w[p]
    <3> HIDE DEF saved, after, left, index
    <3> QED
      BY <2>2, <2>4, <2>5, <2>6
  <2>9. Kept("stash", specs, g, w, Outcome(0, after, left))
    <3> HIDE DEF after, left, index, saved
    <3> QED
      BY <2>2, <2>3, <2>6, <2>7, <2>8 DEF Kept, Outcome
  <2> QED
    BY <1>3, <2>9
<1> QED
  BY <1>1, <1>2, <1>3

\* git clean -f: the files that are named and not tracked go away; a directory
\* stops it halfway.
LEMMA CleanKeeps ==
    ASSUME NEW g \in Repo, NEW w \in Trees, NEW specs \in Pathspecs
    PROVE  Kept("clean", specs, g, w, clean(g, w, specs))
<1> DEFINE named == ToSet(specs)
           reached == Reached(specs, Dirs)
           removed == {spec \in reached : index_blob(g, spec) = None /\ Exists(w, spec)}
           code == IF reached = named THEN 0 ELSE FATAL
           left == Overlay(w, removed, Nothing)
<1>1. clean(g, w, specs) = Outcome(code, g, left)
  BY DEF clean
<1>2. /\ reached \subseteq named
      /\ named \cap Dirs = {} => reached = named
  BY ReachedNames
<1>3. code # 0 => named \cap Dirs # {}
  BY <1>2
<1>4. Nothing \in Trees
  BY CommittedIsTree
<1>5. /\ left \in Trees
      /\ \A p \in Paths \ named : left[p] = w[p]
  BY <1>2, <1>4, OverlayTree DEF Trees
<1>6. Kept("clean", specs, g, w, Outcome(code, g, left))
  <2> HIDE DEF left, code
  <2> QED
    BY <1>3, <1>5 DEF Kept, Outcome
<1> QED
  BY <1>1, <1>6

\* Whatever the operation (run).
LEMMA RunKeeps ==
    ASSUME NEW invocation, NEW g \in Repo, NEW w \in Trees, NEW specs \in Pathspecs
    PROVE  Kept(invocation.action, specs, g, w, run(invocation, g, w, specs))
<1> DEFINE action == invocation.action
           done == run(invocation, g, w, specs)
<1>1. CASE action = "stage"
  BY <1>1, StageKeeps DEF run
<1>2. CASE action = "delete"
  BY <1>2, DeleteKeeps DEF run
<1>3. CASE action = "commit"
  BY <1>3, CommitKeeps DEF run
<1>4. CASE action = "unstage"
  BY <1>4, UnstageKeeps DEF run
<1>5. CASE action = "checkout"
  BY <1>5, CheckoutKeeps DEF run
<1>6. CASE action = "stash"
  BY <1>6, StashKeeps DEF run
<1>7. CASE action = "clean"
  BY <1>7, CleanKeeps DEF run
<1>8. CASE action \notin {"stage", "delete", "commit", "unstage", "checkout",
                         "stash", "clean"}
  <2>1. done = Outcome(0, g, w)
    BY <1>8 DEF run
  <2> QED
    BY <2>1, NothingDone
<1> QED
  BY <1>1, <1>2, <1>3, <1>4, <1>5, <1>6, <1>7, <1>8

-----------------------------------------------------------------------------
(* A builtin as a whole: gitshell.rs.                                      *)

\* The repository that is found is one, and it is inside the snapshot.
LEMMA RootInside ==
    ASSUME NEW start \in Seq(STRING), repo_root(start) # None
    PROVE  /\ repo_root(start) \in DOMAIN repos
           /\ IsPrefix(SnapshotRoot, repo_root(start))
<1> DEFINE found == {n \in 0..Len(start) :
                       /\ SubSeq(start, 1, n) \in DOMAIN repos
                       /\ \A m \in n..Len(start) :
                             IsPrefix(SnapshotRoot, SubSeq(start, 1, m))}
           above == {Len(start) - n : n \in found}
           last == CHOOSE n \in found : \A m \in found : m <= n
<1>1. found # {} /\ repo_root(start) = SubSeq(start, 1, last)
  BY DEF repo_root
<1>2. Len(start) \in Nat /\ found \subseteq 0..Len(start)
  OBVIOUS
<1>3. above \in SUBSET Nat /\ above # {}
  <2>1. \A n \in found : Len(start) - n \in Nat
    BY <1>2
  <2> HIDE DEF found
  <2> QED
    BY <1>1, <2>1
<1>4. PICK k \in above : \A l \in above : k <= l
  <2> HIDE DEF above
  <2> QED
    BY <1>3, LeastNatural
<1>5. \E n \in found : \A m \in found : m <= n
  <2>1. PICK n \in found : k = Len(start) - n
    BY <1>4
  <2>2. ASSUME NEW m \in found PROVE m <= n
    <3>1. Len(start) - n <= Len(start) - m
      BY <1>4, <2>1
    <3>2. n \in 0..Len(start) /\ m \in 0..Len(start)
      BY <1>2
    <3> QED
      BY <1>2, <3>1, <3>2
  <2> QED
    BY <2>2
<1>6. last \in found
  <2> HIDE DEF found
  <2> QED
    BY <1>5
<1>7. SubSeq(start, 1, last) \in DOMAIN repos /\ last \in last..Len(start)
        /\ \A m \in last..Len(start) : IsPrefix(SnapshotRoot, SubSeq(start, 1, m))
  <2>1. last \in 0..Len(start)
    BY <1>2, <1>6
  <2>2. last \in last..Len(start)
    BY <1>2, <2>1
  <2> HIDE DEF last
  <2> QED
    BY <1>6, <2>2
<1> QED
  BY <1>1, <1>7

\* A call left everything alone.
LeftAlone(done) == done.repos = repos /\ done.work = work /\ done.specs = <<>>

\* A call ran its operation on the repository at root, inside the snapshot.
RanAt(done, root) ==
    /\ root \in DOMAIN repos
    /\ IsPrefix(SnapshotRoot, root)
    /\ \A d \in DOMAIN repos \ {root} : done.repos[d] = repos[d]
    /\ Kept(done.action, done.specs, repos[root], work,
            [code |-> done.code, repo |-> done.repos[root], work |-> done.work])

\* A call leaves everything alone, or runs its operation on a
\* repository inside the snapshot and leaves the others alone.
LEMMA ExecuteKeeps ==
    ASSUME ReposTyped, NEW call \in Calls, NEW done, done = execute(call)
    PROVE  /\ done.repos \in [DOMAIN repos -> Repo]
           /\ done.work \in Trees
           /\ LeftAlone(done) \/ \E root : RanAt(done, root)
<1> DEFINE invocation == Invocation[call]
           root == repo_root(call.cwd)
           ran == run(invocation, repos[root], work, invocation.specs)
           refused(code) == [code |-> code, repos |-> repos, work |-> work,
                             action |-> "none", specs |-> <<>>]
           did == [code |-> ran.code,
                   repos |-> [repos EXCEPT ![root] = ran.repo],
                   work |-> ran.work,
                   action |-> invocation.action,
                   specs |-> invocation.specs]
<1>1. \/ \E code : done = refused(code)
      \/ root # None /\ done = did
  BY Zenon DEF execute, builtin
<1>2. repos \in [DOMAIN repos -> Repo] /\ work \in Trees
  BY DEF ReposTyped
<1>3. CASE \E code : done = refused(code)
  BY <1>2, <1>3 DEF LeftAlone
<1>4. CASE root # None /\ done = did
  <2>1. root \in DOMAIN repos /\ IsPrefix(SnapshotRoot, root)
    BY <1>4, RootInside, CallsAssumption
  <2>2. Kept(invocation.action, invocation.specs, repos[root], work, ran)
    <3>1. repos[root] \in Repo /\ invocation.specs \in Pathspecs
      BY <1>2, <2>1, CallsAssumption DEF Pathspecs
    <3> QED
      BY <1>2, <3>1, RunKeeps
  <2>3. ran.repo \in Repo /\ ran.work \in Trees
    BY <2>2 DEF Kept
  <2> HIDE DEF root, ran, invocation
  <2>4. /\ done.repos = [repos EXCEPT ![root] = ran.repo]
        /\ done.work = ran.work /\ done.code = ran.code
        /\ done.action = invocation.action /\ done.specs = invocation.specs
    BY <1>4
  <2>5. /\ done.repos \in [DOMAIN repos -> Repo]
        /\ done.repos[root] = ran.repo
        /\ \A d \in DOMAIN repos \ {root} : done.repos[d] = repos[d]
    BY <1>2, <2>1, <2>3, <2>4
  <2>6. Kept(done.action, done.specs, repos[root], work,
             [code |-> done.code, repo |-> done.repos[root], work |-> done.work])
    BY <2>2, <2>4, <2>5 DEF Kept
  <2> QED
    BY <2>1, <2>3, <2>4, <2>5, <2>6 DEF RanAt
<1> QED
  BY <1>1, <1>3, <1>4

-----------------------------------------------------------------------------
(* The steps.                                                              *)

\* Edits and builtins lead from repositories to repositories.
LEMMA TypedStep == ReposTyped /\ [Next]_vars => ReposTyped'
<1> SUFFICES ASSUME ReposTyped, [Next]_vars
             PROVE  ReposTyped'
  OBVIOUS
<1>1. ASSUME NEW edit \in Edits, Edit(edit[1], edit[2])
      PROVE  ReposTyped'
  <2>1. edit[1] \in Paths /\ edit[2] \in Contents \union {None}
    BY EditsAssumption
  <2>2. work' = [work EXCEPT ![edit[1]] = edit[2]] /\ repos' = repos
    BY <1>1 DEF Edit
  <2> QED
    BY <2>1, <2>2 DEF ReposTyped, Trees
<1>2. ASSUME NEW call \in Calls, Git(call)
      PROVE  ReposTyped'
  <2>1. PICK done \in {execute(call)} : repos' = done.repos /\ work' = done.work
    BY <1>2, Zenon DEF Git
  <2>2. done.repos \in [DOMAIN repos -> Repo] /\ done.work \in Trees
    BY <2>1, ExecuteKeeps
  <2> QED
    BY <2>1, <2>2 DEF ReposTyped
<1>3. CASE Publish \/ UNCHANGED vars
  BY <1>3 DEF Publish, ReposTyped, vars
<1> QED
  BY <1>1, <1>2, <1>3, Zenon DEF Next

\* Every state the steps lead to holds repositories and a worktree: a HEAD that
\* is a tree or unborn, an index, a stash of trees.
THEOREM RepositoriesTyped == Spec => []ReposTyped
<1>1. Init => ReposTyped
  BY SeedsAssumption DEF Init, ReposTyped
<1> QED
  BY <1>1, TypedStep, PTL DEF Spec

\* A git builtin that fails leaves HEAD, the index, the stash and the worktree as
\* they were, unless it stops at a directory: what no event claims has not
\* changed.
THEOREM RefusalsLeaveAll == Spec => []RefusedLeavesAll
<1>1. ReposTyped => RefusedLeavesAll
  <2> SUFFICES ASSUME ReposTyped, NEW done \in Outcomes,
                      done.code # 0, ~Halfway(done)
               PROVE  done.repos = repos /\ done.work = work
    BY DEF RefusedLeavesAll
  <2>1. PICK call \in Calls : done = execute(call)
    BY DEF Outcomes
  <2>2. LeftAlone(done) \/ \E root : RanAt(done, root)
    BY <2>1, ExecuteKeeps
  <2>3. ASSUME NEW root, RanAt(done, root)
        PROVE  done.repos = repos /\ done.work = work
    <3>1. done.repos[root] = repos[root] /\ done.work = work
      BY <2>3 DEF RanAt, Kept, Halfway
    <3>2. done.repos \in [DOMAIN repos -> Repo] /\ repos \in [DOMAIN repos -> Repo]
      BY <2>1, ExecuteKeeps DEF ReposTyped
    <3>3. \A d \in DOMAIN repos : done.repos[d] = repos[d]
      BY <2>3, <3>1 DEF RanAt
    <3> QED
      BY <3>1, <3>2, <3>3
  <2> QED
    BY <2>2, <2>3 DEF LeftAlone
<1> QED
  BY <1>1, RepositoriesTyped, PTL

\* A git builtin touches nothing but the files it names, and no repository that
\* is not inside the snapshot.
THEOREM OnlyNamedIsTouched == Spec => []OnlyNamed
<1>1. ReposTyped => OnlyNamed
  <2> SUFFICES ASSUME ReposTyped, NEW done \in Outcomes
               PROVE  /\ \A p \in Paths \ ToSet(done.specs) : done.work[p] = work[p]
                      /\ \A d \in DOMAIN repos :
                            /\ ~IsPrefix(SnapshotRoot, d) => done.repos[d] = repos[d]
                            /\ \A p \in Paths \ ToSet(done.specs) :
                                  done.repos[d].index[p] = repos[d].index[p]
                            /\ \/ Halfway(done)
                               \/ \A p \in Paths \ ToSet(done.specs) :
                                     Committed(done.repos[d])[p] = Committed(repos[d])[p]
    BY DEF OnlyNamed
  <2>1. PICK call \in Calls : done = execute(call)
    BY DEF Outcomes
  <2>2. LeftAlone(done) \/ \E root : RanAt(done, root)
    BY <2>1, ExecuteKeeps
  <2>3. CASE LeftAlone(done)
    BY <2>3 DEF LeftAlone
  <2>4. ASSUME NEW root, RanAt(done, root)
        PROVE  /\ \A p \in Paths \ ToSet(done.specs) :
                    /\ done.work[p] = work[p]
                    /\ done.repos[root].index[p] = repos[root].index[p]
                    /\ \/ Halfway(done)
                       \/ Committed(done.repos[root])[p] = Committed(repos[root])[p]
               /\ \A d \in DOMAIN repos :
                    (d = root /\ IsPrefix(SnapshotRoot, d)) \/ done.repos[d] = repos[d]
    BY <2>4 DEF RanAt, Kept, Halfway
  <2> QED
    BY <2>2, <2>3, <2>4
<1> QED
  BY <1>1, RepositoriesTyped, PTL

\* Only checkout and clean take a file's content away: what another builtin
\* removes from the worktree is in HEAD or in the stash.
THEOREM WorkIsKept == Spec => []WorkSurvives
<1>1. ReposTyped => WorkSurvives
  <2> SUFFICES ASSUME ReposTyped, NEW done \in Outcomes,
                      done.action \notin {"checkout", "clean"},
                      NEW p \in Paths
               PROVE  \/ work[p] \in {None, done.work[p]}
                      \/ \E d \in DOMAIN repos :
                            \/ Committed(done.repos[d])[p] = work[p]
                            \/ \E i \in DOMAIN done.repos[d].stash :
                                  done.repos[d].stash[i].working[p] = work[p]
    BY DEF WorkSurvives
  <2>1. PICK call \in Calls : done = execute(call)
    BY DEF Outcomes
  <2>2. LeftAlone(done) \/ \E root : RanAt(done, root)
    BY <2>1, ExecuteKeeps
  <2>3. ASSUME NEW root, RanAt(done, root)
        PROVE  /\ root \in DOMAIN repos
               /\ \/ work[p] \in {None, done.work[p]}
                  \/ Committed(done.repos[root])[p] = work[p]
                  \/ \E i \in DOMAIN done.repos[root].stash :
                        done.repos[root].stash[i].working[p] = work[p]
    BY <2>3 DEF RanAt, Kept
  <2> QED
    BY <2>2, <2>3 DEF LeftAlone
<1> QED
  BY <1>1, RepositoriesTyped, PTL

-----------------------------------------------------------------------------
(* Rows and repositories: the events of a builtin, in order.               *)

\* The largest of a set of naturals is what it should be.
LEMMA LargestIs ==
    ASSUME NEW S \in SUBSET Nat, NEW m \in S, \A x \in S : x <= m
    PROVE  Max(S) = m
<1>1. \A x \in S : (\A y \in S : x >= y) => x = m
  OBVIOUS
<1>2. \A y \in S : m >= y
  OBVIOUS
<1> QED
  BY <1>1, <1>2 DEF Max

\* f holds what is folded after each of the n elements of s.
Recording(f, base, n, s) ==
    /\ DOMAIN f = 0..n /\ f[0] = base
    /\ \A k \in 1..n : f[k] = Record(f[k - 1], s[k])
    /\ RecordAll(base, s) = f[n]

\* The events of a builtin are recorded one after another.
LEMMA RecordFold ==
    ASSUME NEW base, NEW n \in Nat, NEW s, DOMAIN s = 1..n
    PROVE  \E f : Recording(f, base, n, s)
<1> DEFINE IsFold(g, D) ==
        g = [t \in SUBSET D |->
                IF t = {} THEN base ELSE Record(g[t \ {Max(t)}], s[Max(t)])]
           Folds(m) == \E g : IsFold(g, 1..m)
<1>1. Folds(0)
  <2>1. IsFold([t \in SUBSET (1..0) |-> base], 1..0)
    OBVIOUS
  <2> QED
    BY <2>1
<1>2. ASSUME NEW m \in Nat, Folds(m) PROVE Folds(m + 1)
  <2>1. PICK g : IsFold(g, 1..m)
    BY <1>2
  <2> DEFINE h == [t \in SUBSET (1..(m + 1)) |->
                      IF m + 1 \in t THEN Record(g[t \ {m + 1}], s[m + 1]) ELSE g[t]]
  <2>2. ASSUME NEW t \in SUBSET (1..(m + 1))
        PROVE  h[t] = IF t = {} THEN base ELSE Record(h[t \ {Max(t)}], s[Max(t)])
    <3>1. CASE m + 1 \in t
      <4>1. Max(t) = m + 1
        BY <3>1, LargestIs
      <4>2. t \ {m + 1} \in SUBSET (1..(m + 1)) /\ m + 1 \notin t \ {m + 1}
        OBVIOUS
      <4>3. t \ {m + 1} \in SUBSET (1..m)
        OBVIOUS
      <4>4. h[t] = Record(g[t \ {m + 1}], s[m + 1]) /\ h[t \ {m + 1}] = g[t \ {m + 1}]
        BY <3>1, <4>2
      <4> HIDE DEF h
      <4> QED
        BY <3>1, <4>1, <4>4
    <3>2. CASE m + 1 \notin t
      <4>1. t \in SUBSET (1..m)
        BY <3>2
      <4>2. t \ {Max(t)} \in SUBSET (1..(m + 1)) /\ m + 1 \notin t \ {Max(t)}
        BY <3>2
      <4>3. h[t] = g[t] /\ h[t \ {Max(t)}] = g[t \ {Max(t)}]
        BY <3>2, <4>2
      <4>4. g[t] = IF t = {} THEN base ELSE Record(g[t \ {Max(t)}], s[Max(t)])
        BY <2>1, <4>1
      <4> HIDE DEF h
      <4> QED
        BY <4>3, <4>4
    <3> QED
      BY <3>1, <3>2
  <2>3. IsFold(h, 1..(m + 1))
    <3>1. h = [t \in SUBSET (1..(m + 1)) |-> h[t]]
      OBVIOUS
    <3> HIDE DEF h
    <3> QED
      BY <2>2, <3>1
  <2> QED
    BY <2>3
<1>3. Folds(n)
  <2> DEFINE bad == {m \in Nat : ~Folds(m)}
  <2> HIDE DEF Folds
  <2>1. ASSUME bad # {} PROVE FALSE
    <3>1. bad \in SUBSET Nat
      OBVIOUS
    <3>2. PICK m \in bad : \A l \in bad : m <= l
      BY <2>1, <3>1, LeastNatural
    <3>3. m \in Nat /\ m # 0 /\ ~Folds(m)
      BY <1>1
    <3>4. m - 1 \in Nat /\ m - 1 \notin bad /\ (m - 1) + 1 = m
      BY <3>2, <3>3
    <3> QED
      BY <1>2, <3>3, <3>4
  <2> QED
    BY <2>1
<1> DEFINE iter == CHOOSE g : IsFold(g, DOMAIN s)
<1>4. RecordAll(base, s) = iter[DOMAIN s]
  BY DEF RecordAll, FoldLeft, MapThenFoldSet
<1>5. IsFold(iter, 1..n)
  <2> HIDE DEF IsFold
  <2> QED
    BY <1>3
<1> HIDE DEF iter
<1> DEFINE vals == [k \in 0..n |-> iter[1..k]]
<1>6. vals[0] = base
  <2>1. vals[0] = iter[{}]
    <3>1. 1..0 = {} /\ 0 \in 0..n
      OBVIOUS
    <3> QED
      BY <3>1
  <2> QED
    BY <1>5, <2>1
<1>7. ASSUME NEW k \in 1..n PROVE vals[k] = Record(vals[k - 1], s[k])
  <2>1. Max(1..k) = k
    <3>1. k \in 1..k /\ 1..k \subseteq Nat /\ \A x \in 1..k : x <= k
      OBVIOUS
    <3> QED
      BY <3>1, LargestIs
  <2>2. 1..k # {} /\ (1..k) \ {k} = 1..(k - 1) /\ 1..k \in SUBSET (1..n)
    OBVIOUS
  <2>3. vals[k] = iter[1..k] /\ vals[k - 1] = iter[1..(k - 1)]
    OBVIOUS
  <2>4. iter[1..k] = Record(iter[(1..k) \ {k}], s[k])
    BY <1>5, <2>1, <2>2
  <2> HIDE DEF vals
  <2> QED
    BY <2>2, <2>3, <2>4
<1>8. RecordAll(base, s) = vals[n] /\ DOMAIN vals = 0..n
  BY <1>4
<1> HIDE DEF vals
<1> QED
  BY <1>6, <1>7, <1>8 DEF Recording

\* What a row becomes by an event of a path.
Becomes(action, r) ==
    IF action \in {"edit", "unstage"} THEN Self
    ELSE IF action \in {"stage", "delete"} THEN "staged"
    ELSE IF action \in {"commit", "checkout", "stash"} THEN "clean"
    ELSE r

Rows == {"clean", "staged", Self}

\* What a command has recorded.
Recorded(t) ==
    /\ \E a, b, c, l : t = [seen |-> a, row |-> b, unclaimed |-> c, legal |-> l]
    /\ t.row \in [Paths -> Rows]
    /\ t.unclaimed \subseteq Paths

\* One event moves the row of its path, or the path is unclaimed.
LEMMA RecordMoves ==
    ASSUME NEW t, Recorded(t), NEW action, NEW spec
    PROVE  \E u : /\ u = Record(t, Event(action, spec))
                 /\ Recorded(u)
                 /\ t.unclaimed \subseteq u.unclaimed
                 /\ \A p \in Paths \ u.unclaimed :
                       u.row[p] = IF p = spec THEN Becomes(action, t.row[p])
                                  ELSE t.row[p]
<1> DEFINE e == Event(action, spec)
           m == Moved(t.row, e)
           u == Record(t, e)
           moved == IF m # t.row THEN {spec} ELSE {}
<1>0. SUFFICES /\ Recorded(u)
               /\ t.unclaimed \subseteq u.unclaimed
               /\ \A p \in Paths \ u.unclaimed :
                     u.row[p] = IF p = spec THEN Becomes(action, t.row[p])
                                ELSE t.row[p]
  OBVIOUS
<1>1. e.action = action /\ e.resource = spec /\ e.principal = Self
  BY DEF Event
<1>2. /\ m \in [Paths -> Rows]
      /\ \A p \in Paths : m[p] = IF p = spec THEN Becomes(action, t.row[p])
                                 ELSE t.row[p]
  <2>1. m = [t.row EXCEPT ![spec] =
                CASE action \in {"edit", "unstage"} -> Self
                  [] action \in {"stage", "delete"} -> "staged"
                  [] action \in {"commit", "checkout", "stash"} -> "clean"
                  [] OTHER -> @]
    BY <1>1 DEF Moved, Table!Apply, Table!Settles
  <2>2. m = [t.row EXCEPT ![spec] = Becomes(action, t.row[spec])]
    BY <2>1 DEF Becomes
  <2> HIDE DEF m
  <2> QED
    BY <2>2 DEF Recorded, Becomes, Rows
<1>3. m # t.row => spec \in Paths
  BY <1>2 DEF Recorded
<1>4. PICK a, b, c, l : t = [seen |-> a, row |-> b, unclaimed |-> c, legal |-> l]
  BY DEF Recorded
<1>5. CASE e \in t.seen
  <2>1. u = [t EXCEPT !.unclaimed = @ \union moved]
    BY <1>1, <1>5 DEF Record
  <2>2. u = [seen |-> a, row |-> b, unclaimed |-> c \union moved, legal |-> l]
    <3> HIDE DEF u, moved
    <3> QED
      BY <1>4, <2>1
  <2>3. u.row = t.row /\ u.unclaimed = t.unclaimed \union moved
    <3> HIDE DEF u, moved
    <3> QED
      BY <1>4, <2>2
  <2>4. Recorded(u)
    <3> HIDE DEF u
    <3> QED
      BY <1>3, <2>2, <2>3 DEF Recorded
  <2> HIDE DEF u, m
  <2> QED
    BY <1>2, <2>3, <2>4
<1>6. CASE e \notin t.seen
  <2> DEFINE ok == Table!RowAllows(t.row[e.resource], e)
  <2>1. u = [t EXCEPT !.seen = @ \union {e}, !.row = Moved(@, e), !.legal = @ /\ ok]
    BY <1>6 DEF Record
  <2>2. u = [seen |-> a \union {e}, row |-> m, unclaimed |-> c, legal |-> l /\ ok]
    <3>1. t.row = b
      BY <1>4
    <3> HIDE DEF u, ok, e
    <3> QED
      BY <1>4, <2>1, <3>1
  <2>3. u.row = m /\ u.unclaimed = t.unclaimed
    <3> HIDE DEF u, m, ok, e
    <3> QED
      BY <1>4, <2>2
  <2>4. Recorded(u)
    <3>1. \E a1, b1, c1, l1 :
             u = [seen |-> a1, row |-> b1, unclaimed |-> c1, legal |-> l1]
      <4> HIDE DEF u, m, ok, e
      <4> QED
        BY <2>2
    <3> HIDE DEF u, m
    <3> QED
      BY <1>2, <2>3, <3>1 DEF Recorded
  <2> HIDE DEF u, m
  <2> QED
    BY <1>2, <2>3, <2>4
<1> QED
  BY <1>5, <1>6

\* The events of a list of paths move the rows of those paths, and of no other,
\* but for the paths that become unclaimed.
LEMMA GrantedMoves ==
    ASSUME NEW action, NEW specs \in Pathspecs, Granted(action, specs),
           row \in [Paths -> Rows], unclaimed \subseteq Paths
    PROVE  /\ row' \in [Paths -> Rows]
           /\ unclaimed \subseteq unclaimed' /\ unclaimed' \subseteq Paths
           /\ \A p \in Paths \ unclaimed' :
                 row'[p] = IF p \in ToSet(specs) THEN Becomes(action, row[p])
                           ELSE row[p]
<1> DEFINE base == [seen |-> seen, row |-> row, unclaimed |-> unclaimed,
                    legal |-> TRUE]
           events == [i \in DOMAIN specs |-> Event(action, specs[i])]
<1>1. DOMAIN specs = 1..Len(specs) /\ Len(specs) \in Nat
  BY DEF Pathspecs
<1>2. PICK t \in {RecordAll(base, events)} :
         row' = t.row /\ unclaimed' = t.unclaimed
  BY Zenon DEF Granted
<1>3. /\ DOMAIN events = 1..Len(specs)
      /\ \A i \in 1..Len(specs) : events[i] = Event(action, specs[i])
  BY <1>1
<1>4. Recorded(base) /\ base.row = row /\ base.unclaimed = unclaimed
  <2>1. \E a, b, c, l : base = [seen |-> a, row |-> b, unclaimed |-> c, legal |-> l]
    OBVIOUS
  <2> QED
    BY <2>1 DEF Recorded
<1> HIDE DEF base, events
<1>5a. PICK f : Recording(f, base, Len(specs), events)
  BY <1>1, <1>3, RecordFold
<1>5. /\ DOMAIN f = 0..Len(specs) /\ f[0] = base
      /\ \A k \in 1..Len(specs) : f[k] = Record(f[k - 1], events[k])
      /\ RecordAll(base, events) = f[Len(specs)]
  BY <1>5a DEF Recording
<1> DEFINE upto(k) == {specs[i] : i \in 1..k}
           Right(k) ==
              /\ Recorded(f[k])
              /\ unclaimed \subseteq f[k].unclaimed
              /\ \A p \in Paths \ f[k].unclaimed :
                    f[k].row[p] = IF p \in upto(k) THEN Becomes(action, row[p])
                                  ELSE row[p]
           wrong == {k \in 0..Len(specs) : ~Right(k)}
<1>6. Right(0)
  <2>1. upto(0) = {}
    OBVIOUS
  <2> QED
    BY <1>4, <1>5, <2>1
<1>7. ASSUME NEW k \in 1..Len(specs), Right(k - 1)
      PROVE  Right(k)
  <2>1. k - 1 \in 0..Len(specs) /\ Recorded(f[k - 1])
    BY <1>1, <1>7
  <2>2. /\ Recorded(f[k])
        /\ f[k - 1].unclaimed \subseteq f[k].unclaimed
        /\ \A p \in Paths \ f[k].unclaimed :
              f[k].row[p] = IF p = specs[k] THEN Becomes(action, f[k - 1].row[p])
                            ELSE f[k - 1].row[p]
    <3>1. f[k] = Record(f[k - 1], Event(action, specs[k]))
      BY <1>3, <1>5
    <3>2. PICK u : /\ u = Record(f[k - 1], Event(action, specs[k]))
                   /\ Recorded(u)
                   /\ f[k - 1].unclaimed \subseteq u.unclaimed
                   /\ \A p \in Paths \ u.unclaimed :
                         u.row[p] = IF p = specs[k]
                                    THEN Becomes(action, f[k - 1].row[p])
                                    ELSE f[k - 1].row[p]
      BY <2>1, RecordMoves
    <3>3. u = f[k]
      BY <3>1, <3>2
    <3> QED
      BY <3>2, <3>3
  <2>3. upto(k) = upto(k - 1) \union {specs[k]}
    <3>1. 1..k = (1..(k - 1)) \union {k}
      BY <1>1
    <3> QED
      BY <3>1
  <2>4. \A r : Becomes(action, Becomes(action, r)) = Becomes(action, r)
    BY DEF Becomes
  <2>5. ASSUME NEW p \in Paths \ f[k].unclaimed
        PROVE  f[k].row[p] = IF p \in upto(k) THEN Becomes(action, row[p])
                             ELSE row[p]
    <3>1. p \in Paths \ f[k - 1].unclaimed
      BY <2>2
    <3>2. f[k - 1].row[p] = IF p \in upto(k - 1) THEN Becomes(action, row[p])
                            ELSE row[p]
      BY <1>7, <3>1
    <3>3. f[k].row[p] = IF p = specs[k] THEN Becomes(action, f[k - 1].row[p])
                        ELSE f[k - 1].row[p]
      BY <2>2
    <3> HIDE DEF upto
    <3> QED
      BY <2>3, <2>4, <3>2, <3>3
  <2> HIDE DEF upto
  <2> QED
    BY <1>7, <2>2, <2>5
<1>8. wrong = {}
  <2> HIDE DEF Right
  <2>1. SUFFICES ASSUME wrong # {}
                 PROVE  FALSE
    OBVIOUS
  <2>2. wrong \in SUBSET Nat
    OBVIOUS
  <2>3. PICK k \in wrong : \A l \in wrong : k <= l
    <3> HIDE DEF wrong
    <3> QED
      BY <2>1, <2>2, LeastNatural
  <2>4. k \in 1..Len(specs)
    BY <1>1, <1>6
  <2>5. k - 1 \in 0..Len(specs) /\ k - 1 \notin wrong
    <3>1. k - 1 \in 0..Len(specs) /\ ~(k <= k - 1)
      BY <1>1, <2>4
    <3> QED
      BY <2>3, <3>1
  <2> QED
    BY <1>7, <2>4, <2>5
<1>9. Right(Len(specs))
  <2>1. Len(specs) \in 0..Len(specs)
    BY <1>1
  <2> HIDE DEF Right
  <2> QED
    BY <1>8, <2>1
<1>10. upto(Len(specs)) = ToSet(specs)
  BY <1>1 DEF ToSet
<1>11. t = f[Len(specs)]
  BY <1>2, <1>5
<1> HIDE DEF upto
<1> QED
  BY <1>2, <1>9, <1>10, <1>11 DEF Recorded

\* What an operation does to HEAD, the index and the worktree of a file, as far
\* as the rows go: done, it leaves what its event makes of the row; failed, what
\* it changed shows in HEAD or in the worktree.
Tracks(action, specs, g, w, done) ==
    LET named == ToSet(specs)
        untouched(p) ==
            /\ done.repo.index[p] = g.index[p]
            /\ Committed(done.repo)[p] = Committed(g)[p]
            /\ done.work[p] = w[p]
        right(p) ==
            /\ action \in {"stage", "delete", "commit", "checkout", "stash"} =>
                  done.repo.index[p] = done.work[p]
            /\ action \in {"commit", "checkout", "stash"} =>
                  Committed(done.repo)[p] = done.work[p]
            /\ action \in {"unstage", "stage", "delete", "commit", "checkout",
                           "stash"} \/ untouched(p) \/ g.index[p] # w[p]
    IN  IF done.code = 0
        THEN \A p \in Paths : IF p \in named THEN right(p) ELSE untouched(p)
        ELSE \A p \in Paths :
                /\ done.repo.index[p] = g.index[p]
                /\ \/ untouched(p)
                   \/ done.work[p] # w[p]
                   \/ g.head # Unborn /\ done.repo.head[p] # g.head[p]

\* An operation that leaves everything alone has failed, or its event moves no
\* row.
LEMMA NothingTracks ==
    ASSUME NEW g, NEW w, NEW specs, NEW action, NEW code,
           \/ code # 0
           \/ action \notin {"stage", "delete", "commit", "checkout", "stash"}
    PROVE  Tracks(action, specs, g, w, Outcome(code, g, w))
BY DEF Tracks, Outcome

\* git add: the index is the worktree.
LEMMA StageTracks ==
    ASSUME NEW g \in Repo, NEW w \in Trees, NEW specs \in Pathspecs
    PROVE  Tracks("stage", specs, g, w, stage(g, w, specs))
<1> DEFINE named == ToSet(specs)
           index == Overlay(g.index, named, w)
           after == [g EXCEPT !.index = index]
<1>1. \/ \E code : code # 0 /\ stage(g, w, specs) = Outcome(code, g, w)
      \/ stage(g, w, specs) = Outcome(0, after, w)
  BY DEF stage
<1>2. CASE stage(g, w, specs) = Outcome(0, after, w)
  <2>1. \A p \in Paths : index[p] = IF p \in named THEN w[p] ELSE g.index[p]
    BY DEF Overlay
  <2>2. after.index = index /\ after.head = g.head
    BY DEF Repo
  <2>3. Committed(after) = Committed(g)
    BY <2>2 DEF Committed
  <2>4. Tracks("stage", specs, g, w, Outcome(0, after, w))
    <3> HIDE DEF after, index
    <3> QED
      BY <2>1, <2>2, <2>3 DEF Tracks, Outcome
  <2> QED
    BY <1>2, <2>4
<1> QED
  BY <1>1, <1>2, NothingTracks

\* git restore --staged: the row is the principal's own, which promises nothing.
LEMMA UnstageTracks ==
    ASSUME NEW g \in Repo, NEW w \in Trees, NEW specs \in Pathspecs
    PROVE  Tracks("unstage", specs, g, w, unstage(g, w, specs))
<1> DEFINE named == ToSet(specs)
           index == Overlay(g.index, named, Committed(g))
           after == [g EXCEPT !.index = index]
<1>1. \/ \E code : code # 0 /\ unstage(g, w, specs) = Outcome(code, g, w)
      \/ unstage(g, w, specs) = Outcome(0, after, w)
  BY DEF unstage
<1>2. CASE unstage(g, w, specs) = Outcome(0, after, w)
  <2>1. \A p \in Paths : p \notin named => index[p] = g.index[p]
    BY DEF Overlay
  <2>2. after.index = index /\ after.head = g.head
    BY DEF Repo
  <2>3. Committed(after) = Committed(g)
    BY <2>2 DEF Committed
  <2>4. Tracks("unstage", specs, g, w, Outcome(0, after, w))
    <3> HIDE DEF after, index
    <3> QED
      BY <2>1, <2>2, <2>3 DEF Tracks, Outcome
  <2> QED
    BY <1>2, <2>4
<1> QED
  BY <1>1, <1>2, NothingTracks

\* git rm: neither the index nor the worktree has the files.
LEMMA DeleteTracks ==
    ASSUME NEW g \in Repo, NEW w \in Trees, NEW specs \in Pathspecs
    PROVE  Tracks("delete", specs, g, w, delete(g, w, specs))
<1> DEFINE named == ToSet(specs)
           index == Overlay(g.index, named, Nothing)
           after == [g EXCEPT !.index = index]
           left == Overlay(w, named, Nothing)
<1>1. \/ \E code : code # 0 /\ delete(g, w, specs) = Outcome(code, g, w)
      \/ delete(g, w, specs) = Outcome(0, after, left)
  BY DEF delete
<1>2. CASE delete(g, w, specs) = Outcome(0, after, left)
  <2>1. \A p \in Paths : /\ index[p] = IF p \in named THEN None ELSE g.index[p]
                         /\ left[p] = IF p \in named THEN None ELSE w[p]
    BY DEF Overlay, Nothing
  <2>2. after.index = index /\ after.head = g.head
    BY DEF Repo
  <2>3. Committed(after) = Committed(g)
    BY <2>2 DEF Committed
  <2>4. Tracks("delete", specs, g, w, Outcome(0, after, left))
    <3> HIDE DEF after, index, left
    <3> QED
      BY <2>1, <2>2, <2>3 DEF Tracks, Outcome
  <2> QED
    BY <1>2, <2>4
<1> QED
  BY <1>1, <1>2, NothingTracks

\* git commit: HEAD and the index are the worktree, as long as no directory is
\* named; one that is fails the builtin after HEAD has moved.
LEMMA CommitTracks ==
    ASSUME NEW g \in Repo, NEW w \in Trees, NEW specs \in Pathspecs, NEW message
    PROVE  Tracks("commit", specs, g, w, commit(g, w, specs, message))
<1> DEFINE named == ToSet(specs)
           tree == CommittedTree(g, w, named)
           moved == [g EXCEPT !.head = tree]
           index == Overlay(moved.index, named, w)
           after == [moved EXCEPT !.index = index]
<1>1. \/ \E code : code # 0 /\ commit(g, w, specs, message) = Outcome(code, g, w)
      \/ /\ g.head # Unborn
         /\ \/ commit(g, w, specs, message) = Outcome(FATAL, moved, w)
            \/ /\ named \cap Dirs = {}
               /\ commit(g, w, specs, message) = Outcome(0, after, w)
  <2>1. FATAL # 0 /\ REFUSED # 0
    BY DEF FATAL, REFUSED
  <2>2. CASE ~message \/ g.head = Unborn
    BY <2>1, <2>2, Zenon DEF commit
  <2>3. CASE /\ message /\ g.head # Unborn
             /\ commit(g, w, specs, message) # Outcome(REFUSED, g, w)
             /\ commit(g, w, specs, message) # Outcome(FATAL, g, w)
    BY <2>3, Zenon DEF commit
  <2> QED
    BY <2>1, <2>2, <2>3, Zenon
<1>2. CASE g.head # Unborn
  <2>1. g.head \in Trees /\ g.index \in Trees
    BY <1>2 DEF Repo
  <2>2. tree \in Trees /\ tree # Unborn
    BY <2>1, PathsAssumption DEF CommittedTree, Trees
  <2>3. moved.head = tree /\ moved.index = g.index
    BY DEF Repo
  <2>4. \A p \in Paths : index[p] = IF p \in named THEN w[p] ELSE g.index[p]
    BY <2>3 DEF Overlay
  <2>5. after.head = tree /\ after.index = index
    <3>1. moved \in Repo
      BY <2>2 DEF Repo
    <3> HIDE DEF moved
    <3> QED
      BY <2>3, <3>1 DEF Repo
  <2>6. /\ Committed(moved) = tree /\ Committed(after) = tree
        /\ Committed(g) = g.head
    BY <1>2, <2>2, <2>3, <2>5 DEF Committed
  <2>7. ASSUME NEW p \in Paths, named \cap Dirs = {}
        PROVE  tree[p] = IF p \in named THEN w[p] ELSE g.head[p]
    <3>1. p \notin named => ~\E d \in named : p \in Below(d)
      BY <2>7, AboveIsDir DEF ToSet, Pathspecs
    <3> QED
      BY <3>1 DEF CommittedTree
  <2>8. Tracks("commit", specs, g, w, Outcome(FATAL, moved, w))
    <3>1. FATAL # 0
      BY DEF FATAL
    <3> HIDE DEF moved, tree
    <3> QED
      BY <1>2, <2>3, <2>6, <3>1 DEF Tracks, Outcome
  <2>9. ASSUME named \cap Dirs = {}
        PROVE  Tracks("commit", specs, g, w, Outcome(0, after, w))
    <3> HIDE DEF after, moved, tree, index
    <3> QED
      BY <2>4, <2>5, <2>6, <2>7, <2>9 DEF Tracks, Outcome
  <2> QED
    BY <1>1, <2>8, <2>9, NothingTracks
<1> QED
  BY <1>1, <1>2, NothingTracks

\* git checkout HEAD: the worktree and the index are HEAD's; stopped halfway, the
\* worktree shows what was written.
LEMMA CheckoutTracks ==
    ASSUME NEW g \in Repo, NEW w \in Trees, NEW specs \in Pathspecs
    PROVE  Tracks("checkout", specs, g, w, checkout(g, w, specs))
<1> DEFINE named == ToSet(specs)
           trees == {spec \in named : tree_blob(Committed(g), spec) = "tree"}
           written == Reached(specs, trees)
           left == Overlay(w, written, Committed(g))
           index == Overlay(g.index, written, Committed(g))
           after == [g EXCEPT !.index = index]
<1>1. \/ \E code : code # 0 /\ checkout(g, w, specs) = Outcome(code, g, w)
      \/ checkout(g, w, specs) = Outcome(FATAL, g, left)
      \/ written = named /\ checkout(g, w, specs) = Outcome(0, after, left)
  BY DEF checkout, REFUSED
<1>2. \A p \in Paths :
         /\ left[p] = IF p \in written THEN Committed(g)[p] ELSE w[p]
         /\ index[p] = IF p \in written THEN Committed(g)[p] ELSE g.index[p]
  BY DEF Overlay
<1>3. after.index = index /\ after.head = g.head
  BY DEF Repo
<1>4. Committed(after) = Committed(g)
  BY <1>3 DEF Committed
<1>5. Tracks("checkout", specs, g, w, Outcome(FATAL, g, left))
  <2>1. FATAL # 0
    BY DEF FATAL
  <2> HIDE DEF left
  <2> QED
    BY <1>2, <2>1 DEF Tracks, Outcome
<1>6. written = named =>
         Tracks("checkout", specs, g, w, Outcome(0, after, left))
  <2> HIDE DEF left, after, index, written
  <2> QED
    BY <1>2, <1>3, <1>4 DEF Tracks, Outcome
<1> QED
  BY <1>1, <1>5, <1>6, NothingTracks

\* git stash push: the index and the worktree are HEAD's, and were so already when
\* there was nothing to save.
LEMMA StashTracks ==
    ASSUME NEW g \in Repo, NEW w \in Trees, NEW specs \in Pathspecs
    PROVE  Tracks("stash", specs, g, w, stash(g, w, specs))
<1> DEFINE named == ToSet(specs)
           dirty == \E p \in named : g.index[p] # g.head[p] \/ w[p] # g.index[p]
           saved == [staged |-> Overlay(g.head, named, g.index),
                     working |-> Overlay(g.head, named, w)]
           index == Overlay(g.index, named, g.head)
           after == [g EXCEPT !.stash = Append(@, saved), !.index = index]
           left == Overlay(w, named, g.head)
<1>1. \/ \E code : code # 0 /\ stash(g, w, specs) = Outcome(code, g, w)
      \/ /\ g.head # Unborn
         /\ \/ ~dirty /\ stash(g, w, specs) = Outcome(0, g, w)
            \/ stash(g, w, specs) = Outcome(0, after, left)
  <2>1. FATAL # 0 /\ REFUSED # 0
    BY DEF FATAL, REFUSED
  <2> QED
    BY <2>1, Zenon DEF stash
<1>2. CASE g.head # Unborn
  <2>1. Committed(g) = g.head
    BY <1>2 DEF Committed
  <2>2. ~dirty => Tracks("stash", specs, g, w, Outcome(0, g, w))
    BY <2>1 DEF Tracks, Outcome
  <2>3. \A p \in Paths : /\ left[p] = IF p \in named THEN g.head[p] ELSE w[p]
                         /\ index[p] = IF p \in named THEN g.head[p] ELSE g.index[p]
    BY DEF Overlay
  <2>4. after.index = index /\ after.head = g.head
    <3> HIDE DEF saved, index
    <3> QED
      BY DEF Repo
  <2>5. Committed(after) = g.head
    BY <1>2, <2>4 DEF Committed
  <2>6. Tracks("stash", specs, g, w, Outcome(0, after, left))
    <3> HIDE DEF left, after, index, saved
    <3> QED
      BY <2>1, <2>3, <2>4, <2>5 DEF Tracks, Outcome
  <2> QED
    BY <1>1, <2>2, <2>6, NothingTracks
<1> QED
  BY <1>1, <1>2, NothingTracks

\* git clean -f: a file that it removes is not in the index, so its row is not one
\* that promises anything.
LEMMA CleanTracks ==
    ASSUME NEW g \in Repo, NEW w \in Trees, NEW specs \in Pathspecs
    PROVE  Tracks("clean", specs, g, w, clean(g, w, specs))
<1> DEFINE named == ToSet(specs)
           reached == Reached(specs, Dirs)
           removed == {spec \in reached : index_blob(g, spec) = None /\ Exists(w, spec)}
           code == IF reached = named THEN 0 ELSE FATAL
           left == Overlay(w, removed, Nothing)
<1>1. clean(g, w, specs) = Outcome(code, g, left)
  BY DEF clean
<1>2. reached \subseteq named
  BY ReachedNames
<1>3. ASSUME NEW p \in Paths, left[p] # w[p]
      PROVE  p \in named /\ g.index[p] # w[p]
  <2>1. p \in removed
    BY <1>3 DEF Overlay
  <2>2. p \notin Dirs
    BY PathsAssumption
  <2> QED
    BY <1>2, <2>1, <2>2 DEF index_blob, Exists
<1>4. Tracks("clean", specs, g, w, Outcome(code, g, left))
  <2> HIDE DEF left, code
  <2> QED
    BY <1>3 DEF Tracks, Outcome
<1> QED
  BY <1>1, <1>4

\* Whatever the operation (run).
LEMMA RunTracks ==
    ASSUME NEW invocation, NEW g \in Repo, NEW w \in Trees, NEW specs \in Pathspecs
    PROVE  Tracks(invocation.action, specs, g, w, run(invocation, g, w, specs))
<1> DEFINE action == invocation.action
           done == run(invocation, g, w, specs)
<1>1. CASE action = "stage"
  BY <1>1, StageTracks DEF run
<1>2. CASE action = "delete"
  BY <1>2, DeleteTracks DEF run
<1>3. CASE action = "commit"
  BY <1>3, CommitTracks DEF run
<1>4. CASE action = "unstage"
  BY <1>4, UnstageTracks DEF run
<1>5. CASE action = "checkout"
  BY <1>5, CheckoutTracks DEF run
<1>6. CASE action = "stash"
  BY <1>6, StashTracks DEF run
<1>7. CASE action = "clean"
  BY <1>7, CleanTracks DEF run
<1>8. CASE action \notin {"stage", "delete", "commit", "unstage", "checkout",
                         "stash", "clean"}
  <2>1. done = Outcome(0, g, w)
    BY <1>8 DEF run
  <2> QED
    BY <1>8, <2>1, NothingTracks
<1> QED
  BY <1>1, <1>2, <1>3, <1>4, <1>5, <1>6, <1>7, <1>8

\* A call fails and leaves everything alone, or its operation tracks the files of
\* one repository inside the snapshot, which has every file that is named.
LEMMA ExecuteTracks ==
    ASSUME ReposTyped, NEW call \in Calls, NEW done, done = execute(call)
    PROVE  /\ done.specs \in Pathspecs
           /\ \/ done.code # 0 /\ LeftAlone(done)
              \/ \E root \in DOMAIN repos :
                    /\ IsPrefix(SnapshotRoot, root)
                    /\ \A p \in Paths \intersect ToSet(done.specs) : p \in Below(root)
                    /\ \A d \in DOMAIN repos \ {root} : done.repos[d] = repos[d]
                    /\ Tracks(done.action, done.specs, repos[root], work,
                              [code |-> done.code, repo |-> done.repos[root],
                               work |-> done.work])
<1> DEFINE invocation == Invocation[call]
           specs == invocation.specs
           root == repo_root(call.cwd)
           ran == run(invocation, repos[root], work, specs)
           refused(code) == [code |-> code, repos |-> repos, work |-> work,
                             action |-> "none", specs |-> <<>>]
           did == [code |-> ran.code,
                   repos |-> [repos EXCEPT ![root] = ran.repo],
                   work |-> ran.work,
                   action |-> invocation.action,
                   specs |-> specs]
<1>1. \/ \E code : code # 0 /\ done = refused(code)
      \/ /\ root # None /\ done = did
         /\ \A i \in DOMAIN specs : repo_relative(root, specs[i])
  <2>1. FATAL # 0 /\ REFUSED # 0 /\ UNMAPPABLE # 0
    BY DEF FATAL, REFUSED, UNMAPPABLE
  <2> QED
    BY <2>1, Zenon DEF execute, builtin
<1>2. repos \in [DOMAIN repos -> Repo] /\ work \in Trees
  BY DEF ReposTyped
<1>3. CASE \E code : code # 0 /\ done = refused(code)
  <2>1. <<>> \in Pathspecs
    BY DEF Pathspecs
  <2> QED
    BY <1>2, <1>3, <2>1 DEF LeftAlone
<1>4. CASE /\ root # None /\ done = did
           /\ \A i \in DOMAIN specs : repo_relative(root, specs[i])
  <2>1. root \in DOMAIN repos /\ IsPrefix(SnapshotRoot, root)
    BY <1>4, RootInside, CallsAssumption
  <2>2. specs \in Pathspecs
    BY CallsAssumption DEF Pathspecs
  <2>3. /\ Tracks(invocation.action, specs, repos[root], work, ran)
        /\ ran.repo \in Repo
    <3>1. repos[root] \in Repo
      BY <1>2, <2>1
    <3> QED
      BY <1>2, <2>2, <3>1, RunTracks, RunKeeps DEF Kept
  <2>4. \A p \in Paths \intersect ToSet(specs) : p \in Below(root)
    BY <1>4 DEF ToSet, Below, repo_relative
  <2> HIDE DEF root, ran, invocation, specs
  <2>5. /\ done.repos = [repos EXCEPT ![root] = ran.repo]
        /\ done.work = ran.work /\ done.code = ran.code
        /\ done.action = invocation.action /\ done.specs = specs
    BY <1>4
  <2>6. /\ done.repos[root] = ran.repo
        /\ \A d \in DOMAIN repos \ {root} : done.repos[d] = repos[d]
    BY <1>2, <2>1, <2>5
  <2>7. Tracks(done.action, done.specs, repos[root], work,
               [code |-> done.code, repo |-> done.repos[root], work |-> done.work])
    BY <2>3, <2>5, <2>6 DEF Tracks
  <2> QED
    BY <2>1, <2>2, <2>4, <2>5, <2>6, <2>7
<1> QED
  BY <1>1, <1>3, <1>4

\* A file is in one repository of the snapshot at most.
OneRepository ==
    \A d \in DOMAIN repos, e \in DOMAIN repos :
        /\ IsPrefix(SnapshotRoot, d) /\ IsPrefix(SnapshotRoot, e)
        /\ Below(d) \intersect Below(e) # {}
        => d = e

\* The inductive invariant behind the rows.
RowsTracked == TypeOK /\ OneRepository /\ RowsMatchRepo

\* What a job starts from is committed and every row is clean.
LEMMA RowsTrackedAtFirst == Init => RowsTracked
<1> SUFFICES ASSUME Init PROVE RowsTracked
  OBVIOUS
<1>1. PICK seed \in Seeds : repos = seed.repos /\ work = seed.work
  BY DEF Init
<1>2. TypeOK
  BY <1>1, SeedsAssumption DEF Init, TypeOK, ReposTyped
<1> DEFINE inside == {d \in DOMAIN seed.repos : IsPrefix(SnapshotRoot, d)}
<1>3. /\ \A d \in inside, e \in inside : Below(d) \intersect Below(e) # {} => d = e
      /\ \A d \in inside : \A p \in Below(d) :
            /\ seed.repos[d].index[p] = seed.work[p]
            /\ Committed(seed.repos[d])[p] = seed.work[p]
  BY CleanSeedsAssumption
<1>4. OneRepository
  BY <1>1, <1>3 DEF OneRepository
<1>5. RowsMatchRepo
  BY <1>1, <1>3 DEF RowsMatchRepo
<1> QED
  BY <1>2, <1>4, <1>5 DEF RowsTracked

\* A file that an edit changes is the principal's own, or unclaimed.
LEMMA EditTracked ==
    ASSUME RowsTracked, NEW p \in Paths, NEW content \in Contents \union {None},
           Edit(p, content)
    PROVE  RowsTracked'
<1>1. /\ repos' = repos /\ work' = [work EXCEPT ![p] = content]
      /\ Granted("edit", <<p>>)
  BY DEF Edit
<1>2. <<p>> \in Pathspecs /\ ToSet(<<p>>) = {p}
  BY PathsAssumption DEF Pathspecs, ToSet
<1>3. row \in [Paths -> Rows] /\ unclaimed \subseteq Paths
  BY DEF RowsTracked, TypeOK, Rows
<1>4. /\ row' \in [Paths -> Rows]
      /\ unclaimed \subseteq unclaimed' /\ unclaimed' \subseteq Paths
      /\ \A q \in Paths \ unclaimed' :
            row'[q] = IF q = p THEN Becomes("edit", row[q]) ELSE row[q]
  BY <1>1, <1>2, <1>3, GrantedMoves
<1>5. TypeOK' /\ OneRepository'
  <2>1. work' \in Trees
    BY <1>1 DEF RowsTracked, TypeOK, ReposTyped, Trees
  <2> QED
    BY <1>1, <1>4, <2>1 DEF RowsTracked, TypeOK, ReposTyped, OneRepository, Rows
<1>6. ASSUME NEW d \in DOMAIN repos, NEW q \in Below(d) \ unclaimed',
             IsPrefix(SnapshotRoot, d)
      PROVE  /\ row'[q] \in {"clean", "staged"} => repos[d].index[q] = work'[q]
             /\ row'[q] = "clean" => Committed(repos[d])[q] = work'[q]
  <2>1. q \in Paths \ unclaimed' /\ q \in Paths \ unclaimed
    BY <1>4 DEF Below
  <2>2. CASE q = p
    <3>1. row'[q] = Self
      BY <1>4, <2>1, <2>2 DEF Becomes
    <3> QED
      BY <3>1 DEF Self
  <2>3. CASE q # p
    <3>1. row'[q] = row[q] /\ work'[q] = work[q]
      BY <1>1, <1>4, <2>1, <2>3 DEF RowsTracked, TypeOK, ReposTyped, Trees
    <3> QED
      BY <1>6, <2>1, <3>1 DEF RowsTracked, RowsMatchRepo
  <2> QED
    BY <2>2, <2>3
<1>7. RowsMatchRepo'
  <2> SUFFICES ASSUME NEW d \in DOMAIN repos', NEW q \in (Below(d) \ unclaimed)',
                      IsPrefix(SnapshotRoot, d)
               PROVE  /\ row'[q] \in {"clean", "staged"} =>
                            repos'[d].index[q] = work'[q]
                      /\ row'[q] = "clean" => Committed(repos'[d])[q] = work'[q]
    BY DEF RowsMatchRepo
  <2> QED
    BY <1>1, <1>6 DEF Below
<1> QED
  BY <1>5, <1>7 DEF RowsTracked

\* After a builtin every row that is not unclaimed is true of the repository.
LEMMA GitTracked ==
    ASSUME RowsTracked, NEW call \in Calls, Git(call)
    PROVE  RowsTracked'
<1>1. PICK done \in {execute(call)} :
         LET changed == {p \in Paths :
                            \/ done.work[p] # work[p]
                            \/ \E d \in DOMAIN repos :
                                  /\ repos[d].head # Unborn
                                  /\ done.repos[d].head[p] # repos[d].head[p]}
         IN  /\ repos' = done.repos
             /\ work' = done.work
             /\ \/ /\ done.code # 0
                   /\ unclaimed' = unclaimed \union changed
                   /\ UNCHANGED <<row, seen>>
                \/ /\ done.code = 0
                   /\ done.action \in {"diff", "history", "clean"}
                   /\ UNCHANGED <<row, seen, unclaimed>>
                \/ /\ done.code = 0
                   /\ done.action \notin {"diff", "history", "clean"}
                   /\ Granted(done.action, done.specs)
  BY Zenon DEF Git
<1> DEFINE named == ToSet(done.specs)
<1>2. ReposTyped /\ row \in [Paths -> Rows] /\ unclaimed \subseteq Paths
  BY DEF RowsTracked, TypeOK, Rows
<1>3. /\ done.repos \in [DOMAIN repos -> Repo]
      /\ done.work \in Trees
      /\ done.specs \in Pathspecs
  BY <1>1, <1>2, ExecuteKeeps, ExecuteTracks
<1>4. /\ unclaimed \subseteq unclaimed' /\ unclaimed' \subseteq Paths
      /\ row' \in [Paths -> Rows]
      /\ done.code # 0 => row' = row
      /\ done.code = 0 =>
            \A p \in Paths \ unclaimed' :
               row'[p] = IF p \in named THEN Becomes(done.action, row[p]) ELSE row[p]
      /\ done.code # 0 =>
            \A p \in Paths \ unclaimed' :
               /\ done.work[p] = work[p]
               /\ \A d \in DOMAIN repos :
                     repos[d].head # Unborn => done.repos[d].head[p] = repos[d].head[p]
  <2>1. CASE done.code # 0
    BY <1>1, <1>2, <2>1
  <2>2. CASE done.code = 0 /\ done.action \in {"diff", "history", "clean"}
    <3>1. row' = row /\ unclaimed' = unclaimed
      BY <1>1, <2>2
    <3>2. \A p : Becomes(done.action, row[p]) = row[p]
      BY <2>2 DEF Becomes
    <3> QED
      BY <1>2, <2>2, <3>1, <3>2
  <2>3. CASE done.code = 0 /\ done.action \notin {"diff", "history", "clean"}
    <3>1. Granted(done.action, done.specs)
      BY <1>1, <2>3
    <3> QED
      BY <1>2, <1>3, <2>3, <3>1, GrantedMoves
  <2> QED
    BY <2>1, <2>2, <2>3
<1>5. TypeOK' /\ OneRepository'
  <2>1. DOMAIN repos' = DOMAIN repos
    BY <1>1, <1>3
  <2> QED
    BY <1>1, <1>3, <1>4, <2>1
    DEF RowsTracked, TypeOK, ReposTyped, OneRepository, Rows, Below
<1>6. ASSUME NEW d \in DOMAIN repos, NEW p \in Below(d) \ unclaimed',
             IsPrefix(SnapshotRoot, d)
      PROVE  /\ row'[p] \in {"clean", "staged"} =>
                   done.repos[d].index[p] = done.work[p]
             /\ row'[p] = "clean" => Committed(done.repos[d])[p] = done.work[p]
  <2> DEFINE untouched == /\ done.repos[d].index[p] = repos[d].index[p]
                          /\ Committed(done.repos[d])[p] = Committed(repos[d])[p]
                          /\ done.work[p] = work[p]
             before == /\ row[p] \in {"clean", "staged"} => repos[d].index[p] = work[p]
                       /\ row[p] = "clean" => Committed(repos[d])[p] = work[p]
  <2>1. p \in Paths \ unclaimed' /\ p \in Paths \ unclaimed /\ p \in Below(d)
    BY <1>4 DEF Below
  <2>2. before
    BY <1>6, <2>1 DEF RowsTracked, RowsMatchRepo
  <2>3. PICK root : \/ done.code # 0 /\ LeftAlone(done)
                    \/ /\ root \in DOMAIN repos
                       /\ IsPrefix(SnapshotRoot, root)
                       /\ \A q \in Paths \intersect named : q \in Below(root)
                       /\ \A e \in DOMAIN repos \ {root} : done.repos[e] = repos[e]
                       /\ Tracks(done.action, done.specs, repos[root], work,
                                 [code |-> done.code, repo |-> done.repos[root],
                                  work |-> done.work])
    BY <1>1, <1>2, ExecuteTracks
  <2>4. CASE done.code # 0 /\ LeftAlone(done)
    BY <1>4, <2>2, <2>4 DEF LeftAlone
  <2>5. CASE /\ root \in DOMAIN repos
             /\ IsPrefix(SnapshotRoot, root)
             /\ \A q \in Paths \intersect named : q \in Below(root)
             /\ \A e \in DOMAIN repos \ {root} : done.repos[e] = repos[e]
             /\ Tracks(done.action, done.specs, repos[root], work,
                       [code |-> done.code, repo |-> done.repos[root],
                        work |-> done.work])
    <3>1. p \in named => d = root
      BY <1>6, <2>1, <2>5 DEF RowsTracked, OneRepository
    <3>2. CASE done.code # 0
      <4>1. row'[p] = row[p] /\ done.work[p] = work[p]
        BY <1>4, <2>1, <3>2
      <4>2. CASE d # root
        BY <2>2, <2>5, <4>1, <4>2
      <4>3. CASE d = root
        <5>1. /\ done.repos[d].index[p] = repos[d].index[p]
              /\ untouched \/ (repos[d].head # Unborn
                               /\ done.repos[d].head[p] # repos[d].head[p])
          BY <2>1, <2>5, <3>2, <4>1, <4>3 DEF Tracks
        <5>2. untouched
          BY <1>4, <2>1, <3>2, <5>1
        <5> QED
          BY <2>2, <4>1, <5>2
      <4> QED
        BY <4>2, <4>3
    <3>3. CASE done.code = 0 /\ p \notin named
      <4>1. row'[p] = row[p] /\ done.work[p] = work[p]
        BY <1>4, <2>1, <2>5, <3>3 DEF Tracks
      <4>2. untouched
        <5>1. CASE d = root
          BY <2>1, <2>5, <3>3, <5>1 DEF Tracks
        <5>2. CASE d # root
          BY <2>5, <4>1, <5>2
        <5> QED
          BY <5>1, <5>2
      <4> QED
        BY <2>2, <4>1, <4>2
    <3>4. CASE done.code = 0 /\ p \in named
      <4>1. row'[p] = Becomes(done.action, row[p])
        BY <1>4, <2>1, <3>4
      <4>2. /\ done.action \in {"stage", "delete", "commit", "checkout", "stash"} =>
                  done.repos[d].index[p] = done.work[p]
            /\ done.action \in {"commit", "checkout", "stash"} =>
                  Committed(done.repos[d])[p] = done.work[p]
            /\ \/ done.action \in {"unstage", "stage", "delete", "commit",
                                   "checkout", "stash"}
               \/ untouched
               \/ repos[d].index[p] # work[p]
        BY <2>1, <2>5, <3>1, <3>4 DEF Tracks
      <4> HIDE DEF untouched
      <4>3. CASE done.action \in {"unstage", "edit"}
        <5>1. row'[p] = Self
          BY <4>1, <4>3 DEF Becomes
        <5> QED
          BY <5>1 DEF Self
      <4>4. CASE done.action \in {"stage", "delete"}
        BY <4>1, <4>2, <4>4 DEF Becomes
      <4>5. CASE done.action \in {"commit", "checkout", "stash"}
        BY <4>2, <4>5
      <4>6. CASE done.action \notin {"unstage", "edit", "stage", "delete", "commit",
                                     "checkout", "stash"}
        <5>1. row'[p] = row[p]
          BY <4>1, <4>6 DEF Becomes
        <5> QED
          BY <2>2, <4>2, <4>6, <5>1 DEF untouched
      <4> QED
        BY <4>3, <4>4, <4>5, <4>6
    <3> QED
      BY <3>2, <3>3, <3>4
  <2> QED
    BY <2>3, <2>4, <2>5
<1>7. RowsMatchRepo'
  <2> SUFFICES ASSUME NEW d \in DOMAIN repos', NEW q \in (Below(d) \ unclaimed)',
                      IsPrefix(SnapshotRoot, d)
               PROVE  /\ row'[q] \in {"clean", "staged"} =>
                            repos'[d].index[q] = work'[q]
                      /\ row'[q] = "clean" => Committed(repos'[d])[q] = work'[q]
    BY DEF RowsMatchRepo
  <2>1. DOMAIN repos' = DOMAIN repos
    BY <1>1, <1>3
  <2> QED
    BY <1>1, <1>6, <2>1 DEF Below
<1> QED
  BY <1>5, <1>7 DEF RowsTracked

\* Publishing a command, or nothing, changes no row and no repository.
LEMMA QuietTracked == RowsTracked /\ (Publish \/ UNCHANGED vars) => RowsTracked'
BY DEF Publish, vars, RowsTracked, TypeOK, ReposTyped, OneRepository,
       RowsMatchRepo, Below, Committed

\* The policy's rows, kept from events alone, are true of the repository, but for
\* the paths a failed builtin or a repeated event left unclaimed.
THEOREM RowsAreTrue == Spec => [](TypeOK /\ RowsMatchRepo)
<1>1. RowsTracked /\ [Next]_vars => RowsTracked'
  <2> SUFFICES ASSUME RowsTracked, [Next]_vars
               PROVE  RowsTracked'
    OBVIOUS
  <2>1. ASSUME NEW edit \in Edits, Edit(edit[1], edit[2])
        PROVE  RowsTracked'
    <3>1. edit[1] \in Paths /\ edit[2] \in Contents \union {None}
      BY EditsAssumption
    <3> QED
      BY <2>1, <3>1, EditTracked
  <2>2. ASSUME NEW call \in Calls, Git(call)
        PROVE  RowsTracked'
    BY <2>2, GitTracked
  <2> QED
    BY <2>1, <2>2, QuietTracked, Zenon DEF Next
<1>2. RowsTracked => TypeOK /\ RowsMatchRepo
  BY DEF RowsTracked
<1> QED
  BY <1>1, <1>2, RowsTrackedAtFirst, PTL DEF Spec
=============================================================================
