------------------------------ MODULE GitExec ------------------------------
(***************************************************************************)
(* The git builtins of marsh-exec (gitshell.rs, gitcmd.rs, gitexec.rs) and *)
(* the rows the policy keeps for the same paths.                           *)
(*                                                                         *)
(* No git process ever runs: each subcommand is a builtin of the shell     *)
(* that parses its own command line, finds the repository without leaving  *)
(* the job's snapshot, resolves the pathspecs and rewrites HEAD, the index *)
(* and the worktree through libgit2.  A builtin that exits with 0 becomes  *)
(* one event per pathspec; one that fails becomes none (translate.rs).     *)
(*                                                                         *)
(* The steps of a command are taken one by one.  A command the policy      *)
(* denies, or that exits with another code than 0, is rolled back whole,   *)
(* so only steps whose events the policy grants are taken; a builtin that  *)
(* failed is one the rest of its command survived.                         *)
(***************************************************************************)
EXTENDS Naturals, Sequences, FiniteSets, SequencesExt

CONSTANTS
    Paths,          \* the files, absolute: sequences of components
    Dirs,           \* the directories among them, which always exist
    SnapshotRoot,   \* the job's snapshot root, one of Dirs
    Contents,
    None,           \* no entry
    Unborn,         \* HEAD before a first commit
    Seeds,          \* the initial values of repos and work
    Calls,          \* the invocations: command line ("git" left out), working
                    \* directory, and whether the environment names an identity
    Components,     \* the components of each pathspec as it is written
    Edits,          \* the <<path, content>> a program may write
    MaxEvents,      \* events of one command
    MaxStash,
    MaxUnclaimed    \* paths the rows may be wrong about before exploring ends

VARIABLES
    repos,      \* each directory that holds a .git: its HEAD, index and stash
    work,       \* the worktree file at each path
    row,        \* the policy's row of each path
    seen,       \* the events of the running command
    unclaimed   \* paths a step changed and no event of its own says so

vars == <<repos, work, row, seen, unclaimed>>

Self == "self"

Table == INSTANCE RowTable WITH
    Principals <- {Self}, Resources <- Paths, Commands <- {},
    NoReader <- "nobody", logged <- row, reader <- [p \in Paths |-> "nobody"]

FATAL == 128
REFUSED == 1
UNMAPPABLE == 2

\* What is kept for the files of a tree, and a repository.
Trees == [Paths -> Contents \union {None}]

Repo == [head : Trees \union {Unborn},
         index : Trees,
         stash : Seq([staged : Trees, working : Trees])]

\* What lies above a file is a directory and no file; "tree" is what stands for
\* the entry of a directory.
ASSUME PathsAssumption ==
    /\ Paths \subseteq Seq(STRING)
    /\ \A p \in Paths : \A n \in 0..(Len(p) - 1) : SubSeq(p, 1, n) \in Dirs
    /\ Dirs \intersect Paths = {}
    /\ "tree" \notin Contents \union {None}
    /\ Unborn \notin Trees

ASSUME SeedsAssumption ==
    \A seed \in Seeds :
        /\ seed.repos \in [DOMAIN seed.repos -> Repo]
        /\ seed.work \in Trees

ASSUME EditsAssumption == Edits \subseteq Paths \X (Contents \union {None})

-----------------------------------------------------------------------------
(* The command line: gitcmd.rs.                                            *)

GIT_VARIANTS == {"add", "stage", "rm", "commit", "restore", "checkout",
                 "stash", "clean", "diff", "log"}

Dashed == {"-m", "-F", "-f", "--staged", "--cached"}
Patterns == {"*"}

\* Whether args[i] is the value of the flag before it.
IsValue(args) ==
    LET value[i \in 0..Len(args)] ==
            i > 1 /\ args[i - 1] \in {"-m", "-F"} /\ ~value[i - 1]
    IN  value

Picked(args, P(_)) ==
    FoldLeftDomain(LAMBDA acc, i : IF P(i) THEN Append(acc, args[i]) ELSE acc,
                   <<>>, args)

split_flags(args) ==
    LET flag(i) == args[i] \in Dashed \/ IsValue(args)[i]
    IN  [flags |-> Picked(args, flag),
         positionals |-> Picked(args, LAMBDA i : ~flag(i))]

\* "none", "some", or "error" for a message that is not on the line.
commit_message(flags) ==
    LET own == {i \in DOMAIN flags : ~IsValue(flags)[i]}
        given == {i \in own : flags[i] = "-m"}
    IN  CASE (\E i \in own : flags[i] = "-F") \/ Len(flags) \in given -> "error"
          [] given = {} -> "none"
          [] OTHER -> "some"

\* The operation that a subcommand asks for of its words, its flags and what
\* follows "--", or "error".
operation(subcommand, words, flags, after, separated) ==
    LET reserved == IF subcommand \in {"checkout", "stash"} THEN 1 ELSE 0
        revisions ==
            IF separated \/ Len(words) < reserved THEN words
            ELSE SubSeq(words, 1, reserved)
        pathspecs ==
            IF separated THEN after
            ELSE SubSeq(words, Len(revisions) + 1, Len(words))
        given == ToSet(flags)
        action ==
            CASE subcommand \in {"add", "stage"} -> "stage"
              [] subcommand = "rm" -> "delete"
              [] /\ subcommand = "commit"
                 /\ commit_message(flags) # "error" -> "commit"
              [] subcommand = "restore" /\ "--staged" \in given -> "unstage"
              [] subcommand = "checkout" /\ revisions = <<"HEAD">> -> "checkout"
              [] subcommand = "stash" /\ revisions = <<"push">> -> "stash"
              [] subcommand = "clean" /\ "-f" \in given -> "clean"
              [] subcommand = "diff" -> "diff"
              [] subcommand = "log" -> "history"
              [] OTHER -> "error"
        malformed ==
            \/ Len(revisions) # reserved
            \/ pathspecs = <<>>
            \/ ToSet(pathspecs) \cap Patterns # {}
    IN  [action |-> IF malformed THEN "error" ELSE action,
         message |-> subcommand = "commit" /\ commit_message(flags) = "some",
         pathspecs |-> pathspecs]

\* The arguments up to the separator, if there is one, hold the flags.
parse(line) ==
    LET rest == Tail(line)
        at == SelectInSeq(rest, LAMBDA arg : arg = "--")
        of(before, after) ==
            operation(Head(line), before.positionals, before.flags, after, at # 0)
    IN  IF at = 0 THEN of(split_flags(rest), <<>>)
        ELSE of(split_flags(SubSeq(rest, 1, at - 1)),
                SubSeq(rest, at + 1, Len(rest)))

\* Textual resolution against the shell's directory.
resolve(base, pathspec) ==
    FoldLeft(LAMBDA path, part :
                 IF part # ".." THEN Append(path, part)
                 ELSE IF path = <<>> THEN <<>> ELSE Front(path),
             base, Components[pathspec])

\* Each call parsed, its pathspecs resolved against its directory.
Invocation ==
    [call \in Calls |->
        LET parsed == parse(call.line)
        IN  [action |-> parsed.action,
             message |-> parsed.message,
             specs |-> [i \in DOMAIN parsed.pathspecs |->
                           resolve(call.cwd, parsed.pathspecs[i])]]]

\* A directory and the pathspecs of a call are lists of components.
ASSUME CallsAssumption ==
    \A call \in Calls :
        /\ call.cwd \in Seq(STRING)
        /\ Invocation[call].specs \in Seq(Seq(STRING))

-----------------------------------------------------------------------------
(* The repository: gitshell.rs.                                            *)

\* The nearest directory with a .git, however far up.
any_repo_root(start) ==
    LET found == {n \in 0..Len(start) : SubSeq(start, 1, n) \in DOMAIN repos}
    IN  IF found = {} THEN None
        ELSE SubSeq(start, 1, CHOOSE n \in found : \A m \in found : m <= n)

\* The nearest directory with a .git, at or below the boundary.
repo_root(start) ==
    LET found == {n \in 0..Len(start) :
                    /\ SubSeq(start, 1, n) \in DOMAIN repos
                    /\ \A m \in n..Len(start) :
                          IsPrefix(SnapshotRoot, SubSeq(start, 1, m))}
    IN  IF found = {} THEN None
        ELSE SubSeq(start, 1, CHOOSE n \in found : \A m \in found : m <= n)

\* Whether a path is a resource of the repository.
repo_relative(root, path) ==
    /\ IsStrictPrefix(root, path)
    /\ path[Len(root) + 1] # ".git"

-----------------------------------------------------------------------------
(* The operations: gitexec.rs.  g is the repository, w the worktree, and   *)
(* an outcome is an exit code with both as the builtin leaves them.        *)

Outcome(code, g, w) == [code |-> code, repo |-> g, work |-> w]

Below(dir) == {p \in Paths : IsStrictPrefix(dir, p)}

Committed(g) == IF g.head = Unborn THEN [p \in Paths |-> None] ELSE g.head

\* A file is in one repository of the snapshot at most, and what the job starts
\* from is committed there: no row is needed to say so.
ASSUME CleanSeedsAssumption ==
    \A seed \in Seeds :
        LET inside == {d \in DOMAIN seed.repos : IsPrefix(SnapshotRoot, d)}
        IN  /\ \A d \in inside, e \in inside :
                  Below(d) \intersect Below(e) # {} => d = e
            /\ \A d \in inside : \A p \in Below(d) :
                  /\ seed.repos[d].index[p] = seed.work[p]
                  /\ Committed(seed.repos[d])[p] = seed.work[p]

\* What a tree holds at a name: a directory is there when a file below it is.
tree_blob(tree, name) ==
    IF name \in Paths THEN tree[name]
    ELSE IF \E p \in Below(name) : tree[p] # None THEN "tree" ELSE None

index_blob(g, name) == IF name \in Paths THEN g.index[name] ELSE None

\* A directory is in the worktree and is not a file.
Exists(w, name) == name \in Dirs \/ (name \in Paths /\ w[name] # None)
worktree_blob(w, name) == IF name \in Paths THEN w[name] ELSE None

Overlay(f, names, g) == [p \in Paths |-> IF p \in names THEN g[p] ELSE f[p]]
Nothing == [p \in Paths |-> None]

\* The first of the codes of the pathspecs that is not 0, or 0.
First(codes) ==
    LET failed == {i \in DOMAIN codes : codes[i] # 0}
    IN  IF failed = {} THEN 0 ELSE codes[Min(failed)]

\* The pathspecs before the first one that is a bad one.
Reached(specs, bad) ==
    {specs[i] : i \in {j \in DOMAIN specs :
                         \A k \in DOMAIN specs : k <= j => specs[k] \notin bad}}

stage(g, w, specs) ==
    LET code(spec) ==
            IF Exists(w, spec)
            THEN IF spec \in Dirs THEN FATAL ELSE 0
            ELSE IF index_blob(g, spec) # None THEN 0 ELSE FATAL
        failed == First([i \in DOMAIN specs |-> code(specs[i])])
    IN  IF failed # 0 THEN Outcome(failed, g, w)
        ELSE Outcome(0, [g EXCEPT !.index = Overlay(@, ToSet(specs), w)], w)

\* Only what is staged is checked.
StagedMods(g, w, spec) ==
    /\ worktree_blob(w, spec) # None
    /\ index_blob(g, spec) # tree_blob(Committed(g), spec)

\* A path whose index entry is not HEAD's, or not the worktree's file.
LocalMods(g, w, spec) ==
    /\ worktree_blob(w, spec) # None
    /\ \/ index_blob(g, spec) # tree_blob(Committed(g), spec)
       \/ worktree_blob(w, spec) # index_blob(g, spec)

\* Each path checked only when its turn to be removed comes.
delete_one_by_one(g, w, specs) ==
    LET code(spec) ==
            IF index_blob(g, spec) = None THEN FATAL
            ELSE IF LocalMods(g, w, spec) THEN REFUSED ELSE 0
        codes == [i \in DOMAIN specs |-> code(specs[i])]
        gone == Reached(specs, {spec \in ToSet(specs) : code(spec) # 0})
    IN  Outcome(First(codes), g, Overlay(w, gone, Nothing))

delete(g, w, specs) ==
    LET code(spec) ==
            IF index_blob(g, spec) = None THEN FATAL
            ELSE IF LocalMods(g, w, spec) THEN REFUSED ELSE 0
        failed == First([i \in DOMAIN specs |-> code(specs[i])])
        named == ToSet(specs)
    IN  IF failed # 0 THEN Outcome(failed, g, w)
        ELSE Outcome(0, [g EXCEPT !.index = Overlay(@, named, Nothing)],
                     Overlay(w, named, Nothing))

\* The tree HEAD becomes: a name with no file in the worktree is removed, a
\* directory with everything below it.
CommittedTree(g, w, named) ==
    [p \in Paths |-> IF p \in named THEN w[p]
                     ELSE IF \E d \in named : p \in Below(d) THEN None
                     ELSE g.head[p]]

\* The name is removed from a tree that does not have it.
BadRemoval(g, w, spec) ==
    worktree_blob(w, spec) = None /\ tree_blob(g.head, spec) = None

commit(g, w, specs, message) ==
    LET known(spec) ==
            index_blob(g, spec) # None \/ tree_blob(g.head, spec) # None
        named == ToSet(specs)
        tree == CommittedTree(g, w, named)
        moved == [g EXCEPT !.head = tree]
    IN  IF ~message \/ g.head = Unborn THEN Outcome(FATAL, g, w)
        ELSE IF \E spec \in named : ~known(spec) THEN Outcome(REFUSED, g, w)
        ELSE IF \E spec \in named : BadRemoval(g, w, spec)
        THEN Outcome(FATAL, g, w)
        ELSE IF tree = g.head THEN Outcome(REFUSED, g, w)
        ELSE IF named \cap Dirs # {} THEN Outcome(FATAL, moved, w)
        ELSE Outcome(0, [moved EXCEPT !.index = Overlay(@, named, w)], w)

unstage(g, w, specs) ==
    LET committed(spec) == tree_blob(Committed(g), spec)
        code(spec) ==
            IF committed(spec) = "tree" THEN FATAL
            ELSE IF committed(spec) = None /\ index_blob(g, spec) = None
            THEN REFUSED ELSE 0
        failed == First([i \in DOMAIN specs |-> code(specs[i])])
    IN  IF failed # 0 THEN Outcome(failed, g, w)
        ELSE Outcome(0, [g EXCEPT !.index =
                            Overlay(@, ToSet(specs), Committed(g))], w)

\* Every name is checked first; a directory of HEAD passes the check and stops
\* the writing, before the index is saved.
checkout(g, w, specs) ==
    LET committed(spec) == tree_blob(Committed(g), spec)
        trees == {spec \in ToSet(specs) : committed(spec) = "tree"}
        written == Reached(specs, trees)
        work1 == Overlay(w, written, Committed(g))
    IN  IF \E spec \in ToSet(specs) : committed(spec) = None
        THEN Outcome(REFUSED, g, w)
        ELSE IF written # ToSet(specs) THEN Outcome(FATAL, g, work1)
        ELSE Outcome(0, [g EXCEPT !.index = Overlay(@, written, Committed(g))],
                     work1)

\* The worktree goes back to HEAD and the index stays.
stash_working(g, w, specs) ==
    LET named == ToSet(specs)
        saved == [staged |-> Overlay(g.head, named, g.index),
                  working |-> Overlay(g.head, named, w)]
    IN  IF g.head = Unborn THEN Outcome(FATAL, g, w)
        ELSE IF \E p \in named : index_blob(g, p) = None
        THEN Outcome(REFUSED, g, w)
        ELSE Outcome(0, [g EXCEPT !.stash = Append(@, saved)],
                     Overlay(w, named, g.head))

stash(g, w, specs) ==
    LET named == ToSet(specs)
        dirty == \E p \in named : g.index[p] # g.head[p] \/ w[p] # g.index[p]
        saved == [staged |-> Overlay(g.head, named, g.index),
                  working |-> Overlay(g.head, named, w)]
    IN  IF g.head = Unborn THEN Outcome(FATAL, g, w)
        ELSE IF \E p \in named : index_blob(g, p) = None
        THEN Outcome(REFUSED, g, w)
        ELSE IF ~dirty THEN Outcome(0, g, w)
        ELSE IF \E p \in named : BadRemoval(g, w, p) THEN Outcome(FATAL, g, w)
        ELSE Outcome(0, [g EXCEPT !.stash = Append(@, saved),
                                  !.index = Overlay(@, named, g.head)],
                     Overlay(w, named, g.head))

clean(g, w, specs) ==
    LET untracked(spec) == index_blob(g, spec) = None /\ Exists(w, spec)
        done == Reached(specs, Dirs)
        removed == {spec \in done : untracked(spec)}
    IN  Outcome(IF done = ToSet(specs) THEN 0 ELSE FATAL, g,
                Overlay(w, removed, Nothing))

run(invocation, g, w, specs) ==
    LET action == invocation.action
    IN  CASE action = "stage" -> stage(g, w, specs)
          [] action = "delete" -> delete(g, w, specs)
          [] action = "commit" -> commit(g, w, specs, invocation.message)
          [] action = "unstage" -> unstage(g, w, specs)
          [] action = "checkout" -> checkout(g, w, specs)
          [] action = "stash" -> stash(g, w, specs)
          [] action = "clean" -> clean(g, w, specs)
          [] OTHER -> Outcome(0, g, w)

\* GitBuiltin and the catch-all GitUnsupported, as a whole, with the
\* invocation parsed and the repository found.
builtin(call, invocation, root) ==
    LET specs == invocation.specs
        refuse(code) == [code |-> code, repos |-> repos, work |-> work,
                         action |-> "none", specs |-> <<>>]
        did(done) == [code |-> done.code,
                      repos |-> [repos EXCEPT ![root] = done.repo],
                      work |-> done.work,
                      action |-> invocation.action,
                      specs |-> specs]
    IN  IF Head(call.line) \notin GIT_VARIANTS THEN refuse(REFUSED)
        ELSE IF invocation.action = "error" THEN refuse(UNMAPPABLE)
        ELSE IF root = None THEN refuse(FATAL)
        ELSE IF \E i \in DOMAIN specs : ~repo_relative(root, specs[i])
        THEN refuse(UNMAPPABLE)
        ELSE IF ~call.identified THEN refuse(FATAL)
        ELSE did(run(invocation, repos[root], work, specs))

execute(call) == builtin(call, Invocation[call], repo_root(call.cwd))

-----------------------------------------------------------------------------
(* Commands and their events: translate.rs.                                *)

Event(action, p) == [principal |-> Self, action |-> action, resource |-> p]

Moved(rows, e) == Table!Apply([row |-> rows, reader |-> rows], e).row

\* One more event: a repetition of one seen in this command is dropped.
Record(t, e) ==
    IF e \in t.seen
    THEN [t EXCEPT !.unclaimed = @ \union (IF Moved(t.row, e) # t.row
                                         THEN {e.resource} ELSE {})]
    ELSE [t EXCEPT !.seen = @ \union {e},
                   !.row = Moved(@, e),
                   !.legal = @ /\ Table!RowAllows(t.row[e.resource], e)]

RecordAll(t, events) == FoldLeft(Record, t, events)

\* The policy grants the events, in order.
Granted(action, specs) ==
    \E t \in {RecordAll([seen |-> seen, row |-> row, unclaimed |-> unclaimed,
                        legal |-> TRUE],
                       [i \in DOMAIN specs |-> Event(action, specs[i])])} :
        /\ t.legal
        /\ Cardinality(t.seen) <= MaxEvents
        /\ seen' = t.seen
        /\ row' = t.row
        /\ unclaimed' = t.unclaimed

\* A program writes or removes a file.
Edit(p, content) ==
    /\ work[p] # content
    /\ Granted("edit", <<p>>)
    /\ work' = [work EXCEPT ![p] = content]
    /\ UNCHANGED repos

\* A git builtin that exits with 0 is one event for each pathspec (reads and
\* cleans move no row); one that fails, inside a command that goes on, is none.
Git(call) == \E done \in {execute(call)} :
    LET changed == {p \in Paths :
                       \/ done.work[p] # work[p]
                       \/ \E d \in DOMAIN repos :
                             /\ repos[d].head # Unborn
                             /\ done.repos[d].head[p] # repos[d].head[p]}
    IN  /\ \A d \in DOMAIN repos : Len(done.repos[d].stash) <= MaxStash
        /\ repos' = done.repos
        /\ work' = done.work
        /\ \/ /\ done.code # 0
              /\ unclaimed' = unclaimed \union changed
              /\ UNCHANGED <<row, seen>>
           \/ /\ done.code = 0
              /\ done.action \in {"diff", "history", "clean"}
              /\ UNCHANGED <<row, seen, unclaimed>>
           \/ /\ done.code = 0
              /\ done.action \notin {"diff", "history", "clean"}
              /\ Granted(done.action, done.specs)

\* The command exits with 0 and is published.
Publish ==
    /\ seen # {}
    /\ seen' = {}
    /\ UNCHANGED <<repos, work, row, unclaimed>>

Init ==
    /\ \E seed \in Seeds : repos = seed.repos /\ work = seed.work
    /\ row = [p \in Paths |-> "clean"]
    /\ seen = {}
    /\ unclaimed = {}

Next ==
    \/ /\ Cardinality(unclaimed) <= MaxUnclaimed
       /\ \/ \E edit \in Edits : Edit(edit[1], edit[2])
          \/ \E call \in Calls : Git(call)
    \/ Publish

Spec == Init /\ [][Next]_vars

-----------------------------------------------------------------------------
(* What the builtins promise.  Each is asked of every command line in      *)
(* every state, whether or not the policy would grant its events.          *)

Outcomes == {execute(call) : call \in Calls}

ReposTyped ==
    /\ repos \in [DOMAIN repos -> Repo]
    /\ work \in Trees

TypeOK ==
    /\ ReposTyped
    /\ row \in [Paths -> {"clean", "staged", Self}]
    /\ unclaimed \subseteq Paths

\* A directory slips through what checks a file: checkout and clean stop at it
\* halfway, and commit takes it for a deleted file.
Halfway(done) ==
    /\ done.action \in {"checkout", "clean", "commit"}
    /\ ToSet(done.specs) \cap Dirs # {}

\* A git builtin that exits with another code than 0 leaves HEAD, the index,
\* the stash and the worktree as they were (its failure is no event, so what
\* it wrote would be published unclaimed), unless a directory is named.
RefusedLeavesAll ==
    \A done \in Outcomes :
        done.code # 0 /\ ~Halfway(done) =>
            done.repos = repos /\ done.work = work

\* A git builtin touches the files it names, in HEAD, the index and the
\* worktree, and never a repository that is not inside the snapshot.
OnlyNamed ==
    \A done \in Outcomes :
        LET others == Paths \ ToSet(done.specs)
            same(f, g) == \A p \in others : f[p] = g[p]
        IN  /\ same(done.work, work)
            /\ \A d \in DOMAIN repos :
                  LET before == repos[d]
                      after == done.repos[d]
                  IN  /\ ~IsPrefix(SnapshotRoot, d) => after = before
                      /\ same(after.index, before.index)
                      /\ Halfway(done) \/ same(Committed(after), Committed(before))

\* Only checkout and clean, whose purpose it is, take a file's content away:
\* what any other builtin removes from the worktree is in HEAD or in the stash.
WorkSurvives ==
    \A done \in Outcomes :
        done.action \notin {"checkout", "clean"} =>
            \A p \in Paths :
                \/ work[p] \in {None, done.work[p]}
                \/ \E d \in DOMAIN repos :
                      \/ Committed(done.repos[d])[p] = work[p]
                      \/ \E i \in DOMAIN done.repos[d].stash :
                            done.repos[d].stash[i].working[p] = work[p]

\* The policy's rows, kept from events alone, are true of the repository: a
\* clean path is the same in HEAD, the index and the worktree, so the policy
\* is right to let others change it; a staged one is in the index as it is in
\* the worktree, so a commit by whoever is granted it takes what was staged.
RowsMatchRepo ==
    \A d \in DOMAIN repos : \A p \in Below(d) \ unclaimed :
        IsPrefix(SnapshotRoot, d) =>
            /\ row[p] \in {"clean", "staged"} => repos[d].index[p] = work[p]
            /\ row[p] = "clean" => Committed(repos[d])[p] = work[p]

\* "commits the *worktree* state of the named paths, nothing else" (commit).
CommitsNothingElse ==
    \A done \in Outcomes :
        done.action = "commit" =>
            \A d \in DOMAIN repos : \A p \in Paths \ ToSet(done.specs) :
                Committed(done.repos[d])[p] = Committed(repos[d])[p]
=============================================================================
