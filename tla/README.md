# marsh, specified

marsh runs shell commands as transactions. Each command runs traced in a btrfs snapshot of a *seed* tree. When it
exits, its trace is turned into capability events, a policy decides them against the history of all events ever
granted, and the tree it left is published to the seed, or nothing is. This directory holds TLA+ models of the parts
that make that promise, the TLC runs that check them, and the TLAPS proofs of what matters most.

All line numbers are those of the repository this directory belongs to, relative to its root (`src/` in
`PROJECT.json`).

## Inventory

| component | source | state it keeps | operations | what is hard | what makes it correct |
|---|---|---|---|---|---|
| git policy | `rust-validator/src/policy/git` | none: it reads the history | decide, project, advise | 23 independent past-regexes must add up to one row and one read claim per file | rows partition the histories; nobody rewrites a file another holds a view of; the projection decides like the whole |
| past-regex engine | `rust-validator/src/syntax`, `validator.rs` | hash-consed nodes, transition tables, replay caches, checkpoints | compile, decide, append, roll back | rewriting laws, two paths through a transition, caches keyed by part of a state | decides every candidate as the source rules say; tails are closed under their heads |
| authority | `shellmux/src/authority.rs`, `reconcile.rs` | `history`, `seq`, `generations`, the log | check events, roll back, reload and reconcile | a command denied half way; a restart that forgets | a command moves the rows by all its events or none |
| transactions | `shellmux/src/mux.rs` | the seed; per command `base_seq`, tree, plan | launch, conclude, bypass | commands that overlap and conclude in any order; dependencies no event names | published commands are serializable; foreign dirt is not overwritten |
| commit log | `shellmux/src/commit.rs`, `wal.rs`, `history.rs`, `diff.rs` | `wal.jsonl`, `history.jsonl`, the seed on disk, snapshots | publish, recover | crashes between any two writes, during recovery too; torn appends; write errors | atomic, durable from the logged intent on; a start always succeeds |
| reader trees | `shellmux/src/mux.rs` | lease counts per version, trees on disk | acquire, release, discard | deletions outside the lock | no tree goes under its reader, none is forgotten |
| purity checker | `shellmux/src/purity.rs` | learned verdicts, their log | check, observe, withdraw, restore | a verdict withdrawn while a run is out on it; its record lost or overtaken | trust is earned by the last run; a dirtied tree is handed to nobody |
| job table, conclusion queue | `shellmux/src/jobs.rs` | rows, queue, pending close | spawn, start, stop, reap, conclude, shutdown | three locks, awaits between them, stops racing launches and conclusions | every conclusion meets the tree its command ran in; every accepted stop closes its job; shutdown leaves nothing running |
| trace translation | `marsh-exec/src/strace.rs`, `evidence.rs`, `hooks.rs`, `shellmux/src/translate.rs` | per-thread cwd and git span | parse, merge, fold the trace into events | cut lines, merged streams, duplicates, failed builtins | the events are what the command did |
| git builtins | `marsh-exec/src/gitcmd.rs`, `gitshell.rs`, `gitexec.rs` | HEAD, index, worktree and stash of each repository | add, rm, commit, restore, checkout, stash, clean, diff, log | several paths of which one is refused; work that exists nowhere else; a policy that never looks | refusals change nothing; only what is named changes; the rows are true of the repository |
| executor, session | `marsh-exec/src/executor.rs`, `persistence.rs`, `strace.rs` | the session lease, tracers and their tracees | open, run, force stop, abandon, terminate orphans | processes that outlive their session or their job | one session per seed; a tree is handed on when nothing of its command runs |
| frontends | `shellmux/src/frontend.rs`, `marsh-rest`, `marsh-shell`, `marsh-tui` | handles, the terminal size, views of the job table | publish, subscribe, resize, forward | announcements after the fact, a channel that overflows, names used again | a display that has caught up shows the table |

They meet in `ShellMux`. A job (`jobs.rs`) launches a command through `launch`, which takes a snapshot under the
authority's read lock, or a shared reader tree. The executor runs and traces it. The job table reaps it and queues a
conclusion. `conclude` translates the trace and, under the authority's write lock, diffs the tree, checks staleness
against `generations`, has the policy check the events against `history`, and calls `record_commit`, which goes through
the commit log. `ShellMux::new` takes the session's lease, terminates what an earlier session left, runs recovery, sweeps
the snapshots, loads and reconciles the history.

`brush-*` (a retained fork of a shell), `fuzz`, `benchmarks`, `samples` and `scripts` are not subjects of this project.

## Modules

| module | models | checked by | proved in |
|---|---|---|---|
| `GitPolicy` | the policy: predicates, languages, rules, decision, projection | with `Authority` | `AuthorityProofs` (lemmas) |
| `Authority` | the authority under its write lock, and restarts | `MCAuthority` | `AuthorityProofs` |
| `RowTable` | abstract: a row and a reader per file | refined by `Authority`; its `Apply` is the policy of `GitExec` | refinement proved |
| `PastRegex` | the engine that decides the rules | `MCPastRegex` | |
| `Transactions` | launch, run, conclusion | `MCTransactions` | `AuthorityProofs` |
| `SerialSeed` | abstract: commands run one at a time, each at once | refined by `Transactions` | refinement proved |
| `CommitLog` | publication, recovery, faults | `MCCommitLog` | `CommitLogProofs` |
| `AtomicSeed` | abstract: whole versions, one per log entry | refined by `CommitLog` | refinement proved |
| `ReaderTrees` | leases on the trees of bypassed commands | in `Bypass` | `BypassProofs` |
| `Bypass` | learned purity over `ReaderTrees` | `MCBypass.cfg` | `BypassProofs` |
| `Trace` | a traced command, its record and what that is taken to mean | `MCTrace` | `ExecutorProofs`, `TraceProofs` |
| `GitExec` | the git builtins, with the policy's rows of the same paths | `MCGitExec` | `GitExecProofs` |
| `JobTable` | the life of jobs, the conclusion queue, the two mutexes | `MCJobTable.cfg` | `JobTableProofs` |
| `Shutdown` | the end of a session, over `JobTable` | `MCShutdown.cfg` | `JobTableProofs` |
| `Session` | the lease, tracers, orphans | `MCSession.cfg` | `ExecutorProofs` |
| `Frontend` | announcements, bindings, clients, the terminal size | `MCFrontend` | `FrontendProofs` |

`Authority` and `Transactions` extend `GitPolicy`. `PastRegex` is the machinery under `GitPolicy`'s languages.
`Transactions` takes publication for one step; `CommitLog` opens that step up. `Transactions` gives a bypassed command a
copy of its version; `ReaderTrees` is about whether that copy is there, and `Bypass` about who is let near it.
`Transactions` takes the footprint of a run for granted; `Trace` derives it from system calls, and `GitExec` what a git
builtin does before `Trace` records it. `JobTable` is what calls the steps of `Transactions`: its `Fork` is a `Launch` and
a run, its `Conclude` a conclusion; it keeps of a transaction only whose tree is on disk. `Session` is about the processes
that write to that tree, and `Frontend` about what is said of the job table.

### GitPolicy

An event is a principal, an action and a resource; messages and display text are left out. A one-event test of
`predicates.rs` is the set of events that pass it, a tail shape of `language.rs` is a quantified statement about
positions, and `GitRules` is the set of <<action, language>> pairs of `rules.rs`. `Denied` is `decide`: all rules forbid,
so the first violated one denies iff any is violated. What a denial advises is left out.

### Authority

`history` is the policy's input, `log` what `history.jsonl` holds. `Submit` takes the write lock with one command's
events; each `Decide` is a turn of `check_events`' loop, the last one also the caller's truncation or append. So the
intermediate histories, in which half of a command is granted, are states of the model. `Restart` loads the log, keeps
the active capabilities and of these the ones the seed corroborates. What git reports of the seed is not modelled: any
subset of the resources may show their claim. Because the *log* is never compacted, a claim one restart dropped may be
back after the next one if the seed shows it again; `RowTable` has a variable `logged` for exactly that.
`ProjectionDecides` compares the history and its projection language by language: the rules are conjunctions of an
action and a language of one file, so histories that are in the same languages decide every candidate alike.

### Transactions

Each critical section is a step: `Launch` (read lock), the command's run (no lock), and one action per branch of
`conclude` and `conclude_bypass` (write lock). A command is a *program*: the paths it reads through traced calls, reads
inside git builtins, depends on without any traced call (a directory listing), writes, and the events translate makes of
it. What it opens outside git builtins has an event (`ProgramsAssumption`); what it writes may have none (`Unannounced`): a
builtin that fails is no event and its calls are none (`translate.rs:239-243`, 360-371), though `git checkout HEAD -- f dir`
and `git clean -f -- f dir` have written `f` before they fail at the directory (`gitexec.rs:466-469`, 592-597) and
`|| true` makes the command succeed; a rename is an event on its two names (`translate.rs:437-447`), not on what lies
beneath a directory that is renamed. The diff publishes such writes. `past` is the authority's history, `Passes` the verdict of
`check_events` on all of a command. The ghost variables `versions`, `snap`, `last` and `known` are read by properties only.

`NoClobber` is the protection of foreign dirt the code gives: a publication changes what another principal holds dirty
only where the command itself wrote it and no event says so. So no event reaches it, whatever the command's events do to
each other's rows, and neither does the diff of a tree that is older than the seed. The rules promise more
(`DirtIsSafe`), which `MCFailedBuiltin.cfg` shows violated by a checkout that fails half way.

`SerialSeed` says that a published command observed what the seed held at the moment it was published, and changed
exactly what it wrote. `Observed` is what a command may rely on: its event resources, its git reads and, when it writes,
everything else it looked at, because the diff against the live seed contains every path that moved since the
snapshot and `stale_paths` refuses all of them. A command that writes nothing has no such cover for dependencies that no
event names; the translator documents that limit (`translate.rs`, Known limitations).

### CommitLog

The log is a sequence of frames, one per `Begin`, with the number of whole lines that reached the disk and whether half
a line follows. `LogIntent`, each `ApplyOp`, `LogEnd` and `RecordHistory` are separate steps, and so are the steps of the
replay (`Start`, `ApplyOp`, `LogEnd`, `RestoreHistory`, `Abandon`, `Open`, `Refuse`). `Crash` may come between any two; `PowerLoss`
also undoes removals that nothing has synced; `IoError` ends a publication with an error while the session goes on, as
the `?` of `record_commit` does. Trees are maps from paths to contents in which nothing lies beneath a file, so a
directory replaced by a file and the reverse are covered. An attempted write in an unfinished append leaves any prefix,
and `Abandon` passes over one. `Diff` is the set of the sequences `diff_trees` may return: removals before writes and by
depth, as the code sorts them, but paths of one depth in any order, where the code goes by name. What is read back of an
intent (`Read`) is fixed by `Start`, since `recover` reads the log and the history once.

Only one publication is in progress at a time (the write lock), so the command's tree is the version it publishes.
Commands from outside that change the seed directly are not modelled.

### ReaderTrees and Bypass

`readers` is the map under the mutex, `tree` the disk. `Acquire` is one critical section, deletions included, as in the
code; `Release` and `Discard` have their deletion as a second step because the code drops the mutex before it. A launch
whose tree cannot be resolved fails without giving its lease back, as in `launch`.

`Bypass` decides who takes a lease. `PlanFor` reads the verdict map, a step before the launch. Every conclusion observes:
`Observe` changes the map under its lock, `Append` writes the line later under another, so two conclusions of one command
line may append in the other order, and an append may fail and leave half a line. `Restart` is `restore`: half a last
line is cut off, the last record of a key stands, every tree is swept. `behind` collects the keys whose record was lost or
overtaken; `TrustEarned` is about the others. A run stopped by force leaves no evidence (`ConcludeKilled`).

`OnlyDiscardPulls` says that nothing but the discard of an escapee's tree ever deletes a tree in use; that the discard
does is one of the known disagreements.

### Trace

The variables are the running command and its two raw streams: `raw`, the lines the tracer prints, and `records`, the
edges the worker notes at the beginning and end of each builtin. `did` is what really happened. Decoding is operators over
the streams: `ParseTrace` joins the halves of a cut line, `Evidence` merges both streams by time stamp and rank,
`Translation` folds the result into events, footprint and a reason to refuse. So a state in which the command is over is
an input of the decoder, and there is one for every interleaving.

A system call costs more than a microsecond under the tracer, so its stamp is later than anything its own thread did
before; a hook edge may share its stamp with the one before. The first stamp of a child is not before its clone was
entered, and a hook edge of it later (`Concerns`). Threads do not share a working directory (no `CLONE_FS`), the worker runs one thread and its git builtins are
synchronous (`main.rs`), and the `exec` builtin is removed there.

### GitExec

`repos` maps each directory with a `.git` to its HEAD, index and stash, `work` is the worktree, `row` the policy's row of
each path, moved by `RowTable`'s `Apply`. A call is a command line with the directory it is run in. `parse`, `repo_root`,
`resolve` and the ten builtins are operators with the source's names that map a state to an outcome: a code and new
repositories and worktree, whatever the builtin wrote before it failed included. A command is up to `MaxEvents` such
steps or plain edits. A command that is denied or fails is rolled back whole, so only steps whose events are granted are
taken; a builtin that fails is one the rest of its command survived.

`seen` is the command's events so far; a repeated one is dropped, and its path goes to `unclaimed`, as does what a builtin
changed before it failed at a directory. Exploring stops there: the rows are known to be wrong from then on.

Directories always exist and no file turns into one; pathspecs are relative and named once; at most one repository inside
the snapshot lies over a path, and there is one principal. libgit2 is external: adding a directory to an index is an
error, as is removing an entry a tree does not have. I/O errors and a stale `index.lock` are left out.
The seeds start with every file of a repository committed and clean, as the policy's rows do (`CleanSeedsAssumption`).

### JobTable and Shutdown

A row is found by name at each step, as `find` does, while the storage is a tree of the row's `uid`; so a task that went
to sleep over one job may wake up to another of the same name. A step is one critical section of the table or of the
queue. Code that awaits between two sections is a `task` with a program counter: a frontend call (`Callers`), the task a
`spawn` leaves the launch of its command to (named by the job), and the conclusion task. `stop` and `conclude_one` are
the only places that take one mutex while they hold the other; `queueLock` and `tableLock` say who does, and
`StopBlocks` is a stop that finds the table taken. The watcher of a command is `Exit`, `Reap` and `Submit`: the gap
between the last two is in the code, where the table is let go of before the queue is locked.

`tree[u]` is the command whose tree lies in `snap/u`. What conclusions publish is the subject of `Transactions`.

A few orders of events break what the code means to guarantee. Rather than give those guarantees up, the properties
excuse the jobs that met one of them, and `excused` collects these, each at the action that shows why:

* a job taken for idle between the reap of its command and the submission (`TakenForIdle`, `MCReapGap.cfg`), and
  whoever's row of the same name the late conclusion then takes (`Check`);
* a build, or the error path of a spawn, that ends in the row of a later job of that name (`Build`, `Unspawn`);
* a failed launch that closes its job while an earlier command is still being concluded (`Retire`);
* a `start_in` on a job that is not built yet, whose reservation is never cleared (`Prepare`), and a stop accepted
  while a `start_in` is under way that then fails (`LaunchFails`): such jobs are never closed;
* a forced job whose processes could not be proven gone, which keeps its tree on purpose (`Conclude`).

`Shutdown` adds the phases of `ShellMux::shutdown`: the queue closes, what runs is killed and waiting callers are let go,
the conclusion task and the launches are joined, the rest is dropped. A submission after the close is dropped
(`SubmitClosed`). The host's own calls have returned before; launches that `spawn` left behind have not. `late` collects
the jobs such a launch was opening during the kills.

### Session

A process is forked, armed (it asked for the parent-death signal), checked (it compared its parent), live, doomed (sent
SIGKILL) or gone. The lease is a lock on an open file description, so a child that has not executed yet holds it too.
`terminate_orphans` and `terminate_owner` are scans of `/proc` in the order of process numbers: `Visit` looks at one
number, so a process started behind the scan is missed, and `EndScan` starts over until nothing is found. A traced
process may drop its markers (`env -i`): it dies with its tracer but is not waited for. `loose` collects the processes of
commands concluded by a time-out or an abandoned launch, which have been killed but not waited for; of these, and of what
dropped its markers, `QuietTree` claims the kill only.

### Frontend

A call of the mux is a list of steps its task carries out, with others' steps in between: the change of the table, its
announcement, the build, the resize, the wake-up. The binding (`FrontendBinding`) keeps handles and the size under its
own mutex. The publisher is a bounded broadcast channel: a client that falls behind loses what it has not read and is
sent the table as a whole. One name changes hands between jobs. `raced` collects the cases the properties name as
excused: the name reopened before the earlier job of it was announced or built, resizes that overlap, and the close that
`report_launch_failure` announces to nobody. The announcement `reap_command` makes when a command has ended
(`jobs.rs:1239`) is one with that of its conclusion (`Conclude`): the row between the two is not shown to clients in the model.

### PastRegex

A node is a tuple of a tag and its children, a set where the code keeps them sorted. Compilation, the normalising
constructors, symbolic derivatives, transition tables with their size budgets and the interpreted fallback, replay with
its two caches, `append` and `rollback` are operators with the source's structure; `InLanguage` is the definition of the
language of a tail they are compared with. The mutually recursive constructors of transitions go through one operator,
`Build`, by the tag of what is built. A node that the code would build in the order of first construction is built
from any order. The memo tables of derivatives and atoms hold pure functions and are left out, as are the kinds of
compile errors. The nodes for negation, concatenation and intersection of transitions are unreachable from the rules and
the bounds here.

## Runs

| run | bounds | shows |
|---|---|---|
| `authority` | 2 principals, 2 files, all 11 actions on one of them, compound commands over both, 4 granted events | rows partition, projection decides, no surprise, owner keeps dirt, refinement of `RowTable` |
| `transactions` | 2 jobs, 1 file and the index, 2 contents, transactions and bypasses, 2 versions, 3 events | generations, foreign dirt (unannounced writes of a failed builtin included), serializability as a refinement of `SerialSeed` |
| `commit_log` | a name that is a file, then a directory, and a file beside it; 2 contents, 2 publications, 3 crashes | atomic and durable as a refinement of `AtomicSeed`; every start ends (liveness) |
| `faults` | the same names, 2 publications, 2 crashes or power losses, write errors | the history is backed by whole intents |
| `bypass` | 2 commands of one line, both may write; 2 versions, 1 failed append, 1 kill, 1 restart | leases, no leak, trees of running commands, trust, quarantine |
| `trace` | a worker and a child, 2 builtins, 6 edges, every cut of a line and equal stamps | events, footprint, refusals and program order are those of the run |
| `git_exec` | 2 files and their directory; a repository at the root, below, unborn, or only outside; 2 events a command | refusals change nothing, only what is named changes, work survives, rows match |
| `jobs` | 2 callers, 1 name, 2 sandboxes, 2 commands, every fault | trees kept, callbacks matched, stops close (liveness) |
| `shutdown` | 1 caller, 2 names, 2 commands, kills may fail | nothing left running, everybody released (liveness) |
| `session` | 2 sessions, 1 job, 3 processes, abandonment and time-outs | one owner, no stragglers, quiet trees, orphans die (liveness) |
| `frontend` | 2 callers, 1 client, 2 sizes, a channel of 2, 2 sandboxes of one name, 3 calls | displays agree, handles kept, one size, no lost wake-up |
| `past_regex` | 3 principals, 2 actions, 1 resource, histories of 2 and a checkpoint, tails of 2 atoms | the engine decides as the rules say; compiled tails are closed |

Why the bounds are enough. The policy's languages look at one file and distinguish the acting principal from the others,
so two principals and one file reach every combination of row and claim; four events are enough to set a row, move the
claim, settle it and try something, and the proofs cover every length. Staleness compares one path's generation with one
base: two jobs and two versions after the first contain a command that is overtaken once and one that is overtaken
twice. The crash runs include a crash in recovery from a crash in recovery, and a number that is taken twice. Two
commands over two versions share a tree, part over a new one, and meet on one that was taken again. A cut line needs two
threads; six edges hold a builtin around a call with another thread's call across both. A git builtin decides path by
path: two paths, one of them in a directory, give every order of a path that is refused and one that is not. Everything
in the job table is about one name, so one name is enough; two sandboxes let it change hands, two commands let one job's
second meet the conclusion of its first, and two callers with the tasks of spawns let any two operations overlap. Three
processes are a tracer, its worker and what the worker starts. The engine's caches are hit by the second event of a
history and by a rollback to the first. Budgets are set so low that both paths through a transition are taken.

`CHECK_DEADLOCK FALSE` is set where a bound (events, versions, crashes, commands) or a legitimate end stops the model.
In `JobTable` it also covers the two mutexes taken in opposite orders, which `LocksOrdered` states instead.

Symmetry is used on principals, jobs and callers that no constant tells apart, and never in a run with a
liveness property.

Fairness is weak everywhere. In `CommitLog` it is that of the recovery steps: `ShellMux::new` runs them in sequence on
one thread and waits for no lock and no other process, so a start that can go on does. In `JobTable` it is that of each
task once it has begun, of the watchers and of the conclusion task: tokio polls every task that is ready, the mutexes
are held for short sections, and the waits (`wait_for`, `take`) register before they check, so that no wakeup is lost
and being enabled is enough. `Shutdown` has the same and its own steps, and no fairness for commands: they end because
they are killed. In `Session` it is the kernel's: a doomed process dies, a child goes on to its exec, a session's threads
end. Commands need not end, users need not call, faults need not happen.

## Known disagreements

Where the code does not do what a comment of the repository says, a configuration that is not among the runs shows it:
TLC finds the named property violated. The properties of the runs excuse exactly these cases.

| configuration (module) | property | what happens |
|---|---|---|
| `MCStaleClaim` (`MCTransactions`) | `LookBeforeWriting` | `git/tests.rs:283`: `self` still has to look before it writes. `conclude_bypass` (`mux.rs:1159`) records a read of a superseded version at the end of the history, so the claim is taken on content never seen. |
| `MCFailedBuiltin` (`MCTransactions`) | `DirtIsSafe` | `rules.rs:60`: no command may replace another principal's dirty resource; `translate.rs:240`: a git builtin that failed obtained nothing, and a command that failed is rolled back. `git checkout HEAD -- f dir \|\| true` writes `f`, has no event for it, exits 0 and is published over `f` as another has it. A renamed directory carries what lies beneath it along the same way. |
| `MCReplayOverFile` (`MCCommitLog`) | `NeverRefused` | `wal.rs:9`: replaying a log that may have partly run is safe. Once a directory has become a file, the removal beneath it (`wal.rs:156`) fails with ENOTDIR, at every start. |
| `MCShortWrite` (`MCCommitLog`) | `NeverRefused` | `wal.rs:79`: a torn final line is the only corruption an append-and-fsync log can produce. An append that fails half way (a full disk) leaves half a line and the session goes on (`mux.rs:1194`): the next append makes it a torn line in the middle, which every later start refuses. |
| `MCPowerLoss` (`MCCommitLog`) | `OpenIsWhole` | `commit.rs:5`: a crash after `End` leaves nothing to do. `apply_remove` (`wal.rs:155`) syncs nothing, so a power loss brings back a removed path. |
| `MCPulledTree` (`Bypass`) | `NeverPulled` | `mux.rs:614`: a running command's tree is not deleted. `discard_reader` (`mux.rs:684`) deletes a tree of the current version after the mutex is dropped; a new command has been given one of that name. |
| `MCForcedEscape` (`Bypass`) | `EveryEscapeQuarantined` | `discard_reader`: a dirtied tree must not be handed out again. One whose writer was stopped by force (`mux.rs:980`) is. |
| `MCLockOrder` (`JobTable`) | `LocksOrdered` | `jobs.rs:1061`: queue first, then the table. `conclude_one` (`jobs.rs:1269`) asks for the queue holding the table. |
| `MCReapGap` (`JobTable`) | `ConclusionsKeepTrees` | `jobs.rs:723`: a conclusion keeps its tree until it has landed. Between reap and submission (`jobs.rs:1231`) the job owes nothing to anybody. |
| `MCLateLaunch` (`Shutdown`) | `OutstandingTerminated` | `jobs.rs:1299`: shutdown terminates outstanding commands and joins its tasks. A launch still starting is passed over by the kills (1321-1335), joined after them (1340), and leaves its command running. |
| `MCStuckLaunch` (`MCFrontend`) | `ReservationsCleared` | `jobs.rs:741`: a failed launch only clears the reservation. `launch_command` on a job not built yet (`jobs.rs:775`) returns without clearing it. |
| `MCLastWord` (`MCTrace`) | `LastWordKept` | `translate.rs:541`: the capability requested is the same either way. An edit after a stage of the same file is dropped as a duplicate; the file counts as staged. |
| `MCTimeout` (`MCTrace`) | `TimeoutReported` | `executor.rs:230`: a command killed at its budget reports `TIMEOUT_EXIT_CODE`. The root's own exit record beats it (`executor.rs:516`): a worker that exited 0 while others of its group went on is merged. |
| `MCAbandon` (`Session`) | `KnownDead` | `executor.rs:396`, `start_cmd`: a tree is released only once its processes are known dead. `abandon` reaps the tracer only. |
| `MCDirectoryCommit` (`MCGitExec`) | `CommitsNothingElse` | `gitexec.rs`, `commit`: commits the named paths, nothing else. A directory has no blob, so naming one commits its removal, and the builtin then fails with HEAD moved. |

Smaller ones, read while modelling and without a configuration: `Merges::cancel` says that no further conclusion may
start (`jobs.rs:435`), `take` drains what was pending (385-391); `spawn` promises the latest size (603-609), a resize
after `reapply` (657-661) may be overwritten by it; a checkpoint that is stale is said to be refused
(`validator.rs:165-170`), one is accepted again when the history has regrown to its length; "a command git refuses is a
command the policy would deny" (`gitexec.rs:14`) does not hold of paths that are in neither HEAD nor the index; flags git
builtins do not know are ignored (`git rm --cached` removes the file); a repository without a commit can never get one;
`git commit -m -- f` is refused. After a write error in the middle of a publication its number is taken again
(`mux.rs:1194-1218`); if the intent that takes it is cut short by a crash, the `End` that recovery writes for the first is
read back as that of the second, which is too short, and the start after it refuses the log (`commit.rs:186`).

## Proofs

Each theorem holds for every value of the constants that meets the named `ASSUME`s of its module; TLC evaluates those on
each instance. Every inductive invariant below was checked by TLC on the module's instance before it was proved, but for
`Told` of `TraceProofs`, which quantifies over the directories of a thread at every stamp.

`AuthorityProofs`, for all principals, resources and commands, starts with lemmas about `GitPolicy` and histories of any
length: how an appended event or command moves `StateChange` (`AppendStateChange`, `ConcatStateChange`), that the last
event on a resource that is not stable decides its row (`LastUnstable`, `SetByLast`) and is in one setter (`OneSetter`),
and what the rules deny while a resource is dirty in other hands (`ForeignDirtDenied`, `ForeignReadDenied`). Then:

* `TypeCorrect`: `Spec => []TypeOK`.
* `PolicyNeverSurprises`: `Spec => NoSurprise`. The argument: if q holds a view of r and p is about to rewrite it, then
  either q's last word on r is a read, which is then the last read of r by anybody, and the history is in
  `ReadClaimedOther` for p; or it is an edit that q has not let go of, and either no state change came after it, so the
  row is `UnstagedOther` for p, or somebody else's event has moved the row in between, which the invariant excludes. The
  invariant `IInv` adds to `TypeOK` that every view is backed in this sense (`ViewsBacked`); it is needed because
  `NoSurprise` alone does not say that an edit's row is still its owner's. It says so of `committed` too, where a denied
  command returns to. Restarts preserve it because a retained history is a subsequence in which the events that decide
  rows keep deciding them.
* `DirtIsKept`: `Spec => OwnerKeepsDirt`. A granted event of another principal leaves q's dirty row alone, because the
  rules for foreign dirty rows deny every other. A truncation goes back to `committed`, and there the invariant
  `DirtInv` is needed: what is dirty in q's hands while another principal's command is being checked was dirty in them
  before that command.
* `RowsArePartitioned`: `Spec => []RowsPartition`. It follows from `TypeOK` alone.
* `ProjectionIsEnough`: `Spec => []ProjectionDecides`. The projection keeps the last event on each resource that is not
  stable and its last read (`NoneLeftOut`), in their order, and these alone decide the languages (`KeptRows`,
  `KeptReads`).
* `ImplementsTable`: `Spec => ImplementsRowTable`. A granted event is legal in the table, and appending it moves the
  table's row and reader as `Apply` does (`GrantedIsLegal`, `AppendApplies`). The table moves once per command while the
  authority's loop appends event by event; the invariant `CheckInv` says that the intermediate history is the one before
  the command and the events decided so far, each granted after those before it, so the last turn of the loop is one
  `Apply` of the whole command and every other turn a stutter. A restart releases rows and never invents one
  (`RestartReleases`).

and of `Transactions`, for all jobs, paths, contents and programs:

* `Invariance`: `TransactionsTypeOK`, `GenerationsCoverChanges` and `TreesTaken` (each job's tree is a copy of the version it was
  noted at, changed on the paths its program writes) are inductive together; `GenerationsExact` follows.
* `Serializable`: `TransactionsSpec => ImplementsSerialSeed`, the refinement. A published command's observations are not stale, so
  their generations are no newer than its base; by `GenerationsCoverChanges` they have had the same content since, and
  by `TreesTaken` that is what the command saw.
* `DirtIsNotClobbered`: `TransactionsSpec => NoClobber`, with no assumption on what commands write. What the diff of a
  command that is not stale changes, the command wrote (`FreshOpsAreOwnWrites`). Of its events, the first that changes what
  q holds dirty would come while the resource is still dirty in q's hands (`DirtBehind`), where the rules deny it
  (`DirtThroughout`), so a command that passes has none (`PassesSparesDirt`): what it changes there is unannounced.

`BypassProofs`, for all readers, versions and command lines:

* `TreesTyped`, `TreesSafe` of `ReaderTrees` alone, and of the composition `LeasesAreCounted`, `NoTreeForgotten`. The
  invariant `TreesInv` says that an entry counts at least its holders, that a version without entry has none, and that
  a version whose tree is being deleted by the last to leave is superseded and unlisted (`LeftBehind`): otherwise the
  second step of `Release` could delete a tree that was taken again. `BypassSpec` moves the trees as `Spec` does but for
  a restart and a command stopped by force (`StepKinds`).
* `TrustIsEarned`, `EscapeesQuarantined`. `BypassInv` adds `Believed`, that the map, the last run and, once nothing is
  owed to it, the log agree for every key whose record was not lost (a restart reads the log only, so the log must be
  in the invariant), and `Answered`, that every dirty tree still listed has an escapee who has not been concluded.
* `BypassPulls`: `BypassSpec => OnlyDiscardPulls`.

`ExecutorProofs`, of `Session`, for all numbers of sessions, jobs and processes, with crashes and forks anywhere:

* `OneSessionAtATime`: by `LockInv`, two sessions never hold the lock's file together, children before their exec
  included.
* `OrphansAreGone`: recovery begins when nothing of an earlier session runs. A scan that has found nothing so far leaves
  nothing marked behind it (`Scanned`), which is inductive only because a marked process starts only as a child of a
  tracer, which is itself marked and lies ahead (`Traced`), and because no other session starts any (`LockInv`).
* `TreeIsQuiet`: when a tree is handed on, all that is left of its command has been sent SIGKILL, after a time-out and an
  abandoned launch too, since what is traced dies with its tracer (`LooseInv`, `JobsInv`). By the same scan for one job, what
  is left otherwise had dropped its markers. What those two leave behind may still bear them (`loose`): it was killed but
  not waited for (`MCAbandon`). `TreeIsDead`: where neither happens, nothing that bears the markers is left.

and of `Trace`, for all threads, calls and builtins, and logs of any length:

* `LogHolds`: `TraceSpec => [](timedOut \/ LogInv)`. Wherever a run is looked at, the log, cut there, decodes to every call
  that has returned, once, at the stamp of its entry, with the calls in flight pending (`Logged`); the stamps of a
  thread grow (`Stamped`); its spans pair, and its git spans are apart (`Spanned`); a git process shows (`GitShows`).
  Each action moves the decoded log as it moves the run: `FlightEntered`, `FlightPrinted` and `FlightReturned` say what
  becomes of it when a call is entered, when something is printed over it and when it returns, in place or resumed.
  Nothing is claimed once the budget has run out, since a call in flight may then have had its effect.

and in `TraceProofs`:

* `RefusalIsExact`: `TraceSpec => []RefusedIffIncomplete`. The evidence is what was decoded and recorded, in the order of
  the keys (`EvidenceIs`), so that the beginning of a span comes before its end and, of two git spans of one thread that
  do not touch, one ends before the other begins (`SpansApart`). By induction over the evidence, the fold has open
  exactly the spans that have begun and not ended among the items it has seen, has refused if one of these was a git
  process (`FoldOpen`), and has refused for no other reason in a record that is complete (`FoldQuiet`).
* `EventsAreExact` and `FootprintIsExact`: `TraceSpec => []EventsExact` and `[]FootprintExact`. The invariant is `LogInv` and
  `Told` (`ToldHolds`, again unless the budget has run out). `Told` says that what the run did can be read off its log and its
  records: a thread is cloned before anything it does (`Parented`); there is a directory for each thread and stamp, which a
  returned call hands to the next of its thread and a clone to its child, and which the thread has now (`CwdOk`); and the
  effects are exactly those that the returned calls have in these directories, as the shell or as the builtin whose span
  the stamp lies in, and those of the builtins' successful ends (`DidOk`). `EventsExact` says nothing of any of these,
  so it is far from inductive. `DidOk` is claimed only while no git process runs and no git span was left open (`Sound`),
  since a record for which this fails is refused; a step never restores it (`SoundStays`). Each step either leaves
  all this as it is (`Quietly`), or a call returns, a thread is cloned or a hook pushes a record. The fold
  is followed by induction over the evidence: after each item it has every thread in the git span (`FoldSpan`) and in the
  directory (`FoldCwd`) of that item's stamp, and has merged the effects of the items seen (`FoldWork`). `LineMoves`,
  `BeginMoves` and `EndMoves` say what an item moves; that a clone is seen before its child's first item is `KnownBefore`,
  and that an edge is seen between the calls its span divides is `LineOrder`. What duplicates and the filter on resources
  take away is a matter of sets (`KeptAre`, `DedupIs`).

`JobTableProofs`, for all names, jobs, callers and commands:

* `TreesAreKept`, `CallbacksAreMatched`, with the type invariant `JobTableTyped`. Rows are found by name and storage by
  uid, so the invariant has to say which task may still act on a job it no longer owns: a job whose row is being built
  belongs to that build alone (`OpeningInv`), a reservation excludes any other and keeps its row (`ReserveInv`), the
  count of a name is that of the conclusions it is owed, in the queue or at work (`ActiveInv`), an outstanding command
  has its tree and its row (`KeptInv`), and what is about to be launched or reclaimed has none (`FreeInv`). `TreesKept`
  alone is not inductive: it does not say that a count of zero means that nothing is owed. The excused jobs drop out of
  these conjuncts one by one, as the actions that excuse them are taken.
* `NothingIsLeft`, of `Shutdown`: `ShutdownSpec => [](Sound => NothingLeftRunning)`. The kills take the table's mutex once
  and go by the rows, so what survives them unreported must have been in no row. The argument is that a command that runs
  is in its job's row, or the task that started it is about to put it there (`ShownInv`), and that such a task has a
  reservation which is its own job's alone (`StartsInv`), so its job was being opened and is in `late`; from the kills on,
  only such launches add commands (`LeftInv`). `JobTableInv` serves until the queue closes and not after, since a
  conclusion submitted to a closed queue is dropped: from there on the invariant is `EndTyped`, `StartsInv` and
  `ShownInv`. `Sound` says that not every job is excused, and is needed: where the row that a build or a failed spawn acts
  on is by then another job's, the model excuses every job at once, and a failed spawn takes that row away with its job's
  command running. Two callers and a failing build get there; the run's one caller does not, and there the property
  holds outright.

`CommitLogProofs`, for all paths, trees, transactions and bounds on crashes:

* `HistoryIsBacked`: `Spec => []HistoryBacked`, whatever fails, with the type invariant `CommitLogTyped`. What is about to
  be recorded must be backed by the log as well (`WorkBacked`), and an intent about to be logged must be whole.
* `OpenSessionsAreWhole`: `Spec => []OpenIsWhole`, and `PublicationIsAtomic`: `Spec => ImplementsAtomicSeed`, both where
  nothing but a crash happens (`Faults \subseteq {"crash"}`), and crashes as often as they like. The hypothesis is
  needed: `MCPowerLoss` is the counterexample for a power loss, and a write error ends a publication in the middle with
  the session open. The invariant `CrashInv` has three parts. The disk: numbers ascend, and a durable intent is finished
  and recorded before the next frame begins (`FramesInv`, `HistInv`), so at most one is outstanding, the last, and the
  seed then differs from its target at most where its operations lead (`SeedInv`). The memory: what a replay still has
  to do is the end of the log as the disk has it, and the next number is the one after the last record (`SessionInv`).
  The progress: the operations before the next one have been carried out (`StepInv`), which later ones do not undo
  because removals come first and by depth. `OpenIsWhole` alone is not inductive: it says nothing of a stopped session,
  where all of the promise lies. The refinement has three kinds of steps (`CrashStep`): a command is granted, its intent
  becomes durable, or readers see nothing; the version they are entitled to and the published log are `View` and
  `Published` (`EntitledIs`, `PendingIs`).

`FrontendProofs`, for all callers, sockets and sizes, any number of jobs that take the name one after another and any
number of calls:

* `FrontendTyped`, `SwitchesWake`, `SizesAgree`, `HandlesStay`. Between two steps of a call anything may have happened, so
  the invariant is about what every call has left to do: `Plans` are the lists of steps in which a build is followed by
  the wake-up and the announcements of what it built, and giving up on one by those of that. `TaskInv` adds whose job a
  task builds. A row without a terminal has somebody left who builds one or gives up (`BuilderInv`); who sleeps waits for a
  pending launch, or a wake-up is left (`WakeInv`); an open terminal is the row's or about to be dropped (`TerminalInv`);
  whoever carries a geometry carries the mux's, and a terminal with another is about to get it or to go (`SizeInv`); a row
  has its own job's terminal, handle and pump, or a task about to give them to it (`NameInv`). The three properties are
  what is left of these when no call has anything left. None is inductive alone, since each is about states in which
  nothing is under way. Overlapping resizes drop out of `SizeInv`, and a name reopened too early out of `NameInv`.
* `ClientsAgreeInTheEnd`: `Spec => []ClientsAgree`, for any capacity of the channel. `TellInv` says what everybody shows
  *will* be right: a display is good if it is the table as it is, or somebody has an announcement left, or the row is
  gone and its pump has yet to say so (`Owed`); the last list of an inbox, the snapshot of a client that is being greeted
  and what a client shows lead to good displays once the closes after them have been received (`Channelled`,
  `Displayed`); the rows read under the mutex are those of the table if no other announcement is left (`ReadingInv`); and
  nobody is told that a job closed which is in the row (`GoneInv`). A step leaves an announcement to make, after which
  everything is good (`Loud`); or changes nothing that is shown (`Quietly`), but for a close after a failed launch, of
  which the pump tells; or it is an announcement, a pump or a socket.

`GitExecProofs`, for all files and directories, command lines and seeds:

* `RepositoriesTyped`: `Spec => []ReposTyped`, the part of the type invariant that the next three need.
* `RefusalsLeaveAll`, `OnlyNamedIsTouched`, `WorkIsKept`: `RefusedLeavesAll`, `OnlyNamed` and `WorkSurvives` hold of every
  call in every state whose repositories are of their types, reached or not. One lemma for each operation says what it
  keeps of the repository and the worktree it is given (`Kept`): the operations that check every pathspec before they
  write have written nothing when they fail, and those that stop at a pathspec stop at a directory (`ReachedNames`,
  `TreeIsDir`); a directory's commit is the only one that reaches files it does not name (`AboveIsDir`); `rm` takes a
  file away only when HEAD has it, and `stash` keeps what it takes. `RootInside` is the climb to the repository, which
  ends inside the snapshot. The assumptions: what lies above a file is a directory, no directory is a file, and the
  pathspecs of a call are lists of paths (`CallsAssumption`; that `parse` makes lists is an induction over the line).
* `RowsAreTrue`: `Spec => [](TypeOK /\ RowsMatchRepo)`, by the invariant `RowsTracked`, which adds that no two
  repositories inside the snapshot lie over one path. Per operation, a lemma says that the rows its events lead to are
  true of the repository it leaves (`Tracks`); that a builtin's events are granted and recorded one at a time, each on
  the rows the ones before have left, is a fold, unrolled by `RecordFold`. Assumed is `CleanSeedsAssumption`: the rows
  start clean, and so do the seeds.

Only model-checked, and why:

* Liveness (`Restarts`, `StopCloses`, `OrphansDie`, `ShutdownReleases`): beyond the prover.
* `PastRegex` (`Decides`, `Scoped`) is written with recursion over terms: what a recursive definition computes for every
  input needs an induction the prover cannot do.
* `Trace.ProgramOrderKept`. `DidOk` says which effects a run had, not in which order. The order would need a place in `did`
  for each call that returned, the stability of the merge for items of one stamp and rank, and an account of what
  `SelectSeq` and the removal of duplicates keep of an order. TLC checks it on the run's instance.

## Not modelled

* The shell. `brush-*` is a fork of a POSIX shell, two thirds of the repository: its parser, expansion, interpreter,
  line editor and completion are a language implementation, whose correctness is its conformance to POSIX and bash, and
  no part of marsh's promise depends on more of it than the builtin hooks, which `Trace` has.
* The static proof of purity (`statically_pure` and what it calls): a syntactic test on a parsed command line. What it
  should guarantee is a statement about the shell's semantics. What follows from a wrong verdict is in `Bypass`.
* The consoles: `marsh-tui` and the interactive part of `marsh-shell` keep a selection, drafts and screens, and redraw
  them from the table on every wake-up; `repl.rs` parses lines and renders outcomes; key and mouse encoding is a table.
  The calls they make are the callers' of `JobTable` and `Frontend`.
* Of the job table: `merging`, the bytes of terminals and instrumentation and their pumping, `write_input`, and the
  listing.
* Of the frontends: the HTTP routes that only read, and the wording of messages.
* btrfs snapshots and deletions are taken as atomic and successful, except that a failed deletion (which the code
  tolerates) is not distinguished. Changes of the seed from outside are not modelled.
* Locks are modelled by the extent of actions; poisoning is ignored, as the code does.
* The advice of denials (`diagnostics.rs`), legacy logs without an operation count, output from pipes, wording, logging
  and rendering.
* `fuzz`, `benchmarks`, `samples`, `scripts`, the N-API binding of the validator, and `marsh-trace`, a generator of test
  traces whose oracle is `NoSurprise`.

## Plan

Done: the components above, but for what "Not modelled" names, and every safety property of the runs that the prover
can reach. Open is what "Only model-checked" lists, and the three hazards without a property.
