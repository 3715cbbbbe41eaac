---------------------------- MODULE Transactions ----------------------------
(***************************************************************************)
(* Optimistic transactions on the seed: ShellMux::launch, conclude,        *)
(* conclude_bypass and record_commit of src/shellmux/src/mux.rs.           *)
(*                                                                         *)
(* A command runs in a snapshot of the seed that was taken under the       *)
(* authority's read lock, holding no lock while it runs.  Its conclusion,  *)
(* under the write lock, diffs the snapshot against the live seed, refuses *)
(* it when a path it depends on has moved on, puts its capability events   *)
(* to the policy and publishes what is left.  A command believed read-only *)
(* runs in a shared copy of a committed version instead and publishes      *)
(* nothing but its reads.                                                  *)
(*                                                                         *)
(* Each action is one critical section, so it is one step.  How a          *)
(* publication survives a crash is CommitLog's subject, how reader trees   *)
(* are shared is ReaderTrees'.                                             *)
(***************************************************************************)
EXTENDS GitPolicy

CONSTANTS
    Jobs,           \* each job is a principal
    Paths,          \* every seed-relative path, .git/ included
    Contents,       \* what a path may hold, absence included
    Programs,       \* the footprints a command may turn out to have
    Plans,          \* how commands may be launched
    NoCommand,
    MaxSeq,         \* bound: transactions recorded
    MaxPast         \* bound: events in the history

\* A program is what one traced run amounts to: the paths it read through
\* traced calls (reads) or inside a git builtin (gitReads), the paths it
\* depends on through calls that are not traced, such as listing a directory
\* (blind), the paths it wrote, and the events translate makes of it.
Act == [action : Action, resource : Resources]

Program ==
    [reads : SUBSET Paths, gitReads : SUBSET Paths, blind : SUBSET Paths,
     writes : SUBSET Paths,
     acts : Seq(Act)]

\* The actions under which a command may change a resource's content.
Mutating == {"edit", "delete", "clean", "checkout", "stash"}

Requests(prog, actions, x) ==
    \E i \in DOMAIN prog.acts :
        prog.acts[i].resource = x /\ prog.acts[i].action \in actions

\* The writes no event stands for.  Two kinds of run have some: a git builtin
\* that writes and then fails is no event, nor are the calls it made, and the
\* command may go on to exit 0; and renaming a directory is an event on its two
\* names, not on what lies beneath them.
Unannounced(prog) == {x \in prog.writes : ~Requests(prog, Mutating, x)}

ASSUME PathsAssumption == Resources \subseteq Paths
ASSUME JobsAssumption == Jobs = Principals
ASSUME PlansAssumption == Plans \subseteq {"transaction", "bypass"}
ASSUME MaxSeqAssumption == MaxSeq \in Nat /\ MaxPast \in Nat

\* translate.rs: a resource opened outside a git builtin is an event.  Nothing
\* of the kind is assumed of writes.
ASSUME ProgramsAssumption ==
    /\ Programs \subseteq Program
    /\ \A prog \in Programs :
          \A x \in prog.reads \intersect Resources : Requests(prog, Action, x)

VARIABLES
    seed,           \* the live tree
    seq,            \* AuthorityState::seq, the seed's version
    generations,    \* AuthorityState::generations; 0 where it has no entry
    past,           \* AuthorityState::history, the events granted
    pc,             \* [Jobs -> {"idle", "running", "exited"}]
    plan,           \* [Jobs -> Plan]
    base,           \* base_seq of the command a job runs
    work,           \* the tree the command runs in
    prog,           \* the program it turned out to be
    snap,           \* history variable: the tree as it was taken
    versions,       \* history variable: the seed at each sequence number
    last,           \* history variable: the last command published
    known           \* history variable: what a principal last knew of a path

authority == <<seed, seq, generations, past>>
jobs == <<pc, plan, base, work, prog, snap>>
ghosts == <<versions, last, known>>
tvars == <<authority, jobs, ghosts>>

Tree == [Paths -> Contents]
NoProgram == [reads |-> {}, gitReads |-> {}, blind |-> {}, writes |-> {},
              acts |-> <<>>]

TransactionsTypeOK ==
    /\ seed \in Tree
    /\ seq \in 0..MaxSeq
    /\ generations \in [Paths -> 0..MaxSeq]
    /\ past \in Seq(Event)
    /\ pc \in [Jobs -> {"idle", "running", "exited"}]
    /\ plan \in [Jobs -> {"transaction", "bypass"}]
    /\ base \in [Jobs -> 0..seq]
    /\ work \in [Jobs -> Tree]
    /\ prog \in [Jobs -> Programs \union {NoProgram}]
    /\ snap \in [Jobs -> Tree]
    /\ versions \in [0..seq -> Tree]

TransactionsInit ==
    /\ seed \in Tree
    /\ seq = 0
    /\ generations = [x \in Paths |-> 0]
    /\ past = <<>>
    /\ pc = [j \in Jobs |-> "idle"]
    /\ plan = [j \in Jobs |-> "transaction"]
    /\ base = [j \in Jobs |-> 0]
    /\ work = [j \in Jobs |-> seed]
    /\ prog = [j \in Jobs |-> NoProgram]
    /\ snap = [j \in Jobs |-> seed]
    /\ versions = [s \in {0} |-> seed]
    /\ last = NoCommand
    /\ known = [j \in Jobs |-> [x \in Paths |-> seed[x]]]

-----------------------------------------------------------------------------
(* Launch and execution.                                                   *)

\* The version a tree is taken at.
BaseSeq == seq

\* launch: the tree is taken and its version noted under one read lock.  A
\* transaction snapshots the live seed; a bypass gets a copy of the current
\* version, which nothing but an escapee of that version writes to.
Launch(j, p) ==
    /\ pc[j] = "idle"
    /\ pc' = [pc EXCEPT ![j] = "running"]
    /\ plan' = [plan EXCEPT ![j] = p]
    /\ base' = [base EXCEPT ![j] = BaseSeq]
    /\ work' = [work EXCEPT ![j] = seed]
    /\ snap' = [snap EXCEPT ![j] = seed]
    /\ UNCHANGED <<authority, prog, ghosts>>

\* The command runs to its end in its own tree.
Execute(j, program) ==
    /\ pc[j] = "running"
    /\ pc' = [pc EXCEPT ![j] = "exited"]
    /\ prog' = [prog EXCEPT ![j] = program]
    /\ \E written \in [program.writes -> Contents] :
          work' = [work EXCEPT ![j] =
                      [x \in Paths |-> IF x \in program.writes
                                          THEN written[x] ELSE @[x]]]
    /\ UNCHANGED <<authority, plan, base, snap, ghosts>>

-----------------------------------------------------------------------------
(* Conclusion.                                                             *)

\* Every conclusion lets go of the tree.
Finish(j) ==
    /\ pc' = [pc EXCEPT ![j] = "idle"]
    /\ plan' = [plan EXCEPT ![j] = "transaction"]
    /\ base' = [base EXCEPT ![j] = 0]
    /\ prog' = [prog EXCEPT ![j] = NoProgram]
    /\ work' = [work EXCEPT ![j] = versions[0]]
    /\ snap' = [snap EXCEPT ![j] = versions[0]]

Concluding(j, p) == pc[j] = "exited" /\ plan[j] = p

\* diff_trees, run only when a write inside the root was observed: the paths
\* on which the live seed and the command's tree differ.
Ops(j) ==
    IF prog[j].writes = {} THEN {} ELSE {x \in Paths : seed[x] # work[j][x]}

EventsOf(j) ==
    [i \in DOMAIN prog[j].acts |->
        [principal |-> j, action |-> prog[j].acts[i].action,
         resource |-> prog[j].acts[i].resource]]

EventResources(j) == {prog[j].acts[i].resource : i \in DOMAIN prog[j].acts}

\* stale_paths: diff destinations, event resources and the git read set, at a
\* generation newer than the snapshot.
StaleWithoutGitReads(j) ==
    {x \in Ops(j) \union EventResources(j) : generations[x] > base[j]}

StalePaths(j) ==
    {x \in Ops(j) \union EventResources(j) \union prog[j].gitReads :
        generations[x] > base[j]}

\* The generations after job j is published as transaction s.
StampEventsOnly(j, s) ==
    [x \in Paths |-> IF x \in Ops(j) \intersect EventResources(j)
                     THEN s ELSE generations[x]]

Stamp(j, s) == [x \in Paths |-> IF x \in Ops(j) THEN s ELSE generations[x]]

\* check_events: each event is judged against the history and the events of
\* its own command before it; one denial undoes them all.
Passes(j) ==
    \A i \in DOMAIN prog[j].acts :
        ~Denied(past \o SubSeq(EventsOf(j), 1, i - 1), EventsOf(j)[i])

\* A failed or untranslatable command is rolled back wholesale, whichever way
\* it was launched.
RollBack(j) ==
    /\ pc[j] = "exited"
    /\ Finish(j)
    /\ UNCHANGED <<authority, ghosts>>

\* Nothing observed and nothing changed: committed without a record.
CommitNothing(j) ==
    /\ Concluding(j, "transaction")
    /\ prog[j].acts = <<>> /\ Ops(j) = {}
    /\ Finish(j)
    /\ UNCHANGED <<authority, ghosts>>

RefuseStale(j) ==
    /\ Concluding(j, "transaction")
    /\ StalePaths(j) # {}
    /\ Finish(j)
    /\ UNCHANGED <<authority, ghosts>>

RefuseDenied(j) ==
    /\ Concluding(j, "transaction")
    /\ StalePaths(j) = {}
    /\ ~Passes(j)
    /\ Finish(j)
    /\ UNCHANGED <<authority, ghosts>>

\* What a published command depended on.  A dependency nothing declares is
\* covered by the diff, and only for a command that writes.
Observed(j) ==
    (prog[j].reads \intersect Resources) \union prog[j].gitReads
        \union (IF prog[j].writes = {} THEN {}
                ELSE (prog[j].reads \union prog[j].blind) \ prog[j].writes)

\* conclude's last branch and record_commit.
Commit(j) ==
    /\ Concluding(j, "transaction")
    /\ prog[j].acts # <<>> \/ Ops(j) # {}
    /\ StalePaths(j) = {}
    /\ Passes(j)
    /\ seq < MaxSeq
    /\ Len(past) + Len(prog[j].acts) <= MaxPast
    /\ seq' = seq + 1
    /\ seed' = [x \in Paths |-> IF x \in Ops(j) THEN work[j][x] ELSE seed[x]]
    /\ generations' = Stamp(j, seq')
    /\ past' = past \o EventsOf(j)
    /\ versions' = [s \in 0..seq' |-> IF s = seq' THEN seed' ELSE versions[s]]
    /\ last' = [job |-> j,
                observed |-> [x \in Observed(j) |-> snap[j][x]],
                wrote |-> [x \in prog[j].writes |-> work[j][x]]]
    /\ known' = [known EXCEPT ![j] =
                    [x \in Paths |->
                        IF x \in prog[j].reads \union prog[j].writes
                        THEN work[j][x] ELSE @[x]]]
    /\ Finish(j)

\* conclude_bypass: a run that did more than read is reported and its tree
\* thrown away; nothing it wrote reaches the seed.
Escape(j) ==
    /\ Concluding(j, "bypass")
    /\ prog[j].writes # {} \/ \E i \in DOMAIN prog[j].acts :
                                  prog[j].acts[i].action # "read"
    /\ Finish(j)
    /\ UNCHANGED <<authority, ghosts>>

\* A run that only read has its reads put to the policy and recorded at the
\* current version, whatever version it read.
Bypassed(j) ==
    /\ Concluding(j, "bypass")
    /\ prog[j].writes = {}
    /\ \A i \in DOMAIN prog[j].acts : prog[j].acts[i].action = "read"
    /\ Len(past) + Len(prog[j].acts) <= MaxPast
    /\ past' = IF Passes(j) THEN past \o EventsOf(j) ELSE past
    /\ known' = [known EXCEPT ![j] =
                    [x \in Paths |-> IF x \in prog[j].reads
                                     THEN snap[j][x] ELSE @[x]]]
    /\ Finish(j)
    /\ UNCHANGED <<seed, seq, generations, versions, last>>

TransactionsNext ==
    \E j \in Jobs :
        \/ \E p \in Plans : Launch(j, p)
        \/ \E program \in Programs : Execute(j, program)
        \/ RollBack(j)
        \/ CommitNothing(j)
        \/ RefuseStale(j)
        \/ RefuseDenied(j)
        \/ Commit(j)
        \/ Escape(j)
        \/ Bypassed(j)

TransactionsSpec == TransactionsInit /\ [][TransactionsNext]_tvars

-----------------------------------------------------------------------------
(* Properties.                                                             *)

\* The dirty resource of another principal keeps its content: no publication
\* changes it by way of an event, and the diff, which carries whatever the tree
\* and the seed differ in, changes it only where the command itself wrote it
\* and no event says so (check_events, diff_trees).
NoClobber ==
    [][\A q \in Principals, r \in Resources :
         UnstagedSelf(past, q, r) /\ seed'[r] # seed[r]
            => \/ last'.job = q
               \/ r \in Unannounced(prog[last'.job])]_tvars

\* The same of every write: where a resource is unstaged by q, "checkout would
\* discard or replace {q}'s dirty resource" (rules.rs).
DirtIsSafe ==
    [][\A q \in Principals, r \in Resources :
         UnstagedSelf(past, q, r) /\ seed'[r] # seed[r]
            => last'.job = q]_tvars

\* generations says when a path last changed: it has had its present content
\* in every version from its generation on.  A missed entry would let a stale
\* command through.
GenerationsCoverChanges ==
    /\ versions[seq] = seed
    /\ \A x \in Paths :
          /\ generations[x] <= seq
          /\ \A s \in generations[x]..seq : versions[s][x] = seed[x]

\* A principal that holds a file's read claim publishes over content it knows:
\* "`self` still has to look before it writes -- otherwise it would clobber
\* content it has never seen" (rust-validator/src/policy/git/tests.rs).
LookBeforeWriting ==
    [][\A q \in Principals, r \in Resources :
         /\ HoldsRead(past, q, r)
         /\ seed'[r] # seed[r]
         /\ last'.job = q /\ r \notin prog[q].reads
         => known[q][r] = seed[r]]_tvars

Serial == INSTANCE SerialSeed

\* Published commands are serializable: each acts as if it had run alone at
\* its sequence number, on the reads it declared and, if it wrote, on the
\* dependencies nobody declared.
ImplementsSerialSeed == Serial!Spec
=============================================================================
