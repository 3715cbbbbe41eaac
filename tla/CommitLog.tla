----------------------------- MODULE CommitLog -----------------------------
(***************************************************************************)
(* Publication and recovery: commit.rs, the parts of wal.rs and history.rs *)
(* they use, record_commit and the start of a session in mux.rs.           *)
(*                                                                         *)
(* A publication logs its whole intent, applies it to the seed record by   *)
(* record, logs End, appends the history record and only then moves on.    *)
(* The state on disk survives a crash at any point between two of these    *)
(* writes; a new session replays what was left unfinished.                 *)
(*                                                                         *)
(* The authority's write lock admits one publication at a time, so a       *)
(* command whose staleness was checked publishes its whole tree: its diff  *)
(* turns the seed into what its snapshot holds.                            *)
(***************************************************************************)
EXTENDS Naturals, SequencesExt, FiniteSetsExt

CONSTANTS
    Paths,
    Depth,          \* [Paths -> Nat], the number of a path's components
    Under,          \* pairs <<x, y>>: y is a proper ancestor of x
    Contents,       \* what a file may hold
    Absent,         \* no file here
    Gone,           \* a snapshot that was reclaimed
    InitialTrees,   \* what the seed may hold when the session is created
    CommandTrees,   \* what commands may leave behind
    Transactions,   \* 1..n: publications attempted, in order (a bound)
    MaxCrashes,     \* bound
    Faults          \* which of "crash", "power loss", "io error" may happen

Entry == Contents \union {Absent}

\* Directories are implicit: nothing lies under a file.
Tree ==
    {t \in [Paths -> Entry] :
        \A u \in Under : t[u[1]] # Absent => t[u[2]] = Absent}

ASSUME PathsAssumption ==
    /\ IsFiniteSet(Paths)
    /\ Depth \in [Paths -> Nat]
    /\ Under \subseteq Paths \X Paths
ASSUME TreesAssumption == InitialTrees \subseteq Tree /\ CommandTrees \subseteq Tree
ASSUME GoneAssumption == Gone \notin Tree
ASSUME BoundsAssumption == Transactions \subseteq Nat \ {0} /\ MaxCrashes \in Nat

VARIABLES
    seed,           \* the live tree, on disk
    wal,            \* meta/wal.jsonl
    hist,           \* meta/history.jsonl
    snap,           \* snap/<uid>, one per transaction
    removed,        \* <<path, content>> removed and not yet synced
    mode,           \* what the session is doing
    todo,           \* transactions to carry through, the first one next
    step,           \* the next operation of the first of them
    seq,            \* AuthorityState::seq
    asked,          \* history variable: the tree each transaction publishes
    crashes         \* history variable: how many there were

disk == <<seed, wal, hist, snap, removed>>
session == <<mode, todo, step, seq>>
ghosts == <<asked, crashes>>
vars == <<disk, session, ghosts>>

-----------------------------------------------------------------------------
(* The log and how it is read back.                                        *)

\* The log as frames: the Begin of transaction id under number seq and its
\* operations, as far as the append got.  lines counts the lines that are
\* whole, torn says that half of one more follows, and finished that an End
\* was logged that recover attributes to this frame.
Frame(tx, k, half) ==
    [id |-> tx.id, seq |-> tx.seq, ops |-> tx.ops,
     lines |-> k, torn |-> half, finished |-> FALSE]

Lines(ops) == Len(ops) + 1

\* diff_trees: what differs, removals deepest first, then writes shallowest
\* first.  Paths of one depth, which the code sorts by name, come in any order.
\* An operation that leaves its path Absent is a removal.
Op(x, content) == [path |-> x, to |-> content]

Removes(op) == op.to = Absent

Precedes(o, p) ==
    IF Removes(o) THEN Removes(p) => Depth[o.path] >= Depth[p.path]
    ELSE ~Removes(p) /\ Depth[o.path] <= Depth[p.path]

Diff(from, to) ==
    LET changes == {Op(x, to[x]) : x \in {y \in Paths : from[y] # to[y]}}
    IN  {ops \in [1..Cardinality(changes) -> changes] :
            /\ \A o \in changes : \E i \in DOMAIN ops : ops[i] = o
            /\ \A i, j \in DOMAIN ops : i < j => Precedes(ops[i], ops[j])}

\* The log with an End for number s: it closes the last transaction begun under
\* s, for a number is taken again when its intent was not durable.
WithEnd(log, s) ==
    LET i == Max({j \in DOMAIN log : log[j].seq = s})
    IN  [log EXCEPT ![i].finished = TRUE]

\* A prefix of an intent is abandoned: it was never durable as a whole.
CompleteWithBegin(frame) == frame.lines > 0

Complete(frame) == frame.lines = Lines(frame.ops)

\* A last line without its newline is truncated away.
Truncated(log) ==
    IF log = <<>> \/ ~Last(log).torn THEN log
    ELSE IF Last(log).lines = 0 THEN Front(log)
    ELSE [log EXCEPT ![Len(log)].torn = FALSE]

\* A torn line anywhere else, or a finished transaction of the wrong length.
Corrupt(log) ==
    \E i \in DOMAIN log : log[i].torn \/ (log[i].finished /\ ~Complete(log[i]))

\* The history carries a record with number s; the first form would take the
\* record of the transaction before for it.
RememberedPredecessor(s) == \E i \in DOMAIN hist : hist[i].seq + 1 >= s

Remembered(s) == \E i \in DOMAIN hist : hist[i].seq = s

\* A frame as recover reads it back, and all of them in log order.
Read(frame) ==
    [id |-> frame.id, seq |-> frame.seq,
     ops |-> SubSeq(frame.ops, 1, frame.lines - 1),
     whole |-> Complete(frame), finished |-> frame.finished,
     remembered |-> Remembered(frame.seq)]

Transcript(log) == [k \in DOMAIN log |-> Read(log[k])]

-----------------------------------------------------------------------------
(* One record applied: apply_record, apply_write, apply_remove.            *)

\* Something that should be a directory is a file.
Blocked(t, x) == \E u \in Under : u[1] = x /\ t[u[2]] # Absent

\* The paths that go when x does.
Beneath(x) == {x} \union {u[1] : u \in {v \in Under : v[2] = x}}

\* apply_remove fails on ENOTDIR; only ENOENT is tolerated.
CanRemove(x) == ~Blocked(seed, x)

Without(t, x) == [y \in Paths |-> IF y \in Beneath(x) THEN Absent ELSE t[y]]

SourceOf(t, x) == IF snap[t] = Gone THEN Absent ELSE snap[t][x]

CanWrite(t, o) ==
    \/ SourceOf(t, o.path) # Absent /\ ~Blocked(seed, o.path)
    \/ SourceOf(t, o.path) = Absent /\ seed[o.path] = o.to

CanApply(t, o) == IF o.to = Absent THEN CanRemove(o.path) ELSE CanWrite(t, o)

Applied(t, o) ==
    IF o.to = Absent THEN Without(seed, o.path)
    ELSE IF SourceOf(t, o.path) = Absent THEN seed
    ELSE [Without(seed, o.path) EXCEPT ![o.path] = SourceOf(t, o.path)]

\* Removals that a power loss may undo after operation o.
SameDirectory(x, y) == \A z \in Paths : <<x, z>> \in Under <=> <<y, z>> \in Under

Unsynced(o) ==
    IF "power loss" \notin Faults THEN {}
    ELSE IF o.to = Absent
    THEN removed \union {<<x, seed[x]>> : x \in {y \in Beneath(o.path) : seed[y] # Absent}}
    ELSE {r \in removed : ~SameDirectory(r[1], o.path)}

-----------------------------------------------------------------------------
(* A session publishing: record_commit and commit::apply.                  *)

Init ==
    /\ seed \in InitialTrees
    /\ wal = <<>>
    /\ hist = <<>>
    /\ snap = [t \in Transactions |-> Gone]
    /\ removed = {}
    /\ mode = "open"
    /\ todo = <<>>
    /\ step = 1
    /\ seq = 0
    /\ asked = [t \in Transactions \union {0} |-> IF t = 0 THEN seed ELSE Gone]
    /\ crashes = 0

\* A command leaves its tree and its events are granted.  A command that only
\* read leaves the tree as it was and is logged all the same.
Grant(t, result) ==
    /\ mode = "open"
    /\ asked[t] = Gone
    /\ \A u \in Transactions : u < t => asked[u] # Gone
    /\ mode' = "logging"
    /\ asked' = [asked EXCEPT ![t] = result]
    /\ snap' = [snap EXCEPT ![t] = result]
    /\ \E ops \in Diff(seed, result) :
          todo' = <<[id |-> t, seq |-> seq + 1, ops |-> ops, whole |-> TRUE,
                     finished |-> FALSE, remembered |-> FALSE]>>
    /\ step' = 1
    /\ UNCHANGED <<seed, wal, hist, removed, seq, crashes>>

\* One write and one fsync for Begin and every operation.
LogIntent ==
    /\ mode = "logging"
    /\ wal' = Append(wal, Frame(todo[1], Lines(todo[1].ops), FALSE))
    /\ mode' = "publishing"
    /\ UNCHANGED <<seed, hist, snap, removed, todo, step, seq, ghosts>>

Working == mode \in {"publishing", "recovering"} /\ todo # <<>> /\ Head(todo).whole

\* One record, by the publisher or by a replay.  apply_write syncs its
\* directory, apply_remove leaves that to the kernel.  diff_trees orders the
\* records so that a publisher can apply each of them.
ApplyOp ==
    /\ Working
    /\ ~Head(todo).finished /\ step <= Len(Head(todo).ops)
    /\ LET t == Head(todo).id
           o == Head(todo).ops[step]
       IN  /\ CanApply(t, o)
           /\ seed' = Applied(t, o)
           /\ removed' = Unsynced(o)
    /\ step' = step + 1
    /\ UNCHANGED <<wal, hist, snap, mode, todo, seq, ghosts>>

LogEnd ==
    /\ Working
    /\ ~Head(todo).finished /\ step > Len(Head(todo).ops)
    /\ wal' = WithEnd(wal, Head(todo).seq)
    /\ todo' = [todo EXCEPT ![1].finished = TRUE]
    /\ UNCHANGED <<seed, hist, snap, removed, mode, step, seq, ghosts>>

\* The history record, and with it the end of the publication.
RecordHistory ==
    /\ mode = "publishing"
    /\ Head(todo).finished
    /\ hist' = Append(hist, [id |-> Head(todo).id, seq |-> Head(todo).seq])
    /\ seq' = Head(todo).seq
    /\ mode' = "open"
    /\ todo' = <<>>
    /\ UNCHANGED <<seed, wal, snap, removed, step, ghosts>>

\* A concluded job's snapshot is deleted.
Reclaim(t) ==
    /\ mode = "open"
    /\ snap[t] # Gone
    /\ snap' = [snap EXCEPT ![t] = Gone]
    /\ UNCHANGED <<seed, wal, hist, removed, session, ghosts>>

-----------------------------------------------------------------------------
(* Faults.                                                                 *)

\* What reaches the log of an append that does not return: some of its lines,
\* the last of them perhaps torn.
TornAppend ==
    \/ UNCHANGED wal
    \/ \E k \in 0..Lines(todo[1].ops), half \in BOOLEAN :
          /\ half => k < Lines(todo[1].ops)
          /\ k > 0 \/ half
          /\ wal' = Append(wal, Frame(todo[1], k, half))

Stop ==
    /\ crashes < MaxCrashes
    /\ mode # "closed"
    /\ crashes' = crashes + 1
    /\ mode' = "closed"
    /\ todo' = <<>> /\ step' = 1 /\ seq' = 0
    /\ IF mode = "logging" THEN TornAppend ELSE UNCHANGED wal
    /\ UNCHANGED <<hist, snap, asked>>

\* The process dies.
Crash ==
    /\ "crash" \in Faults
    /\ Stop
    /\ UNCHANGED <<seed, removed>>

\* The machine dies: removals that were not synced may be undone.
PowerLoss ==
    /\ "power loss" \in Faults
    /\ Stop
    /\ \E back \in SUBSET removed :
          seed' = [x \in Paths |->
                      IF \E r \in back : r[1] = x
                      THEN (CHOOSE r \in back : r[1] = x)[2] ELSE seed[x]]
    /\ removed' = {}

\* A write fails and the command is answered with the error; the session goes
\* on.
IoError ==
    /\ "io error" \in Faults
    /\ mode \in {"logging", "publishing"}
    /\ IF mode = "logging" THEN TornAppend ELSE UNCHANGED wal
    /\ mode' = "open"
    /\ todo' = <<>> /\ step' = 1
    /\ UNCHANGED <<seed, hist, snap, removed, seq, ghosts>>

-----------------------------------------------------------------------------
(* The next session: ShellMux::new.                                        *)

\* What recovery finds of the snapshots, which are swept after it; the first
\* form would sweep them before.
SweptSnapshots == [t \in Transactions |-> Gone]

SnapshotsAtStart == snap

\* recover reads the log whole before it replays any of it.
Start ==
    /\ mode \in {"closed", "refused"}
    /\ wal' = Truncated(wal)
    /\ snap' = SnapshotsAtStart
    /\ IF Corrupt(Truncated(wal))
       THEN mode' = "refused" /\ UNCHANGED todo
       ELSE mode' = "recovering" /\ todo' = Transcript(Truncated(wal))
    /\ step' = 1
    /\ UNCHANGED <<seed, hist, removed, seq, ghosts>>

\* A record that can neither be applied nor recognised as applied.
Refuse ==
    /\ mode = "recovering" /\ Working
    /\ ~Head(todo).finished /\ step <= Len(Head(todo).ops)
    /\ ~CanApply(Head(todo).id, Head(todo).ops[step])
    /\ mode' = "refused"
    /\ todo' = <<>> /\ step' = 1
    /\ UNCHANGED <<disk, seq, ghosts>>

\* A prefix of an intent is passed over.
Abandon ==
    /\ mode = "recovering" /\ todo # <<>>
    /\ ~Head(todo).whole
    /\ todo' = Tail(todo)
    /\ step' = 1
    /\ UNCHANGED <<disk, mode, seq, ghosts>>

\* The history record a crash left out is derived from the log.
RestoreHistory ==
    /\ mode = "recovering" /\ Working
    /\ Head(todo).finished
    /\ hist' = IF Head(todo).remembered THEN hist
               ELSE Append(hist, [id |-> Head(todo).id, seq |-> Head(todo).seq])
    /\ todo' = Tail(todo)
    /\ step' = 1
    /\ UNCHANGED <<seed, wal, snap, removed, mode, seq, ghosts>>

\* The snapshots are swept and the history loaded.
Open ==
    /\ mode = "recovering" /\ todo = <<>>
    /\ snap' = [t \in Transactions |-> Gone]
    /\ seq' = Max({0} \union {hist[i].seq : i \in DOMAIN hist})
    /\ mode' = "open"
    /\ UNCHANGED <<seed, wal, hist, removed, todo, step, ghosts>>

Recovery == Start \/ Refuse \/ Abandon \/ RestoreHistory \/ Open \/ ApplyOp \/ LogEnd

Next ==
    \/ \E t \in Transactions :
          (\E result \in CommandTrees : Grant(t, result)) \/ Reclaim(t)
    \/ LogIntent \/ RecordHistory
    \/ Recovery
    \/ Crash \/ PowerLoss \/ IoError

\* Nothing holds a starting session up but its own work.
Fairness == WF_vars(Recovery)

Spec == Init /\ [][Next]_vars /\ Fairness

-----------------------------------------------------------------------------
(* Properties.                                                             *)

Operation == [path : Paths, to : Entry]

FrameOf ==
    {f \in [id : Transactions, seq : Nat \ {0}, ops : Seq(Operation),
            lines : Nat, torn : BOOLEAN, finished : BOOLEAN] : f.lines <= Lines(f.ops)}

Intent == [id : Transactions, seq : Nat \ {0}, ops : Seq(Operation),
           whole : BOOLEAN, finished : BOOLEAN, remembered : BOOLEAN]

TypeOK ==
    /\ seed \in [Paths -> Entry]
    /\ wal \in Seq(FrameOf)
    /\ hist \in Seq([id : Transactions, seq : Nat \ {0}])
    /\ snap \in [Transactions -> Tree \union {Gone}]
    /\ removed \subseteq Paths \X Contents
    /\ mode \in {"closed", "open", "logging", "publishing", "recovering", "refused"}
    /\ todo \in Seq(Intent)
    /\ mode \in {"logging", "publishing"} => todo # <<>>
    /\ step \in Nat \ {0}
    /\ seq \in Nat
    /\ asked \in [Transactions \union {0} -> Tree \union {Gone}]
    /\ crashes \in 0..MaxCrashes

Committed == [i \in DOMAIN hist |-> hist[i].id]

\* The log as a start would find it.
Log == Truncated(wal)

\* Durable intents that have no history record yet, in log order.
Unrecorded ==
    {k \in DOMAIN Log : Complete(Log[k]) /\ \A i \in DOMAIN hist : hist[i].id # Log[k].id}

NthUnrecorded(n) ==
    CHOOSE k \in Unrecorded : Cardinality({j \in Unrecorded : j <= k}) = n

Pending == [n \in 1..Cardinality(Unrecorded) |-> Log[NthUnrecorded(n)].id]

\* Whatever fails, the policy never inherits an event of a command whose intent
\* was not durable as a whole: recover abandons a prefix.
HistoryBacked ==
    \A i \in DOMAIN hist : \E k \in DOMAIN wal :
        wal[k].id = hist[i].id /\ wal[k].lines = Lines(wal[k].ops)

\* A session that takes commands has nothing half done: the seed holds the
\* version its last recorded transaction published, the whole of it, and no
\* durable intent is outstanding.
OpenIsWhole ==
    mode = "open" =>
        /\ Pending = <<>>
        /\ seed = asked[IF hist = <<>> THEN 0 ELSE Last(hist).id]

\* "Replaying a log that may have partly run is therefore safe" (wal.rs): no
\* crash leaves a log that a start refuses.
NeverRefused == mode # "refused"

\* A session that stopped starts again, however often it is stopped on the way.
Restarts == mode = "closed" ~> mode = "open"

\* The version readers are entitled to: the seed with the rest of a durable
\* intent carried out.
Unfinished == {k \in DOMAIN Log : Complete(Log[k]) /\ ~Log[k].finished}

CarriedOut(ops) ==
    [x \in Paths |-> IF \E i \in DOMAIN ops : ops[i].path = x
                     THEN ops[CHOOSE i \in DOMAIN ops : ops[i].path = x].to
                     ELSE seed[x]]

Entitled == IF Unfinished = {} THEN seed ELSE CarriedOut(Log[Max(Unfinished)].ops)

Atomic == INSTANCE AtomicSeed
            WITH Trees <- Tree,
                 Nothing <- Gone,
                 asked <- [t \in Transactions |-> asked[t]],
                 tree <- Entitled,
                 log <- Committed \o Pending

\* Publication is atomic and durable from the moment its intent is logged.
ImplementsAtomicSeed == Atomic!Spec
=============================================================================
