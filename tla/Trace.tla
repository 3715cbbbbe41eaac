---- MODULE Trace ----
(***************************************************************************)
(* How one command is recorded and what its record is taken to mean.       *)
(*                                                                         *)
(* A command runs in a traced worker.  Two instruments watch it: the       *)
(* tracer writes a line per system call, split in two when another thread  *)
(* is reported in between, and the worker keeps an edge record for the     *)
(* beginning and the end of every builtin.  marsh-exec decodes and merges  *)
(* both (strace.rs, evidence.rs); shellmux translates the merged sequence  *)
(* into the capabilities the command requested (translate.rs).             *)
(*                                                                         *)
(* The variables are the running command and the two raw streams; decoding *)
(* is operators over the streams.  "did" is what really happened.          *)
(***************************************************************************)
EXTENDS Naturals, FiniteSets, SequencesExt

CONSTANTS
    Tids,       \* thread ids
    Root,       \* the worker's main thread
    Calls,      \* the system calls a program may make: [name, file, to, git]
    Builtins,   \* the builtin invocations: [name, path]
    MayFail,    \* the calls whose failing outcome is explored
    MaxEdges    \* bound on the stamped edges of one execution

ASSUME RootIsAThread == Root \in Tids

Absent == "none"

CallNames == {"open-r", "open-w", "unlink", "rename", "chdir", "fchdir", "clone",
              "execve"}
Files == {c.file : c \in Calls} \cup {c.to : c \in Calls} \cup {Absent}

ASSUME CallsAreKnown ==
    Calls \subseteq [name : CallNames, file : Files, to : Files, git : BOOLEAN]

VARIABLES
    clock,      \* CLOCK_REALTIME, shared by both instruments
    thread,     \* per live thread: cwd, program, span, call in flight, last stamp
    raw,        \* the tracer's log, line by line
    records,    \* the worker's builtin records, in push order
    did,        \* the effects that really happened, in completion order
    dumped,     \* whether the worker wrote its records out
    over,       \* whether the tracer has exited
    timedOut    \* whether the captured run's budget ran out

traceVars == <<clock, thread, raw, records, did, dumped, over, timedOut>>

NoSpan == 0
NoCall == [name |-> Absent]
NoPath == <<>>
Dirs == {"root", "sub", "out"}      \* the snapshot root, a directory in it, outside

(* Lexical resolution of a directory step against a base. *)
Resolve(base, step) ==
    CASE step = "sub" /\ base = "root" -> "sub"
      [] step = ".." /\ base = "sub" -> "root"
      [] step = ".." /\ base = "root" -> "out"
      [] OTHER -> base

Path(dir, file) == <<dir, file>>
Event(action, path) == <<action, path>>

(* A path inside the snapshot, git's private directory included. *)
WorkRelative(path) == path[1] # "out"

(* A path that names a policy resource: in the snapshot, not under .git. *)
SeedResource(path) == WorkRelative(path) /\ path[2] # ".git"

IsGitBuiltin(name) == name \in {"git", "git add"}
---------------------------------------------------------------------------
(* The tracer's log.  A line is printed at a call's entry and completed at  *)
(* its exit; whatever is printed in between cuts it in two.                 *)

Cut(log) ==
    IF log # <<>> /\ Last(log).kind = "entry"
      THEN [log EXCEPT ![Len(log)].kind = "unfinished"]
      ELSE log

Printed(line) == Append(Cut(raw), line)

Line(t, kind, call) == [tid |-> t, ts |-> clock', kind |-> kind, call |-> call]

(* strace -y decorates a descriptor argument with its path, and a returned  *)
(* descriptor with the path the kernel resolved; a bare path gets neither.  *)
CallLine(t, c, ok) ==
    [name |-> c.name, file |-> c.file, to |-> c.to, git |-> c.git,
     dirfd |-> IF c.name = "fchdir" THEN Resolve(thread[t].cwd, c.to)
               ELSE IF c.name \in {"open-r", "open-w"} THEN thread[t].cwd ELSE Absent,
     ret |-> IF ok THEN "ok" ELSE "error",
     retPath |-> IF ok /\ c.name \in {"open-r", "open-w"}
                   THEN Path(thread[t].cwd, c.file) ELSE NoPath,
     child |-> Root]

(* What the kernel does on behalf of a call, as <action, path> pairs. *)
RealEffects(t, c) ==
    LET here == Path(thread[t].cwd, c.file) IN
    CASE c.name = "open-r" -> <<Event("Read", here)>>
      [] c.name \in {"open-w", "unlink"} -> <<Event("Edit", here)>>
      [] c.name = "rename" -> <<Event("Edit", here), Event("Edit", Path(thread[t].cwd, c.to))>>
      [] OTHER -> <<>>
---------------------------------------------------------------------------
Live == {t \in Tids : thread[t].alive}

Dead == [alive |-> FALSE, cwd |-> "root", program |-> "worker", spans |-> <<>>,
         call |-> NoCall, last |-> 0]

TraceInit ==
    /\ clock = 0
    /\ thread = [t \in Tids |-> Dead]
    /\ raw = <<>>
    /\ records = <<>>
    /\ did = <<>>
    /\ dumped = FALSE
    /\ over = FALSE
    /\ timedOut = FALSE

Edges == Len(raw) + Len(records)

Tick ==
    /\ ~over /\ Edges < MaxEdges
    /\ clock' \in {clock, clock + 1}

(* A call is stamped later than anything the thread did before: a traced    *)
(* stop costs more than the clock's microsecond.  Two threads may share.    *)
Stamp(t) == Tick /\ clock' > thread[t].last

(* A line of the thread's own, or of the clone that made it.                *)
Concerns(line, t) ==
    line.tid = t \/ (line.call.name = "clone" /\ line.call.child = t)

(* The edges of builtins are stamped without a stop, so two may share one.  *)
HookStamp(t) ==
    /\ Tick /\ clock' >= thread[t].last
    /\ ~ \E i \in DOMAIN raw : Concerns(raw[i], t) /\ raw[i].ts = clock'

(* The tracer's own execve of the worker: always the first line. *)
Start ==
    /\ raw = <<>> /\ Stamp(Root)
    /\ thread' = [thread EXCEPT ![Root] = [Dead EXCEPT !.alive = TRUE, !.last = clock']]
    /\ raw' = Printed(Line(Root, "full",
                [name |-> "execve", file |-> Absent, to |-> Absent, git |-> FALSE, dirfd |-> Absent,
                 ret |-> "ok", retPath |-> NoPath, child |-> Root]))
    /\ UNCHANGED <<records, did, dumped, over, timedOut>>

BeginOf(id) == CHOOSE r \in Range(records) : r.k = "b" /\ r.id = id

(* A builtin may run another one ("eval", "command"): spans nest, git's     *)
(* being innermost.                                                         *)
InGit(t) == thread[t].spans # <<>> /\ IsGitBuiltin(BeginOf(Last(thread[t].spans)).builtin)

(* Only a child changes directory by a call, and only the worker forks; a   *)
(* builtin makes file calls of its own.                                     *)
MayCall(t, c) ==
    /\ c.name \in {"chdir", "fchdir"} => t # Root
    /\ c.name = "execve" => t # Root /\ thread[t].program = "worker"
    /\ InGit(t) => c.name \in {"open-r", "open-w", "unlink"}

Enter(t) == \E c \in Calls, ok \in BOOLEAN :
    /\ t \in Live /\ thread[t].call = NoCall /\ MayCall(t, c)
    /\ ok \/ c.name \in MayFail
    /\ Stamp(t)
    /\ \/ /\ c.name # "clone"
          /\ LET call == CallLine(t, c, ok) IN
             /\ thread' = [thread EXCEPT ![t].call = call, ![t].last = clock']
             /\ raw' = Printed(Line(t, "entry", call))
       \/ \E child \in Tids \ (Live \cup {Root}) :
          /\ c.name = "clone" /\ ok
          /\ ~ \E i \in DOMAIN raw : raw[i].tid = child
          /\ LET call == [CallLine(t, c, ok) EXCEPT !.child = child] IN
             /\ thread' = [thread EXCEPT
                    ![t].call = call, ![t].last = clock',
                    ![child] = [Dead EXCEPT !.alive = TRUE, !.cwd = thread[t].cwd,
                                    !.program = thread[t].program, !.last = clock']]
             /\ raw' = Printed(Line(t, "entry", call))
    /\ UNCHANGED <<records, did, dumped, over, timedOut>>

Effects(t, c) ==
    [i \in DOMAIN RealEffects(t, c) |->
        [event |-> RealEffects(t, c)[i], tid |-> t,
         by |-> IF thread[t].program = "git" THEN "git"
                ELSE IF InGit(t) THEN "builtin" ELSE "shell"]]

(* The call returns: the line is completed in place if nothing came since,  *)
(* otherwise it is resumed on a line of its own.                            *)
Return(t) ==
    LET call == thread[t].call
        done == call.ret = "ok"
    IN
    /\ t \in Live /\ call # NoCall
    /\ UNCHANGED <<clock, records, dumped, over, timedOut>>
    /\ raw' = IF Last(raw).kind = "entry" /\ Last(raw).tid = t
                THEN [raw EXCEPT ![Len(raw)].kind = "full"]
                ELSE Append(Cut(raw), [tid |-> t, ts |-> clock, kind |-> "resumed", call |-> call])
    /\ did' = IF done THEN did \o Effects(t, call) ELSE did
    /\ thread' = [thread EXCEPT
         ![t].call = NoCall,
         ![t].cwd = IF done /\ call.name \in {"chdir", "fchdir"} THEN Resolve(@, call.to) ELSE @,
         ![t].program = IF done /\ call.name = "execve"
                          THEN (IF call.git THEN "git" ELSE "other") ELSE @]

(* BuiltinHook::begin and ::end, on the worker's own threads. *)
Begin(t) == \E b \in Builtins :
    /\ t \in Live /\ thread[t].call = NoCall /\ ~InGit(t)
    /\ thread[t].program = "worker"
    /\ HookStamp(t)
    /\ LET id == Len(records) + 1 IN
       /\ records' = Append(records, [k |-> "b", id |-> id, ts |-> clock', tid |-> t,
                                      builtin |-> b.name, path |-> b.path])
       /\ thread' = [thread EXCEPT ![t].spans = Append(@, id), ![t].last = clock']
    /\ UNCHANGED <<raw, did, dumped, over, timedOut>>

End(t) == \E exit \in {0, 1} :
    /\ t \in Live /\ thread[t].call = NoCall /\ thread[t].spans # <<>>
    /\ LET begun == BeginOf(Last(thread[t].spans)) IN
       /\ begun.builtin = "git" => exit # 0
       /\ begun.builtin = "git add" /\ ~SeedResource(begun.path) => exit # 0
       /\ HookStamp(t)
       /\ records' = Append(records, [k |-> "e", id |-> begun.id, ts |-> clock', tid |-> t,
                                      exit |-> exit])
       /\ did' = IF begun.builtin = "git add" /\ exit = 0
                   THEN Append(did, [event |-> Event("Stage", begun.path), tid |-> t,
                                     by |-> "record"])
                   ELSE did
       /\ thread' = [thread EXCEPT ![t].spans = Front(@), ![t].last = clock']
    /\ UNCHANGED <<raw, dumped, over, timedOut>>

(* A builtin that panics unwinds its task: no end edge, the thread goes on. *)
Panic(t) ==
    /\ t \in Live /\ thread[t].call = NoCall /\ thread[t].spans # <<>>
    /\ thread' = [thread EXCEPT ![t].spans = <<>>]
    /\ UNCHANGED <<clock, raw, records, did, dumped, over, timedOut>>

ExitLine(t, exit) ==
    [tid |-> t, ts |-> clock', kind |-> "exited", call |-> [name |-> "exited", status |-> exit]]

ExitThread(t) ==
    /\ t \in Live \ {Root} /\ thread[t].call = NoCall /\ thread[t].spans = <<>>
    /\ Stamp(t)
    /\ raw' = Printed(ExitLine(t, 0))
    /\ thread' = [thread EXCEPT ![t].alive = FALSE, ![t].last = clock']
    /\ UNCHANGED <<records, did, dumped, over, timedOut>>

(* The worker dumps its records, failing if it cannot, and exits.  The      *)
(* tracer outlives it until the last traced child is gone.                  *)
Alone == \A t \in Live \ {Root} : thread[t].program # "worker"

Finish == \E exit \in {0, 1}, written \in BOOLEAN :
    /\ written \/ exit # 0
    /\ Root \in Live /\ thread[Root].call = NoCall /\ thread[Root].spans = <<>> /\ Alone
    /\ Stamp(Root)
    /\ raw' = Printed(ExitLine(Root, exit))
    /\ thread' = [thread EXCEPT ![Root].alive = FALSE, ![Root].last = clock']
    /\ dumped' = written
    /\ UNCHANGED <<records, did, over, timedOut>>

(* A signal kills the worker: its call in flight stays cut, nothing is      *)
(* dumped, and its record says by what it was killed.                       *)
Kill ==
    /\ Root \in Live /\ Alone /\ Stamp(Root)
    /\ raw' = Printed([tid |-> Root, ts |-> clock', kind |-> "killed", call |-> NoCall])
    /\ thread' = [thread EXCEPT ![Root].alive = FALSE]
    /\ UNCHANGED <<records, did, dumped, over, timedOut>>

Detach ==
    /\ ~over /\ raw # <<>> /\ Live = {}
    /\ over' = TRUE
    /\ UNCHANGED <<clock, thread, raw, records, did, dumped, timedOut>>

(* run_traced: the budget is over and the process group is killed, tracer   *)
(* included.  A call in flight may have had its effect; its line is lost.   *)
Timeout ==
    /\ ~over /\ Live # {}
    /\ over' = TRUE /\ timedOut' = TRUE
    /\ thread' = [t \in Tids |-> [thread[t] EXCEPT !.alive = FALSE]]
    /\ did' \in {did} \cup {did \o Effects(t, thread[t].call) :
                    t \in {u \in Live : thread[u].call # NoCall /\ thread[u].call.ret = "ok"}}
    /\ UNCHANGED <<clock, raw, records, dumped>>

TraceNext ==
    \/ Start \/ Finish \/ Kill \/ Detach \/ Timeout
    \/ \E t \in Tids : Enter(t) \/ Return(t) \/ Begin(t) \/ End(t) \/ Panic(t) \/ ExitThread(t)

TraceSpec == TraceInit /\ [][TraceNext]_traceVars
---------------------------------------------------------------------------
(* Decoding: parse_trace, ExecutionEvidence::parse, collect.                *)

(* The innermost interrupted call of this thread and name, as rposition finds it. *)
TakePending(pending, line) ==
    LET mine == {i \in DOMAIN pending :
                    pending[i].tid = line.tid /\ pending[i].call.name = line.call.name}
    IN IF mine = {} THEN 0 ELSE CHOOSE i \in mine : \A j \in mine : j <= i

(* A decoded call: one line, stamped with its entry. *)
Whole(t, ts, call) == [tid |-> t, ts |-> ts, kind |-> "system", call |-> call]

ParseLine(parsed, line) ==
    CASE line.kind \in {"full", "exited"} ->
            [parsed EXCEPT !.lines = Append(@, Whole(line.tid, line.ts, line.call))]
      [] line.kind = "unfinished" -> [parsed EXCEPT !.pending = Append(@, line)]
      [] line.kind = "resumed" ->
            LET i == TakePending(parsed.pending, line) IN
            [lines |-> Append(parsed.lines,
                 Whole(line.tid, IF i = 0 THEN line.ts ELSE parsed.pending[i].ts, line.call)),
             pending |-> IF i = 0 THEN parsed.pending ELSE RemoveAt(parsed.pending, i)]
      [] OTHER -> parsed

(* Kill records and the tracer's own messages are dropped. *)
ParseAll(parsed, log) == FoldLeft(ParseLine, parsed, log)
ParseTrace(log) == ParseAll([lines |-> <<>>, pending |-> <<>>], log).lines

IsSystem(item) == "kind" \in DOMAIN item

RankEndFirst(item) == IF IsSystem(item) THEN 1 ELSE IF item.k = "b" THEN 2 ELSE 0

(* A builtin's span is inclusive at both ends of its stamps. *)
Rank(item) == IF IsSystem(item) THEN 1 ELSE IF item.k = "b" THEN 0 ELSE 2

NotAfter(a, b) == a.ts < b.ts \/ (a.ts = b.ts /\ Rank(a) <= Rank(b))

(* Stable insertion: after everything that does not sort after the item. *)
InsertByKey(merged, item) ==
    InsertAt(merged, Cardinality({i \in DOMAIN merged : NotAfter(merged[i], item)}) + 1, item)

MergeAll(merged, items) == FoldLeft(InsertByKey, merged, items)

(* A run that was killed leaves no dump, which reads as an empty one. *)
Dumped == IF dumped THEN records ELSE <<>>

Evidence == MergeAll(<<>>, ParseTrace(raw) \o Dumped)

(* The status of the root thread's exit record; the tracer's own if it was killed. *)
ExitCode ==
    LET exits == {i \in DOMAIN raw : raw[i].kind = "exited" /\ raw[i].tid = raw[1].tid}
    IN IF exits # {} THEN raw[CHOOSE i \in exits : \A j \in exits : j <= i].call.status
       ELSE IF timedOut THEN 124 ELSE 137
---------------------------------------------------------------------------
(* Translation: the fold over the evidence.                                 *)

FreshState == [cwd |-> "root", attr |-> "shell", span |-> NoSpan]

StateFor(states, t) == IF t \in DOMAIN states THEN states[t] ELSE FreshState

SetState(states, t, state) ==
    [u \in DOMAIN states \cup {t} |-> IF u = t THEN state ELSE states[u]]

Refuse(out, reason) ==
    IF out.unsupported = Absent THEN [out EXCEPT !.unsupported = reason] ELSE out

PathAtRoot(call, file, state) ==
    IF call.retPath # NoPath THEN call.retPath ELSE Path("root", file)

(* Where a path argument points: the returned descriptor's decoration, else *)
(* the directory descriptor's, else the directory tracked for the thread.   *)
PathAt(call, file, state) ==
    IF call.retPath # NoPath THEN call.retPath
    ELSE Path(IF call.dirfd # Absent THEN call.dirfd ELSE state.cwd, file)

FileEffects(call, state) ==
    CASE call.name = "open-r" -> <<Event("Read", PathAt(call, call.file, state))>>
      [] call.name \in {"open-w", "unlink"} -> <<Event("Edit", PathAt(call, call.file, state))>>
      [] call.name = "rename" -> <<Event("Edit", PathAt(call, call.file, state)),
                                   Event("Edit", PathAt(call, call.to, state))>>
      [] OTHER -> <<>>

Writes(effects) ==
    \E i \in DOMAIN effects : effects[i][1] # "Read" /\ WorkRelative(effects[i][2])

RecordBegin(out, record) ==
    LET known == record.id \in DOMAIN out.open
        state == StateFor(out.states, record.tid)
        opened == [out EXCEPT !.open = SetState(@, record.id, record)]
        once == IF known THEN Refuse(opened, "began twice") ELSE opened
        git == [once EXCEPT !.states = SetState(@, record.tid, [state EXCEPT !.span = record.id])]
    IN IF ~IsGitBuiltin(record.builtin) THEN once
       ELSE IF state.span # NoSpan THEN Refuse(git, "overlapping spans") ELSE git

QuietOnSuccess(out, t, record) ==
    IF record.exit # 0 THEN out
    ELSE [out EXCEPT !.states = SetState(@, t, [StateFor(@, t) EXCEPT !.span = NoSpan])]

(* A git builtin that ended leaves its thread outside a span, failed or not. *)
Quiet(out, t, record) ==
    [out EXCEPT !.states = SetState(@, t, [StateFor(@, t) EXCEPT !.span = NoSpan])]

RecordEnd(out, record) ==
    IF record.id \notin DOMAIN out.open THEN Refuse(out, "ended without beginning") ELSE
    LET begun == out.open[record.id]
        closed == [out EXCEPT !.open = [id \in DOMAIN @ \ {record.id} |-> @[id]]]
        quiet == Quiet(closed, begun.tid, record)
    IN IF ~IsGitBuiltin(begun.builtin) THEN closed
       ELSE IF record.exit # 0 THEN quiet
       ELSE IF begun.builtin = "git" THEN Refuse(quiet, "not in the grammar")
       ELSE IF SeedResource(begun.path)
              THEN [quiet EXCEPT !.events = Append(@, Event("Stage", begun.path))]
              ELSE Refuse(quiet, "pathspec outside")

(* Of the effects of a call, those on resources are requested. *)
KeepResource(events, e) == IF SeedResource(e[2]) THEN Append(events, e) ELSE events
KeepResources(events, effects) == FoldLeft(KeepResource, events, effects)

(* One system call: bookkeeping, then what it says about the command. *)
RecordLine(out, line) ==
    LET call == line.call
        state == StateFor(out.states, line.tid)
        seen == [out EXCEPT !.states = SetState(@, line.tid, state)]
        moved(dir) == [seen EXCEPT !.states = SetState(@, line.tid, [state EXCEPT !.cwd = dir])]
        effects == FileEffects(call, state)
        noted == [seen EXCEPT !.wrote = @ \/ Writes(effects)]
    IN
    CASE call.name = "exited" -> seen
      [] call.name = "chdir" /\ call.ret = "ok" -> moved(Resolve(state.cwd, call.to))
      [] call.name = "fchdir" /\ call.ret = "ok" -> moved(call.dirfd)
      [] call.name = "clone" /\ call.ret = "ok" ->
            [seen EXCEPT !.states = SetState(@, call.child, [state EXCEPT !.span = NoSpan])]
      [] call.name = "execve" /\ call.ret = "ok" ->
            IF call.git
              THEN Refuse([seen EXCEPT !.states =
                             SetState(@, line.tid, [state EXCEPT !.attr = "git"])], "raw git")
              ELSE seen
      [] OTHER ->
            IF call.ret = "error" \/ state.attr = "git" THEN seen
            ELSE IF state.span # NoSpan
              THEN [noted EXCEPT !.gitReads = @ \cup
                      {effects[i][2] : i \in {j \in DOMAIN effects :
                          effects[j][1] = "Read" /\ WorkRelative(effects[j][2])}}]
              ELSE [noted EXCEPT !.events = KeepResources(@, effects)]

Observe(out, item) ==
    CASE IsSystem(item) -> RecordLine(out, item)
      [] ~IsSystem(item) /\ item.k = "b" -> RecordBegin(out, item)
      [] OTHER -> RecordEnd(out, item)

ObserveAll(out, items) == FoldLeft(Observe, out, items)

DedupKeepingLast(events) ==
    FoldLeft(LAMBDA kept, e : Append(SelectSeq(kept, LAMBDA k : k # e), e), <<>>, events)

(* Exact duplicates are dropped, keeping the first. *)
KeepFirst(kept, e) == IF e \in Range(kept) THEN kept ELSE Append(kept, e)
KeepFirsts(kept, events) == FoldLeft(KeepFirst, kept, events)
Dedup(events) == KeepFirsts(<<>>, events)

EmptyOut == [states |-> <<>>, open |-> <<>>, events |-> <<>>, gitReads |-> {},
             wrote |-> FALSE, unsupported |-> Absent]

Translation ==
    LET out == ObserveAll(EmptyOut, Evidence)
        unclosed == \E id \in DOMAIN out.open : IsGitBuiltin(out.open[id].builtin)
        final == IF unclosed THEN Refuse(out, "span never closed") ELSE out
    IN [final EXCEPT !.events = Dedup(@)]
---------------------------------------------------------------------------
(* Properties, of an execution that ran to its end.                         *)

TraceTypeOK ==
    /\ clock \in 0..MaxEdges
    /\ \A t \in Tids : /\ thread[t].cwd \in Dirs
                        /\ thread[t].program \in {"worker", "other", "git"}
                        /\ Range(thread[t].spans) \subseteq 1..Len(records)
    /\ Edges <= MaxEdges + Cardinality(Tids)
    /\ \A i \in DOMAIN did : did[i].by \in {"shell", "builtin", "git", "record"}
    /\ over \in BOOLEAN /\ timedOut \in BOOLEAN

(* Only a record that translates, of a run that exited 0, is merged. *)
Mergeable == over /\ ExitCode = 0 /\ Translation.unsupported = Absent

(* A run whose budget ran out after the worker had exited is merged as well *)
(* (TimeoutReported); the other properties are about the rest.              *)
Merged == Mergeable /\ ~timedOut

(* What the principal really asked for: file effects of its own programs on *)
(* resources, and the git builtins that succeeded.                          *)
Asked(d) == d.by \in {"shell", "record"} /\ SeedResource(d.event[2])

(* translate.rs: the capabilities a command is authorized for are exactly   *)
(* the ones it used, however its calls were cut, interleaved and stamped.   *)
EventsExact == Merged =>
    Range(Translation.events) = {did[i].event : i \in {j \in DOMAIN did : Asked(did[j])}}

(* translate.rs: the diff is skipped only if nothing wrote inside the       *)
(* snapshot, whoever wrote and whether or not its builtin succeeded; and a  *)
(* git builtin's read set is what it read, and nobody else's reads.         *)
Did(by, action) == {i \in DOMAIN did :
    did[i].by \in by /\ did[i].event[1] = action /\ WorkRelative(did[i].event[2])}
FootprintExact == Merged =>
    /\ Translation.wrote <=> Did({"shell", "builtin"}, "Edit") # {}
    /\ Translation.gitReads = {did[i].event[2] : i \in Did({"builtin"}, "Read")}

(* translate.rs: a record that cannot be complete is refused (a git process,*)
(* a git builtin whose end was never seen), and a complete one is not, but  *)
(* for two git builtins of one thread that touch in one microsecond.        *)
EdgesOf(id, k) == {j \in DOMAIN records : records[j].id = id /\ records[j].k = k}
GitSpans == {i \in DOMAIN records : records[i].k = "b" /\ IsGitBuiltin(records[i].builtin)}
Incomplete ==
    \/ \E t \in Tids : thread[t].program = "git"
    \/ \E i \in GitSpans : EdgesOf(records[i].id, "e") = {}
Touching == \E i, j \in GitSpans : \E e \in EdgesOf(records[i].id, "e") :
    records[i].tid = records[j].tid /\ i < j /\ records[e].ts = records[j].ts
RefusedIffIncomplete == over /\ ~timedOut /\ ExitCode = 0 /\ ~Touching => (Merged <=> ~Incomplete)

(* translate.rs: events of one thread keep their program order; a stage     *)
(* that follows an edit follows it in what the authority is asked.          *)
FirstOf(s, e) == CHOOSE i \in DOMAIN s : s[i] = e /\ \A j \in 1..(i - 1) : s[j] # e
Own(t) == LET mine == SelectSeq(did, LAMBDA d : d.tid = t /\ Asked(d))
          IN [i \in DOMAIN mine |-> mine[i].event]
ProgramOrderKept == Merged =>
    \A t \in Tids : \A a, b \in Range(Own(t)) \ UNION {Range(Own(u)) : u \in Tids \ {t}} :
        FirstOf(Own(t), a) < FirstOf(Own(t), b)
            => FirstOf(Translation.events, a) < FirstOf(Translation.events, b)

(* executor.rs:229: a command killed for exceeding its budget reports       *)
(* TIMEOUT_EXIT_CODE, and so is never merged.                               *)
TimeoutReported == timedOut => ExitCode = 124

(* translate.rs:541 calls the capability requested the same with and        *)
(* without its duplicates; then the last word on a file would be the same.  *)
LastWord(events, path) ==
    LET on == {i \in DOMAIN events : events[i][2] = path /\ events[i][1] # "Read"}
    IN IF on = {} THEN Absent ELSE events[CHOOSE i \in on : \A j \in on : j <= i][1]
LastWordKept == Merged /\ Tids = {Root} =>
    \A path \in {Own(Root)[i][2] : i \in DOMAIN Own(Root)} :
        LastWord(Translation.events, path) = LastWord(Own(Root), path)
===========================================================================
