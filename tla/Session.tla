------------------------------ MODULE Session ------------------------------
(***************************************************************************)
(* Who owns a seed, and which processes are left over: acquire of          *)
(* marsh-exec/src/persistence.rs, build, abandon and force_stop of         *)
(* executor.rs, child_setup, spawn_traced, run_traced and terminate_marked *)
(* of strace.rs, in the order ShellMux::new, start_cmd and conclude_cmd    *)
(* call them.                                                              *)
(*                                                                         *)
(* A session's lock is an open file description: it is held by the process *)
(* and by every child forked from it that has not executed yet.  A process *)
(* that dies closes its files and, separately, has the kernel signal the   *)
(* children that asked for it.  A process that was sent SIGKILL is doomed: *)
(* it starts nothing more, but is gone only some time later.               *)
(***************************************************************************)
EXTENDS Naturals, FiniteSets

CONSTANTS
    Sessions,       \* marsh processes started on the seed
    Jobs,           \* jobs of a session
    None,           \* of no session and no job
    MaxPid,         \* bound: processes started by them
    MayAbandon,     \* whether pidfd_open may fail for a launch
    MayTimeOut      \* whether a captured command may exceed its budget

ASSUME NoneAssumption == None \notin Sessions \union Jobs
ASSUME JobsAssumption == Jobs \intersect {"none", "all"} = {}
ASSUME MaxPidAssumption == MaxPid \in Nat
ASSUME MayAssumption == MayAbandon \in BOOLEAN /\ MayTimeOut \in BOOLEAN

Pids == 1..MaxPid

VARIABLES
    marsh,          \* [Sessions -> stage of the process]
    files,          \* [Sessions -> whether its descriptors are open]
    job,            \* [Sessions -> [Jobs -> stage of the job's command]]
    proc,           \* [Pids -> process], numbers handed out in order
    last,           \* the last number handed out
    sweep,          \* [Sessions -> scan of terminate_marked]
    loose           \* pids of commands concluded without a sweep

vars == <<marsh, files, job, proc, last, sweep, loose>>

Stages == {"free", "forked", "armed", "checked", "live", "doomed", "gone"}
NoProc == [st |-> "free", session |-> None, job |-> None, tracer |-> 0,
           marked |-> FALSE, grouped |-> FALSE]

\* The first number a scan looks at; 0 is no process.
FirstPid == 1

NoSweep == [of |-> "none", at |-> FirstPid, hits |-> {}]

Alive(n) == proc[n].st \notin {"free", "gone"}

TypeOK ==
    /\ marsh \in [Sessions -> {"off", "leased", "built", "sweeping", "open",
                               "dying", "dead"}]
    /\ files \in [Sessions -> BOOLEAN]
    /\ job \in [Sessions -> [Jobs -> {"idle", "running", "reaping", "killed",
                                      "sweeping", "kept"}]]
    /\ proc \in [Pids -> [st : Stages, session : Sessions \union {None},
                          job : Jobs \union {None}, tracer : 0..MaxPid,
                          marked : BOOLEAN, grouped : BOOLEAN]]
    /\ last \in 0..MaxPid
    /\ sweep \in [Sessions -> [of : {"none", "all"} \union Jobs,
                               at : 1..(MaxPid + 1), hits : SUBSET Pids]]
    /\ loose \subseteq Pids
    /\ \A n \in Pids : (n > last) = (proc[n].st = "free")

Init ==
    /\ marsh = [s \in Sessions |-> "off"]
    /\ files = [s \in Sessions |-> FALSE]
    /\ job = [s \in Sessions |-> [j \in Jobs |-> "idle"]]
    /\ proc = [n \in Pids |-> NoProc]
    /\ last = 0
    /\ sweep = [s \in Sessions |-> NoSweep]
    /\ loose = {}

-----------------------------------------------------------------------------
(* The lock and the kernel.                                                *)

\* Holders of the open file description session s locked.
Held(s) ==
    \/ files[s]
    \/ \E n \in Pids : proc[n].session = s /\ proc[n].st \in {"forked", "armed", "checked"}

\* A lock the opener alone would hold, and the one flock gives.
HeldByOwner(s) == files[s]

Locked(s) == Held(s)

\* acquire: EWOULDBLOCK is SessionBusy, and the process gives up.
Acquire(s) ==
    /\ marsh[s] = "off"
    /\ \A r \in Sessions \ {s} : ~Locked(r)
    /\ marsh' = [marsh EXCEPT ![s] = "leased"]
    /\ files' = [files EXCEPT ![s] = TRUE]
    /\ UNCHANGED <<job, proc, last, sweep, loose>>

\* build: the tracer is probed and the launcher started, or the layer is
\* dropped and the lease with it.
Build(s) ==
    /\ marsh[s] = "leased"
    /\ \/ marsh' = [marsh EXCEPT ![s] = "built"] /\ UNCHANGED files
       \/ /\ marsh' = [marsh EXCEPT ![s] = "dead"]
          /\ files' = [files EXCEPT ![s] = FALSE]
    /\ UNCHANGED <<job, proc, last, sweep, loose>>

\* ShellMux::new materializes the state directory and looks for leftovers.
Materialize(s) ==
    /\ marsh[s] = "built"
    /\ marsh' = [marsh EXCEPT ![s] = "sweeping"]
    /\ sweep' = [sweep EXCEPT ![s] = [NoSweep EXCEPT !.of = "all"]]
    /\ UNCHANGED <<files, job, proc, last, loose>>

\* A session dies at any point.
Crash(s) ==
    /\ marsh[s] \in {"leased", "built", "sweeping", "open"}
    /\ marsh' = [marsh EXCEPT ![s] = "dying"]
    /\ sweep' = [sweep EXCEPT ![s] = NoSweep]
    /\ UNCHANGED <<files, job, proc, last, loose>>

\* Its descriptors are closed, ...
CloseFiles(s) ==
    /\ marsh[s] \in {"dying", "dead"} /\ files[s]
    /\ files' = [files EXCEPT ![s] = FALSE]
    /\ UNCHANGED <<marsh, job, proc, last, sweep, loose>>

Doomed(ns) == [n \in Pids |-> IF n \in ns /\ Alive(n) THEN [proc[n] EXCEPT !.st = "doomed"]
                              ELSE proc[n]]

IsTracer(n) == proc[n].tracer = 0

\* ... and the thread that forked its tracers ends: those that asked to be
\* killed by then are.
EndThreads(s) ==
    /\ marsh[s] = "dying"
    /\ marsh' = [marsh EXCEPT ![s] = "dead"]
    /\ proc' = Doomed({n \in Pids : proc[n].session = s /\ IsTracer(n)
                                    /\ proc[n].st \in {"armed", "checked", "live"}})
    /\ UNCHANGED <<files, job, last, sweep, loose>>

\* The tracees of a tracer, killed with it (--kill-on-exit).
Tracees(n) == {m \in Pids : proc[m].tracer = n /\ proc[m].st = "live"}

\* Without --kill-on-exit they would be let go.
NoTracees(n) == {}

KilledWith(n) == Tracees(n)

\* A doomed process is gone, and a tracer takes its tracees with it.
Die(n) ==
    /\ proc[n].st = "doomed"
    /\ proc' = [Doomed(KilledWith(n)) EXCEPT ![n].st = "gone"]
    /\ UNCHANGED <<marsh, files, job, last, sweep, loose>>

-----------------------------------------------------------------------------
(* Commands.                                                               *)

\* The launcher forks a tracer for the command of job j.
Fork(s, j) ==
    /\ marsh[s] = "open" /\ job[s][j] = "idle" /\ last < MaxPid
    /\ last' = last + 1
    /\ proc' = [proc EXCEPT ![last'] =
                   [st |-> "forked", session |-> s, job |-> j, tracer |-> 0,
                    marked |-> FALSE, grouped |-> TRUE]]
    /\ job' = [job EXCEPT ![s][j] = "running"]
    /\ UNCHANGED <<marsh, files, sweep, loose>>

\* child_setup: the parent-death signal is installed first ...
Arm(n) ==
    /\ proc[n].st = "forked"
    /\ proc' = [proc EXCEPT ![n].st = "armed"]
    /\ UNCHANGED <<marsh, files, job, last, sweep, loose>>

\* ... and then the parent compared, for one that died in between sends none.
ParentLives(n) == marsh[proc[n].session] # "dead"

ParentUnchecked(n) == TRUE

ParentCheck(n) == ParentLives(n)

CheckParent(n) ==
    /\ proc[n].st = "armed"
    /\ proc' = [proc EXCEPT ![n].st = IF ParentCheck(n) THEN "checked" ELSE "gone"]
    /\ UNCHANGED <<marsh, files, job, last, sweep, loose>>

\* execve: the environment with its markers is in place and the lock's
\* descriptor closed.
Exec(n) ==
    /\ proc[n].st = "checked"
    /\ proc' = [proc EXCEPT ![n].st = "live", ![n].marked = TRUE]
    /\ UNCHANGED <<marsh, files, job, last, sweep, loose>>

\* A traced process starts another, which may leave the process group or
\* have been given an environment without the markers.
Spawn(n) ==
    /\ proc[n].st = "live" /\ last < MaxPid
    /\ last' = last + 1
    /\ \E marked \in {proc[n].marked, FALSE}, grouped \in {proc[n].grouped, FALSE} :
          proc' = [proc EXCEPT ![last'] =
                      [proc[n] EXCEPT !.marked = marked, !.grouped = grouped,
                                      !.tracer = IF IsTracer(n) THEN n ELSE @]]
    /\ UNCHANGED <<marsh, files, job, sweep, loose>>

\* A traced process ends; the tracer ends when it has none left.
Exit(n) ==
    /\ proc[n].st = "live"
    /\ IsTracer(n) => \A m \in Pids : proc[m].tracer = n => ~Alive(m)
    /\ proc' = [proc EXCEPT ![n].st = "gone"]
    /\ UNCHANGED <<marsh, files, job, last, sweep, loose>>

\* The processes of job j of session s, and its tracer among them.
Of(s, j) == {n \in Pids : proc[n].session = s /\ proc[n].job = j}

Group(s, j) == {n \in Of(s, j) : proc[n].grouped /\ proc[n].st # "gone"}

TracerGone(s, j) == \A n \in Of(s, j) : IsTracer(n) => proc[n].st = "gone"

\* conclude of a command that ended by itself.
Conclude(s, j) ==
    /\ marsh[s] = "open" /\ job[s][j] = "running" /\ TracerGone(s, j)
    /\ job' = [job EXCEPT ![s][j] = "idle"]
    /\ UNCHANGED <<marsh, files, proc, last, sweep, loose>>

Launched(s, j) == \A n \in Of(s, j) : IsTracer(n) => proc[n].st \notin {"forked", "armed", "checked"}

\* force_stop: SIGKILL for the process group.
ForceStop(s, j) ==
    /\ marsh[s] = "open" /\ job[s][j] = "running" /\ Launched(s, j)
    /\ proc' = Doomed(Group(s, j))
    /\ job' = [job EXCEPT ![s][j] = "killed"]
    /\ UNCHANGED <<marsh, files, last, sweep, loose>>

\* conclude_cmd of a forced stop, the tracer being reaped: terminate_owner
\* comes before the tree is handed on.
SweepOwner(s, j) ==
    /\ marsh[s] = "open" /\ job[s][j] = "killed" /\ TracerGone(s, j)
    /\ sweep[s].of = "none"
    /\ job' = [job EXCEPT ![s][j] = "sweeping"]
    /\ sweep' = [sweep EXCEPT ![s] = [NoSweep EXCEPT !.of = j]]
    /\ UNCHANGED <<marsh, files, proc, last, loose>>

\* abandon, where the exit of a launch cannot be watched, and the timeout of
\* run_traced: the group is killed and the tracer waited for, no more.
KillGroup(s, j) ==
    /\ marsh[s] = "open" /\ job[s][j] = "running" /\ Launched(s, j)
    /\ MayAbandon \/ MayTimeOut
    /\ proc' = Doomed(Group(s, j))
    /\ job' = [job EXCEPT ![s][j] = "reaping"]
    /\ UNCHANGED <<marsh, files, last, sweep, loose>>

Reap(s, j) ==
    /\ marsh[s] = "open" /\ job[s][j] = "reaping" /\ TracerGone(s, j)
    /\ job' = [job EXCEPT ![s][j] = "idle"]
    /\ loose' = loose \union {n \in Of(s, j) : Alive(n)}
    /\ UNCHANGED <<marsh, files, proc, last, sweep>>

-----------------------------------------------------------------------------
(* terminate_marked.                                                       *)

\* process_belongs_to_session, read twice around pidfd_open; a zombie has no
\* environment.
Belongs(s, n) ==
    /\ proc[n].marked /\ proc[n].st \in {"live", "doomed"}
    /\ sweep[s].of # "all" => proc[n].job = sweep[s].of

\* One entry of /proc, in the order of their numbers.
Visit(s) ==
    LET n == sweep[s].at
    IN  /\ sweep[s].of # "none" /\ n <= MaxPid
        /\ \/ /\ Belongs(s, n)
              /\ proc' = Doomed({n})
              /\ sweep' = [sweep EXCEPT ![s].at = n + 1, ![s].hits = @ \union {n}]
           \/ /\ ~Belongs(s, n)
              /\ sweep' = [sweep EXCEPT ![s].at = n + 1]
              /\ UNCHANGED proc
        /\ UNCHANGED <<marsh, files, job, last, loose>>

\* What becomes of the one that asked for the sweep.
SweptAll(s) ==
    /\ marsh' = [marsh EXCEPT ![s] = "open"]
    /\ UNCHANGED job

SweptJob(s) ==
    /\ job' = [job EXCEPT ![s][sweep[s].of] = "idle"]
    /\ UNCHANGED marsh

\* Whether the sweep is over: a scan that found nothing.
ScanFound(s) == sweep[s].hits # {}

ScanFoundNever(s) == FALSE

Again(s) == ScanFound(s)

\* The end of a scan.  Every process signalled is waited for, and then
\* everything is scanned once more.
EndScan(s) ==
    /\ sweep[s].of # "none" /\ sweep[s].at > MaxPid
    /\ IF Again(s)
       THEN /\ \A n \in sweep[s].hits : proc[n].st = "gone"
            /\ sweep' = [sweep EXCEPT ![s] = [NoSweep EXCEPT !.of = sweep[s].of]]
            /\ UNCHANGED <<marsh, job>>
       ELSE /\ sweep' = [sweep EXCEPT ![s] = NoSweep]
            /\ IF sweep[s].of = "all" THEN SweptAll(s) ELSE SweptJob(s)
    /\ UNCHANGED <<files, proc, last, loose>>

\* The deadline passes first: the session does not open, or the job keeps its
\* tree (JobTermination).
SweepTimesOut(s) ==
    /\ sweep[s].of # "none" /\ sweep[s].at > MaxPid
    /\ \E n \in sweep[s].hits : proc[n].st # "gone"
    /\ sweep' = [sweep EXCEPT ![s] = NoSweep]
    /\ IF sweep[s].of = "all"
       THEN marsh' = [marsh EXCEPT ![s] = "dead"] /\ UNCHANGED job
       ELSE job' = [job EXCEPT ![s][sweep[s].of] = "kept"] /\ UNCHANGED marsh
    /\ UNCHANGED <<files, proc, last, loose>>

Kernel ==
    \/ \E n \in Pids : Die(n) \/ Arm(n) \/ CheckParent(n) \/ Exec(n)
    \/ \E s \in Sessions : CloseFiles(s) \/ EndThreads(s)

Next ==
    \/ Kernel
    \/ \E n \in Pids : Spawn(n) \/ Exit(n)
    \/ \E s \in Sessions :
          \/ Acquire(s) \/ Build(s) \/ Materialize(s) \/ Crash(s)
          \/ Visit(s) \/ EndScan(s) \/ SweepTimesOut(s)
          \/ \E j \in Jobs :
                \/ Fork(s, j) \/ Conclude(s, j) \/ ForceStop(s, j)
                \/ SweepOwner(s, j)
                \/ KillGroup(s, j) \/ Reap(s, j)

\* The kernel delivers signals, and a forked child reaches its exec.
Fairness ==
    /\ \A n \in Pids :
          WF_vars(Die(n)) /\ WF_vars(Arm(n)) /\ WF_vars(CheckParent(n)) /\ WF_vars(Exec(n))
    /\ \A s \in Sessions : WF_vars(EndThreads(s))

Spec == Init /\ [][Next]_vars /\ Fairness

-----------------------------------------------------------------------------
(* Properties.                                                             *)

Past(s) == marsh[s] \in {"leased", "built", "sweeping", "open"}

\* One session at a time: from its lease on, no other session runs, and none
\* has a child that could still become a tracer (acquire, O_CLOEXEC).
OneOwner ==
    \A s, r \in Sessions :
        s # r /\ Past(s) =>
            /\ ~Past(r)
            /\ \A n \in Pids :
                  proc[n].session = r => proc[n].st \notin {"forked", "armed", "checked"}

\* When recovery may begin, nothing of an earlier session is left but what was
\* already killed and had dropped its markers (terminate_orphans, child_setup,
\* --kill-on-exit).
NoStragglers ==
    \A s \in Sessions : marsh[s] = "open" =>
        \A n \in Pids :
            proc[n].session # s /\ Alive(n) => proc[n].st = "doomed" /\ ~proc[n].marked

\* A job's tree is handed on when its command has been killed: whatever is left
\* of it has been sent SIGKILL, and only a timeout or an abandoned launch leaves
\* anything that still bears its markers, which a sweep would have waited for
\* (terminate_owner, conclude_cmd, --kill-on-exit).
QuietTree ==
    \A s \in Sessions, j \in Jobs :
        marsh[s] = "open" /\ job[s][j] = "idle" =>
            \A n \in Of(s, j) : Alive(n) =>
                /\ proc[n].st = "doomed"
                /\ proc[n].marked => n \in loose

\* "released only once it is known dead: a live process may still be writing
\* into that tree" (start_cmd).
KnownDead ==
    \A s \in Sessions, j \in Jobs :
        marsh[s] = "open" /\ job[s][j] = "idle" =>
            \A n \in Of(s, j) : Alive(n) => ~proc[n].marked

\* No process outlives a session that died, whether or not another follows
\* (PR_SET_PDEATHSIG and the getppid check, --kill-on-exit).
OrphansDie ==
    \A s \in Sessions :
        marsh[s] = "dying" ~> \A n \in Pids : proc[n].session = s => ~Alive(n)
=============================================================================
