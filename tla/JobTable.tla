------------------------------- MODULE JobTable -------------------------------
(***************************************************************************)
(* The job table and the conclusion queue of src/shellmux/src/jobs.rs: how *)
(* jobs are opened, given commands, stopped and reclaimed while one task   *)
(* concludes the commands that have ended.                                 *)
(*                                                                         *)
(* A job is a row, found by name at every step; its storage is a tree      *)
(* named by its uid.  A step is one critical section of the table or of    *)
(* the queue, or what happens between two.  Only stop and conclude_one     *)
(* take one of the two mutexes while they hold the other, so only they     *)
(* may keep a mutex across a step.                                         *)
(*                                                                         *)
(* Commands are transactions here: what a bypassed command does to the     *)
(* tree it shares is ReaderTrees' subject.                                 *)
(***************************************************************************)
EXTENDS Naturals, Sequences, FiniteSets

CONSTANTS
    Callers,        \* frontend tasks that call the mux
    Names,          \* ShellIds
    Series,         \* the names next_id draws
    Concluder,      \* the task of conclude_queue
    None,
    Faults,         \* what may fail: "build", "launch", "kill", "terminate"
    MaxJobs,        \* bound: sandboxes created
    MaxCommands     \* bound: launches that get as far as the fork, or fail there

ASSUME SeriesAssumption == Series \subseteq Names
ASSUME FaultsAssumption == Faults \subseteq {"build", "launch", "kill", "terminate"}
ASSUME BoundsAssumption == MaxJobs \in Nat /\ MaxCommands \in Nat

Jobs == 1..MaxJobs
Commands == 1..MaxCommands

\* A spawn with a command leaves the launch to a task of its own, named here
\* by the job.
Launchers == Callers \union Jobs
Tasks == Launchers \union {Concluder}

ASSUME TasksAssumption == Callers \intersect Jobs = {} /\ Concluder \notin Launchers

Row == [uid : Jobs, resources : Jobs \union {0}, starting : BOOLEAN,
        running : Commands \union {0},
        close : {"never", "automatic", "graceful", "force"},
        done : Commands \union {0}]

ASSUME NoneAssumption == None \notin Row

VARIABLES
    row,            \* JobTable::open by name, None where no job has it
    pending,        \* ConclusionQueue::pending
    active,         \* ConclusionQueue::active
    queueLock,      \* the task that holds the queue's mutex across a step
    tableLock,      \* the task that holds the table's
    task,           \* [Tasks -> what the task is doing, for which job]
    drawn,          \* names the series has given
    uids,           \* sandboxes created
    command,        \* [Commands -> its job's uid and name, and how it stands]
    tree,           \* [Jobs -> the command whose tree it is, 0 when none]
    terminal,       \* [Jobs -> {"unopened", "open", "closed"}]
    excused         \* history variable: jobs that met a hazard named below

vars == <<row, pending, active, queueLock, tableLock, task, drawn, uids,
          command, tree, terminal, excused>>

NoCommand == [uid |-> 0, id |-> None, state |-> "none", forced |-> FALSE]
Idle == [pc |-> "idle", id |-> None, uid |-> 0, resources |-> 0, cmd |-> 0,
         flag |-> FALSE]

\* A row of the table, and one with a stop a reader asked for.
Open(id) == row[id] # None
Explicit(r) == r.close \in {"graceful", "force"}
Retired(r) == r.close = "force"

Built(id) == Open(id) /\ row[id].resources # 0

\* Whether a start_in finds the job busy.
BusyRunning(r) == r.running # 0

Busy(r) == r.running # 0 \/ r.starting

\* take_closable: all the table knows of a job with nothing in flight.
ClosableRunning(r) == r.close # "never" /\ r.running = 0

Closable(r) == r.close # "never" /\ r.running = 0 /\ ~r.starting

\* Whether the queue knows of a conclusion the job owes.
OwesNothing(id) == FALSE

Owes(id) == active[id] > 0

TypeOK ==
    /\ row \in [Names -> Row \union {None}]
    /\ pending \in Seq(Commands)
    /\ active \in [Names -> 0..MaxCommands]
    /\ queueLock \in Callers \union {None}
    /\ tableLock \in {Concluder, None}
    /\ \A x \in Tasks :
          /\ task[x].id \in Names \union {None}
          /\ {task[x].uid, task[x].resources} \subseteq Jobs \union {0}
          /\ task[x].cmd \in Commands \union {0}
    /\ drawn \subseteq Series
    /\ uids \in 0..MaxJobs
    /\ tree \in [Jobs -> Commands \union {0}]
    /\ terminal \in [Jobs -> {"unopened", "open", "closed"}]
    /\ \A id \in Names : Open(id) => ~(row[id].starting /\ row[id].running # 0)
    /\ \A i, k \in DOMAIN pending : i # k => pending[i] # pending[k]

Init ==
    /\ row = [id \in Names |-> None]
    /\ pending = <<>>
    /\ active = [id \in Names |-> 0]
    /\ queueLock = None /\ tableLock = None
    /\ task = [x \in Tasks |-> Idle]
    /\ drawn = {}
    /\ uids = 0
    /\ command = [c \in Commands |-> NoCommand]
    /\ tree = [u \in Jobs |-> 0]
    /\ terminal = [u \in Jobs |-> "unopened"]
    /\ excused = {}

At(x, pc) == task[x].pc = pc
Goto(x, pc) == task' = [task EXCEPT ![x].pc = pc]
Return(x) == task' = [task EXCEPT ![x] = Idle]
TableFree == tableLock = None
QueueFree == queueLock = None

\* Dropping a row's resources closes the terminal among them.
Dropped(resources) ==
    [u \in Jobs |-> IF u = resources THEN "closed" ELSE terminal[u]]

\* Launches reserved and not carried out yet, so that the bound on commands
\* never stops one half way.
Reserved ==
    {x \in Launchers : \/ task[x].pc \in {"waiting", "preparing", "launching"}
                       \/ At(x, "building") /\ task[x].flag}

Launched == {c \in Commands : command[c].state # "none"}

CanReserve == Cardinality(Reserved) + Cardinality(Launched) < MaxCommands

\* A command was reaped and its conclusion has not reached the queue.
Unsubmitted(id) ==
    \E c \in Commands : command[c].id = id /\ command[c].state = "reaped"

\* A job is taken for one with nothing in flight.
TakenForIdle(id, takes) ==
    excused' = IF takes /\ Unsubmitted(id) THEN excused \union {row[id].uid}
               ELSE excused

locks == <<queueLock, tableLock>>
queue == <<pending, active>>
-----------------------------------------------------------------------------
(* Opening a job: spawn and build_resources.                               *)

\* The reservation.  An anonymous job takes its name from the series, and
\* closes itself when it was opened for a command.
Spawn(t, id, opens, anonymous) ==
    /\ At(t, "idle") /\ TableFree
    /\ ~Open(id)
    /\ anonymous => id \in Series \ drawn
    /\ uids < MaxJobs /\ (opens => CanReserve)
    /\ uids' = uids + 1
    /\ drawn' = IF anonymous THEN drawn \union {id} ELSE drawn
    /\ row' = [row EXCEPT ![id] =
                  [uid |-> uids', resources |-> 0, starting |-> opens,
                   running |-> 0,
                   close |-> IF anonymous /\ opens THEN "automatic" ELSE "never",
                   done |-> 0]]
    /\ task' = [task EXCEPT ![t] = [Idle EXCEPT !.pc = "building", !.id = id,
                                                !.uid = uids', !.flag = opens]]
    /\ UNCHANGED <<queue, locks, command, tree, terminal, excused>>

\* The terminal is published in the row of that name, whosever it is by now.
\* The launch is handed to a task.
Build(t) ==
    /\ At(t, "building") /\ TableFree
    /\ LET id == task[t].id
           u == task[t].uid
       IN  \/ /\ Open(id)
              /\ row' = [row EXCEPT ![id].resources = u]
              /\ terminal' = [Dropped(row[id].resources) EXCEPT ![u] = "open"]
              /\ task' = [x \in Tasks |->
                             IF x = t THEN Idle
                             ELSE IF x = u /\ task[t].flag
                             THEN [Idle EXCEPT !.pc = "preparing", !.id = id, !.uid = u]
                             ELSE task[x]]
              /\ excused' = IF row[id].uid = u THEN excused ELSE Jobs
           \/ /\ ~Open(id)
              /\ Goto(t, "unspawning")
              /\ UNCHANGED <<row, terminal, excused>>
    /\ UNCHANGED <<queue, locks, drawn, uids, command, tree>>

BuildFails(t) ==
    /\ At(t, "building") /\ "build" \in Faults
    /\ Goto(t, "unspawning")
    /\ UNCHANGED <<row, queue, locks, drawn, uids, command, tree, terminal, excused>>

\* spawn's error path removes the row of that name, likewise, and whoever has
\* reserved it.
Unspawn(t) ==
    /\ At(t, "unspawning") /\ TableFree
    /\ LET id == task[t].id
       IN  \/ /\ Open(id)
              /\ row' = [row EXCEPT ![id] = None]
              /\ terminal' = Dropped(row[id].resources)
              /\ excused' = IF /\ row[id].uid = task[t].uid
                               /\ row[id].starting => task[t].flag
                            THEN excused ELSE Jobs
           \/ ~Open(id) /\ UNCHANGED <<row, terminal, excused>>
    /\ Return(t)
    /\ UNCHANGED <<queue, locks, drawn, uids, command, tree>>

-----------------------------------------------------------------------------
(* Giving a job a command: start_in and launch_command.                    *)

\* The reservation.
StartIn(t, id, calls) ==
    /\ At(t, "idle") /\ TableFree
    /\ Open(id) /\ ~Explicit(row[id]) /\ ~Busy(row[id])
    /\ CanReserve
    /\ row' = [row EXCEPT ![id].starting = TRUE]
    /\ task' = [task EXCEPT ![t] = [Idle EXCEPT !.pc = "waiting", !.id = id,
                                                !.flag = calls]]
    /\ UNCHANGED <<queue, locks, drawn, uids, command, tree, terminal, excused>>

\* merges.wait_for: no conclusion the queue knows of is left.
Await(t) ==
    /\ At(t, "waiting") /\ QueueFree
    /\ ~Owes(task[t].id)
    /\ Goto(t, "preparing")
    /\ TakenForIdle(task[t].id, Open(task[t].id))
    /\ UNCHANGED <<row, queue, locks, drawn, uids, command, tree, terminal>>

\* What follows a failed launch: start_in returns, a spawn's task reports it.
Failed(x, id, retained) ==
    task' = [task EXCEPT ![x] =
                IF x \in Jobs
                THEN [Idle EXCEPT !.pc = "reporting", !.id = id, !.flag = retained]
                ELSE Idle]

\* The sandbox and its terminal are looked up.  A job that is not built yet
\* is refused, its reservation kept.
Prepare(x) ==
    /\ At(x, "preparing") /\ TableFree
    /\ LET id == task[x].id
       IN  \/ /\ Built(id)
              /\ task' = [task EXCEPT ![x].pc = "launching", ![x].uid = row[id].uid]
              /\ UNCHANGED excused
           \/ /\ ~Built(id)
              /\ Failed(x, id, FALSE)
              /\ excused' = IF Open(id) THEN excused \union {row[id].uid} ELSE excused
    /\ UNCHANGED <<row, queue, locks, drawn, uids, command, tree, terminal>>

\* The next command, which is about to be forked.
NextCommand(c) == \A d \in Commands : command[d].state = "none" <=> d >= c

\* ensure_principal or start_cmd fails: before the tree was retaken, while it
\* was, or after.
LaunchFails(x) ==
    /\ At(x, "launching") /\ TableFree /\ "launch" \in Faults
    /\ LET id == task[x].id
           u == task[x].uid
       IN /\ \E c \in Commands :
                /\ NextCommand(c)
                /\ command' = [command EXCEPT ![c] = [uid |-> u, id |-> id,
                                                      state |-> "failed", forced |-> FALSE]]
                /\ \E left \in {tree[u], 0, c} : tree' = [tree EXCEPT ![u] = left]
          /\ row' = IF Open(id) THEN [row EXCEPT ![id].starting = FALSE] ELSE row
          /\ Failed(x, id, FALSE)
          /\ excused' = IF x \in Callers /\ Open(id) /\ Explicit(row[id])
                        THEN excused \union {row[id].uid} ELSE excused
    /\ UNCHANGED <<queue, locks, drawn, uids, terminal>>

\* start_cmd: the job's tree is deleted and taken anew, the tracer forked.
Fork(x) ==
    /\ At(x, "launching")
    /\ \E c \in Commands :
          /\ NextCommand(c)
          /\ command' = [command EXCEPT ![c] = [uid |-> task[x].uid, id |-> task[x].id,
                                                state |-> "alive", forced |-> FALSE]]
          /\ tree' = [tree EXCEPT ![task[x].uid] = c]
          /\ task' = [task EXCEPT ![x].pc = "publishing", ![x].cmd = c]
    /\ UNCHANGED <<row, queue, locks, drawn, uids, terminal, excused>>

\* RunningExecution::force_stop and the flag that goes with it.
Kill(c) ==
    command' = [command EXCEPT ![c].forced = TRUE,
                               ![c].state = IF @ = "alive" THEN "exited" ELSE @]

\* The row of a job that runs c now.
Published(r, c) == [r EXCEPT !.running = c, !.starting = FALSE]

\* The command is published in the row, and a force accepted meanwhile is
\* carried out; when the kill fails the job is visible again.
Publish(x) ==
    /\ At(x, "publishing") /\ TableFree
    /\ LET id == task[x].id
           c == task[x].cmd
           r == Published(row[id], c)
           calls == IF task[x].flag THEN c ELSE 0
       IN  \/ /\ Open(id) /\ ~Retired(row[id])
              /\ row' = [row EXCEPT ![id] = [r EXCEPT !.done = calls]]
              /\ Return(x) /\ UNCHANGED command
           \/ /\ Open(id) /\ Retired(row[id])
              /\ row' = [row EXCEPT ![id] = [r EXCEPT !.done = calls]]
              /\ Kill(c) /\ Return(x)
           \/ /\ Open(id) /\ Retired(row[id]) /\ "kill" \in Faults
              /\ row' = [row EXCEPT ![id] = [r EXCEPT !.close = "graceful"]]
              /\ Failed(x, id, TRUE)
              /\ UNCHANGED command
           \/ ~Open(id) /\ Return(x) /\ UNCHANGED <<row, command>>
    /\ UNCHANGED <<queue, locks, drawn, uids, tree, terminal, excused>>

-----------------------------------------------------------------------------
(* The end of a command: watch_command, reap_command, conclude_one.        *)

Exit(c) ==
    /\ command[c].state = "alive"
    /\ command' = [command EXCEPT ![c].state = "exited"]
    /\ UNCHANGED <<row, queue, locks, task, drawn, uids, tree, terminal, excused>>

\* The child is reaped and the command taken off its row; the table is let
\* go of.
Reap(c) ==
    /\ command[c].state = "exited" /\ TableFree
    /\ LET id == command[c].id
       IN  /\ Open(id) /\ row[id].running = c
           /\ row' = [row EXCEPT ![id].running = 0]
    /\ command' = [command EXCEPT ![c].state = "reaped"]
    /\ UNCHANGED <<queue, locks, task, drawn, uids, tree, terminal, excused>>

\* Merges::submit.
Submit(c) ==
    /\ command[c].state = "reaped" /\ QueueFree
    /\ active' = [active EXCEPT ![command[c].id] = @ + 1]
    /\ pending' = Append(pending, c)
    /\ command' = [command EXCEPT ![c].state = "queued"]
    /\ UNCHANGED <<row, locks, task, drawn, uids, tree, terminal, excused>>

\* Merges::take.
Take ==
    /\ At(Concluder, "idle") /\ QueueFree
    /\ pending # <<>>
    /\ pending' = Tail(pending)
    /\ task' = [task EXCEPT ![Concluder] =
                   [Idle EXCEPT !.pc = "concluding", !.cmd = Head(pending),
                                !.id = command[Head(pending)].id]]
    /\ UNCHANGED <<row, active, locks, drawn, uids, command, tree, terminal, excused>>

\* conclude_cmd: the tree is diffed and what is granted published.  The
\* processes of a forced command may not be proven gone; its tree is kept.
Conclude ==
    /\ At(Concluder, "concluding")
    /\ LET c == task[Concluder].cmd
       IN  /\ \E retained \in {FALSE} \union {command[c].forced /\ "terminate" \in Faults} :
                 /\ task' = [task EXCEPT ![Concluder].pc = "delivering",
                                         ![Concluder].flag = retained]
                 /\ excused' = IF retained THEN excused \union {command[c].uid}
                               ELSE excused
           /\ command' = [command EXCEPT ![c].state = "concluded"]
    /\ UNCHANGED <<row, queue, locks, drawn, uids, tree, terminal>>

\* deliver: the callback is taken off the row and called.
Deliver ==
    /\ At(Concluder, "delivering") /\ TableFree
    /\ LET id == task[Concluder].id
       IN  row' = IF Open(id) THEN [row EXCEPT ![id].done = 0] ELSE row
    /\ Goto(Concluder, "finishing")
    /\ UNCHANGED <<queue, locks, drawn, uids, command, tree, terminal, excused>>

\* What is left of a count when a conclusion is reported.
SettledNever(n) == n

Settled(n) == IF n > 0 THEN n - 1 ELSE 0

\* Merges::finish.
Finish ==
    /\ At(Concluder, "finishing") /\ QueueFree
    /\ active' = [active EXCEPT ![task[Concluder].id] = Settled(@)]
    /\ Goto(Concluder, "locking")
    /\ UNCHANGED <<row, pending, locks, drawn, uids, command, tree, terminal, excused>>

\* The table is locked, and under it the queue is asked.
LockTable ==
    /\ At(Concluder, "locking") /\ TableFree
    /\ tableLock' = Concluder
    /\ Goto(Concluder, "checking")
    /\ UNCHANGED <<row, queue, queueLock, drawn, uids, command, tree, terminal, excused>>

\* The row r of a job that closes is gone; x goes on to reclaim its storage.
TakeRow(x, id, r) ==
    /\ row' = [row EXCEPT ![id] = None]
    /\ task' = [task EXCEPT ![x] = [Idle EXCEPT !.pc = "reclaiming", !.uid = r.uid,
                                                !.resources = r.resources]]

Check ==
    /\ At(Concluder, "checking") /\ QueueFree
    /\ tableLock' = None
    /\ LET id == task[Concluder].id
           closes == Open(id) /\ Closable(row[id]) /\ ~Owes(id)
           retained == task[Concluder].flag
       IN  /\ \/ ~closes /\ Return(Concluder) /\ UNCHANGED <<row, terminal>>
              \/ /\ closes /\ ~retained
                 /\ TakeRow(Concluder, id, row[id]) /\ UNCHANGED terminal
              \/ /\ closes /\ retained
                 /\ row' = [row EXCEPT ![id] = None]
                 /\ terminal' = Dropped(row[id].resources)
                 /\ Return(Concluder)
           /\ IF closes /\ row[id].uid # command[task[Concluder].cmd].uid
              THEN excused' = excused \union {row[id].uid}
              ELSE TakenForIdle(id, closes)
    /\ UNCHANGED <<queue, queueLock, drawn, uids, command, tree>>

\* reclaim: the storage goes first, the terminal last.
ReclaimedTree(u) == [tree EXCEPT ![u] = 0]

Reclaim(x) ==
    /\ At(x, "reclaiming")
    /\ tree' = ReclaimedTree(task[x].uid)
    /\ Goto(x, "dropping")
    /\ UNCHANGED <<row, queue, locks, drawn, uids, command, terminal, excused>>

Drop(x) ==
    /\ At(x, "dropping")
    /\ terminal' = Dropped(task[x].resources)
    /\ Return(x)
    /\ UNCHANGED <<row, queue, locks, drawn, uids, command, tree, excused>>

-----------------------------------------------------------------------------
(* Stopping, keeping and watching a job.                                   *)

\* The job is closed by whoever finds it with nothing in flight: the stop
\* here, or conclude_one when the job's command is concluded.
AcceptStop(t, id, mode) ==
    LET r == [row[id] EXCEPT !.close = mode]
        closes == Closable(r) /\ ~Owes(id)
    IN  /\ \/ ~closes /\ row' = [row EXCEPT ![id] = r] /\ UNCHANGED task
           \/ closes /\ TakeRow(t, id, r)
        /\ TakenForIdle(id, closes)

\* stop, with the queue's mutex and the table's.
Stop(t, id) ==
    /\ At(t, "idle") /\ QueueFree /\ TableFree
    /\ Open(id) /\ ~Retired(row[id])
    /\ AcceptStop(t, id, "graceful")
    /\ UNCHANGED <<queue, locks, drawn, uids, command, tree, terminal>>

\* A forced stop kills first, and is refused when it cannot.
ForceStop(t, id) ==
    /\ At(t, "idle") /\ QueueFree /\ TableFree
    /\ Open(id) /\ ~Retired(row[id])
    /\ IF row[id].running # 0 THEN Kill(row[id].running) ELSE UNCHANGED command
    /\ AcceptStop(t, id, "force")
    /\ UNCHANGED <<queue, locks, drawn, uids, tree, terminal>>

\* Either takes the queue's mutex first, and may have to wait for the table's.
\* Only the conclusion task holds that one across a step, asking for the
\* queue's, so neither will go on.
StopBlocks(t) ==
    /\ At(t, "idle") /\ QueueFree /\ ~TableFree
    /\ queueLock' = t
    /\ Goto(t, "blocked")
    /\ UNCHANGED <<row, queue, tableLock, drawn, uids, command, tree, terminal, excused>>

\* keep, which switch calls too.
Keep(t, id) ==
    /\ At(t, "idle") /\ TableFree
    /\ Open(id) /\ row[id].close = "automatic"
    /\ row' = [row EXCEPT ![id].close = "never"]
    /\ UNCHANGED <<queue, locks, task, drawn, uids, command, tree, terminal, excused>>

\* on_finish.
OnFinish(t, id) ==
    /\ At(t, "idle") /\ TableFree
    /\ Open(id) /\ row[id].running # 0 /\ row[id].done = 0
    /\ row' = [row EXCEPT ![id].done = row[id].running]
    /\ UNCHANGED <<queue, locks, task, drawn, uids, command, tree, terminal, excused>>

\* report_launch_failure: the failure is delivered as the command's end.
Report(x) ==
    /\ At(x, "reporting") /\ TableFree
    /\ LET id == task[x].id
       IN  row' = IF Open(id) THEN [row EXCEPT ![id].done = 0] ELSE row
    /\ Goto(x, "retiring")
    /\ UNCHANGED <<queue, locks, drawn, uids, command, tree, terminal, excused>>

\* Then the job is closed, whatever the queue knows of it, unless its command
\* is alive after all.
Retire(x) ==
    /\ At(x, "retiring") /\ TableFree
    /\ LET id == task[x].id
           r == [row[id] EXCEPT !.close = "graceful"]
           retained == task[x].flag
       IN  \/ /\ retained \/ ~Open(id)
              /\ Return(x) /\ UNCHANGED <<row, excused>>
           \/ /\ ~retained /\ Open(id) /\ ~Closable(r)
              /\ row' = [row EXCEPT ![id] = r]
              /\ Return(x) /\ UNCHANGED excused
           \/ /\ ~retained /\ Open(id) /\ Closable(r)
              /\ TakeRow(x, id, r)
              /\ excused' = IF Owes(id) \/ Unsubmitted(id)
                            THEN excused \union {r.uid} ELSE excused
    /\ UNCHANGED <<queue, locks, drawn, uids, command, tree, terminal>>

-----------------------------------------------------------------------------

\* What a frontend asks for.
Call(t) ==
    \E id \in Names :
        \/ \E opens, anonymous \in BOOLEAN : Spawn(t, id, opens, anonymous)
        \/ \E calls \in BOOLEAN : StartIn(t, id, calls)
        \/ Stop(t, id) \/ ForceStop(t, id) \/ StopBlocks(t)
        \/ Keep(t, id)
        \/ OnFinish(t, id)

\* What the mux does about it.
LauncherStep(x) ==
    \/ Prepare(x) \/ LaunchFails(x) \/ Fork(x) \/ Publish(x)
    \/ Reclaim(x) \/ Drop(x)

CallerStep(t) ==
    \/ Build(t) \/ BuildFails(t) \/ Unspawn(t)
    \/ Await(t) \/ LauncherStep(t)

OpenerStep(u) == LauncherStep(u) \/ Report(u) \/ Retire(u)

ConcluderStep ==
    \/ Take \/ Conclude \/ Deliver \/ Finish \/ LockTable \/ Check
    \/ Reclaim(Concluder) \/ Drop(Concluder)

Next ==
    \/ \E t \in Callers : Call(t) \/ CallerStep(t)
    \/ \E u \in Jobs : OpenerStep(u)
    \/ \E c \in Commands : Exit(c) \/ Reap(c) \/ Submit(c)
    \/ ConcluderStep

\* Tasks that can go on do: tokio runs every one that is ready, and a mutex is
\* handed on.  Nothing makes a frontend call or a command end.
Fairness ==
    /\ \A t \in Callers : WF_vars(CallerStep(t))
    /\ \A u \in Jobs : WF_vars(OpenerStep(u))
    /\ \A c \in Commands : WF_vars(Reap(c)) /\ WF_vars(Submit(c))
    /\ WF_vars(ConcluderStep)

Spec == Init /\ [][Next]_vars /\ Fairness
-----------------------------------------------------------------------------
(* Properties.                                                             *)

Unconcluded(c) == command[c].state \in {"alive", "exited", "reaped", "queued"}

Excused(c) == command[c].uid \in excused

\* From its fork to its conclusion a command has its job's tree to itself: no
\* later command of the job retakes it, no stop reclaims it.  Excused: a job
\* that was taken for idle between the reap of its command and the submission,
\* or by the report of a failed launch; one that a failed spawn of the same
\* name took for its own.
TreesKept ==
    \A c \in Commands :
        Unconcluded(c) /\ ~Excused(c) => tree[command[c].uid] = c

\* "starting early ... would delete the very tree that merge is diffing": a
\* command waiting for its conclusion still has its tree.
ConclusionsKeepTrees ==
    \A c \in Commands :
        command[c].state = "queued" => tree[command[c].uid] = c

\* "a callback is never delivered for a command it was not registered
\* against".
CallbacksMatch ==
    [][\A c \in Commands :
         /\ At(Concluder, "delivering") /\ task'[Concluder].pc = "finishing"
         /\ c = task[Concluder].cmd /\ ~Excused(c)
         /\ Open(command[c].id)
         => row[command[c].id].done \in {0, c}]_vars

\* "the one order these two locks are ever taken in": nobody waits for the
\* queue holding the table while somebody waits for the table holding the
\* queue.
LocksOrdered == queueLock = None \/ tableLock = None

Stopped(u) == \E id \in Names : Open(id) /\ row[id].uid = u /\ Explicit(row[id])

Alive(u) == \E c \in Commands : command[c].uid = u /\ command[c].state = "alive"

\* A job that was asked to stop is closed once no command of it is alive, and
\* its storage reclaimed.  Excused: as above; a stop accepted while a launch
\* that then fails was under way; a command given to a job that is not built;
\* and the two mutexes taken in opposite orders.
StopCloses ==
    \A u \in Jobs :
        Stopped(u) ~> \/ ~Stopped(u) /\ tree[u] = 0
                      \/ Alive(u)
                      \/ u \in excused
                      \/ ~LocksOrdered
=============================================================================
