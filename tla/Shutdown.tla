------------------------------- MODULE Shutdown -------------------------------
(***************************************************************************)
(* The end of a session, ShellMux::shutdown of src/shellmux/src/jobs.rs,   *)
(* over the job table: the queue is closed, the commands that run are      *)
(* killed and the callers that wait for them let go, the conclusion task   *)
(* and the launches are joined, and what is left is dropped.               *)
(*                                                                         *)
(* As the host has to, the frontend's tasks have returned from their calls *)
(* before the shutdown; the launches that spawn left to tasks of the mux   *)
(* go on while it runs.                                                    *)
(***************************************************************************)
EXTENDS JobTable

VARIABLES
    phase,      \* how far shutdown has come
    unkilled,   \* commands force_stop failed on: what shutdown returns
    late        \* history variable: jobs being opened during the kills

svars == <<vars, phase, unkilled, late>>

Phases == {"open", "closed", "killed", "joined", "dropped", "over"}

ShutdownInit == Init /\ phase = "open" /\ unkilled = {} /\ late = {}

\* ConclusionQueue::closed.
Closed == phase # "open"

\* The tasks of the mux that are at work on a job.
Launching == {u \in Jobs : ~At(u, "idle")}
-----------------------------------------------------------------------------

\* merges.cancel.
Cancel ==
    /\ phase = "open" /\ QueueFree
    /\ \A t \in Callers : At(t, "idle")
    /\ phase' = "closed"
    /\ UNCHANGED <<vars, unkilled, late>>

\* The commands of the table, those of jobs that close among them.
OutstandingStaying ==
    {row[id].running : id \in {i \in Names : Open(i) /\ ~Explicit(row[i])}} \ {0}

Outstanding == {row[id].running : id \in {i \in Names : Open(i)}} \ {0}

\* The rows whose callers are let go.
KilledRows(failed) == {id \in Names : Open(id) /\ row[id].running \notin failed}

OpenRows(failed) == {id \in Names : Open(id)}

\* Every command of the table is killed, those that can be, and every callback
\* is dropped, under one lock of the table.
KillAll ==
    /\ phase = "closed" /\ TableFree
    /\ \E failed \in SUBSET Outstanding :
          /\ failed # {} => "kill" \in Faults
          /\ unkilled' = failed
          /\ command' = [c \in Commands |->
                            IF c \in Outstanding \ failed
                            THEN [command[c] EXCEPT
                                     !.forced = TRUE,
                                     !.state = IF @ = "alive" THEN "exited" ELSE @]
                            ELSE command[c]]
          /\ row' = [id \in Names |->
                        IF id \in OpenRows(failed)
                        THEN [row[id] EXCEPT !.done = 0] ELSE row[id]]
    /\ late' = Launching
    /\ phase' = "killed"
    /\ UNCHANGED <<queue, locks, task, drawn, uids, tree, terminal, excused>>

\* The handles are awaited: the conclusion task returns once the queue is
\* empty, a launch when it is over.
Join ==
    /\ phase = "killed"
    /\ At(Concluder, "idle") /\ QueueFree /\ pending = <<>>
    /\ Launching = {}
    /\ phase' = "joined"
    /\ UNCHANGED <<vars, unkilled, late>>

\* The rows lose their terminals and shells.
DropResources ==
    /\ phase = "joined" /\ TableFree
    /\ row' = [id \in Names |->
                  IF Open(id) THEN [row[id] EXCEPT !.resources = 0] ELSE row[id]]
    /\ terminal' = [u \in Jobs |-> IF \E id \in Names : Built(id) /\ row[id].resources = u
                                   THEN "closed" ELSE terminal[u]]
    /\ phase' = "dropped"
    /\ UNCHANGED <<queue, locks, task, drawn, uids, command, tree, excused, unkilled, late>>

\* The watchers are aborted, none between its reap and its submission, and
\* the frontend is detached.
Abort ==
    /\ phase = "dropped"
    /\ \A c \in Commands : command[c].state # "reaped"
    /\ phase' = "over"
    /\ UNCHANGED <<vars, unkilled, late>>

\* A conclusion submitted to a queue that is closed is dropped.
SubmitClosed(c) ==
    /\ Closed /\ command[c].state = "reaped" /\ QueueFree
    /\ command' = [command EXCEPT ![c].state = "cancelled"]
    /\ UNCHANGED <<row, queue, locks, task, drawn, uids, tree, terminal, excused>>

ShutdownStep == KillAll \/ Join \/ DropResources \/ Abort

\* Meanwhile the mux's own tasks go on, the frontend's have stopped.
TasksStep ==
    \/ \E u \in Jobs : OpenerStep(u)
    \/ ConcluderStep
    \/ \E c \in Commands : Exit(c) \/ SubmitClosed(c)
    \/ phase # "over" /\ \E c \in Commands : Reap(c)

ShutdownNext ==
    \/ ~Closed /\ Next /\ UNCHANGED <<phase, unkilled, late>>
    \/ Closed /\ TasksStep /\ UNCHANGED <<phase, unkilled, late>>
    \/ Cancel
    \/ ShutdownStep

\* As in JobTable; the task that called shutdown goes on with it.
ShutdownFairness ==
    /\ WF_svars(ShutdownStep)
    /\ \A u \in Jobs : WF_svars(OpenerStep(u) /\ UNCHANGED <<phase, unkilled, late>>)
    /\ WF_svars(ConcluderStep /\ UNCHANGED <<phase, unkilled, late>>)
    /\ \A c \in Commands :
          WF_svars(SubmitClosed(c) /\ UNCHANGED <<phase, unkilled, late>>)

ShutdownSpec == ShutdownInit /\ [][ShutdownNext]_svars /\ ShutdownFairness
-----------------------------------------------------------------------------
(* Properties.                                                             *)

Waiting == {id \in Names : Open(id) /\ row[id].done # 0}

\* A shutdown comes to an end, whatever fails, and "a caller blocked on [the
\* callback] is released either way": none is left to wait for a conclusion
\* nobody will come to.
ShutdownReleases == phase = "closed" ~> phase = "over" /\ Waiting = {}

AliveCommands == {c \in Commands : command[c].state = "alive"}

\* "outstanding commands terminated": nothing of the session runs when the
\* shutdown has returned, but what it says it could not kill.  Excused: the
\* command of a job that a task of the mux was still opening during the kills.
NothingLeftRunning ==
    phase = "over" =>
        \A c \in AliveCommands : c \in unkilled \/ command[c].uid \in late

\* The same without the excuse: a launch that is joined after the kills leaves
\* its command running.
OutstandingTerminated == phase = "over" => AliveCommands \subseteq unkilled
=============================================================================
