------------------------------- MODULE Frontend -------------------------------
(***************************************************************************)
(* What the displays of a session know of its jobs: the events the mux     *)
(* announces after each change of the job table, the binding and the       *)
(* publisher they reach (src/shellmux/src/frontend.rs,                     *)
(* src/marsh-rest/src/frontend.rs), the sockets that pass them on, and the *)
(* one terminal size of the mux (jobs.rs).                                 *)
(*                                                                         *)
(* There is one job name, which a closed job leaves to the next.  Every    *)
(* call is a list of steps that its task carries out one by one; between   *)
(* any two of them the steps of others may come.  A launch that spawn      *)
(* leaves to a task of its own is carried out by the caller's.             *)
(***************************************************************************)
EXTENDS Naturals, Sequences

CONSTANTS
    Callers,        \* tasks that call the mux
    Concluder,      \* the task that concludes commands
    Clients,        \* sockets of a REST session
    Sizes,          \* terminal geometries
    InitialSize,    \* the one the mux is created with
    None,
    Capacity,       \* EVENT_CAPACITY of the broadcast channel
    MaxJobs,        \* bound: sandboxes created
    MaxCalls        \* bound: calls

ASSUME CapacityAssumption == Capacity \in Nat \ {0}
ASSUME BoundsAssumption == MaxJobs \in Nat /\ MaxCalls \in Nat

Jobs == 1..MaxJobs
Tasks == Callers \union {Concluder}
Geometries == Sizes \union {InitialSize}

\* A row of the job table, as far as it is shown.
Row == [uid : Jobs, term : Jobs \union {0}, state : {"starting", "idle", "running"},
        stop : {"no", "graceful", "force"}]

ASSUME NoneAssumption == None \notin Geometries \union Tasks \union Row
Steps == {"changed", "published", "build", "reapply", "wake", "opened", "unspawn",
          "launch", "retire", "drop", "register", "check", "wait", "select",
          "apply", "resized"}

VARIABLES
    row,        \* the row of the name: its uid, terminal, state and stop
    current,    \* JobTable::current is the name
    muxSize,    \* JobTable::terminal_size
    terminal,   \* [Jobs -> the size of the job's terminal, None when none is open]
    task,       \* [Tasks -> what is left of its call]
    reading,    \* the task that holds the frontend's mutex, reading the mux
    handle,     \* FrontendBinding::handles of the name: a uid, 0 when none
    size,       \* FrontendBinding::size
    pump,       \* [Jobs -> {"none", "running", "done"}]
    client,     \* [Clients -> the socket: its state, what it has yet to receive of
                \* the channel, whether it missed some of it, and its display]
    uids, calls,
    raced       \* history variable: jobs and sizes that met a hazard named below

vars == <<row, current, muxSize, terminal, task, reading, handle, size, pump,
          client, uids, calls, raced>>

Idle == [todo |-> <<>>, uid |-> 0, size |-> None, targets |-> {}, row |-> None,
         woken |-> FALSE]

Open == row # None
Visible == Open /\ row.stop # "force"
Closing == Open /\ row.stop # "no"

\* What a client is shown of the table: the row, and whether it is current.
Blank == [uid |-> 0, state |-> "none", closing |-> FALSE, current |-> FALSE]
RowShown == IF Visible
            THEN [uid |-> row.uid, closing |-> Closing, current |-> FALSE,
                  state |-> IF row.term = 0 THEN "starting" ELSE row.state]
            ELSE Blank
CurrentShown == current /\ Visible
Shown == [RowShown EXCEPT !.current = CurrentShown]

Unconnected == [state |-> "off", inbox |-> <<>>, lagged |-> FALSE,
                shown |-> Blank]

Init ==
    /\ row = None /\ current = FALSE
    /\ muxSize = InitialSize /\ size = InitialSize
    /\ terminal = [u \in Jobs |-> None]
    /\ task = [t \in Tasks |-> Idle]
    /\ reading = None
    /\ handle = 0
    /\ pump = [u \in Jobs |-> "none"]
    /\ client = [c \in Clients |-> Unconnected]
    /\ uids = 0 /\ calls = 0
    /\ raced = {}

table == <<row, current, muxSize, terminal, uids>>
display == <<handle, size, pump>>
-----------------------------------------------------------------------------
(* Calls of the mux.                                                       *)

At(t, step) == task[t].todo # <<>> /\ Head(task[t].todo) = step
Rest(t) == Tail(task[t].todo)

\* The task goes on as r says, and forgets a call that is over.
Continue(t, r) == task' = [task EXCEPT ![t] = IF r.todo = <<>> THEN Idle ELSE r]
Then(t, steps) == Continue(t, [task[t] EXCEPT !.todo = steps])
Done(t) == Then(t, Rest(t))

Calls(t) ==
    /\ task[t].todo = <<>> /\ calls < MaxCalls
    /\ calls' = calls + 1

Begin(t, steps) == task' = [task EXCEPT ![t] = [Idle EXCEPT !.todo = steps]]

\* What a call of spawn does after the reservation, and with a command.
Opening(opens) ==
    IF opens THEN <<"changed", "build", "wake", "opened", "published", "launch">>
    ELSE <<"changed", "build", "wake", "opened", "published">>

\* spawn, with or without a command: the reservation.
Spawn(t, opens) ==
    /\ Calls(t) /\ ~Open /\ uids < MaxJobs
    /\ uids' = uids + 1
    /\ row' = [uid |-> uids', term |-> 0, stop |-> "no",
               state |-> IF opens THEN "starting" ELSE "idle"]
    /\ task' = [task EXCEPT ![t] =
                   [Idle EXCEPT !.uid = uids', !.size = muxSize, !.todo = Opening(opens)]]
    /\ UNCHANGED <<current, muxSize, terminal, reading, display, client, raced>>

\* start_in: the reservation.
StartIn(t) ==
    /\ Calls(t)
    /\ Open /\ row.state = "idle" /\ ~Closing
    /\ row' = [row EXCEPT !.state = "starting"]
    /\ Begin(t, <<"changed", "launch">>)
    /\ UNCHANGED <<current, muxSize, terminal, uids, reading, display, client, raced>>

\* The row leaves the table, the selection with it; its terminal is dropped
\* by a later step.
Removed ==
    /\ row' = None
    /\ current' = FALSE

\* stop.  A job with nothing in flight goes at once.
Stop(t, force) ==
    /\ Calls(t) /\ Visible
    /\ \/ /\ row.state = "idle"
          /\ Removed
          /\ task' = [task EXCEPT ![t] = [Idle EXCEPT !.uid = row.term,
                                             !.todo = <<"changed", "drop">>]]
       \/ /\ row.state # "idle"
          /\ row' = [row EXCEPT !.stop = IF force THEN "force" ELSE "graceful"]
          /\ Begin(t, <<"changed">>)
          /\ UNCHANGED current
    /\ UNCHANGED <<muxSize, terminal, uids, reading, display, client, raced>>

\* switch: a launch is waited for before the job is selected.
Switch(t) ==
    /\ Calls(t) /\ Visible /\ ~Closing
    /\ Begin(t, <<"changed", "register", "check">>)
    /\ UNCHANGED <<table, reading, display, client, raced>>

\* A geometry is on its way to a terminal: a resize that is not over, or a
\* job that was published at an older size.
InFlight(t) == \E i \in DOMAIN task[t].todo : task[t].todo[i] \in {"apply", "resized", "reapply"}

\* resize: the table takes the size, the terminals it has follow.
Resize(t, s) ==
    /\ Calls(t)
    /\ muxSize' = s
    /\ task' = [task EXCEPT ![t] =
                   [Idle EXCEPT !.todo = <<"apply", "resized">>, !.size = s,
                                !.targets = IF Open THEN {row.term} \ {0} ELSE {}]]
    /\ raced' = IF \E x \in Tasks : InFlight(x) THEN raced \union {"size"} ELSE raced
    /\ UNCHANGED <<row, current, terminal, uids, reading, display, client>>
-----------------------------------------------------------------------------
(* The steps of a call.                                                    *)

\* The terminal u, if there is one, is closed.
Closed(u) == [v \in Jobs |-> IF v = u THEN None ELSE terminal[v]]

ReappliedNever(t) == <<>>

\* The steps a built job has left: its terminal follows a resize it missed.
Reapplied(t) == IF muxSize # task[t].size THEN <<"reapply">> ELSE <<>>

\* build_resources: published in the row of that name, whosever it is by now.
Build(t) ==
    /\ At(t, "build") /\ Open
    /\ LET u == task[t].uid
       IN  /\ row' = [row EXCEPT !.term = u]
           /\ terminal' = [Closed(row.term) EXCEPT ![u] = task[t].size]
           /\ raced' = IF row.uid = u THEN raced ELSE raced \union {"name"}
    /\ Continue(t, [task[t] EXCEPT !.todo = Reapplied(t) \o Rest(t),
                       !.size = IF Reapplied(t) = <<>> THEN None ELSE muxSize])
    /\ UNCHANGED <<current, muxSize, uids, calls, reading, display, client>>

BuildFails(t) ==
    /\ At(t, "build")
    /\ Then(t, <<"unspawn", "wake", "changed">>)
    /\ UNCHANGED <<table, calls, reading, display, client, raced>>

Unspawn(t) ==
    /\ At(t, "unspawn")
    /\ \/ /\ Open
          /\ row' = None
          /\ terminal' = Closed(row.term)
          /\ raced' = IF row.uid = task[t].uid THEN raced ELSE raced \union {"name"}
       \/ ~Open /\ UNCHANGED <<row, terminal, raced>>
    /\ Done(t)
    /\ UNCHANGED <<current, muxSize, uids, calls, reading, display, client>>

Reapply(t) ==
    /\ At(t, "reapply")
    /\ terminal' = [u \in Jobs |-> IF u = task[t].uid /\ terminal[u] # None
                                   THEN task[t].size ELSE terminal[u]]
    /\ Done(t)
    /\ UNCHANGED <<row, current, muxSize, uids, calls, reading, display, client, raced>>

\* launched.notify_waiters: it wakes the tasks whose future is enabled.
Registered(t) == At(t, "check") \/ At(t, "wait")

Wake(t) ==
    /\ At(t, "wake")
    /\ task' = [x \in Tasks |->
                   IF x # t THEN [task[x] EXCEPT !.woken = @ \/ Registered(x)]
                   ELSE IF Rest(t) = <<>> THEN Idle
                   ELSE [task[t] EXCEPT !.todo = Rest(t)]]
    /\ UNCHANGED <<table, calls, reading, display, client, raced>>

\* The failure of a command a job was opened for closes the job.
AfterFailure(t) == IF task[t].uid = 0 THEN <<"wake">> ELSE <<"wake", "retire">>

\* launch_into: the command runs, or the reservation is cleared; where the job
\* is not built yet, it is not.
Launch(t) ==
    /\ At(t, "launch")
    /\ \/ /\ Open /\ row.term # 0
          /\ row' = [row EXCEPT !.state = "running"]
          /\ Then(t, <<"changed", "wake">>)
          /\ UNCHANGED raced
       \/ /\ Open /\ row.term # 0
          /\ row' = [row EXCEPT !.state = "idle"]
          /\ Then(t, <<"changed">> \o AfterFailure(t))
          /\ UNCHANGED raced
       \/ /\ Open => row.term = 0
          /\ Then(t, AfterFailure(t))
          /\ raced' = IF Open THEN raced \union {"early"} ELSE raced
          /\ UNCHANGED row
    /\ UNCHANGED <<current, muxSize, terminal, uids, calls, reading, display, client>>

\* report_launch_failure: the job is closed, without a word when a command of
\* another caller is in it by now.
Retire(t) ==
    /\ At(t, "retire")
    /\ \/ /\ Open /\ row.state = "idle"
          /\ Removed
          /\ Continue(t, [task[t] EXCEPT !.uid = row.term, !.todo = <<"drop">>])
          /\ UNCHANGED raced
       \/ /\ Open /\ row.state # "idle"
          /\ row' = [row EXCEPT !.stop = "graceful"]
          /\ raced' = raced \union {"failure"}
          /\ Done(t) /\ UNCHANGED current
       \/ ~Open /\ Done(t) /\ UNCHANGED <<row, current, raced>>
    /\ UNCHANGED <<muxSize, terminal, uids, calls, reading, display, client>>

\* reclaim: the storage is gone, the terminal is dropped.
Drop(t) ==
    /\ At(t, "drop")
    /\ terminal' = Closed(task[t].uid)
    /\ Done(t)
    /\ UNCHANGED <<row, current, muxSize, uids, calls, reading, display, client, raced>>

\* await_launch: registered, then looked.
Register(t) ==
    /\ At(t, "register")
    /\ Continue(t, [task[t] EXCEPT !.woken = FALSE, !.todo = Rest(t)])
    /\ UNCHANGED <<table, calls, reading, display, client, raced>>

Pending == Open /\ (row.state = "starting" \/ row.term = 0)

WaitUnregistered == <<"register", "wait", "check">>

\* What follows a look that finds the launch pending.
WaitRegistered == <<"wait", "register", "check">>

Check(t) ==
    /\ At(t, "check")
    /\ Then(t, IF Pending THEN WaitRegistered ELSE <<"select">>)
    /\ UNCHANGED <<table, calls, reading, display, client, raced>>

Wait(t) ==
    /\ At(t, "wait") /\ task[t].woken
    /\ Done(t)
    /\ UNCHANGED <<table, calls, reading, display, client, raced>>

Select(t) ==
    /\ At(t, "select")
    /\ \/ Visible /\ current' = TRUE /\ Then(t, <<"changed">>)
       \/ ~Visible /\ Then(t, <<>>) /\ UNCHANGED current
    /\ UNCHANGED <<row, muxSize, terminal, uids, calls, reading, display, client, raced>>

Apply(t) ==
    /\ At(t, "apply")
    /\ terminal' = [u \in Jobs |-> IF u \in task[t].targets /\ terminal[u] # None
                                   THEN task[t].size ELSE terminal[u]]
    /\ Continue(t, [task[t] EXCEPT !.todo = Rest(t), !.targets = {}])
    /\ UNCHANGED <<row, current, muxSize, uids, calls, reading, display, client, raced>>

\* A command ends and is concluded; a job that was to close goes.
Conclude ==
    /\ task[Concluder].todo = <<>>
    /\ Open /\ row.state = "running"
    /\ \/ /\ ~Closing
          /\ row' = [row EXCEPT !.state = "idle"]
          /\ Begin(Concluder, <<"changed">>)
          /\ UNCHANGED current
       \/ /\ Closing
          /\ Removed
          /\ task' = [task EXCEPT ![Concluder] =
                         [Idle EXCEPT !.uid = row.term, !.todo = <<"drop", "changed">>]]
    /\ UNCHANGED <<muxSize, terminal, uids, calls, reading, display, client, raced>>
-----------------------------------------------------------------------------
(* The events.  A callback runs under the frontend's mutex, and may read    *)
(* the mux: the rows under one lock of the table, the selection under       *)
(* another.                                                                *)

MutexFree == reading = None

\* The broadcast channel keeps the last messages for each subscriber: one that
\* has not read its oldest when the channel is full has missed it.
Delivered(c, message) ==
    IF c.state = "off" THEN c
    ELSE IF Len(c.inbox) < Capacity THEN [c EXCEPT !.inbox = Append(@, message)]
    ELSE [c EXCEPT !.inbox = Append(Tail(@), message), !.lagged = TRUE]

Publish(message) == client' = [c \in Clients |-> Delivered(client[c], message)]

Announces(t) == At(t, "changed") \/ At(t, "published")

ReadRows(t) ==
    /\ Announces(t) /\ MutexFree
    /\ reading' = t
    /\ task' = [task EXCEPT ![t].row = RowShown]
    /\ UNCHANGED <<table, calls, display, client, raced>>

\* The announcement that ends build_resources starts the job's pump.
ReadCurrent(t) ==
    /\ reading = t
    /\ reading' = None
    /\ Publish([kind |-> "jobs", shown |-> [task[t].row EXCEPT !.current = CurrentShown]])
    /\ pump' = IF At(t, "published") THEN [pump EXCEPT ![task[t].uid] = "running"] ELSE pump
    /\ Continue(t, [task[t] EXCEPT !.todo = Rest(t), !.row = None])
    /\ UNCHANGED <<table, calls, handle, size, raced>>

\* FrontendBinding::observe of Opened: the handle of the name is replaced.
Opened(t) ==
    /\ At(t, "opened") /\ MutexFree
    /\ handle' = task[t].uid
    /\ raced' = IF Open /\ row.uid # task[t].uid THEN raced \union {"name"} ELSE raced
    /\ Done(t)
    /\ UNCHANGED <<table, calls, reading, size, pump, client>>

Resized(t) ==
    /\ At(t, "resized") /\ MutexFree
    /\ size' = task[t].size
    /\ Done(t)
    /\ UNCHANGED <<table, calls, reading, handle, pump, client, raced>>

\* The handle of the name after the job u closed.
AnyHandleDropped(u) == 0

OwnHandleDropped(u) == IF handle = u THEN 0 ELSE handle

\* pump_job: both streams have ended and the row's token is gone.
PumpEnds(u) ==
    /\ pump[u] = "running" /\ terminal[u] = None /\ MutexFree
    /\ pump' = [pump EXCEPT ![u] = "done"]
    /\ handle' = OwnHandleDropped(u)
    /\ Publish([kind |-> "closed", shown |-> [Blank EXCEPT !.uid = u]])
    /\ UNCHANGED <<table, task, calls, reading, size, raced>>
-----------------------------------------------------------------------------
(* A client's socket: serve_socket.                                        *)

On(c, state) == client[c].state = state

Connect(c) ==
    /\ On(c, "off") /\ MutexFree
    /\ client' = [client EXCEPT ![c].state = "subscribed"]
    /\ UNCHANGED <<table, task, calls, reading, display, raced>>

\* A snapshot for one client, for which nobody waits: the rows, and then the
\* selection.  What the client showed until then is of no more interest.
GreetRows(c) ==
    /\ On(c, "subscribed")
    /\ client' = [client EXCEPT ![c].state = "greeting", ![c].shown = RowShown]
    /\ UNCHANGED <<table, task, calls, reading, display, raced>>

\* What a greeted client has to read: the subscription came before the
\* snapshot, so that nothing published between them is missed.
SubscribedLate(c) == <<>>

Subscribed(c) == client[c].inbox

Greet(c) ==
    /\ On(c, "greeting")
    /\ client' = [client EXCEPT ![c].state = "on", ![c].inbox = Subscribed(c),
                                ![c].shown.current = CurrentShown]
    /\ UNCHANGED <<table, task, calls, reading, display, raced>>

\* A client that fell behind goes on with the oldest message there is, after
\* a snapshot of its own.
Lag(c) ==
    /\ On(c, "on") /\ client[c].lagged
    /\ client' = [client EXCEPT ![c].state = "subscribed", ![c].lagged = FALSE,
                                ![c].shown = Blank]
    /\ UNCHANGED <<table, task, calls, reading, display, raced>>

\* A "jobs" message is the whole list; that a job closed removes it.
Received(shown, message) ==
    IF message.kind = "jobs" THEN message.shown
    ELSE IF shown.uid = message.shown.uid THEN Blank ELSE shown

Receive(c) ==
    /\ On(c, "on") /\ ~client[c].lagged /\ client[c].inbox # <<>>
    /\ client' = [client EXCEPT
          ![c].inbox = Tail(@), ![c].shown = Received(@, Head(client[c].inbox))]
    /\ UNCHANGED <<table, task, calls, reading, display, raced>>
-----------------------------------------------------------------------------

Call(t) ==
    \/ \E opens \in BOOLEAN : Spawn(t, opens)
    \/ StartIn(t)
    \/ \E force \in BOOLEAN : Stop(t, force)
    \/ Switch(t)
    \/ \E s \in Sizes : Resize(t, s)

TaskStep(t) ==
    \/ Build(t) \/ BuildFails(t) \/ Unspawn(t) \/ Reapply(t) \/ Wake(t)
    \/ Launch(t) \/ Retire(t) \/ Drop(t)
    \/ Register(t) \/ Check(t) \/ Wait(t) \/ Select(t) \/ Apply(t)
    \/ ReadRows(t) \/ ReadCurrent(t) \/ Opened(t) \/ Resized(t)

ClientStep(c) == Connect(c) \/ GreetRows(c) \/ Greet(c) \/ Lag(c) \/ Receive(c)

Next ==
    \/ \E t \in Callers : Call(t)
    \/ \E t \in Tasks : TaskStep(t)
    \/ Conclude
    \/ \E u \in Jobs : PumpEnds(u)
    \/ \E c \in Clients : ClientStep(c)

Spec == Init /\ [][Next]_vars
-----------------------------------------------------------------------------
(* Properties.                                                             *)

\* Every call has returned, and every pump of a closed terminal has ended.
Quiet ==
    /\ \A t \in Tasks : task[t].todo = <<>>
    /\ reading = None
    /\ \A u \in Jobs : pump[u] = "running" => terminal[u] # None

\* A client that has read what was published shows the table as it is, when
\* it came, how far it had fallen behind and in what order the callbacks ran
\* notwithstanding: each change is announced after it is made.  Excused: the
\* close that report_launch_failure announces to nobody, and a job published
\* in the row of another of its name.
ClientsAgree ==
    \A c \in Clients :
        (Quiet /\ On(c, "on") /\ client[c].inbox = <<>> /\ ~client[c].lagged
            /\ raced \intersect {"name", "failure"} = {}) =>
            client[c].shown = Shown

\* "a name reopened while the old job was still draining belongs to the new
\* job": a job that is built has its handle in the binding, through which its
\* input goes.  Excused: a name reopened before the earlier job of it was
\* announced, or built.
HandleKept ==
    (Quiet /\ Open /\ "name" \notin raced) => (row.term = 0 \/ handle = row.term)

\* "One size for the whole mux": every open terminal has it, and the frontend
\* knows it.  Excused: a resize that starts before an earlier one, or the
\* correction of a newly built job, is over.
OneSize ==
    (Quiet /\ "size" \notin raced) =>
        /\ size = muxSize
        /\ \A u \in Jobs : terminal[u] \in {None, muxSize}

\* "A failed launch only clears the reservation": once every call has returned,
\* no job is left starting.
ReservationsCleared == (Quiet /\ Open) => row.state # "starting"

\* "a publication that lands between them is not a lost wakeup": a switch that
\* sleeps although no launch is pending any more has been woken, or a call under
\* way has yet to wake it.
NoLostWakeup ==
    \A t \in Callers :
        (At(t, "wait") /\ ~task[t].woken /\ ~Pending) =>
            \E x \in Tasks : \E i \in DOMAIN task[x].todo :
                task[x].todo[i] \in {"wake", "build"}
=============================================================================
