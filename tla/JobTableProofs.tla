--------------------------- MODULE JobTableProofs ---------------------------
(***************************************************************************)
(* Proofs about the job table and its conclusion queue, for every number   *)
(* of callers, names, jobs and commands.                                   *)
(*                                                                         *)
(* Every lookup is by name, so what a task found of a job may be another   *)
(* job's by the time it is used.  A job being given a command is reserved  *)
(* by its starting flag, which keeps its row in the table and the others   *)
(* out; one with a command is kept by running, then by the count of the    *)
(* conclusions it owes.  Where the flags do not hold, the job is excused.  *)
(*                                                                         *)
(* The end of a session comes last: every command that runs is in a row or *)
(* about to be published, so the kills under one lock of the table miss    *)
(* none but those of the launches under way.                               *)
(***************************************************************************)
EXTENDS Shutdown, TLAPS, FiniteSetTheorems

\* A caller between the reservation of a job and its row's resources.
Opening(x) == task[x].pc \in {"building", "unspawning"}

\* A task that has reserved a job for a command.
Holding(x) ==
    \/ task[x].pc \in {"waiting", "preparing", "launching", "publishing"}
    \/ Opening(x) /\ task[x].flag

\* What a task is doing, and how a command stands.
Steps ==
    {"idle", "building", "unspawning", "waiting", "preparing", "launching", "publishing",
     "reporting", "retiring", "reclaiming", "dropping", "blocked", "concluding",
     "delivering", "finishing", "locking", "checking"}

TaskStates ==
    [pc : Steps, id : Names \union {None}, uid : Jobs \union {0},
     resources : Jobs \union {0}, cmd : Commands \union {0}, flag : BOOLEAN]

CommandStates ==
    [uid : Jobs \union {0}, id : Names \union {None},
     state : {"none", "failed", "alive", "exited", "reaped", "queued", "concluded"},
     forced : BOOLEAN]

\* The conclusion task, from the conclusion it takes to the close it may lead to.
Concluding == {"concluding", "delivering", "finishing", "locking", "checking"}

\* What the variables are, the bounds on counts aside.
Typed ==
    /\ row \in [Names -> Row \union {None}]
    /\ pending \in Seq(Commands)
    /\ active \in [Names -> Nat]
    /\ task \in [Tasks -> TaskStates]
    /\ command \in [Commands -> CommandStates]
    /\ tree \in [Jobs -> Commands \union {0}]
    /\ terminal \in [Jobs -> {"unopened", "open", "closed"}]
    /\ queueLock \in Callers \union {None}
    /\ tableLock \in {Concluder, None}
    /\ drawn \subseteq Series
    /\ uids \in 0..MaxJobs
    /\ excused \subseteq Jobs

\* The step a task is at, and what it needs to know there.
Placed(x) ==
    /\ task[x].pc \in {"building", "unspawning", "waiting", "preparing", "launching",
                       "publishing", "reporting", "retiring"} \union Concluding =>
          task[x].id \in Names
    /\ task[x].pc \in {"building", "unspawning", "launching", "publishing", "reclaiming"} =>
          task[x].uid \in Jobs /\ task[x].uid <= uids
    /\ task[x].pc \in {"publishing"} \union Concluding => task[x].cmd \in Commands
    /\ task[x].pc \in {"building", "unspawning", "waiting"} => x \in Callers
    /\ task[x].pc \in {"reporting", "retiring"} => x \in Jobs
    /\ task[x].pc \in Concluding => x = Concluder
    /\ x = Concluder => task[x].pc \in Concluding \union {"idle", "reclaiming", "dropping"}

\* A command that was launched has a job that was opened.
Commanded(c) ==
    command[c].state # "none" => /\ command[c].uid \in Jobs /\ command[c].uid <= uids
                                 /\ command[c].id \in Names

\* Job u has the name id.
Owner(id, u) == Open(id) /\ row[id].uid = u

\* A job has one row, which is reserved or runs a command.
RowsInv ==
    /\ \A i, k \in Names, u \in Jobs : Owner(i, u) /\ Owner(k, u) => i = k
    /\ \A i \in Names : Open(i) => /\ row[i].uid <= uids
                                   /\ ~(row[i].starting /\ row[i].running # 0)

\* A job whose row is being built has no task, no resources and no command yet.
OpeningInv ==
    /\ \A u \in Jobs : u > uids => At(u, "idle")
    /\ \A t \in Tasks : Opening(t) =>
          LET u == task[t].uid
          IN  /\ \A x \in Tasks : Opening(x) /\ task[x].uid = u => x = t
              /\ At(u, "idle")
              /\ \A i \in Names : Owner(i, u) => i = task[t].id
              /\ excused # Jobs =>
                    /\ \A i \in Names : Owner(i, u) => row[i].resources = 0
                    /\ \A c \in Commands : command[c].state # "none" => command[c].uid # u

\* A reservation keeps its row and excludes any other, up to the publication of
\* the command.
ReserveInv ==
    excused # Jobs =>
       \A x \in Tasks :
          /\ Holding(x) =>
                /\ Open(task[x].id) /\ row[task[x].id].starting
                /\ \A y \in Tasks : Holding(y) /\ task[y].id = task[x].id => y = x
          /\ task[x].pc \in {"launching", "publishing"} =>
                Built(task[x].id) /\ row[task[x].id].uid = task[x].uid
          /\ At(x, "publishing") =>
                /\ command[task[x].cmd].uid = task[x].uid
                /\ command[task[x].cmd].id = task[x].id
                /\ command[task[x].cmd].state \in {"alive", "exited"}

\* The command a row shows is its job's, and has not been reaped.
RunInv ==
    excused # Jobs =>
       \A id \in Names : Open(id) /\ row[id].running # 0 =>
          /\ command[row[id].running].uid = row[id].uid
          /\ command[row[id].running].id = id
          /\ command[row[id].running].state \in {"alive", "exited"}

\* A conclusion the queue still counts.
Working == task[Concluder].pc \in {"delivering", "finishing"}

\* A command whose conclusion is still to come or to be reported.
Due(c) == Unconcluded(c) \/ (Working /\ c = task[Concluder].cmd)

\* The queue holds commands that await their conclusion, each once.
QueueInv ==
    /\ \A i, k \in DOMAIN pending : i # k => pending[i] # pending[k]
    /\ \A i \in DOMAIN pending : command[pending[i]].state = "queued"
    /\ LET c == task[Concluder].cmd
       IN  /\ task[Concluder].pc \in Concluding => command[c].id = task[Concluder].id
           /\ At(Concluder, "concluding") =>
                 /\ command[c].state = "queued"
                 /\ \A i \in DOMAIN pending : pending[i] # c
           /\ task[Concluder].pc \in Concluding \ {"concluding"} =>
                 command[c].state = "concluded"

\* The conclusions the queue counts for a name.
Owed(id) ==
    {c \in Commands : /\ command[c].id = id
                      /\ \/ command[c].state = "queued"
                         \/ Working /\ c = task[Concluder].cmd}

\* The count is theirs.
ActiveInv == \A id \in Names : active[id] = Cardinality(Owed(id))

\* An outstanding command has its tree and its job's row.
KeptInv ==
    \A c \in Commands : Due(c) /\ ~Excused(c) =>
        /\ tree[command[c].uid] = c
        /\ Owner(command[c].id, command[c].uid)
        /\ command[c].state \in {"alive", "exited"} =>
              \/ row[command[c].id].running = c
              \/ \E x \in Tasks : At(x, "publishing") /\ task[x].cmd = c

\* Nothing of job u is outstanding.
Clean(u) == u \notin excused => \A c \in Commands : Due(c) => command[c].uid # u

\* What is about to be launched, or reclaimed, has nothing outstanding.
FreeInv ==
    /\ \A x \in Tasks : task[x].pc \in {"preparing", "launching"} /\ excused # Jobs =>
          Clean(row[task[x].id].uid)
    /\ \A x \in Tasks : At(x, "reclaiming") =>
          /\ \A i \in Names : ~Owner(i, task[x].uid)
          /\ Clean(task[x].uid)

\* A callback waits for a command that has not been delivered.
DoneInv ==
    \A id \in Names : Open(id) /\ row[id].uid \notin excused /\ row[id].done # 0 =>
        LET d == row[id].done
        IN  /\ command[d].uid = row[id].uid /\ command[d].id = id
            /\ Unconcluded(d) \/ (At(Concluder, "delivering") /\ d = task[Concluder].cmd)

\* The inductive invariant.
JobTableInv ==
    /\ Typed
    /\ \A x \in Tasks : Placed(x)
    /\ \A c \in Commands : Commanded(c)
    /\ RowsInv /\ OpeningInv /\ ReserveInv /\ RunInv /\ QueueInv /\ ActiveInv /\ KeptInv
    /\ FreeInv /\ DoneInv

-----------------------------------------------------------------------------
(* Steps that leave the jobs as they are.                                  *)

\* The row of a name shows what it did, but for how the job closes and for the
\* callback.
SameJob(i) ==
    /\ row'[i] # None <=> Open(i)
    /\ Open(i) => /\ row'[i].uid = row[i].uid
                  /\ row'[i].resources = row[i].resources
                  /\ row'[i].starting = row[i].starting
                  /\ row'[i].running = row[i].running

\* Nor has it a new callback.
SameRow(i) == SameJob(i) /\ (Open(i) => row'[i].done \in {row[i].done, 0})

\* A command stands as it did, or has exited.
SameCommand(c) ==
    /\ command'[c].uid = command[c].uid
    /\ command'[c].id = command[c].id
    /\ \/ command'[c].state = command[c].state
       \/ command[c].state = "alive" /\ command'[c].state = "exited"

\* A task goes on without a job, or to a step that needs no more of it.
Rests(x) ==
    \/ task'[x] = task[x]
    \/ /\ task[x].pc \notin {"concluding", "delivering", "finishing"}
       /\ task[x].pc = "publishing" => excused = Jobs
       /\ task'[x].pc \in {"idle", "blocked", "dropping", "reporting", "retiring",
                           "unspawning", "checking"}
       /\ task[x].pc = "idle" => x \notin Jobs
       /\ task'[x].pc = "unspawning" =>
             /\ task[x].pc = "building"
             /\ task'[x].uid = task[x].uid /\ task'[x].id = task[x].id
             /\ task'[x].flag = task[x].flag
       /\ task'[x].pc = "checking" =>
             /\ task[x].pc = "locking"
             /\ task'[x].cmd = task[x].cmd /\ task'[x].id = task[x].id
       /\ Placed(x)'

\* The kinds of tasks.
LEMMA TaskKinds ==
    /\ Jobs \subseteq Tasks /\ Callers \subseteq Tasks /\ Concluder \in Tasks
    /\ Launchers \subseteq Tasks
    /\ Concluder \notin Jobs /\ Concluder \notin Callers
    /\ \A t \in Callers : t \notin Jobs
    /\ \A x \in Tasks : x \in Callers \/ x \in Jobs \/ x = Concluder
    /\ 0 \notin Jobs /\ 0 \notin Commands
BY TasksAssumption, BoundsAssumption DEF Tasks, Launchers, Jobs, Commands

\* The fields of rows, tasks and commands.
LEMMA Fields ==
    ASSUME Typed
    PROVE  /\ \A i \in Names : Open(i) =>
                 /\ row[i] \in Row /\ row[i].uid \in Jobs
                 /\ row[i].resources \in Jobs \union {0} /\ row[i].starting \in BOOLEAN
                 /\ row[i].running \in Commands \union {0} /\ row[i].done \in Commands \union {0}
                 /\ row[i].close \in {"never", "automatic", "graceful", "force"}
           /\ \A x \in Tasks :
                 /\ task[x] \in TaskStates /\ task[x].flag \in BOOLEAN
                 /\ task[x].uid \in Jobs \union {0} /\ task[x].cmd \in Commands \union {0}
                 /\ task[x].id \in Names \union {None}
           /\ \A c \in Commands :
                 /\ command[c] \in CommandStates
                 /\ command[c].uid \in Jobs \union {0} /\ command[c].id \in Names \union {None}
                 /\ command[c].state \in {"none", "failed", "alive", "exited", "reaped",
                                          "queued", "concluded"}
           /\ uids \in Nat
BY BoundsAssumption DEF Typed, Open, Row, TaskStates, CommandStates

\* Nothing is promised once every job is excused.
LEMMA Excuses ==
    ASSUME Typed, Typed', excused \subseteq excused'
    PROVE  excused' # Jobs => excused # Jobs
BY DEF Typed

\* The invariant is kept by steps that leave the jobs as they are, the trees in
\* use and the callbacks right.
LEMMA Still ==
    ASSUME JobTableInv, Typed', NEW x \in Tasks,
           \A i \in Names : SameJob(i), \A c \in Commands : SameCommand(c),
           \A c \in Commands : Due(c) /\ ~Excused(c) =>
              tree'[command[c].uid] = tree[command[c].uid],
           UNCHANGED <<uids, pending, active>>, excused \subseteq excused',
           \A y \in Tasks \ {x} : task'[y] = task[y], Rests(x), DoneInv'
    PROVE  JobTableInv'
<1>1. /\ Typed /\ (\A c \in Commands : Commanded(c)) /\ (\A y \in Tasks : Placed(y))
      /\ RowsInv /\ OpeningInv /\ ReserveInv /\ RunInv /\ QueueInv /\ ActiveInv /\ KeptInv
      /\ FreeInv /\ DoneInv
  BY DEF JobTableInv
<1>2. /\ \A i \in Names : SameJob(i)
      /\ \A c \in Commands : SameCommand(c)
      /\ uids' = uids /\ pending' = pending /\ active' = active
      /\ excused \subseteq excused' /\ (excused' # Jobs => excused # Jobs)
      /\ \A y \in Tasks \ {x} : task'[y] = task[y]
  BY <1>1, Excuses
<1>3. \A y \in Tasks : Placed(y)'
  BY <1>1, <1>2 DEF Placed, Rests
<1>4. \A c \in Commands : Commanded(c)'
  BY <1>1, <1>2 DEF Commanded, SameCommand
<1>5. RowsInv'
  BY <1>1, <1>2 DEF RowsInv, SameJob, Open, Owner
<1>6. OpeningInv'
  <2>1. \A u \in Jobs : At(u, "idle") => At(u, "idle")'
    BY <1>1, <1>2, TaskKinds DEF Rests, At
  <2>2. \A t \in Tasks : Opening(t)' => /\ Opening(t) /\ task'[t].uid = task[t].uid
                                        /\ task'[t].id = task[t].id
    BY <1>1, <1>2 DEF Rests, Opening
  <2>3. \A i \in Names : \A u : Owner(i, u)' => Owner(i, u) /\ row'[i].resources = row[i].resources
    BY <1>2 DEF Owner, SameJob, Open
  <2>4. \A t \in Tasks : Opening(t) => task[t].uid \in Jobs
    BY <1>1 DEF Placed, Opening
  <2>5. \A c \in Commands : command'[c].state # "none" =>
           command[c].state # "none" /\ command'[c].uid = command[c].uid
    BY <1>2 DEF SameCommand
  <2> QED
    BY <1>1, <1>2, <2>1, <2>2, <2>3, <2>4, <2>5 DEF OpeningInv
<1>7. ReserveInv'
  <2> SUFFICES ASSUME excused' # Jobs, NEW y \in Tasks
               PROVE  /\ Holding(y)' =>
                            /\ Open(task[y].id)' /\ row'[task'[y].id].starting
                            /\ \A z \in Tasks : Holding(z)' /\ task'[z].id = task'[y].id => z = y
                      /\ task'[y].pc \in {"launching", "publishing"} =>
                            Built(task[y].id)' /\ row'[task'[y].id].uid = task'[y].uid
                      /\ At(y, "publishing")' =>
                            /\ command'[task'[y].cmd].uid = task'[y].uid
                            /\ command'[task'[y].cmd].id = task'[y].id
                            /\ command'[task'[y].cmd].state \in {"alive", "exited"}
    BY DEF ReserveInv
  <2>1. \A z \in Tasks : Holding(z)' => /\ Holding(z) /\ task'[z].id = task[z].id
                                        /\ task[z].id \in Names
    BY <1>1, <1>2 DEF Rests, Holding, Opening, Placed
  <2>2. task'[y].pc \in {"launching", "publishing"} =>
           task'[y] = task[y] /\ task[y].id \in Names
    BY <1>1, <1>2 DEF Rests, Placed
  <2>3. At(y, "publishing")' => task'[y] = task[y] /\ task[y].cmd \in Commands
    BY <1>1, <1>2 DEF Rests, Placed, At
  <2>4. \A i \in Names : /\ Open(i) => Open(i)' /\ row'[i].uid = row[i].uid
                                       /\ row'[i].starting = row[i].starting
                         /\ Built(i) => Built(i)'
    BY <1>2 DEF SameJob, Open, Built
  <2>5. Holding(y)' => /\ Open(task[y].id)' /\ row'[task'[y].id].starting
                       /\ \A z \in Tasks : Holding(z)' /\ task'[z].id = task'[y].id => z = y
    BY <1>1, <1>2, <2>1, <2>4 DEF ReserveInv
  <2>6. task'[y].pc \in {"launching", "publishing"} =>
           Built(task[y].id)' /\ row'[task'[y].id].uid = task'[y].uid
    BY <1>1, <1>2, <2>2, <2>4 DEF ReserveInv, Built
  <2>7. At(y, "publishing")' =>
           /\ command'[task'[y].cmd].uid = task'[y].uid
           /\ command'[task'[y].cmd].id = task'[y].id
           /\ command'[task'[y].cmd].state \in {"alive", "exited"}
    BY <1>1, <1>2, <2>3 DEF ReserveInv, SameCommand, At
  <2> QED
    BY <2>5, <2>6, <2>7
<1>8. RunInv'
  <2>1. \A i \in Names : row'[i] # None /\ row'[i].running # 0 =>
           /\ Open(i) /\ row'[i].running = row[i].running /\ row[i].running \in Commands
           /\ row'[i].uid = row[i].uid
    BY <1>1, <1>2, Fields DEF SameJob
  <2> QED
    BY <1>1, <1>2, <2>1 DEF RunInv, SameCommand, Open
<1>9. QueueInv'
  <2>1. \A i \in DOMAIN pending : pending[i] \in Commands
    BY <1>1 DEF Typed
  <2>2. task[Concluder].pc \in Concluding => task[Concluder].cmd \in Commands
    BY <1>1, TaskKinds DEF Placed
  <2>3. \/ task'[Concluder] = task[Concluder]
        \/ /\ task'[Concluder].pc = "checking" /\ task[Concluder].pc = "locking"
           /\ task'[Concluder].cmd = task[Concluder].cmd
           /\ task'[Concluder].id = task[Concluder].id
        \/ task'[Concluder].pc \notin Concluding
    BY <1>2, TaskKinds DEF Rests, Concluding
  <2>4. \A c \in Commands : command'[c].state = command[c].state
                            \/ command[c].state \notin {"queued", "concluded"}
    BY <1>2 DEF SameCommand
  <2> QED
    BY <1>1, <1>2, <2>1, <2>2, <2>3, <2>4 DEF QueueInv, SameCommand, At, Concluding
<1>10. /\ Working' <=> Working
       /\ Working => task'[Concluder] = task[Concluder]
  BY <1>2, TaskKinds DEF Rests, Working
<1>11. \A c \in Commands : Due(c)' <=> Due(c)
  BY <1>2, <1>10 DEF Due, Unconcluded, SameCommand
<1>12. ActiveInv'
  <2>1. \A i : Owed(i)' = Owed(i)
    BY <1>2, <1>10 DEF Owed, SameCommand
  <2> QED
    BY <1>1, <1>2, <2>1 DEF ActiveInv
<1>13. KeptInv'
  <2> SUFFICES ASSUME NEW c \in Commands, Due(c)', ~Excused(c)'
               PROVE  /\ tree'[command'[c].uid] = c
                      /\ Owner(command[c].id, command[c].uid)'
                      /\ command'[c].state \in {"alive", "exited"} =>
                            \/ row'[command'[c].id].running = c
                            \/ \E y \in Tasks : At(y, "publishing")' /\ task'[y].cmd = c
    BY DEF KeptInv
  <2>1. Due(c) /\ ~Excused(c) /\ SameCommand(c)
    BY <1>2, <1>11 DEF Excused, SameCommand
  <2>2. command[c].uid \in Jobs /\ command[c].id \in Names /\ excused # Jobs
    BY <1>1, <2>1, TaskKinds DEF Commanded, Due, Unconcluded, Working, QueueInv, Excused,
       Concluding
  <2>3. \A y \in Tasks : At(y, "publishing") => task'[y] = task[y]
    BY <1>2, <2>2 DEF Rests, At
  <2>4. SameJob(command[c].id) /\ Owner(command[c].id, command[c].uid)
    BY <1>1, <1>2, <2>1, <2>2 DEF KeptInv
  <2>5. \/ row[command[c].id].running = c
        \/ \E y \in Tasks : At(y, "publishing") /\ task[y].cmd = c
        \/ command'[c].state \notin {"alive", "exited"}
    BY <1>1, <2>1 DEF KeptInv, SameCommand
  <2>6. tree'[command'[c].uid] = c
    BY <1>1, <2>1 DEF KeptInv, SameCommand
  <2> QED
    BY <1>1, <1>2, <2>1, <2>3, <2>4, <2>5, <2>6 DEF KeptInv, SameCommand, SameJob, Owner, Open, At
<1>14. \A u : Clean(u) => Clean(u)'
  BY <1>2, <1>11 DEF Clean, SameCommand
<1>15. FreeInv'
  <2>1. \A y \in Tasks : task'[y].pc \in {"preparing", "launching", "reclaiming"} =>
           task'[y] = task[y]
    BY <1>2 DEF Rests
  <2>2. \A y \in Tasks : task[y].pc \in {"preparing", "launching"} /\ excused # Jobs =>
           row'[task[y].id].uid = row[task[y].id].uid
    BY <1>1, <1>2 DEF ReserveInv, Holding, Placed, SameJob
  <2>3. \A i \in Names : \A u : Owner(i, u)' => Owner(i, u)
    BY <1>2 DEF Owner, SameJob, Open
  <2> QED
    BY <1>1, <1>2, <1>14, <2>1, <2>2, <2>3 DEF FreeInv, At
<1> QED
  BY <1>3, <1>4, <1>5, <1>6, <1>7, <1>8, <1>9, <1>12, <1>13, <1>15 DEF JobTableInv

\* In particular by steps that leave the trees and give no callback.
LEMMA Quiet ==
    ASSUME JobTableInv, Typed', NEW x \in Tasks,
           \A i \in Names : SameRow(i), \A c \in Commands : SameCommand(c),
           UNCHANGED <<uids, tree, pending, active>>, excused \subseteq excused',
           \A y \in Tasks \ {x} : task'[y] = task[y], Rests(x)
    PROVE  JobTableInv'
<1>1. Typed /\ DoneInv
  BY DEF JobTableInv
<1>2. At(Concluder, "delivering") => task'[Concluder] = task[Concluder]
  BY TaskKinds DEF Rests, At
<1>3. DoneInv'
  <2> SUFFICES ASSUME NEW i \in Names, row'[i] # None, row'[i].uid \notin excused',
                      row'[i].done # 0
               PROVE  /\ command'[row'[i].done].uid = row'[i].uid
                      /\ command'[row'[i].done].id = i
                      /\ Unconcluded(row[i].done)' \/ (At(Concluder, "delivering")'
                                                       /\ row'[i].done = task'[Concluder].cmd)
    BY DEF DoneInv, Open
  <2>1. /\ Open(i) /\ row'[i].uid = row[i].uid /\ row'[i].done = row[i].done
        /\ row[i].uid \notin excused /\ row[i].done \in Commands
    BY <1>1, Fields DEF SameJob, SameRow
  <2>2. SameCommand(row[i].done)
    BY <2>1
  <2> QED
    BY <1>1, <1>2, <2>1, <2>2 DEF DoneInv, SameCommand, Unconcluded, At
<1>4. \A i \in Names : SameJob(i)
  BY DEF SameRow
<1> QED
  BY <1>3, <1>4, Still

-----------------------------------------------------------------------------
(* Steps that close a job.                                                 *)

\* What the invariant says, by its parts.
LEMMA Parts ==
    ASSUME JobTableInv
    PROVE  /\ Typed /\ (\A c \in Commands : Commanded(c)) /\ (\A y \in Tasks : Placed(y))
           /\ RowsInv /\ OpeningInv /\ ReserveInv /\ RunInv /\ QueueInv /\ ActiveInv
           /\ KeptInv /\ FreeInv /\ DoneInv
BY DEF JobTableInv

\* An outstanding command that is not excused is of a job and a name.
LEMMA OutstandingOf ==
    ASSUME JobTableInv, NEW c \in Commands, Due(c)
    PROVE  /\ command[c].uid \in Jobs /\ command[c].uid <= uids
           /\ command[c].id \in Names /\ command[c].state # "none"
           /\ ~Excused(c) => excused # Jobs
BY Parts, TaskKinds DEF Commanded, Due, Unconcluded, Working, QueueInv, Excused,
   Concluding

\* The row of a name goes; the task that took it reclaims the job or is done
\* with it.
Removes(x, id) ==
    /\ Open(id) /\ row'[id] = None
    /\ \A i \in Names \ {id} : row'[i] = row[i]
    /\ \A y \in Tasks \ {x} : task'[y] = task[y]
    /\ task[x].pc \in {"idle", "retiring", "checking", "unspawning"}
    /\ task[x].pc = "idle" => x \notin Jobs
    /\ \/ task'[x].pc = "idle"
       \/ task'[x].pc = "reclaiming" /\ task'[x].uid = row[id].uid

\* A job may go when nothing holds or waits for it.
LEMMA Closes ==
    ASSUME JobTableInv, Typed', NEW x \in Tasks, NEW id \in Names, Removes(x, id),
           UNCHANGED <<command, uids, tree, pending, active>>, excused \subseteq excused',
           excused' # Jobs => \A y \in Tasks \ {x} : Holding(y) => task[y].id # id,
           row[id].uid \notin excused' =>
              \A c \in Commands : Due(c) => command[c].uid # row[id].uid
    PROVE  JobTableInv'
<1>20. PICK u \in Jobs : u = row[id].uid
  BY Parts, Fields DEF Removes
<1>1. /\ Typed /\ (\A c \in Commands : Commanded(c)) /\ (\A y \in Tasks : Placed(y))
      /\ RowsInv /\ OpeningInv /\ ReserveInv /\ RunInv /\ QueueInv /\ ActiveInv /\ KeptInv
      /\ FreeInv /\ DoneInv
      /\ (excused' # Jobs => excused # Jobs)
  BY Parts, Excuses
<1>2. /\ \A i \in Names \ {id} : row'[i] = row[i]
      /\ row'[id] = None /\ Open(id) /\ u \in Jobs /\ u <= uids
      /\ command' = command /\ uids' = uids /\ tree' = tree
      /\ pending' = pending /\ active' = active /\ excused \subseteq excused'
      /\ \A y \in Tasks \ {x} : task'[y] = task[y]
  BY <1>1, <1>20, Fields DEF Removes, RowsInv
<1>3. /\ \A i \in Names : row'[i] # None => i # id /\ Open(i) /\ row'[i] = row[i]
      /\ \A i \in Names : \A v : Owner(i, v)' <=> Owner(i, v) /\ i # id
  BY <1>2 DEF Open, Owner
<1>4. /\ \A y \in Tasks : task'[y].pc \notin {"idle", "reclaiming"} => task'[y] = task[y]
      /\ \A y \in Tasks : task'[y] # task[y] => y = x
      /\ x \in Jobs => task[x].pc # "idle"
      /\ task'[x].pc \in {"idle", "reclaiming"}
      /\ task'[x].pc = "reclaiming" => task'[x].uid = u
  BY <1>2, <1>20 DEF Removes
<1>5. \A y \in Tasks : Placed(y)'
  BY <1>1, <1>2, <1>4, TaskKinds DEF Placed, Concluding
<1>6. \A c \in Commands : Commanded(c)'
  BY <1>1, <1>2 DEF Commanded
<1>7. RowsInv'
  BY <1>1, <1>2, <1>3 DEF RowsInv, Open
<1>8. OpeningInv'
  <2>1. \A v \in Jobs : At(v, "idle") => At(v, "idle")'
    BY <1>4, TaskKinds DEF At
  <2>2. \A t \in Tasks : Opening(t)' => task'[t] = task[t] /\ task[t].uid \in Jobs
    BY <1>1, <1>4 DEF Opening, Placed
  <2> QED
    BY <1>1, <1>2, <1>3, <2>1, <2>2 DEF OpeningInv, Opening
<1>9. ReserveInv'
  <2> SUFFICES ASSUME excused' # Jobs, NEW y \in Tasks
               PROVE  /\ Holding(y)' =>
                            /\ Open(task[y].id)' /\ row'[task'[y].id].starting
                            /\ \A z \in Tasks : Holding(z)' /\ task'[z].id = task'[y].id => z = y
                      /\ task'[y].pc \in {"launching", "publishing"} =>
                            Built(task[y].id)' /\ row'[task'[y].id].uid = task'[y].uid
                      /\ At(y, "publishing")' =>
                            /\ command'[task'[y].cmd].uid = task'[y].uid
                            /\ command'[task'[y].cmd].id = task'[y].id
                            /\ command'[task'[y].cmd].state \in {"alive", "exited"}
    BY DEF ReserveInv
  <2>1. \A z \in Tasks : Holding(z)' => /\ Holding(z) /\ task'[z] = task[z] /\ z # x
                                        /\ task[z].id \in Names
    BY <1>1, <1>4 DEF Holding, Opening, Placed
  <2>2. \A z \in Tasks : Holding(z)' => task[z].id # id /\ row'[task[z].id] = row[task[z].id]
    BY <1>2, <2>1
  <2>3. task'[y].pc \in {"launching", "publishing"} => Holding(y)'
    BY DEF Holding
  <2> QED
    BY <1>1, <1>2, <2>1, <2>2, <2>3 DEF ReserveInv, At, Built, Open
<1>10. RunInv'
  BY <1>1, <1>2, <1>3 DEF RunInv, Open
<1>11. \/ task'[Concluder] = task[Concluder]
       \/ task'[Concluder].pc \in {"idle", "reclaiming"}
  BY <1>4, TaskKinds
<1>12. QueueInv'
  BY <1>1, <1>2, <1>11 DEF QueueInv, At, Concluding
<1>13. /\ Working' <=> Working
       /\ Working => task'[Concluder] = task[Concluder]
  BY <1>2, TaskKinds DEF Working, Removes
<1>14. \A c \in Commands : Due(c)' <=> Due(c)
  BY <1>2, <1>13 DEF Due, Unconcluded
<1>15. ActiveInv'
  <2>1. \A i : Owed(i)' = Owed(i)
    BY <1>2, <1>13 DEF Owed
  <2> QED
    BY <1>1, <1>2, <2>1 DEF ActiveInv
<1>16. KeptInv'
  <2> SUFFICES ASSUME NEW c \in Commands, Due(c)', ~Excused(c)'
               PROVE  /\ tree[command[c].uid] = c
                      /\ Owner(command[c].id, command[c].uid)'
                      /\ command[c].state \in {"alive", "exited"} =>
                            \/ row'[command[c].id].running = c
                            \/ \E y \in Tasks : At(y, "publishing")' /\ task'[y].cmd = c
    BY <1>2 DEF KeptInv
  <2>1. Due(c) /\ ~Excused(c) /\ command[c].id \in Names /\ command[c].uid # u
    BY <1>2, <1>14, <1>20, OutstandingOf DEF Excused
  <2>2. /\ tree[command[c].uid] = c
        /\ Owner(command[c].id, command[c].uid)
        /\ command[c].state \in {"alive", "exited"} =>
              \/ row[command[c].id].running = c
              \/ \E y \in Tasks : At(y, "publishing") /\ task[y].cmd = c
    BY <1>1, <2>1 DEF KeptInv
  <2>3. command[c].id # id
    BY <1>20, <2>1, <2>2 DEF Owner
  <2>4. \A y \in Tasks : At(y, "publishing") => task'[y] = task[y]
    BY <1>2 DEF At, Removes
  <2> QED
    BY <1>2, <1>3, <2>1, <2>2, <2>3, <2>4 DEF At
<1>17. (\A v : Clean(v) => Clean(v)') /\ Clean(u)'
  BY <1>2, <1>14, <1>20 DEF Clean
<1>18. FreeInv'
  <2>1. \A y \in Tasks : task'[y].pc \in {"preparing", "launching"} /\ excused' # Jobs =>
           /\ task'[y] = task[y] /\ task[y].id # id /\ task[y].id \in Names
           /\ row'[task'[y].id] = row[task[y].id]
    BY <1>1, <1>2, <1>4 DEF Holding, Placed
  <2>2. \A i \in Names : ~Owner(i, u)'
    BY <1>1, <1>2, <1>3, <1>20 DEF RowsInv, Owner
  <2>3. \A y \in Tasks : At(y, "reclaiming")' =>
           task'[y] = task[y] \/ task'[y].uid = u
    BY <1>4 DEF At
  <2>4. ASSUME NEW y \in Tasks, At(y, "reclaiming")'
        PROVE  (\A i \in Names : ~Owner(i, task[y].uid)') /\ Clean(task[y].uid)'
    BY <1>1, <1>3, <1>17, <2>2, <2>3, <2>4 DEF FreeInv, At
  <2>5. ASSUME NEW y \in Tasks, task'[y].pc \in {"preparing", "launching"}, excused' # Jobs
        PROVE  Clean(row[task[y].id].uid)'
    BY <1>1, <1>17, <2>1, <2>5 DEF FreeInv
  <2> QED
    BY <2>4, <2>5 DEF FreeInv
<1>19. DoneInv'
  <2>1. At(Concluder, "delivering") => task'[Concluder] = task[Concluder]
    BY <1>13 DEF Working, At
  <2> QED
    BY <1>1, <1>2, <1>3, <2>1 DEF DoneInv, Open, Unconcluded, At
<1> QED
  BY <1>5, <1>6, <1>7, <1>8, <1>9, <1>10, <1>12, <1>15, <1>16, <1>18, <1>19 DEF JobTableInv

-----------------------------------------------------------------------------
(* Steps that open a job or reserve it.                                    *)

\* No command and no conclusion moves, and rows in the table stay there.
Steady ==
    /\ \A c \in Commands : SameCommand(c)
    /\ UNCHANGED <<pending, active, tree>>
    /\ task'[Concluder] = task[Concluder]
    /\ excused \subseteq excused' /\ uids <= uids'
    /\ \A i \in Names : Open(i) => /\ row'[i] # None
                                   /\ row'[i].uid = row[i].uid
                                   /\ row'[i].running = row[i].running
                                   /\ row'[i].done \in {row[i].done, 0}
    /\ \A i \in Names : ~Open(i) /\ row'[i] # None =>
                           row'[i].running = 0 /\ row'[i].done = 0
    /\ \A y \in Tasks : At(y, "publishing") => task'[y] = task[y]

\* What is promised of commands is kept by such a step.
LEMMA SteadyKeeps ==
    ASSUME JobTableInv, Typed', Steady
    PROVE  /\ \A c \in Commands : Commanded(c)'
           /\ RunInv' /\ QueueInv' /\ ActiveInv' /\ KeptInv' /\ DoneInv'
           /\ \A c \in Commands : Due(c)' <=> Due(c)
           /\ \A u : Clean(u) => Clean(u)'
           /\ excused' # Jobs => excused # Jobs
<1>1. /\ Typed /\ (\A c \in Commands : Commanded(c)) /\ (\A y \in Tasks : Placed(y))
      /\ RunInv /\ QueueInv /\ ActiveInv /\ KeptInv /\ DoneInv
      /\ (excused' # Jobs => excused # Jobs)
  BY Parts, Excuses DEF Steady
<1>2. /\ \A c \in Commands : SameCommand(c)
      /\ pending' = pending /\ active' = active /\ tree' = tree
      /\ task'[Concluder] = task[Concluder]
      /\ excused \subseteq excused'
  BY DEF Steady
<1>3. \A c \in Commands : Commanded(c)'
  <2>1. uids <= uids' /\ uids \in Nat /\ uids' \in Nat /\ Jobs \subseteq Nat
    BY <1>1, BoundsAssumption DEF Steady, Typed, Jobs
  <2>2. \A u \in Jobs : u <= uids => u <= uids'
    BY <2>1
  <2> SUFFICES ASSUME NEW c \in Commands PROVE Commanded(c)'
    OBVIOUS
  <2>3. Commanded(c) /\ SameCommand(c)
    BY <1>1, <1>2
  <2> QED
    BY <2>2, <2>3 DEF Commanded, SameCommand
<1>4. /\ Working' <=> Working
      /\ \A c \in Commands : Due(c)' <=> Due(c)
  BY <1>2 DEF Due, Unconcluded, SameCommand, Working
<1>5. RunInv'
  <2>1. \A i \in Names : row'[i] # None /\ row'[i].running # 0 =>
           /\ Open(i) /\ row'[i].running = row[i].running /\ row[i].running \in Commands
           /\ row'[i].uid = row[i].uid
    BY <1>1, Fields DEF Steady
  <2> QED
    BY <1>1, <1>2, <2>1 DEF RunInv, SameCommand, Open
<1>6. QueueInv'
  <2>1. \A i \in DOMAIN pending : pending[i] \in Commands
    BY <1>1 DEF Typed
  <2>2. task[Concluder].pc \in Concluding => task[Concluder].cmd \in Commands
    BY <1>1, TaskKinds DEF Placed
  <2> QED
    BY <1>1, <1>2, <2>1, <2>2 DEF QueueInv, SameCommand, At, Concluding
<1>7. ActiveInv'
  <2>1. \A i : Owed(i)' = Owed(i)
    BY <1>2, <1>4 DEF Owed, SameCommand
  <2> QED
    BY <1>1, <1>2, <2>1 DEF ActiveInv
<1>8. KeptInv'
  <2> SUFFICES ASSUME NEW c \in Commands, Due(c)', ~Excused(c)'
               PROVE  /\ tree'[command'[c].uid] = c
                      /\ Owner(command[c].id, command[c].uid)'
                      /\ command'[c].state \in {"alive", "exited"} =>
                            \/ row'[command'[c].id].running = c
                            \/ \E y \in Tasks : At(y, "publishing")' /\ task'[y].cmd = c
    BY DEF KeptInv
  <2>1. Due(c) /\ ~Excused(c) /\ SameCommand(c) /\ command[c].id \in Names
    BY <1>2, <1>4, OutstandingOf DEF Excused, SameCommand
  <2>2. /\ tree[command[c].uid] = c
        /\ Owner(command[c].id, command[c].uid)
        /\ command[c].state \in {"alive", "exited"} =>
              \/ row[command[c].id].running = c
              \/ \E y \in Tasks : At(y, "publishing") /\ task[y].cmd = c
    BY <1>1, <2>1 DEF KeptInv
  <2>3. Owner(command[c].id, command[c].uid)'
    BY <2>1, <2>2 DEF Owner, Open, Steady, SameCommand
  <2>4. command'[c].state \in {"alive", "exited"} =>
           \/ row'[command'[c].id].running = c
           \/ \E y \in Tasks : At(y, "publishing")' /\ task'[y].cmd = c
    <3>1. ASSUME command'[c].state \in {"alive", "exited"}
          PROVE  \/ row[command[c].id].running = c
                 \/ \E y \in Tasks : At(y, "publishing") /\ task[y].cmd = c
      BY <2>1, <2>2, <3>1 DEF SameCommand
    <3>2. row'[command'[c].id].running = row[command[c].id].running
      BY <2>1, <2>2 DEF Owner, Steady, SameCommand
    <3>3. \A y \in Tasks : At(y, "publishing") => At(y, "publishing")' /\ task'[y] = task[y]
      BY DEF Steady, At
    <3> QED
      BY <3>1, <3>2, <3>3
  <2> QED
    BY <1>2, <2>1, <2>2, <2>3, <2>4 DEF SameCommand
<1>9. \A u : Clean(u) => Clean(u)'
  BY <1>2, <1>4 DEF Clean, SameCommand
<1>10. DoneInv'
  <2> SUFFICES ASSUME NEW i \in Names, row'[i] # None, row'[i].uid \notin excused',
                      row'[i].done # 0
               PROVE  /\ command'[row'[i].done].uid = row'[i].uid
                      /\ command'[row'[i].done].id = i
                      /\ Unconcluded(row[i].done)' \/ (At(Concluder, "delivering")'
                                                       /\ row'[i].done = task'[Concluder].cmd)
    BY DEF DoneInv, Open
  <2>1. /\ Open(i) /\ row'[i].uid = row[i].uid /\ row'[i].done = row[i].done
        /\ row[i].uid \notin excused /\ row[i].done \in Commands
    BY <1>1, <1>2, Fields DEF Steady
  <2>2. SameCommand(row[i].done)
    BY <1>2, <2>1
  <2> QED
    BY <1>1, <1>2, <2>1, <2>2 DEF DoneInv, SameCommand, Unconcluded, At
<1> QED
  BY <1>1, <1>3, <1>4, <1>5, <1>6, <1>7, <1>8, <1>9, <1>10

\* One task moves, typed as before.
LEMMA TaskMoves ==
    ASSUME Typed, NEW x \in Tasks, NEW v \in TaskStates, task' = [task EXCEPT ![x] = v]
    PROVE  /\ task' \in [Tasks -> TaskStates] /\ task'[x] = v
           /\ \A y \in Tasks \ {x} : task'[y] = task[y]
BY DEF Typed

\* One row changes, typed as before.
LEMMA RowMoves ==
    ASSUME Typed, NEW id \in Names, NEW r \in Row \union {None}, row' = [row EXCEPT ![id] = r]
    PROVE  /\ row' \in [Names -> Row \union {None}] /\ row'[id] = r
           /\ \A i \in Names \ {id} : row'[i] = row[i]
BY DEF Typed

\* spawn reserves a name and a job.
LEMMA SpawnStep ==
    ASSUME JobTableInv, NEW t \in Callers, NEW id \in Names,
           NEW opens \in BOOLEAN, NEW anonymous \in BOOLEAN, Spawn(t, id, opens, anonymous)
    PROVE  JobTableInv'
<1>16. PICK w : w = uids + 1
  OBVIOUS
<1> DEFINE r == [uid |-> w, resources |-> 0, starting |-> opens, running |-> 0,
                 close |-> IF anonymous /\ opens THEN "automatic" ELSE "never", done |-> 0]
           v == [Idle EXCEPT !.pc = "building", !.id = id, !.uid = w, !.flag = opens]
<1>1. /\ Typed /\ (\A c \in Commands : Commanded(c)) /\ (\A y \in Tasks : Placed(y))
      /\ RowsInv /\ OpeningInv /\ ReserveInv /\ FreeInv
      /\ t \in Tasks /\ t # Concluder /\ t \notin Jobs
  BY Parts, TaskKinds
<1>2. /\ At(t, "idle") /\ ~Open(id) /\ uids' = w
      /\ row' = [row EXCEPT ![id] = r]
      /\ task' = [task EXCEPT ![t] = v]
      /\ UNCHANGED <<queue, locks, command, tree, terminal, excused>>
      /\ drawn' = IF anonymous THEN drawn \union {id} ELSE drawn
      /\ anonymous => id \in Series \ drawn
  BY <1>16 DEF Spawn
<1>3. uids \in Nat /\ uids < MaxJobs /\ w \in Jobs /\ w > uids
  BY <1>1, <1>16, BoundsAssumption DEF Spawn, Typed, Jobs
<1>4. /\ r \in Row /\ r # None
      /\ r.uid = w /\ r.resources = 0 /\ r.starting = opens /\ r.running = 0 /\ r.done = 0
  BY <1>3, NoneAssumption DEF Row
<1>5. /\ v \in TaskStates /\ v.pc = "building" /\ v.id = id /\ v.uid = w /\ v.flag = opens
  BY <1>3 DEF Idle, TaskStates, Steps
<1> HIDE DEF r, v
<1>6. /\ row' \in [Names -> Row \union {None}] /\ row'[id] = r
      /\ \A i \in Names \ {id} : row'[i] = row[i]
      /\ task' \in [Tasks -> TaskStates] /\ task'[t] = v
      /\ \A y \in Tasks \ {t} : task'[y] = task[y]
  BY <1>1, <1>2, <1>4, <1>5, RowMoves, TaskMoves
<1>7. Typed'
  BY <1>1, <1>2, <1>3, <1>6, BoundsAssumption DEF Typed, queue, locks, Jobs
<1>8. Steady
  <2>1. uids <= uids'
    BY <1>2, <1>3, <1>16
  <2>2. \A c \in Commands : SameCommand(c)
    BY <1>2 DEF SameCommand
  <2>3. \A y \in Tasks : At(y, "publishing") => y # t
    BY <1>2 DEF At
  <2> QED
    BY <1>1, <1>2, <1>4, <1>6, <2>1, <2>2, <2>3 DEF Steady, Open, queue
<1>9. /\ \A i \in Names : row'[i] # None => i = id \/ (Open(i) /\ row'[i] = row[i])
      /\ \A i \in Names : \A u : Owner(i, u)' <=> (Owner(i, u) \/ (i = id /\ u = w))
      /\ \A i \in Names : Open(i) => i # id /\ row'[i] = row[i]
  BY <1>2, <1>4, <1>6 DEF Open, Owner
<1>10. \A y \in Tasks : Placed(y)'
  <2>1. ASSUME NEW y \in Tasks \ {t} PROVE Placed(y)'
    <3>1. task'[y] = task[y] /\ uids' = uids + 1
      BY <1>2, <1>6, <1>16
    <3>2. task[y].uid \in Jobs /\ task[y].uid <= uids => task[y].uid <= uids'
      BY <1>3, <3>1 DEF Jobs
    <3> QED
      BY <1>1, <3>1, <3>2 DEF Placed
  <2>2. Placed(t)'
    <3>1. w <= uids'
      BY <1>2, <1>3 DEF Jobs
    <3> QED
      BY <1>1, <1>2, <1>3, <1>5, <1>6, <3>1 DEF Placed, Concluding
  <2> QED
    BY <2>1, <2>2
<1>11. \A i \in Names, u \in Jobs : Owner(i, u) => u # w
  BY <1>1, <1>3, Fields DEF RowsInv, Owner, Jobs
<1>12. RowsInv'
  <2>1. ASSUME NEW i \in Names, NEW k \in Names, NEW u \in Jobs, Owner(i, u)', Owner(k, u)'
        PROVE  i = k
    BY <1>1, <1>9, <1>11, <2>1 DEF RowsInv
  <2>2. ASSUME NEW i \in Names, row'[i] # None
        PROVE  row'[i].uid <= uids' /\ ~(row'[i].starting /\ row'[i].running # 0)
    <3>1. CASE i = id
      BY <1>2, <1>3, <1>4, <1>6, <3>1 DEF Jobs
    <3>2. CASE i # id
      <4>1. Open(i) /\ row'[i] = row[i] /\ row[i].uid \in Jobs /\ row[i].uid <= uids
        BY <1>1, <1>9, <2>2, <3>2, Fields DEF RowsInv
      <4>2. row[i].uid <= uids'
        BY <1>2, <1>3, <1>16, <4>1 DEF Jobs
      <4> QED
        BY <1>1, <4>1, <4>2 DEF RowsInv
    <3> QED
      BY <3>1, <3>2
  <2> QED
    BY <2>1, <2>2 DEF RowsInv, Open
<1>13. OpeningInv'
  <2>1. ASSUME NEW u \in Jobs, u > uids'
        PROVE  At(u, "idle")'
    <3>1. u > uids
      BY <1>2, <1>3, <1>16, <2>1 DEF Jobs
    <3> QED
      BY <1>1, <1>6, <3>1, TaskKinds DEF OpeningInv, At
  <2>2. At(w, "idle")'
    BY <1>1, <1>3, <1>6, TaskKinds DEF OpeningInv, At
  <2>3. \A y \in Tasks : Opening(y) => task[y].uid \in Jobs /\ task[y].uid # w
    BY <1>1, <1>3 DEF Placed, Opening, Jobs
  <2>4. \A c \in Commands : command[c].state # "none" => command[c].uid # w
    BY <1>1, <1>3 DEF Commanded, Jobs
  <2>5. ASSUME NEW y \in Tasks, Opening(y)'
        PROVE  /\ \A x \in Tasks : Opening(x)' /\ task'[x].uid = task'[y].uid => x = y
               /\ task'[task'[y].uid].pc = "idle"
               /\ \A i \in Names : Owner(i, task[y].uid)' => i = task'[y].id
               /\ excused' # Jobs =>
                     /\ \A i \in Names : Owner(i, task[y].uid)' => row'[i].resources = 0
                     /\ \A c \in Commands : command'[c].state # "none" =>
                                            command'[c].uid # task'[y].uid
    <3>1. CASE y = t
      <4>1. /\ task'[y].uid = w /\ task'[y].id = id
            /\ \A x \in Tasks : Opening(x)' /\ x # t => Opening(x) /\ task'[x].uid # w
        BY <1>5, <1>6, <2>3, <3>1 DEF Opening
      <4>2. \A i \in Names : Owner(i, w)' => i = id
        BY <1>3, <1>9, <1>11
      <4>3. \A i \in Names : Owner(i, task[y].uid)' => i = id
        BY <4>1, <4>2 DEF Owner
      <4> QED
        BY <1>2, <1>4, <1>6, <2>2, <2>4, <3>1, <4>1, <4>3 DEF At
    <3>2. CASE y # t
      <4>1. task'[y] = task[y] /\ Opening(y) /\ task[y].uid \in Jobs /\ task[y].uid # w
        BY <1>6, <2>3, <2>5, <3>2 DEF Opening
      <4>2. \A i \in Names : Owner(i, task[y].uid)' => Owner(i, task[y].uid) /\ row'[i] = row[i]
        BY <1>9, <4>1 DEF Owner
      <4>3. At(task[y].uid, "idle") => task'[task[y].uid].pc = "idle"
        BY <1>1, <1>6, <4>1, TaskKinds DEF At
      <4>4. \A x \in Tasks : Opening(x)' /\ task'[x].uid = task'[y].uid => x # t /\ Opening(x) /\ task'[x] = task[x]
        BY <1>5, <1>6, <4>1 DEF Opening
      <4> QED
        BY <1>1, <1>2, <4>1, <4>2, <4>3, <4>4 DEF OpeningInv
    <3> QED
      BY <3>1, <3>2
  <2> QED
    BY <2>1, <2>5 DEF OpeningInv, At
<1>14. ReserveInv'
  <2> SUFFICES ASSUME excused' # Jobs, NEW y \in Tasks
               PROVE  /\ Holding(y)' =>
                            /\ Open(task[y].id)' /\ row'[task'[y].id].starting
                            /\ \A z \in Tasks : Holding(z)' /\ task'[z].id = task'[y].id => z = y
                      /\ task'[y].pc \in {"launching", "publishing"} =>
                            Built(task[y].id)' /\ row'[task'[y].id].uid = task'[y].uid
                      /\ At(y, "publishing")' =>
                            /\ command'[task'[y].cmd].uid = task'[y].uid
                            /\ command'[task'[y].cmd].id = task'[y].id
                            /\ command'[task'[y].cmd].state \in {"alive", "exited"}
    BY DEF ReserveInv
  <2>1. \A z \in Tasks \ {t} : Holding(z)' =>
           /\ Holding(z) /\ task'[z] = task[z] /\ task[z].id \in Names /\ task[z].id # id
           /\ row'[task[z].id] = row[task[z].id] /\ Open(task[z].id)
    BY <1>1, <1>2, <1>6, <1>9 DEF Holding, Opening, Placed, ReserveInv
  <2>2. CASE y = t
    BY <1>4, <1>5, <1>6, <2>1, <2>2 DEF Holding, Opening, Open, At
  <2>3. CASE y # t
    <3>1. task'[y].pc \in {"launching", "publishing"} => Holding(y)'
      BY DEF Holding
    <3> QED
      BY <1>1, <1>2, <1>5, <1>6, <2>1, <2>3, <3>1 DEF ReserveInv, At, Open, Built
  <2> QED
    BY <2>2, <2>3
<1>15. FreeInv'
  <2>1. \A u : Clean(u) => Clean(u)'
    BY <1>7, <1>8, SteadyKeeps
  <2>2. \A y \in Tasks : task'[y].pc \in {"preparing", "launching"} /\ excused' # Jobs =>
           /\ task'[y] = task[y] /\ row'[task'[y].id] = row[task[y].id]
    BY <1>1, <1>2, <1>5, <1>6, <1>9 DEF ReserveInv, Holding, Placed
  <2>3. \A y \in Tasks : At(y, "reclaiming")' =>
           task'[y] = task[y] /\ At(y, "reclaiming") /\ task[y].uid \in Jobs /\ task[y].uid # w
    BY <1>1, <1>3, <1>5, <1>6 DEF At, Placed, Jobs
  <2>4. ASSUME NEW y \in Tasks, At(y, "reclaiming")'
        PROVE  (\A i \in Names : ~Owner(i, task[y].uid)') /\ Clean(task[y].uid)'
    <3>1. \A i \in Names : \A u : Owner(i, u) => Owner(i, u)
      OBVIOUS
    <3>2. /\ task'[y] = task[y] /\ At(y, "reclaiming") /\ task[y].uid # w
          /\ \A i \in Names : ~Owner(i, task[y].uid)
          /\ Clean(task[y].uid)
      BY <1>1, <2>3, <2>4 DEF FreeInv
    <3> QED
      BY <1>9, <2>1, <3>2 DEF Owner
  <2>5. ASSUME NEW y \in Tasks, task'[y].pc \in {"preparing", "launching"}, excused' # Jobs
        PROVE  Clean(row[task[y].id].uid)'
    BY <1>1, <1>2, <2>1, <2>2, <2>5 DEF FreeInv
  <2> QED
    BY <2>4, <2>5 DEF FreeInv
<1> QED
  BY <1>7, <1>8, <1>10, <1>12, <1>13, <1>14, <1>15, SteadyKeeps DEF JobTableInv

\* The rows keep their jobs, and none is added.
KeepsRows ==
    \A i \in Names : /\ row'[i] # None <=> Open(i)
                     /\ Open(i) => row'[i].uid = row[i].uid

\* A task that stays where it was finds its job as clean as it left it.
LEMMA FreeStays ==
    ASSUME JobTableInv, Typed', Steady, KeepsRows, NEW y \in Tasks, task'[y] = task[y]
    PROVE  /\ task'[y].pc \in {"preparing", "launching"} /\ excused' # Jobs =>
                 Clean(row[task[y].id].uid)'
           /\ At(y, "reclaiming")' =>
                 (\A i \in Names : ~Owner(i, task[y].uid)') /\ Clean(task[y].uid)'
<1>1. /\ \A u : Clean(u) => Clean(u)'
      /\ excused' # Jobs => excused # Jobs
  BY SteadyKeeps
<1>2. \A i \in Names : \A u : Owner(i, u)' => Owner(i, u)
  BY DEF Owner, KeepsRows, Open
<1>3. At(y, "reclaiming")' =>
         (\A i \in Names : ~Owner(i, task[y].uid)') /\ Clean(task[y].uid)'
  <2> SUFFICES ASSUME At(y, "reclaiming")'
               PROVE  (\A i \in Names : ~Owner(i, task[y].uid)') /\ Clean(task[y].uid)'
    OBVIOUS
  <2>1. (\A i \in Names : ~Owner(i, task[y].uid)) /\ Clean(task[y].uid)
    BY Parts DEF FreeInv, At
  <2> QED
    BY <1>1, <1>2, <2>1 DEF Owner
<1>4. ASSUME task'[y].pc \in {"preparing", "launching"}, excused' # Jobs
      PROVE  Clean(row[task[y].id].uid)'
  <2>1. excused # Jobs /\ task[y].id \in Names /\ Open(task[y].id)
    BY <1>1, <1>4, Parts DEF ReserveInv, Holding, Placed
  <2>2. row'[task'[y].id].uid = row[task[y].id].uid
    BY <2>1 DEF KeepsRows
  <2>3. Clean(row[task[y].id].uid)
    BY <1>4, <2>1, Parts DEF FreeInv
  <2> QED
    BY <1>1, <2>2, <2>3
<1> QED
  BY <1>3, <1>4

\* spawn publishes the terminal in a row, and leaves the launch to a task.
LEMMA BuildOpenStep ==
    ASSUME JobTableInv, NEW t \in Callers, Build(t), Open(task[t].id)
    PROVE  JobTableInv'
<1>1. /\ Typed /\ (\A c \in Commands : Commanded(c)) /\ (\A y \in Tasks : Placed(y))
      /\ RowsInv /\ OpeningInv /\ ReserveInv /\ FreeInv
      /\ t \in Tasks /\ t # Concluder /\ t \notin Jobs
  BY Parts, TaskKinds
<1>2. PICK id, u : id = task[t].id /\ u = task[t].uid
  OBVIOUS
<1> DEFINE r == [row[id] EXCEPT !.resources = u]
           w == [Idle EXCEPT !.pc = "preparing", !.id = id, !.uid = u]
<1>3. /\ At(t, "building") /\ Open(id)
      /\ row' = [row EXCEPT ![id] = r]
      /\ terminal' = [Dropped(row[id].resources) EXCEPT ![u] = "open"]
      /\ task' = [x \in Tasks |-> IF x = t THEN Idle
                                  ELSE IF x = u /\ task[t].flag THEN w ELSE task[x]]
      /\ excused' = IF row[id].uid = u THEN excused ELSE Jobs
      /\ UNCHANGED <<queue, locks, drawn, uids, command, tree>>
  BY <1>2 DEF Build
<1>4. /\ id \in Names /\ u \in Jobs /\ u <= uids /\ u \in Tasks /\ u # t /\ u # Concluder
      /\ Opening(t) /\ At(u, "idle")
      /\ task[t].flag \in BOOLEAN
  <2>1. Opening(t) /\ id \in Names /\ u \in Jobs /\ u <= uids
    BY <1>1, <1>2, <1>3 DEF Placed, At, Opening
  <2>2. At(u, "idle")
    BY <1>1, <1>2, <2>1 DEF OpeningInv
  <2> QED
    BY <1>1, <2>1, <2>2, TaskKinds, Fields
<1>5. /\ r \in Row /\ r # None
      /\ r.uid = row[id].uid /\ r.resources = u /\ r.starting = row[id].starting
      /\ r.running = row[id].running /\ r.done = row[id].done
  <2>1. row[id] \in Row
    BY <1>1, <1>3, <1>4, Fields
  <2> QED
    BY <1>4, <2>1, NoneAssumption DEF Row
<1>6. /\ Idle \in TaskStates /\ Idle.pc = "idle"
      /\ w \in TaskStates /\ w.pc = "preparing" /\ w.id = id /\ w.uid = u
  BY <1>4 DEF Idle, TaskStates, Steps
<1> HIDE DEF r, w
<1>7. /\ row' \in [Names -> Row \union {None}] /\ row'[id] = r
      /\ \A i \in Names \ {id} : row'[i] = row[i]
  BY <1>1, <1>3, <1>4, <1>5, RowMoves
<1>8. /\ task' \in [Tasks -> TaskStates]
      /\ task'[t] = Idle
      /\ \A y \in Tasks \ {t, u} : task'[y] = task[y]
      /\ task'[u] = IF task[t].flag THEN w ELSE task[u]
  BY <1>1, <1>3, <1>4, <1>6 DEF Typed
<1>9. Typed'
  <2>1. excused' \subseteq Jobs
    BY <1>1, <1>3 DEF Typed
  <2>2. terminal' \in [Jobs -> {"unopened", "open", "closed"}]
    BY <1>1, <1>3 DEF Typed, Dropped
  <2> QED
    BY <1>1, <1>3, <1>7, <1>8, <2>1, <2>2 DEF Typed, queue, locks
<1>10. /\ KeepsRows
       /\ \A i \in Names : \A v : Owner(i, v)' <=> Owner(i, v)
       /\ \A i \in Names : Open(i) => /\ row'[i].starting = row[i].starting
                                      /\ row'[i].running = row[i].running
                                      /\ row'[i].done = row[i].done
                                      /\ i # id => row'[i] = row[i]
  BY <1>3, <1>5, <1>7 DEF KeepsRows, Open, Owner
<1>11. Steady
  <2>1. \A c \in Commands : SameCommand(c)
    BY <1>3 DEF SameCommand
  <2>2. \A y \in Tasks : At(y, "publishing") => y # t /\ y # u
    BY <1>3, <1>4 DEF At
  <2>3. excused \subseteq excused' /\ uids <= uids'
    BY <1>1, <1>3, Fields DEF Typed
  <2> QED
    BY <1>3, <1>4, <1>8, <1>10, <2>1, <2>2, <2>3, TaskKinds DEF Steady, queue, KeepsRows
<1>12. \A y \in Tasks : Placed(y)'
  BY <1>1, <1>3, <1>4, <1>6, <1>8 DEF Placed, Concluding
<1>13. RowsInv'
  BY <1>1, <1>3, <1>10 DEF RowsInv, KeepsRows, Open
<1>14. OpeningInv'
  <2>1. \A y \in Tasks : Opening(y)' => /\ y # t /\ y # u /\ task'[y] = task[y] /\ Opening(y)
                                        /\ task[y].uid \in Jobs
    BY <1>1, <1>4, <1>6, <1>8 DEF Opening, At, Placed
  <2>2. \A y \in Tasks : Opening(y)' => task[y].uid # u
    BY <1>1, <1>2, <1>4, <2>1 DEF OpeningInv
  <2>3. \A v \in Jobs : v # u /\ At(v, "idle") => At(v, "idle")'
    BY <1>1, <1>8, TaskKinds DEF At
  <2>4. ASSUME NEW v \in Jobs, v > uids'
        PROVE  At(v, "idle")'
    <3>1. v > uids /\ v # u
      BY <1>1, <1>3, <1>4, <2>4, Fields DEF Jobs
    <3> QED
      BY <1>1, <2>3, <3>1 DEF OpeningInv
  <2>5. ASSUME NEW y \in Tasks, Opening(y)'
        PROVE  /\ \A x \in Tasks : Opening(x)' /\ task'[x].uid = task'[y].uid => x = y
               /\ task'[task'[y].uid].pc = "idle"
               /\ \A i \in Names : Owner(i, task[y].uid)' => i = task'[y].id
               /\ excused' # Jobs =>
                     /\ \A i \in Names : Owner(i, task[y].uid)' => row'[i].resources = 0
                     /\ \A c \in Commands : command'[c].state # "none" =>
                                            command'[c].uid # task'[y].uid
    <3>1. task'[y] = task[y] /\ Opening(y) /\ task[y].uid \in Jobs /\ task[y].uid # u
      BY <2>1, <2>2, <2>5
    <3>2. task'[task'[y].uid].pc = "idle"
      BY <1>1, <2>3, <3>1 DEF OpeningInv, At
    <3>3. \A i \in Names : Owner(i, task[y].uid)' => Owner(i, task[y].uid)
      BY <1>10, <3>1 DEF Owner
    <3>4. excused' # Jobs => excused # Jobs /\ row[id].uid = u
      BY <1>3
    <3>5. \A i \in Names : Owner(i, task[y].uid) /\ excused' # Jobs => row'[i] = row[i]
      BY <1>10, <3>1, <3>4 DEF Owner
    <3> QED
      BY <1>1, <1>3, <2>1, <3>1, <3>2, <3>3, <3>4, <3>5 DEF OpeningInv
  <2> QED
    BY <2>4, <2>5 DEF OpeningInv, At
<1>15. ReserveInv'
  <2> SUFFICES ASSUME excused' # Jobs, NEW y \in Tasks
               PROVE  /\ Holding(y)' =>
                            /\ Open(task[y].id)' /\ row'[task'[y].id].starting
                            /\ \A z \in Tasks : Holding(z)' /\ task'[z].id = task'[y].id => z = y
                      /\ task'[y].pc \in {"launching", "publishing"} =>
                            Built(task[y].id)' /\ row'[task'[y].id].uid = task'[y].uid
                      /\ At(y, "publishing")' =>
                            /\ command'[task'[y].cmd].uid = task'[y].uid
                            /\ command'[task'[y].cmd].id = task'[y].id
                            /\ command'[task'[y].cmd].state \in {"alive", "exited"}
    BY DEF ReserveInv
  <2>1. excused # Jobs /\ row[id].uid = u
    BY <1>3
  <2>2. \A z \in Tasks : Holding(z)' => z # t
    BY <1>6, <1>8 DEF Holding, Opening
  <2>3. \A z \in Tasks \ {t, u} : Holding(z)' => Holding(z) /\ task'[z] = task[z]
    BY <1>8 DEF Holding, Opening
  <2>4. Holding(u)' => task'[u] = w /\ Holding(t)
    BY <1>4, <1>8 DEF Holding, Opening, At
  <2>5. \A z \in Tasks : Holding(z) => /\ task[z].id \in Names /\ Open(task[z].id)
                                       /\ row[task[z].id].starting
    BY <1>1, <2>1 DEF ReserveInv, Holding, Opening, Placed
  <2>6. \A z \in Tasks \ {t} : Holding(z) /\ Holding(t) => task[z].id # id
    BY <1>1, <1>2, <2>1 DEF ReserveInv
  <2>7. CASE y = u
    <3>1. task'[u].pc \in {"idle", "preparing"}
      BY <1>4, <1>6, <1>8 DEF At
    <3>2. ASSUME Holding(u)'
          PROVE  /\ Open(task[u].id)' /\ row'[task'[u].id].starting
                 /\ \A z \in Tasks : Holding(z)' /\ task'[z].id = task'[u].id => z = u
      <4>1. task'[u].id = id /\ Holding(t)
        BY <1>6, <2>4, <3>2
      <4>2. row'[id] # None /\ row'[id].starting
        BY <1>1, <1>2, <1>3, <1>4, <1>10, <2>5, <4>1 DEF KeepsRows
      <4>3. ASSUME NEW z \in Tasks, Holding(z)', z # u
            PROVE  task'[z].id # id
        BY <2>2, <2>3, <2>6, <4>1, <4>3
      <4> QED
        BY <4>1, <4>2, <4>3 DEF Open
    <3> QED
      BY <2>7, <3>1, <3>2 DEF At
  <2>8. CASE y \notin {t, u}
    <3>1. Holding(y)' => Holding(y) /\ task'[y] = task[y]
      BY <2>3, <2>8
    <3>2. Holding(y)' => /\ Open(task[y].id)' /\ row'[task'[y].id].starting
                         /\ \A z \in Tasks : Holding(z)' /\ task'[z].id = task'[y].id => z = y
      <4>1. ASSUME Holding(y)' PROVE Open(task[y].id)' /\ row'[task'[y].id].starting
        BY <1>10, <2>5, <3>1, <4>1 DEF KeepsRows, Open
      <4>2. ASSUME Holding(y)', NEW z \in Tasks, Holding(z)', task'[z].id = task'[y].id
            PROVE  z = y
        <5>1. CASE z = u
          BY <1>6, <2>4, <2>6, <2>8, <3>1, <4>2, <5>1
        <5>2. CASE z # u
          BY <1>1, <2>1, <2>2, <2>3, <3>1, <4>2, <5>2 DEF ReserveInv
        <5> QED
          BY <5>1, <5>2
      <4> QED
        BY <4>1, <4>2
    <3>3. task'[y].pc \in {"launching", "publishing"} =>
             Built(task[y].id)' /\ row'[task'[y].id].uid = task'[y].uid
      <4>1. ASSUME task'[y].pc \in {"launching", "publishing"}
            PROVE  Built(task[y].id)' /\ row'[task'[y].id].uid = task'[y].uid
        <5>1. /\ task'[y] = task[y] /\ task[y].id \in Names
              /\ Built(task[y].id) /\ row[task[y].id].uid = task[y].uid
          BY <1>1, <1>8, <2>1, <2>8, <4>1 DEF ReserveInv, Placed
        <5>2. u # 0
          BY <1>4, TaskKinds
        <5> QED
          BY <1>3, <1>5, <1>7, <1>10, <5>1, <5>2 DEF Built, Open, KeepsRows
      <4> QED
        BY <4>1
    <3>4. At(y, "publishing")' =>
             /\ command'[task'[y].cmd].uid = task'[y].uid
             /\ command'[task'[y].cmd].id = task'[y].id
             /\ command'[task'[y].cmd].state \in {"alive", "exited"}
      BY <1>1, <1>3, <1>8, <2>1, <2>8 DEF ReserveInv, At
    <3> QED
      BY <3>2, <3>3, <3>4
  <2>9. CASE y = t
    BY <1>6, <1>8, <2>9 DEF Holding, Opening, At
  <2> QED
    BY <2>7, <2>8, <2>9
<1>16. FreeInv'
  <2>1. \A v : Clean(v) => Clean(v)'
    BY <1>9, <1>11, SteadyKeeps
  <2>2. ASSUME task[t].flag, excused' # Jobs
        PROVE  Clean(row[task[u].id].uid)'
    <3>1. row'[task'[u].id].uid = u
      BY <1>3, <1>5, <1>6, <1>7, <1>8, <2>2
    <3>2. \A c \in Commands : command[c].state # "none" => command[c].uid # u
      BY <1>1, <1>2, <1>3, <1>4, <2>2 DEF OpeningInv
    <3>3. Clean(u)
      BY <3>2, OutstandingOf DEF Clean
    <3> QED
      BY <2>1, <3>1, <3>3
  <2>3. /\ task'[u] = task[u] \/ (task[t].flag /\ task'[u].pc = "preparing")
        /\ task'[t].pc = "idle"
    BY <1>6, <1>8
  <2>4. \A y \in Tasks : \/ task'[y] = task[y] \/ y = t
                         \/ (y = u /\ task[t].flag /\ task'[y].pc = "preparing")
    BY <1>8, <2>3
  <2> QED
    BY <1>9, <1>10, <1>11, <2>2, <2>3, <2>4, FreeStays DEF FreeInv, At
<1> QED
  BY <1>9, <1>11, <1>12, <1>13, <1>14, <1>15, <1>16, SteadyKeeps DEF JobTableInv

\* Task x has or takes the reservation of a name, and goes on to a launch.
Reserves(x, id) ==
    /\ \A y \in Tasks \ {x} : task'[y] = task[y]
    /\ ~Opening(x) /\ (task[x].pc = "idle" => x \notin Jobs)
    /\ task'[x].pc \in {"waiting", "preparing", "launching"} /\ task'[x].id = id
    /\ Placed(x)'
    /\ \A i \in Names : Open(i) =>
          /\ row'[i].resources = row[i].resources
          /\ i # id => row'[i].starting = row[i].starting
    /\ Open(id) => row'[id].starting = row[id].starting \/ row[id].running = 0
    /\ excused' # Jobs =>
          /\ Open(id) /\ row'[id].starting
          /\ \A z \in Tasks \ {x} : Holding(z) => task[z].id # id
          /\ task'[x].pc = "launching" => Built(id) /\ row[id].uid = task'[x].uid
          /\ task'[x].pc # "waiting" => Clean(row[id].uid)'

\* The reservation of a start, its wait and the look at the job keep the invariant.
LEMMA ReservesStep ==
    ASSUME JobTableInv, Typed', Steady, KeepsRows, uids' = uids,
           NEW x \in Tasks, NEW id \in Names, Reserves(x, id)
    PROVE  JobTableInv'
<1>1. /\ Typed /\ (\A c \in Commands : Commanded(c)) /\ (\A y \in Tasks : Placed(y))
      /\ RowsInv /\ OpeningInv /\ ReserveInv /\ FreeInv
  BY Parts
<1>2. /\ \A y \in Tasks \ {x} : task'[y] = task[y]
      /\ ~Opening(x) /\ (task[x].pc = "idle" => x \notin Jobs)
      /\ task'[x].pc \in {"waiting", "preparing", "launching"} /\ task'[x].id = id
      /\ \A i \in Names : Open(i) =>
            /\ row'[i].resources = row[i].resources
            /\ i # id => row'[i].starting = row[i].starting
      /\ excused' # Jobs =>
            /\ Open(id) /\ row'[id].starting
            /\ \A z \in Tasks \ {x} : Holding(z) => task[z].id # id
            /\ task'[x].pc = "launching" => Built(id) /\ row[id].uid = task'[x].uid
            /\ task'[x].pc # "waiting" => Clean(row[id].uid)'
  BY DEF Reserves
<1>3. /\ \A i \in Names : /\ row'[i] # None <=> Open(i)
                          /\ Open(i) => /\ row'[i].uid = row[i].uid
                                        /\ row'[i].running = row[i].running
      /\ \A i \in Names : \A v : Owner(i, v)' <=> Owner(i, v)
      /\ \A c \in Commands : SameCommand(c)
      /\ uids' = uids
      /\ excused' # Jobs => excused # Jobs
  <2>1. excused' # Jobs => excused # Jobs
    BY SteadyKeeps
  <2> QED
    BY <2>1 DEF KeepsRows, Steady, Owner, Open
<1>4. \A y \in Tasks : Placed(y)'
  <2>1. ASSUME NEW y \in Tasks \ {x} PROVE Placed(y)'
    BY <1>1, <1>2, <1>3 DEF Placed
  <2> QED
    BY <2>1 DEF Reserves
<1>5. RowsInv'
  <2>1. \A i \in Names : Open(i) => \/ row'[i].starting = row[i].starting
                                    \/ row[i].running = 0
    BY <1>2 DEF Reserves
  <2> QED
    BY <1>1, <1>3, <2>1 DEF RowsInv, Open
<1>6. OpeningInv'
  <2>1. \A v \in Jobs : At(v, "idle") => At(v, "idle")'
    BY <1>2, TaskKinds DEF At
  <2>2. \A y \in Tasks : Opening(y)' => task'[y] = task[y] /\ Opening(y) /\ task[y].uid \in Jobs
    BY <1>1, <1>2 DEF Opening, Placed
  <2>3. \A c \in Commands : command'[c].state # "none" =>
           command[c].state # "none" /\ command'[c].uid = command[c].uid
    BY <1>3 DEF SameCommand
  <2>4. \A i \in Names : \A v : Owner(i, v) => row'[i].resources = row[i].resources
    BY <1>2 DEF Owner
  <2> QED
    BY <1>1, <1>3, <2>1, <2>2, <2>3, <2>4 DEF OpeningInv
<1>7. ReserveInv'
  <2> SUFFICES ASSUME excused' # Jobs, NEW y \in Tasks
               PROVE  /\ Holding(y)' =>
                            /\ Open(task[y].id)' /\ row'[task'[y].id].starting
                            /\ \A z \in Tasks : Holding(z)' /\ task'[z].id = task'[y].id => z = y
                      /\ task'[y].pc \in {"launching", "publishing"} =>
                            Built(task[y].id)' /\ row'[task'[y].id].uid = task'[y].uid
                      /\ At(y, "publishing")' =>
                            /\ command'[task'[y].cmd].uid = task'[y].uid
                            /\ command'[task'[y].cmd].id = task'[y].id
                            /\ command'[task'[y].cmd].state \in {"alive", "exited"}
    BY DEF ReserveInv
  <2>1. \A z \in Tasks \ {x} : Holding(z)' =>
           /\ Holding(z) /\ task'[z] = task[z] /\ task[z].id \in Names /\ task[z].id # id
           /\ Open(task[z].id) /\ row[task[z].id].starting
           /\ Open(task[z].id)' /\ row'[task[z].id].starting
    BY <1>1, <1>2, <1>3 DEF Holding, Opening, Placed, ReserveInv, Open
  <2>2. \A i \in Names : Built(i) => Built(i)'
    BY <1>2, <1>3 DEF Built, Open
  <2>3. CASE y = x
    <3>1. Open(task[x].id)' /\ row'[task'[x].id].starting
      BY <1>2, <1>3 DEF Open
    <3>2. \A z \in Tasks : Holding(z)' /\ task'[z].id = id => z = x
      BY <2>1
    <3>3. task'[x].pc = "launching" =>
             Built(task[x].id)' /\ row'[task'[x].id].uid = task'[x].uid
      BY <1>2, <1>3, <2>2 DEF Built, Open
    <3> QED
      BY <1>2, <2>3, <3>1, <3>2, <3>3 DEF At
  <2>4. CASE y # x
    <3>1. task'[y] = task[y]
      BY <1>2, <2>4
    <3>2. Holding(y)' =>
             /\ Open(task[y].id)' /\ row'[task'[y].id].starting
             /\ \A z \in Tasks : Holding(z)' /\ task'[z].id = task'[y].id => z = y
      <4>1. ASSUME Holding(y)', NEW z \in Tasks, Holding(z)', task'[z].id = task'[y].id
            PROVE  z = y
        BY <1>1, <1>2, <1>3, <2>1, <2>4, <4>1 DEF ReserveInv
      <4>2. ASSUME Holding(y)' PROVE Open(task[y].id)' /\ row'[task'[y].id].starting
        BY <2>1, <2>4, <3>1, <4>2 DEF Open
      <4> QED
        BY <4>1, <4>2
    <3>3. task'[y].pc \in {"launching", "publishing"} =>
             Built(task[y].id)' /\ row'[task'[y].id].uid = task'[y].uid
      <4>1. ASSUME task'[y].pc \in {"launching", "publishing"}
            PROVE  Built(task[y].id)' /\ row'[task'[y].id].uid = task'[y].uid
        <5>1. Built(task[y].id) /\ row[task[y].id].uid = task[y].uid /\ task[y].id \in Names
          BY <1>1, <1>3, <3>1, <4>1 DEF ReserveInv, Placed
        <5> QED
          BY <1>2, <1>3, <3>1, <5>1 DEF Built, Open
      <4> QED
        BY <4>1
    <3>4. At(y, "publishing")' =>
             /\ command'[task'[y].cmd].uid = task'[y].uid
             /\ command'[task'[y].cmd].id = task'[y].id
             /\ command'[task'[y].cmd].state \in {"alive", "exited"}
      <4>1. ASSUME At(y, "publishing")
            PROVE  /\ SameCommand(task[y].cmd)
                   /\ command[task[y].cmd].uid = task[y].uid
                   /\ command[task[y].cmd].id = task[y].id
                   /\ command[task[y].cmd].state \in {"alive", "exited"}
        BY <1>1, <1>3, <4>1 DEF ReserveInv, Placed, At
      <4> QED
        BY <3>1, <4>1 DEF SameCommand, At
    <3> QED
      BY <3>2, <3>3, <3>4
  <2> QED
    BY <2>3, <2>4
<1>8. FreeInv'
  <2>1. ASSUME task'[x].pc \in {"preparing", "launching"}, excused' # Jobs
        PROVE  Clean(row[task[x].id].uid)'
    BY <1>2, <1>3, <2>1
  <2>2. ~At(x, "reclaiming")'
    BY <1>2 DEF At
  <2> QED
    BY <1>2, <2>1, <2>2, FreeStays DEF FreeInv
<1> QED
  BY <1>4, <1>5, <1>6, <1>7, <1>8, SteadyKeeps DEF JobTableInv

-----------------------------------------------------------------------------
(* The operations, one by one.                                             *)

\* A task goes to another step of what it does.
LEMMA Goes ==
    ASSUME Typed, NEW x \in Tasks, NEW pc \in Steps, Goto(x, pc)
    PROVE  /\ task' \in [Tasks -> TaskStates]
           /\ \A y \in Tasks \ {x} : task'[y] = task[y]
           /\ task'[x].pc = pc /\ task'[x].id = task[x].id /\ task'[x].uid = task[x].uid
           /\ task'[x].cmd = task[x].cmd /\ task'[x].flag = task[x].flag
           /\ task'[x].resources = task[x].resources
<1> DEFINE v == [task[x] EXCEPT !.pc = pc]
<1>1. v \in TaskStates
  BY DEF Typed, TaskStates
<1>2. task' = [task EXCEPT ![x] = v]
  BY DEF Goto
<1>3. /\ v.pc = pc /\ v.id = task[x].id /\ v.uid = task[x].uid
      /\ v.cmd = task[x].cmd /\ v.flag = task[x].flag /\ v.resources = task[x].resources
  BY DEF Typed, TaskStates
<1> HIDE DEF v
<1> QED
  BY <1>1, <1>2, <1>3, TaskMoves

\* A task is done.
LEMMA Returns ==
    ASSUME Typed, NEW x \in Tasks, Return(x)
    PROVE  /\ task' \in [Tasks -> TaskStates]
           /\ \A y \in Tasks \ {x} : task'[y] = task[y]
           /\ task'[x] = Idle /\ task'[x].pc = "idle"
<1>1. Idle \in TaskStates /\ Idle.pc = "idle"
  BY DEF Idle, TaskStates, Steps
<1> QED
  BY <1>1, TaskMoves DEF Return

\* A task whose launch failed reports it, or is done.
LEMMA Fails ==
    ASSUME Typed, NEW x \in Launchers, NEW id \in Names, NEW retained \in BOOLEAN,
           Failed(x, id, retained)
    PROVE  /\ task' \in [Tasks -> TaskStates]
           /\ \A y \in Tasks \ {x} : task'[y] = task[y]
           /\ \/ task'[x].pc = "idle"
              \/ x \in Jobs /\ task'[x].pc = "reporting" /\ task'[x].id = id
<1> DEFINE v == [Idle EXCEPT !.pc = "reporting", !.id = id, !.flag = retained]
<1>1. Idle \in TaskStates /\ Idle.pc = "idle"
  BY DEF Idle, TaskStates, Steps
<1>2. v \in TaskStates /\ v.pc = "reporting" /\ v.id = id
  BY DEF Idle, TaskStates, Steps
<1>3. task' = [task EXCEPT ![x] = IF x \in Jobs THEN v ELSE Idle]
  BY DEF Failed
<1> HIDE DEF v
<1> QED
  BY <1>1, <1>2, <1>3, TaskMoves, TaskKinds

\* A task that is done, or at a step that needs no job, is at its place.
LEMMA Rested ==
    ASSUME Typed, NEW x \in Tasks, task'[x].pc \in {"idle", "blocked", "dropping"},
           x = Concluder => task'[x].pc # "blocked"
    PROVE  Placed(x)'
BY DEF Placed, Concluding

\* A row that did not change.
LEMMA RowsStay ==
    ASSUME row' = row
    PROVE  \A i \in Names : SameRow(i)
BY DEF SameJob, SameRow, Open

\* A command that did not change.
LEMMA CommandsStay ==
    ASSUME command' = command
    PROVE  \A c \in Commands : SameCommand(c)
BY DEF SameCommand

\* spawn fails to build the job, or finds that the row is gone.
LEMMA BuildFailsStep ==
    ASSUME JobTableInv, NEW t \in Callers, BuildFails(t) \/ (Build(t) /\ ~Open(task[t].id))
    PROVE  JobTableInv'
<1>1. Typed /\ (\A y \in Tasks : Placed(y)) /\ t \in Tasks
  BY Parts, TaskKinds
<1>2. /\ At(t, "building") /\ Goto(t, "unspawning")
      /\ UNCHANGED <<row, queue, locks, drawn, uids, command, tree, terminal, excused>>
  BY DEF Build, BuildFails
<1>3. /\ task' \in [Tasks -> TaskStates]
      /\ \A y \in Tasks \ {t} : task'[y] = task[y]
      /\ task'[t].pc = "unspawning" /\ task'[t].id = task[t].id /\ task'[t].uid = task[t].uid
      /\ task'[t].flag = task[t].flag
  BY <1>1, <1>2, Goes DEF Steps
<1>4. Typed'
  BY <1>1, <1>2, <1>3 DEF Typed, queue, locks
<1>5. Rests(t)
  <2>1. Placed(t)'
    BY <1>1, <1>2, <1>3, TaskKinds DEF Placed, At, Concluding
  <2> QED
    BY <1>2, <1>3, <2>1 DEF Rests, At
<1> QED
  BY <1>1, <1>2, <1>3, <1>4, <1>5, RowsStay, CommandsStay, Quiet DEF queue

\* The command ends.
LEMMA ExitStep ==
    ASSUME JobTableInv, NEW c \in Commands, Exit(c)
    PROVE  JobTableInv'
<1>1. Typed
  BY Parts
<1>2. /\ command[c].state = "alive"
      /\ command' = [command EXCEPT ![c].state = "exited"]
      /\ UNCHANGED <<row, queue, locks, task, drawn, uids, tree, terminal, excused>>
  BY DEF Exit
<1>3. command' \in [Commands -> CommandStates] /\ \A d \in Commands : SameCommand(d)
  BY <1>1, <1>2 DEF Typed, CommandStates, SameCommand
<1>4. Typed'
  BY <1>1, <1>2, <1>3 DEF Typed, queue, locks
<1> QED
  BY <1>2, <1>3, <1>4, TaskKinds, RowsStay, Quiet DEF queue, Rests

\* The conclusion task takes the table.
LEMMA LockTableStep ==
    ASSUME JobTableInv, LockTable
    PROVE  JobTableInv'
<1>1. Typed /\ (\A y \in Tasks : Placed(y)) /\ Concluder \in Tasks
  BY Parts, TaskKinds
<1>2. /\ At(Concluder, "locking") /\ Goto(Concluder, "checking") /\ tableLock' = Concluder
      /\ UNCHANGED <<row, queue, queueLock, drawn, uids, command, tree, terminal, excused>>
  BY DEF LockTable
<1>3. /\ task' \in [Tasks -> TaskStates]
      /\ \A y \in Tasks \ {Concluder} : task'[y] = task[y]
      /\ task'[Concluder].pc = "checking" /\ task'[Concluder].id = task[Concluder].id
      /\ task'[Concluder].cmd = task[Concluder].cmd
  BY <1>1, <1>2, Goes DEF Steps
<1>4. Typed'
  BY <1>1, <1>2, <1>3 DEF Typed, queue
<1>5. Rests(Concluder)
  <2>1. Placed(Concluder)'
    BY <1>1, <1>2, <1>3 DEF Placed, At, Concluding
  <2> QED
    BY <1>2, <1>3, <2>1 DEF Rests, At
<1> QED
  BY <1>1, <1>2, <1>3, <1>4, <1>5, RowsStay, CommandsStay, Quiet DEF queue

\* A stop waits for the table.
LEMMA StopBlocksStep ==
    ASSUME JobTableInv, NEW t \in Callers, StopBlocks(t)
    PROVE  JobTableInv'
<1>1. Typed /\ t \in Tasks /\ t # Concluder /\ t \notin Jobs
  BY Parts, TaskKinds
<1>2. /\ At(t, "idle") /\ Goto(t, "blocked") /\ queueLock' = t
      /\ UNCHANGED <<row, queue, tableLock, drawn, uids, command, tree, terminal, excused>>
  BY DEF StopBlocks
<1>3. /\ task' \in [Tasks -> TaskStates]
      /\ \A y \in Tasks \ {t} : task'[y] = task[y]
      /\ task'[t].pc = "blocked"
  BY <1>1, <1>2, Goes DEF Steps
<1>4. Typed'
  BY <1>1, <1>2, <1>3 DEF Typed, queue
<1>5. Rests(t)
  BY <1>1, <1>2, <1>3, Rested DEF Rests, At
<1> QED
  BY <1>1, <1>2, <1>3, <1>4, <1>5, RowsStay, CommandsStay, Quiet DEF queue

\* The terminal of a job that was closed is dropped.
LEMMA DropStep ==
    ASSUME JobTableInv, NEW x \in Tasks, Drop(x)
    PROVE  JobTableInv'
<1>1. Typed
  BY Parts
<1>2. /\ At(x, "dropping") /\ Return(x) /\ terminal' = Dropped(task[x].resources)
      /\ UNCHANGED <<row, queue, locks, drawn, uids, command, tree, excused>>
  BY DEF Drop
<1>3. /\ task' \in [Tasks -> TaskStates]
      /\ \A y \in Tasks \ {x} : task'[y] = task[y]
      /\ task'[x].pc = "idle"
  BY <1>1, <1>2, Returns
<1>4. Typed'
  <2>1. terminal' \in [Jobs -> {"unopened", "open", "closed"}]
    BY <1>1, <1>2 DEF Typed, Dropped
  <2> QED
    BY <1>1, <1>2, <1>3, <2>1 DEF Typed, queue, locks
<1>5. Rests(x)
  BY <1>1, <1>2, <1>3, Rested DEF Rests, At
<1> QED
  BY <1>2, <1>3, <1>4, <1>5, RowsStay, CommandsStay, Quiet DEF queue

\* keep has the job stay open.
LEMMA KeepStep ==
    ASSUME JobTableInv, NEW t \in Callers, NEW id \in Names, Keep(t, id)
    PROVE  JobTableInv'
<1>1. Typed
  BY Parts
<1> DEFINE r == [row[id] EXCEPT !.close = "never"]
<1>2. /\ Open(id) /\ row' = [row EXCEPT ![id] = r]
      /\ UNCHANGED <<queue, locks, task, drawn, uids, command, tree, terminal, excused>>
  BY DEF Keep
<1>3. /\ r \in Row /\ r # None
      /\ r.uid = row[id].uid /\ r.resources = row[id].resources
      /\ r.starting = row[id].starting /\ r.running = row[id].running /\ r.done = row[id].done
  BY <1>1, <1>2, Fields, NoneAssumption DEF Row
<1> HIDE DEF r
<1>4. /\ row' \in [Names -> Row \union {None}] /\ row'[id] = r
      /\ \A i \in Names \ {id} : row'[i] = row[i]
  BY <1>1, <1>2, <1>3, RowMoves
<1>5. Typed'
  BY <1>1, <1>2, <1>4 DEF Typed, queue, locks
<1>6. \A i \in Names : SameRow(i)
  BY <1>2, <1>3, <1>4 DEF SameJob, SameRow, Open
<1> QED
  BY <1>2, <1>5, <1>6, TaskKinds, CommandsStay, Quiet DEF queue, Rests

\* The failure of a launch is reported.
LEMMA ReportStep ==
    ASSUME JobTableInv, NEW x \in Jobs, Report(x)
    PROVE  JobTableInv'
<1>1. Typed /\ (\A y \in Tasks : Placed(y)) /\ x \in Tasks /\ x # Concluder
  BY Parts, TaskKinds
<1>2. PICK id : id = task[x].id
  OBVIOUS
<1> DEFINE r == [row[id] EXCEPT !.done = 0]
<1>3. /\ At(x, "reporting") /\ Goto(x, "retiring")
      /\ row' = IF Open(id) THEN [row EXCEPT ![id] = r] ELSE row
      /\ UNCHANGED <<queue, locks, drawn, uids, command, tree, terminal, excused>>
  BY <1>2 DEF Report
<1>4. id \in Names
  BY <1>1, <1>2, <1>3 DEF Placed, At
<1>5. Open(id) =>
        /\ r \in Row /\ r # None
        /\ r.uid = row[id].uid /\ r.resources = row[id].resources
        /\ r.starting = row[id].starting /\ r.running = row[id].running /\ r.done = 0
  BY <1>1, <1>4, Fields, NoneAssumption DEF Row
<1> HIDE DEF r
<1>6. row' \in [Names -> Row \union {None}] /\ \A i \in Names : SameRow(i)
  <2>1. CASE Open(id)
    <3>1. /\ row' \in [Names -> Row \union {None}] /\ row'[id] = r
          /\ \A i \in Names \ {id} : row'[i] = row[i]
      BY <1>1, <1>3, <1>4, <1>5, <2>1, RowMoves
    <3> QED
      BY <1>5, <2>1, <3>1 DEF SameJob, SameRow, Open
  <2>2. CASE ~Open(id)
    BY <1>1, <1>3, <2>2, RowsStay DEF Typed
  <2> QED
    BY <2>1, <2>2
<1>7. /\ task' \in [Tasks -> TaskStates]
      /\ \A y \in Tasks \ {x} : task'[y] = task[y]
      /\ task'[x].pc = "retiring" /\ task'[x].id = task[x].id
  BY <1>1, <1>3, Goes DEF Steps
<1>8. Typed'
  BY <1>1, <1>3, <1>6, <1>7 DEF Typed, queue, locks
<1>9. Rests(x)
  <2>1. Placed(x)'
    BY <1>1, <1>2, <1>4, <1>7 DEF Placed, Concluding
  <2> QED
    BY <1>3, <1>7, <2>1 DEF Rests, At
<1> QED
  BY <1>1, <1>3, <1>6, <1>7, <1>8, <1>9, CommandsStay, Quiet DEF queue

\* A launch finds its job not built, and the job is excused.
LEMMA UnbuiltStep ==
    ASSUME JobTableInv, NEW x \in Launchers, Prepare(x), ~Built(task[x].id)
    PROVE  JobTableInv'
<1>1. Typed /\ (\A y \in Tasks : Placed(y)) /\ x \in Tasks /\ x # Concluder
  BY Parts, TaskKinds, TasksAssumption
<1>2. PICK id : id = task[x].id
  OBVIOUS
<1>3. /\ At(x, "preparing") /\ Failed(x, id, FALSE)
      /\ excused' = IF Open(id) THEN excused \union {row[id].uid} ELSE excused
      /\ UNCHANGED <<row, queue, locks, drawn, uids, command, tree, terminal>>
  BY <1>2 DEF Prepare
<1>4. id \in Names
  BY <1>1, <1>2, <1>3 DEF Placed, At
<1>5. /\ task' \in [Tasks -> TaskStates]
      /\ \A y \in Tasks \ {x} : task'[y] = task[y]
      /\ \/ task'[x].pc = "idle"
         \/ x \in Jobs /\ task'[x].pc = "reporting" /\ task'[x].id = id
  BY <1>1, <1>3, <1>4, Fails
<1>6. excused \subseteq excused' /\ excused' \subseteq Jobs
  BY <1>1, <1>3, <1>4, Fields DEF Typed
<1>7. Typed'
  BY <1>1, <1>3, <1>5, <1>6 DEF Typed, queue, locks
<1>8. Rests(x)
  <2>1. Placed(x)'
    BY <1>1, <1>4, <1>5 DEF Placed, Concluding
  <2> QED
    BY <1>3, <1>5, <2>1 DEF Rests, At
<1> QED
  BY <1>1, <1>3, <1>5, <1>6, <1>7, <1>8, RowsStay, CommandsStay, Quiet DEF queue

\* A launched command finds no row to be published in.
LEMMA RowlessStep ==
    ASSUME JobTableInv, NEW x \in Launchers, Publish(x), ~Open(task[x].id)
    PROVE  JobTableInv'
<1>1. Typed /\ (\A y \in Tasks : Placed(y)) /\ ReserveInv /\ x \in Tasks /\ x # Concluder
  BY Parts, TaskKinds, TasksAssumption
<1>2. /\ At(x, "publishing") /\ Return(x)
      /\ UNCHANGED <<row, command>>
      /\ UNCHANGED <<queue, locks, drawn, uids, tree, terminal, excused>>
  BY DEF Publish
<1>3. /\ task' \in [Tasks -> TaskStates]
      /\ \A y \in Tasks \ {x} : task'[y] = task[y]
      /\ task'[x].pc = "idle"
  BY <1>1, <1>2, Returns
<1>4. excused = Jobs
  BY <1>1, <1>2 DEF ReserveInv, Holding, At
<1>5. Typed'
  BY <1>1, <1>2, <1>3 DEF Typed, queue, locks
<1>6. Rests(x)
  BY <1>1, <1>2, <1>3, <1>4, Rested DEF Rests, At
<1> QED
  BY <1>1, <1>2, <1>3, <1>5, <1>6, RowsStay, CommandsStay, Quiet DEF queue

\* The conclusions owed are so many commands.
LEMMA OwedFinite ==
    ASSUME NEW id
    PROVE  IsFiniteSet(Owed(id)) /\ Cardinality(Owed(id)) \in 0..MaxCommands
<1>1. IsFiniteSet(Commands) /\ Cardinality(Commands) = MaxCommands
  <2>1. Commands = 1..MaxCommands
    BY DEF Commands
  <2>2. IF 1 <= MaxCommands THEN MaxCommands - 1 + 1 = MaxCommands ELSE 0 = MaxCommands
    BY BoundsAssumption
  <2> QED
    BY <2>1, <2>2, BoundsAssumption, FS_Interval
<1>2. Owed(id) \subseteq Commands
  BY DEF Owed
<1>3. IsFiniteSet(Owed(id)) /\ Cardinality(Owed(id)) <= MaxCommands
  BY <1>1, <1>2, FS_Subset
<1> QED
  BY <1>3, FS_CardinalityType, BoundsAssumption

\* A queue that counts nothing for a name owes it no conclusion.
LEMMA OwesNone ==
    ASSUME JobTableInv, NEW id \in Names, ~Owes(id)
    PROVE  Owed(id) = {}
<1>1. active[id] = Cardinality(Owed(id)) /\ active[id] \in Nat
  BY Parts DEF ActiveInv, Typed
<1>2. Cardinality(Owed(id)) = 0
  BY <1>1 DEF Owes
<1> QED
  BY <1>2, OwedFinite, FS_EmptySet

\* A job with no command running, reaped or owed has nothing outstanding, unless
\* a launch of it is about to be published.
LEMMA IdleJob ==
    ASSUME JobTableInv, NEW id \in Names, Open(id), row[id].running = 0,
           ~Owes(id), ~Unsubmitted(id), row[id].uid \notin excused,
           \A x \in Tasks : At(x, "publishing") => task[x].id # id,
           NEW c \in Commands, Due(c)
    PROVE  command[c].uid # row[id].uid
<1>1. SUFFICES ASSUME command[c].uid = row[id].uid
               PROVE  FALSE
  OBVIOUS
<1>2. /\ RowsInv /\ ReserveInv /\ KeptInv /\ Typed /\ \A y \in Tasks : Placed(y)
  BY Parts
<1>3. ~Excused(c) /\ excused # Jobs /\ command[c].uid \in Jobs /\ command[c].id \in Names
  BY <1>1, OutstandingOf DEF Excused
<1>4. /\ Owner(command[c].id, command[c].uid)
      /\ command[c].state \in {"alive", "exited"} =>
            \/ row[command[c].id].running = c
            \/ \E x \in Tasks : At(x, "publishing") /\ task[x].cmd = c
  BY <1>2, <1>3 DEF KeptInv
<1>5. command[c].id = id
  BY <1>1, <1>2, <1>3, <1>4 DEF RowsInv, Owner
<1>6. CASE command[c].state \in {"alive", "exited"}
  <2>1. c # 0
    BY TaskKinds
  <2>2. PICK x \in Tasks : At(x, "publishing") /\ task[x].cmd = c
    BY <1>4, <1>5, <1>6, <2>1
  <2>3. task[x].id = id
    BY <1>2, <1>3, <1>5, <2>2 DEF ReserveInv
  <2> QED
    BY <2>2, <2>3
<1>7. CASE command[c].state = "reaped"
  BY <1>5, <1>7 DEF Unsubmitted
<1>8. CASE command[c].state = "queued" \/ (Working /\ c = task[Concluder].cmd)
  <2>1. c \in Owed(id)
    BY <1>5, <1>8 DEF Owed
  <2> QED
    BY <2>1, OwesNone
<1> QED
  BY <1>6, <1>7, <1>8 DEF Due, Unconcluded

\* So a job that can be closed is clean.
LEMMA CloseClean ==
    ASSUME JobTableInv, NEW id \in Names, Open(id), row[id].running = 0, ~row[id].starting,
           ~Owes(id), ~Unsubmitted(id), row[id].uid \notin excused,
           NEW c \in Commands, Due(c)
    PROVE  command[c].uid # row[id].uid
<1>1. excused # Jobs
  BY Parts, Fields
<1>2. \A x \in Tasks : At(x, "publishing") => task[x].id # id
  BY <1>1, Parts DEF ReserveInv, Holding, At
<1> QED
  BY <1>2, IdleJob

\* A job that is not being started is held by nobody.
LEMMA HeldStarts ==
    ASSUME JobTableInv, NEW id \in Names, excused # Jobs, NEW x \in Tasks, Holding(x),
           task[x].id = id
    PROVE  Open(id) /\ row[id].starting
BY Parts DEF ReserveInv

\* Taking a row leaves a task that reclaims the job.
LEMMA TakesRow ==
    ASSUME Typed, NEW x \in Tasks, NEW id \in Names, NEW r \in Row, TakeRow(x, id, r),
           r.uid = row[id].uid, Open(id),
           task[x].pc \in {"idle", "retiring", "checking"}, task[x].pc = "idle" => x \notin Jobs
    PROVE  /\ Removes(x, id)
           /\ row' \in [Names -> Row \union {None}] /\ task' \in [Tasks -> TaskStates]
<1> DEFINE v == [Idle EXCEPT !.pc = "reclaiming", !.uid = r.uid, !.resources = r.resources]
<1>1. row' = [row EXCEPT ![id] = None] /\ task' = [task EXCEPT ![x] = v]
  BY DEF TakeRow
<1>2. v \in TaskStates /\ v.pc = "reclaiming" /\ v.uid = r.uid
  BY DEF Idle, TaskStates, Steps, Row
<1> HIDE DEF v
<1>3. /\ row' \in [Names -> Row \union {None}] /\ row'[id] = None
      /\ \A i \in Names \ {id} : row'[i] = row[i]
  BY <1>1, RowMoves
<1>4. /\ task' \in [Tasks -> TaskStates] /\ task'[x] = v
      /\ \A y \in Tasks \ {x} : task'[y] = task[y]
  BY <1>1, <1>2, TaskMoves
<1> QED
  BY <1>2, <1>3, <1>4 DEF Removes

\* A stop that is accepted keeps the invariant, whether it closes the job or not.
LEMMA AcceptStopStep ==
    ASSUME JobTableInv, NEW t \in Callers, NEW id \in Names, NEW mode \in {"graceful", "force"},
           At(t, "idle"), Open(id), AcceptStop(t, id, mode),
           command' \in [Commands -> CommandStates], \A c \in Commands : SameCommand(c),
           row[id].running = 0 => command' = command,
           UNCHANGED <<queue, locks, drawn, uids, tree, terminal>>
    PROVE  JobTableInv'
<1>1. /\ Typed /\ t \in Tasks /\ t # Concluder /\ t \notin Jobs
      /\ row[id].uid \in Jobs
  BY Parts, TaskKinds, Fields
<1> DEFINE r == [row[id] EXCEPT !.close = mode]
           closes == Closable(r) /\ ~Owes(id)
<1>2. /\ r \in Row /\ r # None
      /\ r.uid = row[id].uid /\ r.resources = row[id].resources
      /\ r.starting = row[id].starting /\ r.running = row[id].running /\ r.done = row[id].done
  BY <1>1, Fields, NoneAssumption DEF Row
<1>3. /\ \/ ~closes /\ row' = [row EXCEPT ![id] = r] /\ UNCHANGED task
         \/ closes /\ TakeRow(t, id, r)
      /\ excused' = IF closes /\ Unsubmitted(id) THEN excused \union {row[id].uid}
                    ELSE excused
  BY DEF AcceptStop, TakenForIdle
<1>4. closes => row[id].running = 0 /\ ~row[id].starting /\ ~Owes(id)
  BY <1>2 DEF Closable
<1>5. /\ excused \subseteq excused' /\ excused' \subseteq Jobs
      /\ ~closes => excused' = excused
      /\ closes /\ row[id].uid \notin excused' => ~Unsubmitted(id) /\ row[id].uid \notin excused
  BY <1>1, <1>3 DEF Typed
<1> HIDE DEF r, closes
<1>6. CASE ~closes
  <2>1. row' = [row EXCEPT ![id] = r] /\ task' = task
    BY <1>3, <1>6
  <2>2. /\ row' \in [Names -> Row \union {None}] /\ row'[id] = r
        /\ \A i \in Names \ {id} : row'[i] = row[i]
    BY <1>1, <1>2, <2>1, RowMoves
  <2>3. Typed'
    BY <1>1, <1>5, <1>6, <2>1, <2>2 DEF Typed, queue, locks
  <2>4. \A i \in Names : SameRow(i)
    BY <1>2, <2>2 DEF SameJob, SameRow, Open
  <2> QED
    BY <1>1, <1>5, <2>1, <2>3, <2>4, Quiet DEF queue, Rests
<1>7. CASE closes
  <2>1. TakeRow(t, id, r)
    BY <1>3, <1>7
  <2>2. /\ Removes(t, id)
        /\ row' \in [Names -> Row \union {None}] /\ task' \in [Tasks -> TaskStates]
    BY <1>1, <1>2, <2>1, TakesRow DEF At
  <2>3. Typed' /\ command' = command
    BY <1>1, <1>4, <1>5, <1>7, <2>2 DEF Typed, queue, locks
  <2>4. excused' # Jobs => \A y \in Tasks \ {t} : Holding(y) => task[y].id # id
    BY <1>1, <1>4, <1>5, <1>7, <2>3, HeldStarts, Excuses
  <2>5. row[id].uid \notin excused' =>
           \A c \in Commands : Due(c) => command[c].uid # row[id].uid
    BY <1>4, <1>5, <1>7, CloseClean
  <2> QED
    BY <1>1, <1>5, <2>2, <2>3, <2>4, <2>5, Closes DEF queue
<1> QED
  BY <1>6, <1>7

\* stop.
LEMMA StopStep ==
    ASSUME JobTableInv, NEW t \in Callers, NEW id \in Names, Stop(t, id)
    PROVE  JobTableInv'
<1>1. /\ At(t, "idle") /\ Open(id) /\ AcceptStop(t, id, "graceful") /\ command' = command
      /\ UNCHANGED <<queue, locks, drawn, uids, tree, terminal>>
  BY DEF Stop
<1>2. command' \in [Commands -> CommandStates]
  BY <1>1, Parts DEF Typed
<1> QED
  BY <1>1, <1>2, CommandsStay, AcceptStopStep

\* A kill has the command exit.
LEMMA Kills ==
    ASSUME Typed, NEW c \in Commands, Kill(c)
    PROVE  /\ command' \in [Commands -> CommandStates]
           /\ \A d \in Commands : SameCommand(d)
<1>1. command[c] \in CommandStates
  BY Fields
<1>2. PICK s : s = IF command[c].state = "alive" THEN "exited" ELSE command[c].state
  OBVIOUS
<1> DEFINE v == [command[c] EXCEPT !.forced = TRUE, !.state = s]
<1>3. v \in CommandStates /\ v.uid = command[c].uid /\ v.id = command[c].id /\ v.state = s
  BY <1>1, <1>2 DEF CommandStates
<1>4. command' = [command EXCEPT ![c] = v]
  BY <1>2 DEF Kill, Typed, CommandStates
<1> HIDE DEF v
<1>5. /\ command' \in [Commands -> CommandStates] /\ command'[c] = v
      /\ \A d \in Commands \ {c} : command'[d] = command[d]
  BY <1>3, <1>4 DEF Typed
<1> QED
  BY <1>2, <1>3, <1>5 DEF SameCommand

\* stop with force.
LEMMA ForceStopStep ==
    ASSUME JobTableInv, NEW t \in Callers, NEW id \in Names, ForceStop(t, id)
    PROVE  JobTableInv'
<1>1. /\ At(t, "idle") /\ Open(id) /\ AcceptStop(t, id, "force")
      /\ IF row[id].running # 0 THEN Kill(row[id].running) ELSE UNCHANGED command
      /\ UNCHANGED <<queue, locks, drawn, uids, tree, terminal>>
  BY DEF ForceStop
<1>2. Typed /\ row[id].running \in Commands \union {0}
  BY <1>1, Parts, Fields
<1>3. command' \in [Commands -> CommandStates] /\ \A c \in Commands : SameCommand(c)
  <2>1. CASE row[id].running # 0
    BY <1>1, <1>2, <2>1, Kills
  <2>2. CASE row[id].running = 0
    BY <1>1, <1>2, <2>2, CommandsStay DEF Typed
  <2> QED
    BY <2>1, <2>2
<1> QED
  BY <1>1, <1>3, AcceptStopStep

\* conclude_one, under both mutexes: the job is closed when nothing is in flight.
LEMMA CheckStep ==
    ASSUME JobTableInv, Check
    PROVE  JobTableInv'
<1>1. /\ Typed /\ (\A y \in Tasks : Placed(y)) /\ Concluder \in Tasks /\ Concluder \notin Jobs
  BY Parts, TaskKinds
<1>2. PICK id : id = task[Concluder].id
  OBVIOUS
<1> DEFINE closes == Open(id) /\ Closable(row[id]) /\ ~Owes(id)
<1>3. /\ At(Concluder, "checking") /\ tableLock' = None
      /\ UNCHANGED <<queue, queueLock, drawn, uids, command, tree>>
      /\ \/ ~closes /\ Return(Concluder) /\ UNCHANGED <<row, terminal>>
         \/ closes /\ TakeRow(Concluder, id, row[id]) /\ UNCHANGED terminal
         \/ /\ closes /\ row' = [row EXCEPT ![id] = None]
            /\ terminal' = Dropped(row[id].resources) /\ Return(Concluder)
      /\ IF closes /\ row[id].uid # command[task[Concluder].cmd].uid
         THEN excused' = excused \union {row[id].uid}
         ELSE TakenForIdle(id, closes)
  BY <1>2 DEF Check
<1>4. id \in Names
  BY <1>1, <1>2, <1>3 DEF Placed, At, Concluding
<1>5. Open(id) => row[id] \in Row /\ row[id].uid \in Jobs
  BY <1>1, <1>4, Fields
<1>6. /\ excused \subseteq excused' /\ excused' \subseteq Jobs
      /\ ~closes => excused' = excused
      /\ closes => row[id].running = 0 /\ ~row[id].starting /\ ~Owes(id) /\ Open(id)
      /\ closes /\ row[id].uid \notin excused' => ~Unsubmitted(id) /\ row[id].uid \notin excused
  BY <1>1, <1>3, <1>5 DEF Typed, TakenForIdle, Closable
<1>7. terminal' \in [Jobs -> {"unopened", "open", "closed"}]
  BY <1>1, <1>3 DEF Typed, Dropped
<1>8. /\ ~closes => Return(Concluder) /\ row' = row
      /\ closes => \/ TakeRow(Concluder, id, row[id])
                   \/ row' = [row EXCEPT ![id] = None] /\ Return(Concluder)
  BY <1>3
<1> HIDE DEF closes
<1>9. CASE ~closes
  <2>1. /\ task' \in [Tasks -> TaskStates]
        /\ \A y \in Tasks \ {Concluder} : task'[y] = task[y]
        /\ task'[Concluder].pc = "idle" /\ row' = row
    BY <1>1, <1>8, <1>9, Returns
  <2>2. Typed'
    BY <1>1, <1>3, <1>6, <1>7, <2>1 DEF Typed, queue
  <2>3. Rests(Concluder)
    BY <1>1, <1>3, <2>1, Rested DEF Rests, At
  <2> QED
    BY <1>1, <1>3, <1>6, <2>1, <2>2, <2>3, RowsStay, CommandsStay, Quiet DEF queue
<1>10. CASE closes
  <2>1. /\ Removes(Concluder, id)
        /\ row' \in [Names -> Row \union {None}] /\ task' \in [Tasks -> TaskStates]
    <3>1. CASE TakeRow(Concluder, id, row[id])
      BY <1>1, <1>3, <1>4, <1>5, <1>6, <1>10, <3>1, TakesRow DEF At
    <3>2. CASE row' = [row EXCEPT ![id] = None] /\ Return(Concluder)
      <4>1. /\ row' \in [Names -> Row \union {None}] /\ row'[id] = None
            /\ \A i \in Names \ {id} : row'[i] = row[i]
        BY <1>1, <1>4, <3>2, RowMoves
      <4>2. /\ task' \in [Tasks -> TaskStates]
            /\ \A y \in Tasks \ {Concluder} : task'[y] = task[y]
            /\ task'[Concluder].pc = "idle"
        BY <1>1, <3>2, Returns
      <4> QED
        BY <1>3, <1>6, <1>10, <4>1, <4>2 DEF Removes, At
    <3> QED
      BY <1>8, <1>10, <3>1, <3>2
  <2>2. Typed'
    BY <1>1, <1>3, <1>6, <1>7, <2>1 DEF Typed, queue
  <2>3. excused' # Jobs => \A y \in Tasks \ {Concluder} : Holding(y) => task[y].id # id
    BY <1>1, <1>4, <1>6, <1>10, <2>2, HeldStarts, Excuses
  <2>4. row[id].uid \notin excused' =>
           \A c \in Commands : Due(c) => command[c].uid # row[id].uid
    BY <1>4, <1>6, <1>10, CloseClean
  <2> QED
    BY <1>1, <1>3, <1>4, <1>6, <2>1, <2>2, <2>3, <2>4, Closes DEF queue
<1> QED
  BY <1>9, <1>10

\* A job whose first launch failed is closed.
LEMMA RetireStep ==
    ASSUME JobTableInv, NEW x \in Jobs, Retire(x)
    PROVE  JobTableInv'
<1>1. Typed /\ (\A y \in Tasks : Placed(y)) /\ x \in Tasks /\ x # Concluder
  BY Parts, TaskKinds
<1>2. PICK id : id = task[x].id
  OBVIOUS
<1> DEFINE r == [row[id] EXCEPT !.close = "graceful"]
<1>3. /\ At(x, "retiring")
      /\ UNCHANGED <<queue, locks, drawn, uids, command, tree, terminal>>
      /\ \/ Return(x) /\ UNCHANGED <<row, excused>>
         \/ /\ Open(id) /\ row' = [row EXCEPT ![id] = r]
            /\ Return(x) /\ UNCHANGED excused
         \/ /\ Open(id) /\ Closable(r) /\ TakeRow(x, id, r)
            /\ excused' = IF Owes(id) \/ Unsubmitted(id)
                          THEN excused \union {r.uid} ELSE excused
  BY <1>2 DEF Retire
<1>4. id \in Names
  BY <1>1, <1>2, <1>3 DEF Placed, At
<1>5. Open(id) =>
        /\ r \in Row /\ r # None
        /\ r.uid = row[id].uid /\ r.resources = row[id].resources
        /\ r.starting = row[id].starting /\ r.running = row[id].running
        /\ r.done = row[id].done /\ r.uid \in Jobs
  BY <1>1, <1>4, Fields, NoneAssumption DEF Row
<1> HIDE DEF r
<1>6. CASE /\ Return(x) /\ UNCHANGED excused
           /\ row' = row \/ (Open(id) /\ row' = [row EXCEPT ![id] = r])
  <2>1. /\ task' \in [Tasks -> TaskStates]
        /\ \A y \in Tasks \ {x} : task'[y] = task[y]
        /\ task'[x].pc = "idle"
    BY <1>1, <1>6, Returns
  <2>2. row' \in [Names -> Row \union {None}] /\ \A i \in Names : SameRow(i)
    <3>1. CASE row' = row
      BY <1>1, <3>1, RowsStay DEF Typed
    <3>2. CASE Open(id) /\ row' = [row EXCEPT ![id] = r]
      <4>1. /\ row' \in [Names -> Row \union {None}] /\ row'[id] = r
            /\ \A i \in Names \ {id} : row'[i] = row[i]
        BY <1>1, <1>4, <1>5, <3>2, RowMoves
      <4> QED
        BY <1>5, <3>2, <4>1 DEF SameJob, SameRow, Open
    <3> QED
      BY <1>6, <3>1, <3>2
  <2>3. Typed'
    BY <1>1, <1>3, <1>6, <2>1, <2>2 DEF Typed, queue, locks
  <2>4. Rests(x)
    BY <1>1, <1>3, <2>1, Rested DEF Rests, At
  <2> QED
    BY <1>1, <1>3, <1>6, <2>1, <2>2, <2>3, <2>4, CommandsStay, Quiet DEF queue
<1>7. CASE /\ Open(id) /\ Closable(r) /\ TakeRow(x, id, r)
           /\ excused' = IF Owes(id) \/ Unsubmitted(id)
                         THEN excused \union {r.uid} ELSE excused
  <2>1. /\ row[id].running = 0 /\ ~row[id].starting
        /\ excused \subseteq excused' /\ excused' \subseteq Jobs
        /\ row[id].uid \notin excused' =>
              ~Owes(id) /\ ~Unsubmitted(id) /\ row[id].uid \notin excused
    BY <1>1, <1>5, <1>7 DEF Closable, Typed
  <2>2. /\ Removes(x, id)
        /\ row' \in [Names -> Row \union {None}] /\ task' \in [Tasks -> TaskStates]
    BY <1>1, <1>3, <1>4, <1>5, <1>7, TakesRow DEF At
  <2>3. Typed'
    BY <1>1, <1>3, <2>1, <2>2 DEF Typed, queue, locks
  <2>4. excused' # Jobs => \A y \in Tasks \ {x} : Holding(y) => task[y].id # id
    BY <1>1, <1>4, <2>1, <2>3, HeldStarts, Excuses
  <2>5. row[id].uid \notin excused' =>
           \A c \in Commands : Due(c) => command[c].uid # row[id].uid
    BY <1>4, <1>7, <2>1, CloseClean
  <2> QED
    BY <1>1, <1>3, <1>4, <2>1, <2>2, <2>3, <2>4, <2>5, Closes DEF queue
<1> QED
  BY <1>3, <1>6, <1>7

\* A spawn that failed removes the row of its name.
LEMMA UnspawnStep ==
    ASSUME JobTableInv, NEW t \in Callers, Unspawn(t)
    PROVE  JobTableInv'
<1>1. /\ Typed /\ (\A y \in Tasks : Placed(y)) /\ OpeningInv /\ ReserveInv
      /\ t \in Tasks /\ t # Concluder /\ t \notin Jobs
  BY Parts, TaskKinds
<1>2. PICK id, u : id = task[t].id /\ u = task[t].uid
  OBVIOUS
<1>3. /\ At(t, "unspawning") /\ Return(t)
      /\ UNCHANGED <<queue, locks, drawn, uids, command, tree>>
      /\ \/ /\ Open(id) /\ row' = [row EXCEPT ![id] = None]
            /\ terminal' = Dropped(row[id].resources)
            /\ excused' = IF row[id].uid = u /\ (row[id].starting => task[t].flag)
                          THEN excused ELSE Jobs
         \/ ~Open(id) /\ UNCHANGED <<row, terminal, excused>>
  BY <1>2 DEF Unspawn
<1>4. /\ task' \in [Tasks -> TaskStates]
      /\ \A y \in Tasks \ {t} : task'[y] = task[y]
      /\ task'[t].pc = "idle"
  BY <1>1, <1>3, Returns
<1>5. id \in Names /\ u \in Jobs
  BY <1>1, <1>2, <1>3 DEF Placed, At
<1>6. CASE ~Open(id)
  <2>1. UNCHANGED <<row, terminal, excused>>
    BY <1>3, <1>6
  <2>2. Typed'
    BY <1>1, <1>3, <1>4, <2>1 DEF Typed, queue, locks
  <2>3. Rests(t)
    BY <1>1, <1>3, <1>4, Rested DEF Rests, At
  <2> QED
    BY <1>1, <1>3, <1>4, <2>1, <2>2, <2>3, RowsStay, CommandsStay, Quiet DEF queue
<1>7. CASE Open(id)
  <2>1. /\ row' = [row EXCEPT ![id] = None]
        /\ terminal' = Dropped(row[id].resources)
        /\ excused' = IF row[id].uid = u /\ (row[id].starting => task[t].flag)
                      THEN excused ELSE Jobs
    BY <1>3, <1>7
  <2>2. /\ row' \in [Names -> Row \union {None}] /\ row'[id] = None
        /\ \A i \in Names \ {id} : row'[i] = row[i]
    BY <1>1, <1>5, <2>1, RowMoves
  <2>3. excused \subseteq excused' /\ excused' \subseteq Jobs
    BY <1>1, <2>1 DEF Typed
  <2>4. Typed'
    <3>1. terminal' \in [Jobs -> {"unopened", "open", "closed"}]
      BY <1>1, <2>1 DEF Typed, Dropped
    <3> QED
      BY <1>1, <1>3, <1>4, <2>2, <2>3, <3>1 DEF Typed, queue, locks
  <2>5. Removes(t, id)
    BY <1>1, <1>3, <1>4, <1>7, <2>2 DEF Removes, At
  <2>6. excused' # Jobs => /\ excused # Jobs /\ row[id].uid = u
                           /\ row[id].starting => task[t].flag
    BY <2>1
  <2>7. ASSUME excused' # Jobs, NEW y \in Tasks \ {t}, Holding(y), task[y].id = id
        PROVE  FALSE
    <3>1. Holding(t) /\ task[t].id = id
      BY <1>1, <1>2, <1>3, <1>5, <2>6, <2>7, HeldStarts DEF Holding, Opening, At
    <3> QED
      BY <1>1, <2>6, <2>7, <3>1 DEF ReserveInv
  <2>8. ASSUME row[id].uid \notin excused', NEW c \in Commands, Due(c)
        PROVE  command[c].uid # row[id].uid
    <3>1. excused' # Jobs
      BY <1>1, <1>5, <1>7, <2>8, Fields
    <3>2. Opening(t)
      BY <1>3 DEF Opening, At
    <3> QED
      BY <1>1, <1>2, <2>6, <2>8, <3>1, <3>2, OutstandingOf DEF OpeningInv
  <2> QED
    BY <1>1, <1>3, <1>5, <2>3, <2>4, <2>5, <2>7, <2>8, Closes DEF queue
<1> QED
  BY <1>6, <1>7

\* A task other than the concluder's that publishes nothing moves alone.
LEMMA SteadyTask ==
    ASSUME Typed, NEW x \in Tasks, x # Concluder, ~At(x, "publishing"),
           \A y \in Tasks \ {x} : task'[y] = task[y],
           \A i \in Names : row'[i] = row[i], command' = command,
           UNCHANGED <<queue, tree, uids>>, excused \subseteq excused'
    PROVE  Steady /\ KeepsRows
<1>1. uids <= uids'
  BY Fields
<1>2. \A y \in Tasks : At(y, "publishing") => task'[y] = task[y]
  OBVIOUS
<1> QED
  BY <1>1, <1>2, CommandsStay, TaskKinds DEF Steady, KeepsRows, Open, queue

\* start_in reserves the job.
LEMMA StartInStep ==
    ASSUME JobTableInv, NEW t \in Callers, NEW id \in Names, NEW calls \in BOOLEAN,
           StartIn(t, id, calls)
    PROVE  JobTableInv'
<1>1. /\ Typed /\ t \in Tasks /\ t # Concluder /\ t \notin Jobs
  BY Parts, TaskKinds
<1> DEFINE r == [row[id] EXCEPT !.starting = TRUE]
           v == [Idle EXCEPT !.pc = "waiting", !.id = id, !.flag = calls]
<1>2. /\ At(t, "idle") /\ Open(id) /\ row[id].running = 0 /\ ~row[id].starting
      /\ row' = [row EXCEPT ![id] = r] /\ task' = [task EXCEPT ![t] = v]
      /\ UNCHANGED <<queue, locks, drawn, uids, command, tree, terminal, excused>>
  BY DEF StartIn, Busy
<1>3. /\ r \in Row /\ r # None
      /\ r.uid = row[id].uid /\ r.resources = row[id].resources
      /\ r.starting = TRUE /\ r.running = row[id].running /\ r.done = row[id].done
  BY <1>1, <1>2, Fields, NoneAssumption DEF Row
<1>4. v \in TaskStates /\ v.pc = "waiting" /\ v.id = id
  BY DEF Idle, TaskStates, Steps
<1> HIDE DEF r, v
<1>5. /\ row' \in [Names -> Row \union {None}] /\ row'[id] = r
      /\ \A i \in Names \ {id} : row'[i] = row[i]
      /\ task' \in [Tasks -> TaskStates] /\ task'[t] = v
      /\ \A y \in Tasks \ {t} : task'[y] = task[y]
  BY <1>1, <1>2, <1>3, <1>4, RowMoves, TaskMoves
<1>6. Typed'
  BY <1>1, <1>2, <1>5 DEF Typed, queue, locks
<1>7. Steady /\ KeepsRows
  <2>1. uids <= uids' /\ \A c \in Commands : SameCommand(c)
    BY <1>1, <1>2, Fields, CommandsStay
  <2>2. \A y \in Tasks : At(y, "publishing") => task'[y] = task[y]
    BY <1>2, <1>5 DEF At
  <2>3. \A i \in Names : /\ row'[i] # None <=> Open(i)
                         /\ Open(i) => /\ row'[i].uid = row[i].uid
                                       /\ row'[i].running = row[i].running
                                       /\ row'[i].done = row[i].done
    BY <1>2, <1>3, <1>5 DEF Open
  <2> QED
    BY <1>1, <1>2, <1>5, <2>1, <2>2, <2>3, TaskKinds DEF Steady, KeepsRows, queue
<1>8. Reserves(t, id)
  <2>1. Placed(t)'
    BY <1>1, <1>4, <1>5 DEF Placed, Concluding
  <2>2. excused' # Jobs => \A z \in Tasks \ {t} : Holding(z) => task[z].id # id
    BY <1>2, HeldStarts
  <2> QED
    BY <1>1, <1>2, <1>3, <1>4, <1>5, <2>1, <2>2 DEF Reserves, Opening, At
<1> QED
  BY <1>1, <1>2, <1>6, <1>7, <1>8, ReservesStep

\* start_in has waited for the conclusions the queue knew of.
LEMMA AwaitStep ==
    ASSUME JobTableInv, NEW t \in Callers, Await(t)
    PROVE  JobTableInv'
<1>1. /\ Typed /\ (\A y \in Tasks : Placed(y)) /\ RowsInv /\ ReserveInv
      /\ t \in Tasks /\ t # Concluder /\ t \notin Jobs
  BY Parts, TaskKinds
<1>2. PICK id : id = task[t].id
  OBVIOUS
<1>3. /\ At(t, "waiting") /\ ~Owes(id) /\ Goto(t, "preparing")
      /\ excused' = IF Open(id) /\ Unsubmitted(id) THEN excused \union {row[id].uid}
                    ELSE excused
      /\ UNCHANGED <<row, queue, locks, drawn, uids, command, tree, terminal>>
  BY <1>2 DEF Await, TakenForIdle
<1>4. id \in Names
  BY <1>1, <1>2, <1>3 DEF Placed, At
<1>5. /\ task' \in [Tasks -> TaskStates]
      /\ \A y \in Tasks \ {t} : task'[y] = task[y]
      /\ task'[t].pc = "preparing" /\ task'[t].id = id
  BY <1>1, <1>2, <1>3, Goes DEF Steps
<1>6. excused \subseteq excused' /\ excused' \subseteq Jobs
  BY <1>1, <1>3, <1>4, Fields DEF Typed
<1>7. Typed'
  BY <1>1, <1>3, <1>5, <1>6 DEF Typed, queue, locks
<1>8. Steady /\ KeepsRows
  BY <1>1, <1>3, <1>5, <1>6, SteadyTask DEF At
<1>9. excused' # Jobs => excused # Jobs
  BY <1>1, <1>6, <1>7, Excuses
<1>10. ASSUME excused' # Jobs
       PROVE  /\ Open(id) /\ row'[id].starting
              /\ \A z \in Tasks \ {t} : Holding(z) => task[z].id # id
              /\ Clean(row[id].uid)'
  <2>1. /\ Open(id) /\ row[id].starting /\ row[id].running = 0
        /\ \A z \in Tasks \ {t} : Holding(z) => task[z].id # id
    BY <1>1, <1>2, <1>3, <1>4, <1>9, <1>10 DEF ReserveInv, RowsInv, Holding, At
  <2>2. \A x \in Tasks : At(x, "publishing") => task[x].id # id
    BY <1>3, <2>1 DEF Holding, At
  <2>3. ASSUME row[id].uid \notin excused', NEW c \in Commands, Due(c)
        PROVE  command[c].uid # row[id].uid
    <3>1. row[id].uid \notin excused /\ ~Unsubmitted(id)
      BY <1>3, <2>1, <2>3
    <3> QED
      BY <1>3, <1>4, <2>1, <2>2, <2>3, <3>1, IdleJob
  <2>4. \A c \in Commands : Due(c)' <=> Due(c)
    BY <1>7, <1>8, SteadyKeeps
  <2> QED
    BY <1>3, <2>1, <2>3, <2>4 DEF Clean
<1>11. Reserves(t, id)
  <2>1. Placed(t)'
    BY <1>1, <1>4, <1>5 DEF Placed, Concluding
  <2> QED
    BY <1>1, <1>3, <1>5, <1>10, <2>1 DEF Reserves, Opening, At
<1> QED
  BY <1>1, <1>3, <1>4, <1>7, <1>8, <1>11, ReservesStep

\* A launch finds the job built.
LEMMA PrepareStep ==
    ASSUME JobTableInv, NEW x \in Launchers, Prepare(x)
    PROVE  JobTableInv'
<1>1. /\ Typed /\ (\A y \in Tasks : Placed(y)) /\ ReserveInv /\ FreeInv /\ RowsInv
      /\ x \in Tasks /\ x # Concluder
  BY Parts, TaskKinds, TasksAssumption
<1>2. PICK id : id = task[x].id
  OBVIOUS
<1>3. CASE ~Built(id)
  BY <1>2, <1>3, UnbuiltStep
<1>4. CASE Built(id)
  <2>1. /\ At(x, "preparing")
        /\ task' = [task EXCEPT ![x].pc = "launching", ![x].uid = row[id].uid]
        /\ UNCHANGED <<row, queue, locks, drawn, uids, command, tree, terminal, excused>>
    BY <1>2, <1>4 DEF Prepare
  <2>2. id \in Names /\ row[id].uid \in Jobs /\ row[id].uid <= uids
    BY <1>1, <1>2, <1>4, <2>1, Fields DEF Placed, At, Built, RowsInv
  <2> DEFINE v == [task[x] EXCEPT !.pc = "launching", !.uid = row[id].uid]
  <2>3. v \in TaskStates /\ v.pc = "launching" /\ v.id = id /\ v.uid = row[id].uid
    BY <1>1, <1>2, <2>2, Fields DEF TaskStates, Steps
  <2>4. task' = [task EXCEPT ![x] = v]
    BY <1>1, <2>1 DEF Typed, TaskStates
  <2> HIDE DEF v
  <2>5. /\ task' \in [Tasks -> TaskStates] /\ task'[x] = v
        /\ \A y \in Tasks \ {x} : task'[y] = task[y]
    BY <1>1, <2>3, <2>4, TaskMoves
  <2>6. Typed'
    BY <1>1, <2>1, <2>5 DEF Typed, queue, locks
  <2>7. Steady /\ KeepsRows
    BY <1>1, <2>1, <2>5, SteadyTask DEF At
  <2>8. Reserves(x, id)
    <3>1. Placed(x)'
      BY <1>1, <2>1, <2>2, <2>3, <2>5 DEF Placed, Concluding
    <3>2. ASSUME excused' # Jobs
          PROVE  /\ Open(id) /\ row'[id].starting
                 /\ \A z \in Tasks \ {x} : Holding(z) => task[z].id # id
                 /\ Clean(row[id].uid)
      BY <1>1, <1>2, <2>1, <2>2, <3>2 DEF ReserveInv, FreeInv, Holding, At
    <3>3. \A u : Clean(u) => Clean(u)'
      BY <2>6, <2>7, SteadyKeeps
    <3>4. excused' # Jobs => Clean(row[id].uid)'
      BY <2>1, <3>2, <3>3
    <3> QED
      BY <1>1, <1>4, <2>1, <2>3, <2>5, <3>1, <3>2, <3>4 DEF Reserves, Opening, At
  <2> QED
    BY <1>1, <2>1, <2>2, <2>6, <2>7, <2>8, ReservesStep
<1> QED
  BY <1>3, <1>4

-----------------------------------------------------------------------------
(* The queue of conclusions.                                               *)

\* A conclusion moves on: no row but for its callback, no job and no other task
\* does.
Forwards ==
    /\ \A i \in Names : SameRow(i)
    /\ \A c \in Commands :
          /\ command'[c].uid = command[c].uid /\ command'[c].id = command[c].id
          /\ \/ command'[c].state = command[c].state
             \/ command[c].state \in {"reaped", "queued"} /\ command'[c].state \in {"queued", "concluded"}
          /\ Due(c)' => Due(c)
    /\ \A y \in Tasks \ {Concluder} : task'[y] = task[y]
    /\ \/ task'[Concluder] = task[Concluder]
       \/ /\ task[Concluder].pc \in Concluding \union {"idle"}
          /\ task'[Concluder].pc \in Concluding
          /\ Placed(Concluder)'
    /\ UNCHANGED <<uids, tree>> /\ excused \subseteq excused'

\* Apart from the queue's own parts, the invariant is kept.
LEMMA ForwardsStep ==
    ASSUME JobTableInv, Typed', Forwards, QueueInv', ActiveInv', DoneInv'
    PROVE  JobTableInv'
<1>1. /\ Typed /\ (\A c \in Commands : Commanded(c)) /\ (\A y \in Tasks : Placed(y))
      /\ RowsInv /\ OpeningInv /\ ReserveInv /\ RunInv /\ KeptInv /\ FreeInv
      /\ Concluder \in Tasks /\ Concluder \notin Jobs
  BY Parts, TaskKinds
<1>2. /\ \A i \in Names : SameRow(i)
      /\ \A c \in Commands :
            /\ command'[c].uid = command[c].uid /\ command'[c].id = command[c].id
            /\ \/ command'[c].state = command[c].state
               \/ /\ command[c].state \in {"reaped", "queued"}
                  /\ command'[c].state \in {"queued", "concluded"}
            /\ Due(c)' => Due(c)
      /\ \A y \in Tasks \ {Concluder} : task'[y] = task[y]
      /\ uids' = uids /\ tree' = tree
      /\ excused \subseteq excused' /\ (excused' # Jobs => excused # Jobs)
  BY <1>1, Excuses DEF Forwards
<1>3. \A y \in Tasks : Placed(y)'
  <2>1. \A y \in Tasks : task'[y] = task[y] => Placed(y)'
    BY <1>1, <1>2 DEF Placed
  <2> QED
    BY <1>2, <2>1 DEF Forwards
<1>4. \A y \in Tasks : task'[y].pc \notin Concluding => task'[y] = task[y]
  BY <1>2 DEF Forwards
<1>5. \A c \in Commands : Commanded(c)'
  BY <1>1, <1>2 DEF Commanded
<1>6. RowsInv'
  BY <1>1, <1>2 DEF RowsInv, SameJob, SameRow, Open, Owner
<1>7. OpeningInv'
  <2>1. \A u \in Jobs : At(u, "idle") => At(u, "idle")'
    BY <1>1, <1>2, TaskKinds DEF At
  <2>2. \A t \in Tasks : Opening(t)' => /\ Opening(t) /\ task'[t] = task[t]
                                        /\ task[t].uid \in Jobs
    BY <1>1, <1>4 DEF Opening, Placed, Concluding
  <2>3. \A i \in Names : \A u : Owner(i, u)' => Owner(i, u) /\ row'[i].resources = row[i].resources
    BY <1>2 DEF Owner, SameJob, SameRow, Open
  <2>4. \A c \in Commands : command'[c].state # "none" =>
           command[c].state # "none" /\ command'[c].uid = command[c].uid
    BY <1>2
  <2> QED
    BY <1>1, <1>2, <2>1, <2>2, <2>3, <2>4 DEF OpeningInv
<1>8. ReserveInv'
  <2> SUFFICES ASSUME excused' # Jobs, NEW y \in Tasks
               PROVE  /\ Holding(y)' =>
                            /\ Open(task[y].id)' /\ row'[task'[y].id].starting
                            /\ \A z \in Tasks : Holding(z)' /\ task'[z].id = task'[y].id => z = y
                      /\ task'[y].pc \in {"launching", "publishing"} =>
                            Built(task[y].id)' /\ row'[task'[y].id].uid = task'[y].uid
                      /\ At(y, "publishing")' =>
                            /\ command'[task'[y].cmd].uid = task'[y].uid
                            /\ command'[task'[y].cmd].id = task'[y].id
                            /\ command'[task'[y].cmd].state \in {"alive", "exited"}
    BY DEF ReserveInv
  <2>1. \A z \in Tasks : Holding(z)' => Holding(z) /\ task'[z] = task[z] /\ task[z].id \in Names
    BY <1>1, <1>4 DEF Holding, Opening, Placed, Concluding
  <2>2. task'[y].pc \in {"launching", "publishing"} => Holding(y)'
    BY DEF Holding
  <2>3. At(y, "publishing")' => task'[y] = task[y] /\ task[y].cmd \in Commands
    BY <1>1, <1>4 DEF Placed, At, Concluding
  <2>4. \A i \in Names : /\ Open(i) => Open(i)' /\ row'[i].uid = row[i].uid
                                       /\ row'[i].starting = row[i].starting
                         /\ Built(i) => Built(i)'
    BY <1>2 DEF SameJob, SameRow, Open, Built
  <2>5. Holding(y)' => /\ Open(task[y].id)' /\ row'[task'[y].id].starting
                       /\ \A z \in Tasks : Holding(z)' /\ task'[z].id = task'[y].id => z = y
    BY <1>1, <1>2, <2>1, <2>4 DEF ReserveInv
  <2>6. task'[y].pc \in {"launching", "publishing"} =>
           Built(task[y].id)' /\ row'[task'[y].id].uid = task'[y].uid
    BY <1>1, <1>2, <2>1, <2>2, <2>4 DEF ReserveInv, Built
  <2>7. At(y, "publishing")' =>
           /\ command'[task'[y].cmd].uid = task'[y].uid
           /\ command'[task'[y].cmd].id = task'[y].id
           /\ command'[task'[y].cmd].state \in {"alive", "exited"}
    BY <1>1, <1>2, <2>3 DEF ReserveInv, At
  <2> QED
    BY <2>5, <2>6, <2>7
<1>9. RunInv'
  <2>1. \A i \in Names : row'[i] # None /\ row'[i].running # 0 =>
           /\ Open(i) /\ row'[i].running = row[i].running /\ row[i].running \in Commands
           /\ row'[i].uid = row[i].uid
    BY <1>1, <1>2, Fields DEF SameJob, SameRow
  <2> QED
    BY <1>1, <1>2, <2>1 DEF RunInv, Open
<1>10. KeptInv'
  <2> SUFFICES ASSUME NEW c \in Commands, Due(c)', ~Excused(c)'
               PROVE  /\ tree'[command'[c].uid] = c
                      /\ Owner(command[c].id, command[c].uid)'
                      /\ command'[c].state \in {"alive", "exited"} =>
                            \/ row'[command'[c].id].running = c
                            \/ \E y \in Tasks : At(y, "publishing")' /\ task'[y].cmd = c
    BY DEF KeptInv
  <2>1. /\ Due(c) /\ ~Excused(c) /\ command[c].id \in Names
        /\ command'[c].uid = command[c].uid /\ command'[c].id = command[c].id
        /\ command'[c].state \in {"alive", "exited"} => command[c].state \in {"alive", "exited"}
    BY <1>2, OutstandingOf DEF Excused
  <2>2. /\ tree[command[c].uid] = c
        /\ Owner(command[c].id, command[c].uid)
        /\ command[c].state \in {"alive", "exited"} =>
              \/ row[command[c].id].running = c
              \/ \E y \in Tasks : At(y, "publishing") /\ task[y].cmd = c
    BY <1>1, <2>1 DEF KeptInv
  <2>3. /\ Owner(command[c].id, command[c].uid)'
        /\ row'[command[c].id].running = row[command[c].id].running
    BY <1>2, <2>1, <2>2 DEF Owner, Open, SameJob, SameRow
  <2>4. \A y \in Tasks : At(y, "publishing") => At(y, "publishing")' /\ task'[y] = task[y]
    BY <1>1, <1>2 DEF At, Forwards, Placed, Concluding
  <2> QED
    BY <1>2, <2>1, <2>2, <2>3, <2>4
<1>11. \A u : Clean(u) => Clean(u)'
  BY <1>2 DEF Clean
<1>12. FreeInv'
  <2>1. \A y \in Tasks : task'[y].pc \in {"preparing", "launching", "reclaiming"} =>
           task'[y] = task[y]
    BY <1>4 DEF Concluding
  <2>2. \A y \in Tasks : task[y].pc \in {"preparing", "launching"} /\ excused # Jobs =>
           row'[task[y].id].uid = row[task[y].id].uid
    BY <1>1, <1>2 DEF ReserveInv, Holding, Placed, SameJob, SameRow
  <2>3. \A i \in Names : \A u : Owner(i, u)' => Owner(i, u)
    BY <1>2 DEF Owner, SameJob, SameRow, Open
  <2> QED
    BY <1>1, <1>2, <1>11, <2>1, <2>2, <2>3 DEF FreeInv, At
<1> QED
  BY <1>3, <1>5, <1>6, <1>7, <1>8, <1>9, <1>10, <1>12 DEF JobTableInv

\* The callbacks stay matched when no row changes and no command but the one
\* that is about to be delivered is concluded.
LEMMA DoneStays ==
    ASSUME JobTableInv, row' = row, excused \subseteq excused',
           \A c \in Commands : command'[c].uid = command[c].uid /\ command'[c].id = command[c].id,
           \A c \in Commands :
              Unconcluded(c) \/ (At(Concluder, "delivering") /\ c = task[Concluder].cmd) =>
                 Unconcluded(c)' \/ (At(Concluder, "delivering")' /\ c = task'[Concluder].cmd)
    PROVE  DoneInv'
<1> SUFFICES ASSUME NEW i \in Names, Open(i), row[i].uid \notin excused', row[i].done # 0
             PROVE  /\ command'[row[i].done].uid = row[i].uid
                    /\ command'[row[i].done].id = i
                    /\ Unconcluded(row[i].done)' \/ (At(Concluder, "delivering")'
                                                     /\ row'[i].done = task'[Concluder].cmd)
  BY DEF DoneInv, Open
<1>1. row[i].done \in Commands /\ row[i].uid \notin excused
  BY Parts, Fields
<1>2. /\ command[row[i].done].uid = row[i].uid /\ command[row[i].done].id = i
      /\ \/ Unconcluded(row[i].done)
         \/ At(Concluder, "delivering") /\ row[i].done = task[Concluder].cmd
  BY <1>1, Parts DEF DoneInv
<1> QED
  BY <1>1, <1>2

\* The count of a name follows what it owes.
LEMMA Counts ==
    ASSUME JobTableInv, NEW id \in Names, NEW c \in Commands,
           \A i \in Names : Owed(i)' \ {c} = Owed(i) \ {c},
           \A i \in Names \ {id} : Owed(i)' = Owed(i),
           \/ c \in Owed(id) /\ c \in Owed(id)' /\ active' = active
           \/ c \notin Owed(id) /\ c \notin Owed(id)' /\ active' = active
           \/ c \notin Owed(id) /\ c \in Owed(id)' /\ active' = [active EXCEPT ![id] = @ + 1]
           \/ c \in Owed(id) /\ c \notin Owed(id)' /\ active' = [active EXCEPT ![id] = Settled(@)]
    PROVE  ActiveInv' /\ active' \in [Names -> Nat]
<1>1. active \in [Names -> Nat] /\ \A i \in Names : active[i] = Cardinality(Owed(i))
  BY Parts DEF ActiveInv, Typed
<1>2. Owed(id)' \ {c} = Owed(id) \ {c}
  OBVIOUS
<1>3. IsFiniteSet(Owed(id))
  BY OwedFinite
<1>4. CASE Owed(id)' = Owed(id) /\ active' = active
  BY <1>1, <1>4 DEF ActiveInv
<1>5. CASE c \notin Owed(id) /\ c \in Owed(id)' /\ active' = [active EXCEPT ![id] = @ + 1]
  <2>1. Owed(id)' = Owed(id) \union {c}
    BY <1>2, <1>5
  <2>2. Cardinality(Owed(id) \union {c}) = active[id] + 1
    BY <1>1, <1>3, <1>5, FS_AddElement
  <2>3. /\ active' \in [Names -> Nat] /\ active'[id] = active[id] + 1
        /\ \A i \in Names \ {id} : active'[i] = active[i]
    BY <1>1, <1>5
  <2> QED
    BY <1>1, <2>1, <2>2, <2>3 DEF ActiveInv
<1>6. CASE c \in Owed(id) /\ c \notin Owed(id)' /\ active' = [active EXCEPT ![id] = Settled(@)]
  <2>1. Owed(id)' = Owed(id) \ {c}
    BY <1>2, <1>6
  <2>2. Cardinality(Owed(id) \ {c}) = active[id] - 1 /\ active[id] \in Nat
    BY <1>1, <1>3, <1>6, FS_RemoveElement
  <2>3. active[id] # 0
    BY <1>1, <1>3, <1>6, FS_EmptySet
  <2>4. Settled(active[id]) = Cardinality(Owed(id) \ {c}) /\ Settled(active[id]) \in Nat
    BY <2>2, <2>3 DEF Settled
  <2> QED
    BY <1>1, <1>6, <2>1, <2>4 DEF ActiveInv
<1> QED
  BY <1>2, <1>4, <1>5, <1>6

\* A queue with one more command, or without its first.
LEMMA Queues ==
    /\ \A q \in Seq(Commands), c \in Commands :
          /\ Append(q, c) \in Seq(Commands)
          /\ \A i \in DOMAIN Append(q, c) :
                \/ i \in DOMAIN q /\ Append(q, c)[i] = q[i]
                \/ i \notin DOMAIN q /\ Append(q, c)[i] = c
          /\ \A i, k \in DOMAIN Append(q, c) : i \notin DOMAIN q /\ k \notin DOMAIN q => i = k
    /\ \A q \in Seq(Commands) : q # <<>> =>
          /\ Tail(q) \in Seq(Commands) /\ Head(q) \in Commands
          /\ 1 \in DOMAIN q /\ Head(q) = q[1]
          /\ \A i \in DOMAIN Tail(q) :
                i + 1 \in DOMAIN q /\ i + 1 # 1 /\ Tail(q)[i] = q[i + 1] /\ i \in Nat
OBVIOUS

\* A command that was reaped is queued.
LEMMA SubmitStep ==
    ASSUME JobTableInv, NEW c \in Commands, Submit(c)
    PROVE  JobTableInv'
<1>1. /\ Typed /\ (\A d \in Commands : Commanded(d)) /\ (\A y \in Tasks : Placed(y))
      /\ QueueInv /\ Concluder \in Tasks
  BY Parts, TaskKinds
<1>2. PICK id : id = command[c].id
  OBVIOUS
<1>3. /\ command[c].state = "reaped"
      /\ active' = [active EXCEPT ![id] = @ + 1] /\ pending' = Append(pending, c)
      /\ command' = [command EXCEPT ![c].state = "queued"]
      /\ UNCHANGED <<row, locks, task, drawn, uids, tree, terminal, excused>>
  BY <1>2 DEF Submit
<1>4. id \in Names
  BY <1>1, <1>2, <1>3 DEF Commanded
<1>5. /\ command' \in [Commands -> CommandStates]
      /\ command'[c].state = "queued" /\ command'[c].id = id
      /\ command'[c].uid = command[c].uid
      /\ \A d \in Commands \ {c} : command'[d] = command[d]
  BY <1>1, <1>2, <1>3 DEF Typed, CommandStates
<1>6. Working' <=> Working
  BY <1>3 DEF Working
<1>7. task[Concluder].pc \in Concluding => task[Concluder].cmd \in Commands \ {c}
  BY <1>1, <1>3 DEF QueueInv, Placed, Concluding, At
<1>8. /\ Owed(id)' = Owed(id) \union {c} /\ c \notin Owed(id)
      /\ \A i \in Names \ {id} : Owed(i)' = Owed(i) /\ c \notin Owed(i)
  BY <1>2, <1>3, <1>5, <1>6, <1>7 DEF Owed, Working, Concluding
<1>9. ActiveInv' /\ active' \in [Names -> Nat]
  <2>1. \A i \in Names : Owed(i)' \ {c} = Owed(i) \ {c}
    BY <1>8
  <2> QED
    BY <1>3, <1>4, <1>8, <2>1, Counts
<1>10. pending \in Seq(Commands) /\ \A i \in DOMAIN pending : pending[i] # c
  BY <1>1, <1>3 DEF Typed, QueueInv
<1>11. /\ pending' \in Seq(Commands)
       /\ \A i \in DOMAIN pending' : \/ i \in DOMAIN pending /\ pending'[i] = pending[i]
                                     \/ i \notin DOMAIN pending /\ pending'[i] = c
       /\ \A i, k \in DOMAIN pending' : i \notin DOMAIN pending /\ k \notin DOMAIN pending => i = k
  BY <1>3, <1>10, Queues
<1>12. QueueInv'
  <2>1. \A i, k \in DOMAIN pending' : i # k => pending'[i] # pending'[k]
    BY <1>1, <1>10, <1>11 DEF QueueInv
  <2>2. ASSUME NEW i \in DOMAIN pending' PROVE command'[pending'[i]].state = "queued"
    <3>1. CASE i \notin DOMAIN pending
      BY <1>5, <1>11, <3>1
    <3>2. CASE i \in DOMAIN pending
      <4>1. pending'[i] = pending[i] /\ pending[i] \in Commands \ {c}
        BY <1>10, <1>11, <3>2
      <4>2. command[pending[i]].state = "queued"
        BY <1>1, <3>2 DEF QueueInv
      <4> QED
        BY <1>5, <4>1, <4>2
    <3> QED
      BY <3>1, <3>2
  <2>3. At(Concluder, "concluding") => \A i \in DOMAIN pending' : pending'[i] # task[Concluder].cmd
    BY <1>1, <1>7, <1>11 DEF QueueInv, Concluding, At
  <2> QED
    BY <1>1, <1>3, <1>5, <1>7, <2>1, <2>2, <2>3 DEF QueueInv, At, Concluding
<1>13. Typed'
  BY <1>1, <1>3, <1>5, <1>9, <1>11 DEF Typed, locks
<1>14. \A d \in Commands : Due(d)' <=> Due(d)
  BY <1>3, <1>5, <1>6 DEF Due, Unconcluded
<1>15. DoneInv'
  BY <1>3, <1>5, DoneStays DEF At, Unconcluded
<1>16. Forwards
  BY <1>3, <1>5, <1>14, RowsStay DEF Forwards
<1> QED
  BY <1>9, <1>12, <1>13, <1>15, <1>16, ForwardsStep

\* The next conclusion is taken.
LEMMA TakeStep ==
    ASSUME JobTableInv, Take
    PROVE  JobTableInv'
<1>1. /\ Typed /\ (\A d \in Commands : Commanded(d)) /\ (\A y \in Tasks : Placed(y))
      /\ QueueInv /\ ActiveInv /\ Concluder \in Tasks
  BY Parts, TaskKinds
<1>2. PICK c : c = Head(pending)
  OBVIOUS
<1> DEFINE v == [Idle EXCEPT !.pc = "concluding", !.cmd = c, !.id = command[c].id]
<1>3. /\ At(Concluder, "idle") /\ pending # <<>> /\ pending' = Tail(pending)
      /\ task' = [task EXCEPT ![Concluder] = v]
      /\ UNCHANGED <<row, active, locks, drawn, uids, command, tree, terminal, excused>>
  BY <1>2 DEF Take
<1>4. pending \in Seq(Commands)
  BY <1>1 DEF Typed
<1>5. /\ pending' \in Seq(Commands) /\ c \in Commands /\ 1 \in DOMAIN pending /\ c = pending[1]
      /\ \A i \in DOMAIN pending' :
            i + 1 \in DOMAIN pending /\ i + 1 # 1 /\ pending'[i] = pending[i + 1] /\ i \in Nat
  BY <1>2, <1>3, <1>4, Queues
<1>6. command[c].state = "queued" /\ command[c].id \in Names
  BY <1>1, <1>5 DEF QueueInv, Commanded
<1>7. /\ v \in TaskStates /\ v.pc = "concluding" /\ v.cmd = c /\ v.id = command[c].id
  BY <1>5, <1>6 DEF Idle, TaskStates, Steps
<1> HIDE DEF v
<1>8. /\ task' \in [Tasks -> TaskStates] /\ task'[Concluder] = v
      /\ \A y \in Tasks \ {Concluder} : task'[y] = task[y]
  BY <1>1, <1>3, <1>7, TaskMoves
<1>9. ~Working /\ ~Working'
  BY <1>3, <1>7, <1>8 DEF Working, At
<1>10. ActiveInv'
  <2>1. \A i : Owed(i)' = Owed(i)
    BY <1>3, <1>9 DEF Owed
  <2> QED
    BY <1>1, <1>3, <2>1 DEF ActiveInv
<1>11. QueueInv'
  <2>1. \A i, k \in DOMAIN pending' : i # k => pending'[i] # pending'[k]
    <3>1. \A i, k \in DOMAIN pending' : i # k => i + 1 # k + 1
      BY <1>5
    <3> QED
      BY <1>1, <1>5, <3>1 DEF QueueInv
  <2>2. \A i \in DOMAIN pending' : pending'[i] # c
    BY <1>1, <1>5 DEF QueueInv
  <2>3. \A i \in DOMAIN pending' : command'[pending'[i]].state = "queued"
    BY <1>1, <1>3, <1>5 DEF QueueInv
  <2> QED
    BY <1>3, <1>6, <1>7, <1>8, <2>1, <2>2, <2>3 DEF QueueInv, At, Concluding
<1>12. Typed'
  BY <1>1, <1>3, <1>5, <1>8 DEF Typed, locks
<1>13. \A d \in Commands : Due(d)' <=> Due(d)
  BY <1>3, <1>9 DEF Due, Unconcluded
<1>14. DoneInv'
  BY <1>3, DoneStays DEF At, Unconcluded
<1>15. Forwards
  <2>1. Placed(Concluder)'
    BY <1>5, <1>6, <1>7, <1>8, TaskKinds DEF Placed, Concluding
  <2> QED
    BY <1>3, <1>7, <1>8, <1>13, <2>1, RowsStay DEF Forwards, At, Concluding
<1> QED
  BY <1>10, <1>11, <1>12, <1>14, <1>15, ForwardsStep

\* The conclusion is published, or its tree is kept.
LEMMA ConcludeStep ==
    ASSUME JobTableInv, Conclude
    PROVE  JobTableInv'
<1>1. /\ Typed /\ (\A d \in Commands : Commanded(d)) /\ (\A y \in Tasks : Placed(y))
      /\ QueueInv /\ ActiveInv /\ Concluder \in Tasks
  BY Parts, TaskKinds
<1>2. PICK c : c = task[Concluder].cmd
  OBVIOUS
<1>3. /\ At(Concluder, "concluding")
      /\ command' = [command EXCEPT ![c].state = "concluded"]
      /\ UNCHANGED <<row, queue, locks, drawn, uids, tree, terminal>>
  BY <1>2 DEF Conclude
<1>4. PICK retained \in BOOLEAN :
         /\ task' = [task EXCEPT ![Concluder].pc = "delivering", ![Concluder].flag = retained]
         /\ excused' = IF retained THEN excused \union {command[c].uid} ELSE excused
  <2>1. {FALSE} \union {command[c].forced /\ "terminate" \in Faults} \subseteq BOOLEAN
    <3>1. (command[c].forced /\ "terminate" \in Faults) \in BOOLEAN
      OBVIOUS
    <3> QED
      BY <3>1
  <2> QED
    BY <1>2, <2>1 DEF Conclude
<1>5. /\ c \in Commands /\ command[c].state = "queued" /\ command[c].uid \in Jobs
      /\ command[c].id = task[Concluder].id /\ command[c].id \in Names
      /\ \A i \in DOMAIN pending : pending[i] # c
  BY <1>1, <1>2, <1>3 DEF Placed, At, QueueInv, Commanded, Concluding
<1> DEFINE v == [task[Concluder] EXCEPT !.pc = "delivering", !.flag = retained]
<1>6. /\ v \in TaskStates /\ v.pc = "delivering" /\ v.cmd = c /\ v.id = task[Concluder].id
  BY <1>1, <1>2, Fields DEF TaskStates, Steps
<1>7. task' = [task EXCEPT ![Concluder] = v]
  BY <1>1, <1>4 DEF Typed, TaskStates
<1> HIDE DEF v
<1>8. /\ task' \in [Tasks -> TaskStates] /\ task'[Concluder] = v
      /\ \A y \in Tasks \ {Concluder} : task'[y] = task[y]
  BY <1>1, <1>6, <1>7, TaskMoves
<1>9. /\ command' \in [Commands -> CommandStates]
      /\ command'[c].state = "concluded" /\ command'[c].id = command[c].id
      /\ command'[c].uid = command[c].uid
      /\ \A d \in Commands \ {c} : command'[d] = command[d]
  BY <1>1, <1>3, <1>5 DEF Typed, CommandStates
<1>10. ~Working /\ Working'
  BY <1>3, <1>6, <1>8 DEF Working, At
<1>11. ActiveInv'
  <2>1. \A i : Owed(i)' = Owed(i)
    BY <1>5, <1>6, <1>8, <1>9, <1>10 DEF Owed
  <2> QED
    BY <1>1, <1>3, <2>1 DEF ActiveInv, queue
<1>12. QueueInv'
  <2>1. \A i \in DOMAIN pending : command'[pending[i]].state = "queued"
    BY <1>1, <1>5, <1>9 DEF QueueInv, Typed
  <2> QED
    BY <1>1, <1>3, <1>5, <1>6, <1>8, <1>9, <2>1 DEF QueueInv, At, Concluding, queue
<1>13. excused \subseteq excused' /\ excused' \subseteq Jobs
  BY <1>1, <1>4, <1>5 DEF Typed
<1>14. Typed'
  BY <1>1, <1>3, <1>8, <1>9, <1>13 DEF Typed, locks, queue
<1>15. \A d \in Commands : Due(d)' <=> Due(d)
  BY <1>5, <1>6, <1>8, <1>9, <1>10 DEF Due, Unconcluded
<1>16. DoneInv'
  <2>1. \A d \in Commands : command'[d].uid = command[d].uid /\ command'[d].id = command[d].id
    BY <1>9
  <2>2. \A d \in Commands :
           Unconcluded(d) \/ (At(Concluder, "delivering") /\ d = task[Concluder].cmd) =>
              Unconcluded(d)' \/ (At(Concluder, "delivering")' /\ d = task'[Concluder].cmd)
    BY <1>3, <1>6, <1>8, <1>9 DEF Unconcluded, At
  <2> QED
    BY <1>3, <1>13, <2>1, <2>2, DoneStays
<1>17. Forwards
  <2>1. Placed(Concluder)'
    BY <1>5, <1>6, <1>8, TaskKinds DEF Placed, Concluding
  <2>2. \A d \in Commands :
           /\ command'[d].uid = command[d].uid /\ command'[d].id = command[d].id
           /\ \/ command'[d].state = command[d].state
              \/ command[d].state = "queued" /\ command'[d].state = "concluded"
    BY <1>5, <1>9
  <2> QED
    BY <1>3, <1>6, <1>8, <1>13, <1>15, <2>1, <2>2, RowsStay DEF Forwards, At, Concluding
<1> QED
  BY <1>11, <1>12, <1>14, <1>16, <1>17, ForwardsStep

\* The callback is called and the row has none.
LEMMA DeliverStep ==
    ASSUME JobTableInv, Deliver
    PROVE  JobTableInv'
<1>1. /\ Typed /\ (\A y \in Tasks : Placed(y))
      /\ QueueInv /\ ActiveInv /\ DoneInv /\ Concluder \in Tasks
  BY Parts, TaskKinds
<1>2. PICK id : id = task[Concluder].id
  OBVIOUS
<1> DEFINE r == [row[id] EXCEPT !.done = 0]
<1>3. /\ At(Concluder, "delivering") /\ Goto(Concluder, "finishing")
      /\ row' = IF Open(id) THEN [row EXCEPT ![id] = r] ELSE row
      /\ UNCHANGED <<queue, locks, drawn, uids, command, tree, terminal, excused>>
  BY <1>2 DEF Deliver
<1>4. id \in Names
  BY <1>1, <1>2, <1>3 DEF Placed, At, Concluding
<1>5. Open(id) =>
        /\ r \in Row /\ r # None
        /\ r.uid = row[id].uid /\ r.resources = row[id].resources
        /\ r.starting = row[id].starting /\ r.running = row[id].running /\ r.done = 0
  BY <1>1, <1>4, Fields, NoneAssumption DEF Row
<1> HIDE DEF r
<1>6. /\ row' \in [Names -> Row \union {None}] /\ \A i \in Names : SameRow(i)
      /\ \A i \in Names \ {id} : row'[i] = row[i]
      /\ row'[id] # None => row'[id].done = 0
  <2>1. CASE Open(id)
    <3>1. /\ row' \in [Names -> Row \union {None}] /\ row'[id] = r
          /\ \A i \in Names \ {id} : row'[i] = row[i]
      BY <1>1, <1>3, <1>4, <1>5, <2>1, RowMoves
    <3> QED
      BY <1>5, <2>1, <3>1 DEF SameJob, SameRow, Open
  <2>2. CASE ~Open(id)
    BY <1>1, <1>3, <2>2, RowsStay DEF Typed, Open
  <2> QED
    BY <2>1, <2>2
<1>7. /\ task' \in [Tasks -> TaskStates]
      /\ \A y \in Tasks \ {Concluder} : task'[y] = task[y]
      /\ task'[Concluder].pc = "finishing" /\ task'[Concluder].id = id
      /\ task'[Concluder].cmd = task[Concluder].cmd
  BY <1>1, <1>2, <1>3, Goes DEF Steps
<1>8. Working /\ Working'
  BY <1>3, <1>7 DEF Working, At
<1>9. Typed'
  BY <1>1, <1>3, <1>6, <1>7 DEF Typed, locks, queue
<1>10. ActiveInv'
  <2>1. \A i : Owed(i)' = Owed(i)
    BY <1>3, <1>7, <1>8 DEF Owed
  <2> QED
    BY <1>1, <1>3, <2>1 DEF ActiveInv, queue
<1>11. QueueInv'
  BY <1>1, <1>2, <1>3, <1>7 DEF QueueInv, At, Concluding, queue
<1>12. DoneInv'
  <2> SUFFICES ASSUME NEW i \in Names, row'[i] # None, row'[i].uid \notin excused',
                      row'[i].done # 0
               PROVE  /\ command'[row'[i].done].uid = row'[i].uid
                      /\ command'[row'[i].done].id = i
                      /\ Unconcluded(row[i].done)'
    BY DEF DoneInv, Open
  <2>1. i # id /\ row'[i] = row[i] /\ Open(i) /\ row[i].uid \notin excused
    BY <1>3, <1>6 DEF Open
  <2>2. /\ command[row[i].done].uid = row[i].uid /\ command[row[i].done].id = i
        /\ \/ Unconcluded(row[i].done)
           \/ row[i].done = task[Concluder].cmd
    BY <1>1, <2>1 DEF DoneInv
  <2>3. command[task[Concluder].cmd].id = id
    BY <1>1, <1>2, <1>3 DEF QueueInv, At, Concluding
  <2> QED
    BY <1>3, <2>1, <2>2, <2>3 DEF Unconcluded
<1>13. \A d \in Commands : Due(d)' <=> Due(d)
  BY <1>3, <1>7, <1>8 DEF Due, Unconcluded
<1>14. Forwards
  <2>1. Placed(Concluder)'
    BY <1>1, <1>2, <1>3, <1>4, <1>7, TaskKinds DEF Placed, Concluding, At
  <2> QED
    BY <1>3, <1>6, <1>7, <1>13, <2>1 DEF Forwards, At, Concluding
<1> QED
  BY <1>9, <1>10, <1>11, <1>12, <1>14, ForwardsStep

\* The conclusion is reported, and the count goes down.
LEMMA FinishStep ==
    ASSUME JobTableInv, Finish
    PROVE  JobTableInv'
<1>1. /\ Typed /\ (\A y \in Tasks : Placed(y)) /\ QueueInv /\ Concluder \in Tasks
  BY Parts, TaskKinds
<1>2. PICK id, c : id = task[Concluder].id /\ c = task[Concluder].cmd
  OBVIOUS
<1>3. /\ At(Concluder, "finishing") /\ Goto(Concluder, "locking")
      /\ active' = [active EXCEPT ![id] = Settled(@)]
      /\ UNCHANGED <<row, pending, locks, drawn, uids, command, tree, terminal, excused>>
  BY <1>2 DEF Finish
<1>4. /\ id \in Names /\ c \in Commands /\ command[c].id = id
      /\ command[c].state = "concluded"
  BY <1>1, <1>2, <1>3 DEF Placed, At, Concluding, QueueInv
<1>5. /\ task' \in [Tasks -> TaskStates]
      /\ \A y \in Tasks \ {Concluder} : task'[y] = task[y]
      /\ task'[Concluder].pc = "locking" /\ task'[Concluder].id = id
      /\ task'[Concluder].cmd = c
  BY <1>1, <1>2, <1>3, Goes DEF Steps
<1>6. Working /\ ~Working'
  BY <1>3, <1>5 DEF Working, At
<1>7. /\ Owed(id)' = Owed(id) \ {c} /\ c \in Owed(id)
      /\ \A i \in Names \ {id} : Owed(i)' = Owed(i) /\ c \notin Owed(i)
  BY <1>2, <1>3, <1>4, <1>6 DEF Owed
<1>8. ActiveInv' /\ active' \in [Names -> Nat]
  <2>1. \A i \in Names : Owed(i)' \ {c} = Owed(i) \ {c}
    BY <1>7
  <2> QED
    BY <1>3, <1>4, <1>7, <2>1, Counts
<1>9. Typed'
  BY <1>1, <1>3, <1>5, <1>8 DEF Typed, locks
<1>10. QueueInv'
  BY <1>1, <1>2, <1>3, <1>4, <1>5 DEF QueueInv, At, Concluding
<1>11. \A d \in Commands : Due(d)' => Due(d)
  BY <1>3, <1>6 DEF Due, Unconcluded
<1>12. DoneInv'
  BY <1>3, DoneStays DEF At, Unconcluded
<1>13. Forwards
  <2>1. Placed(Concluder)'
    BY <1>4, <1>5, TaskKinds DEF Placed, Concluding
  <2> QED
    BY <1>3, <1>5, <1>11, <2>1, RowsStay DEF Forwards, At, Concluding
<1> QED
  BY <1>8, <1>9, <1>10, <1>12, <1>13, ForwardsStep

-----------------------------------------------------------------------------
(* What is left: the storage, the callbacks and the launches.              *)

\* The storage of a closed job is reclaimed.
LEMMA ReclaimStep ==
    ASSUME JobTableInv, NEW x \in Tasks, Reclaim(x)
    PROVE  JobTableInv'
<1>1. /\ Typed /\ (\A y \in Tasks : Placed(y)) /\ FreeInv
  BY Parts
<1>2. PICK u : u = task[x].uid
  OBVIOUS
<1>3. /\ At(x, "reclaiming") /\ Goto(x, "dropping") /\ tree' = [tree EXCEPT ![u] = 0]
      /\ UNCHANGED <<row, queue, locks, drawn, uids, command, terminal, excused>>
  BY <1>2 DEF Reclaim, ReclaimedTree
<1>4. /\ task' \in [Tasks -> TaskStates]
      /\ \A y \in Tasks \ {x} : task'[y] = task[y]
      /\ task'[x].pc = "dropping"
  BY <1>1, <1>3, Goes DEF Steps
<1>5. u \in Jobs /\ Clean(u)
  BY <1>1, <1>2, <1>3 DEF FreeInv, Placed, At
<1>6. \A c \in Commands : Due(c) /\ ~Excused(c) =>
         tree'[command[c].uid] = tree[command[c].uid]
  <2>1. \A c \in Commands : Due(c) /\ ~Excused(c) => command[c].uid # u
    BY <1>5 DEF Clean, Excused
  <2> QED
    BY <1>1, <1>3, <2>1, OutstandingOf DEF Typed
<1>7. Typed'
  <2>1. tree' \in [Jobs -> Commands \union {0}]
    BY <1>1, <1>3 DEF Typed
  <2> QED
    BY <1>1, <1>3, <1>4, <2>1 DEF Typed, queue, locks
<1>8. Rests(x)
  BY <1>1, <1>3, <1>4, Rested DEF Rests, At
<1>9. DoneInv'
  <2>1. At(Concluder, "delivering") => task'[Concluder] = task[Concluder]
    BY <1>3, <1>4, TaskKinds DEF At
  <2> QED
    BY <1>3, <2>1, DoneStays DEF Unconcluded, At
<1>10. \A i \in Names : SameJob(i)
  BY <1>3, RowsStay DEF SameRow
<1> QED
  BY <1>3, <1>4, <1>6, <1>7, <1>8, <1>9, <1>10, CommandsStay, Still DEF queue

\* A callback is given to the job's command.
LEMMA OnFinishStep ==
    ASSUME JobTableInv, NEW t \in Callers, NEW id \in Names, OnFinish(t, id)
    PROVE  JobTableInv'
<1>1. Typed /\ RunInv /\ DoneInv /\ Concluder \in Tasks
  BY Parts, TaskKinds
<1> DEFINE r == [row[id] EXCEPT !.done = row[id].running]
<1>2. /\ Open(id) /\ row[id].running # 0 /\ row' = [row EXCEPT ![id] = r]
      /\ UNCHANGED <<queue, locks, task, drawn, uids, command, tree, terminal, excused>>
  BY DEF OnFinish
<1>3. /\ r \in Row /\ r # None
      /\ r.uid = row[id].uid /\ r.resources = row[id].resources
      /\ r.starting = row[id].starting /\ r.running = row[id].running
      /\ r.done = row[id].running
  BY <1>1, <1>2, Fields, NoneAssumption DEF Row
<1> HIDE DEF r
<1>4. /\ row' \in [Names -> Row \union {None}] /\ row'[id] = r
      /\ \A i \in Names \ {id} : row'[i] = row[i]
  BY <1>1, <1>2, <1>3, RowMoves
<1>5. Typed'
  BY <1>1, <1>2, <1>4 DEF Typed, queue, locks
<1>6. \A i \in Names : SameJob(i)
  BY <1>2, <1>3, <1>4 DEF SameJob, Open
<1>7. DoneInv'
  <2>1. row[id].uid \notin excused =>
           /\ command[r.done].uid = r.uid /\ command[r.done].id = id
           /\ Unconcluded(r.done)
    BY <1>1, <1>2, <1>3, Fields DEF RunInv, Unconcluded
  <2> QED
    BY <1>1, <1>2, <1>3, <1>4, <2>1 DEF DoneInv, Open, Unconcluded, At
<1> QED
  BY <1>1, <1>2, <1>5, <1>6, <1>7, CommandsStay, Still DEF queue, Rests

\* A launch moves on, or a command is reaped.
Moves(x) ==
    /\ \A y \in Tasks \ {x} : task'[y] = task[y]
    /\ \/ task'[x] = task[x]
       \/ /\ task[x].pc \in {"launching", "publishing"}
          /\ task'[x].pc \in {"publishing", "idle", "reporting"}
          /\ Placed(x)'
    /\ \A i \in Names :
          /\ row'[i] # None <=> Open(i)
          /\ Open(i) => /\ row'[i].uid = row[i].uid
                        /\ row'[i].resources = row[i].resources
                        /\ ~(row'[i].starting /\ row'[i].running # 0)
    /\ \A c \in Commands :
          \/ /\ command'[c].uid = command[c].uid /\ command'[c].id = command[c].id
             /\ \/ command'[c].state = command[c].state
                \/ /\ command[c].state \in {"alive", "exited"}
                   /\ command'[c].state \in {"exited", "reaped"}
          \/ /\ command[c].state = "none" /\ command'[c].state \in {"failed", "alive"}
             /\ task[x].pc = "launching" /\ task'[x].pc # "launching"
             /\ command'[c].uid = task[x].uid /\ command'[c].id = task[x].id
    /\ UNCHANGED <<uids, pending, active>> /\ excused \subseteq excused'

\* The parts of the invariant that follow from what such a step may do.
LEMMA MovesKeep ==
    ASSUME JobTableInv, Typed', NEW x \in Tasks, Moves(x)
    PROVE  /\ (\A y \in Tasks : Placed(y)') /\ (\A c \in Commands : Commanded(c)')
           /\ RowsInv' /\ OpeningInv' /\ QueueInv' /\ ActiveInv' /\ FreeInv'
           /\ (excused' # Jobs => excused # Jobs)
           /\ \A c \in Commands : Due(c)' /\ ~Due(c) =>
                 command[c].state = "none" /\ command'[c].state = "alive"
           /\ \A i \in Names : \A u : Owner(i, u)' <=> Owner(i, u)
<1>1. /\ Typed /\ (\A c \in Commands : Commanded(c)) /\ (\A y \in Tasks : Placed(y))
      /\ RowsInv /\ OpeningInv /\ ReserveInv /\ QueueInv /\ ActiveInv /\ FreeInv
      /\ Concluder \in Tasks
  BY Parts, TaskKinds
<1>2. /\ \A y \in Tasks \ {x} : task'[y] = task[y]
      /\ \A i \in Names :
            /\ row'[i] # None <=> Open(i)
            /\ Open(i) => /\ row'[i].uid = row[i].uid
                          /\ row'[i].resources = row[i].resources
                          /\ ~(row'[i].starting /\ row'[i].running # 0)
      /\ uids' = uids /\ pending' = pending /\ active' = active
      /\ excused \subseteq excused' /\ (excused' # Jobs => excused # Jobs)
  BY <1>1, Excuses DEF Moves
<1>3. \A c \in Commands :
         \/ /\ command'[c].uid = command[c].uid /\ command'[c].id = command[c].id
            /\ \/ command'[c].state = command[c].state
               \/ /\ command[c].state \in {"alive", "exited"}
                  /\ command'[c].state \in {"exited", "reaped"}
         \/ /\ command[c].state = "none" /\ command'[c].state \in {"failed", "alive"}
            /\ task[x].pc = "launching" /\ task'[x].pc # "launching"
            /\ command'[c].uid = task[x].uid /\ command'[c].id = task[x].id
  BY DEF Moves
<1>4. /\ \A y \in Tasks : task'[y].pc \notin {"publishing", "idle", "reporting"} =>
            task'[y] = task[y]
      /\ \A y \in Tasks : task'[y] # task[y] => task[y].pc \in {"launching", "publishing"}
  BY <1>2 DEF Moves
<1>5. task'[Concluder] = task[Concluder]
  BY <1>1, <1>4 DEF Placed, Concluding
<1>6. \A y \in Tasks : Placed(y)'
  <2>1. \A y \in Tasks : task'[y] = task[y] => Placed(y)'
    BY <1>1, <1>2 DEF Placed
  <2> QED
    BY <1>2, <2>1 DEF Moves
<1>7. \A c \in Commands : Commanded(c)'
  BY <1>1, <1>2, <1>3 DEF Commanded, Placed
<1>8. \A i \in Names : \A u : Owner(i, u)' <=> Owner(i, u)
  BY <1>2 DEF Owner, Open
<1>9. RowsInv'
  BY <1>1, <1>2, <1>8 DEF RowsInv, Open
<1>10. task[x].pc = "launching" /\ excused # Jobs =>
          /\ Built(task[x].id) /\ row[task[x].id].uid = task[x].uid /\ task[x].id \in Names
          /\ task[x].uid \in Jobs
  BY <1>1 DEF ReserveInv, Placed
<1>11. OpeningInv'
  <2>1. \A u \in Jobs : At(u, "idle") => At(u, "idle")'
    BY <1>4, TaskKinds DEF At
  <2>2. \A t \in Tasks : Opening(t)' => /\ Opening(t) /\ task'[t] = task[t]
                                        /\ task[t].uid \in Jobs
    BY <1>1, <1>4 DEF Opening, Placed
  <2>3. \A i \in Names : \A u : Owner(i, u) => row'[i].resources = row[i].resources
    BY <1>2 DEF Owner
  <2>4. ASSUME NEW t \in Tasks, Opening(t)', excused' # Jobs, NEW c \in Commands,
               command'[c].state # "none"
        PROVE  command'[c].uid # task'[t].uid
    <3>1. Opening(t) /\ task'[t] = task[t] /\ excused # Jobs
      BY <1>2, <2>2, <2>4
    <3>2. CASE command[c].state # "none" /\ command'[c].uid = command[c].uid
      BY <1>1, <3>1, <3>2 DEF OpeningInv
    <3>3. CASE task[x].pc = "launching" /\ command'[c].uid = task[x].uid
      <4>1. Owner(task[x].id, task[x].uid) /\ row[task[x].id].resources # 0
        BY <1>10, <3>1, <3>3 DEF Owner, Built
      <4> QED
        BY <1>1, <1>10, <3>1, <3>3, <4>1 DEF OpeningInv
    <3> QED
      BY <1>3, <2>4, <3>2, <3>3
  <2> QED
    BY <1>1, <1>2, <1>8, <2>1, <2>2, <2>3, <2>4 DEF OpeningInv
<1>12. Working' <=> Working
  BY <1>5 DEF Working
<1>13. /\ \A c \in Commands : command[c].state \in {"queued", "concluded"} =>
             command'[c].state = command[c].state /\ command'[c].id = command[c].id
       /\ \A c \in Commands : command'[c].state \in {"queued", "concluded"} =>
             command'[c].state = command[c].state
  BY <1>3
<1>14. task[Concluder].pc \in Concluding =>
          /\ task[Concluder].cmd \in Commands
          /\ command[task[Concluder].cmd].state \in {"queued", "concluded"}
  BY <1>1 DEF QueueInv, Placed, Concluding, At
<1>15. QueueInv'
  <2>1. \A i \in DOMAIN pending : pending[i] \in Commands /\ command[pending[i]].state = "queued"
    BY <1>1 DEF QueueInv, Typed
  <2>2. \A i \in DOMAIN pending : command'[pending[i]].state = "queued"
    BY <1>13, <2>1
  <2>3. task[Concluder].pc \in Concluding =>
           /\ command'[task[Concluder].cmd].state = command[task[Concluder].cmd].state
           /\ command'[task[Concluder].cmd].id = command[task[Concluder].cmd].id
    BY <1>13, <1>14
  <2>4. At(Concluder, "concluding") => task[Concluder].pc \in Concluding
    BY DEF At, Concluding
  <2> QED
    BY <1>1, <1>2, <1>5, <2>2, <2>3, <2>4 DEF QueueInv, At
<1>16. ActiveInv'
  <2>1. \A i : Owed(i)' = Owed(i)
    BY <1>5, <1>12, <1>13, <1>14 DEF Owed, Working, Concluding
  <2> QED
    BY <1>1, <1>2, <2>1 DEF ActiveInv
<1>17. \A c \in Commands : Due(c)' /\ ~Due(c) =>
          /\ command[c].state = "none" /\ command'[c].state = "alive"
          /\ task[x].pc = "launching" /\ task'[x].pc # "launching"
          /\ command'[c].uid = task[x].uid
  BY <1>3, <1>5, <1>12 DEF Due, Unconcluded
<1>18. \A c \in Commands : Due(c) => command'[c].uid = command[c].uid
  BY <1>3, OutstandingOf
<1>19. \A u : Clean(u) /\ (task[x].pc = "launching" /\ task'[x].pc # "launching"
                            => u # task[x].uid \/ u \in excused)
              => Clean(u)'
  BY <1>2, <1>17, <1>18 DEF Clean
<1>20. FreeInv'
  <2>1. ASSUME NEW y \in Tasks, At(y, "reclaiming")'
        PROVE  (\A i \in Names : ~Owner(i, task[y].uid)') /\ Clean(task[y].uid)'
    <3>1. /\ task'[y] = task[y] /\ task[y].uid \in Jobs
          /\ \A i \in Names : ~Owner(i, task[y].uid)
          /\ Clean(task[y].uid)
      BY <1>1, <1>4, <2>1 DEF FreeInv, At, Placed
    <3>2. task[x].pc = "launching" => task[y].uid # task[x].uid \/ task[y].uid \in excused
      BY <1>10, <3>1 DEF Owner, Built
    <3> QED
      BY <1>8, <1>19, <3>1, <3>2 DEF Owner
  <2>2. ASSUME NEW y \in Tasks, task'[y].pc \in {"preparing", "launching"}, excused' # Jobs
        PROVE  Clean(row[task[y].id].uid)'
    <3>1. /\ task'[y] = task[y] /\ excused # Jobs /\ task[y].id \in Names /\ Open(task[y].id)
          /\ Clean(row[task[y].id].uid)
      BY <1>1, <1>2, <1>4, <2>2 DEF FreeInv, ReserveInv, Holding, Placed
    <3>2. row'[task'[y].id].uid = row[task[y].id].uid
      BY <1>2, <3>1
    <3>3. ASSUME task[x].pc = "launching", task'[x].pc # "launching"
          PROVE  row[task[y].id].uid # task[x].uid
      <4>1. y # x /\ task[y].id # task[x].id
        BY <1>1, <2>2, <3>1, <3>3 DEF ReserveInv, Holding
      <4> QED
        BY <1>1, <1>10, <3>1, <3>3, <4>1 DEF RowsInv, Owner, Built
    <3> QED
      BY <1>19, <3>1, <3>2, <3>3
  <2> QED
    BY <2>1, <2>2 DEF FreeInv
<1> QED
  BY <1>2, <1>6, <1>7, <1>8, <1>9, <1>11, <1>15, <1>16, <1>17, <1>20

\* The invariant after such a step, once its other parts are known.
LEMMA MovesStep ==
    ASSUME JobTableInv, Typed', NEW x \in Tasks, Moves(x), ReserveInv', RunInv', KeptInv', DoneInv'
    PROVE  JobTableInv'
BY MovesKeep DEF JobTableInv

\* The command of a conclusion, and those of the queue, are no longer new.
LEMMA ConcludedOf ==
    ASSUME JobTableInv
    PROVE  task[Concluder].pc \in Concluding =>
              /\ task[Concluder].cmd \in Commands
              /\ command[task[Concluder].cmd].state \in {"queued", "concluded"}
BY Parts, TaskKinds DEF QueueInv, Placed, Concluding, At

\* The command is forked in the job's tree.
LEMMA ForkStep ==
    ASSUME JobTableInv, NEW x \in Launchers, Fork(x)
    PROVE  JobTableInv'
<1>1. /\ Typed /\ (\A y \in Tasks : Placed(y)) /\ (\A c \in Commands : Commanded(c))
      /\ RowsInv /\ ReserveInv /\ RunInv /\ KeptInv /\ DoneInv /\ FreeInv
      /\ x \in Tasks /\ x # Concluder
  BY Parts, TaskKinds, TasksAssumption
<1>2. PICK id, u : id = task[x].id /\ u = task[x].uid
  OBVIOUS
<1>3. PICK c \in Commands :
         /\ command[c].state = "none"
         /\ command' = [command EXCEPT ![c] = [uid |-> u, id |-> id,
                                               state |-> "alive", forced |-> FALSE]]
         /\ tree' = [tree EXCEPT ![u] = c]
         /\ task' = [task EXCEPT ![x].pc = "publishing", ![x].cmd = c]
  <2>1. PICK c \in Commands :
           /\ NextCommand(c)
           /\ command' = [command EXCEPT ![c] = [uid |-> u, id |-> id,
                                                 state |-> "alive", forced |-> FALSE]]
           /\ tree' = [tree EXCEPT ![u] = c]
           /\ task' = [task EXCEPT ![x].pc = "publishing", ![x].cmd = c]
    BY <1>2 DEF Fork
  <2>2. c >= c
    BY DEF Commands
  <2>3. command[c].state = "none"
    BY <2>1, <2>2 DEF NextCommand
  <2> QED
    BY <2>1, <2>3
<1>4. /\ At(x, "launching")
      /\ UNCHANGED <<row, queue, locks, drawn, uids, terminal, excused>>
  BY DEF Fork
<1>5. id \in Names /\ u \in Jobs /\ u <= uids
  BY <1>1, <1>2, <1>4 DEF Placed, At
<1> DEFINE v == [task[x] EXCEPT !.pc = "publishing", !.cmd = c]
           n == [uid |-> u, id |-> id, state |-> "alive", forced |-> FALSE]
<1>6. /\ v \in TaskStates /\ v.pc = "publishing" /\ v.cmd = c /\ v.id = id /\ v.uid = u
  BY <1>1, <1>2, Fields DEF TaskStates, Steps
<1>7. task' = [task EXCEPT ![x] = v]
  BY <1>1, <1>3 DEF Typed, TaskStates
<1>8. n \in CommandStates /\ n.uid = u /\ n.id = id /\ n.state = "alive"
  BY <1>5 DEF CommandStates
<1>9. command' = [command EXCEPT ![c] = n]
  BY <1>3
<1> HIDE DEF v, n
<1>10. /\ task' \in [Tasks -> TaskStates] /\ task'[x] = v
       /\ \A y \in Tasks \ {x} : task'[y] = task[y]
  BY <1>1, <1>6, <1>7, TaskMoves
<1>11. /\ command' \in [Commands -> CommandStates] /\ command'[c] = n
       /\ \A d \in Commands \ {c} : command'[d] = command[d]
  BY <1>1, <1>8, <1>9 DEF Typed
<1>12. /\ tree' \in [Jobs -> Commands \union {0}] /\ tree'[u] = c
       /\ \A w \in Jobs \ {u} : tree'[w] = tree[w]
  BY <1>1, <1>3, <1>5 DEF Typed
<1>13. Typed'
  BY <1>1, <1>4, <1>10, <1>11, <1>12 DEF Typed, queue, locks
<1>14. Moves(x)
  <2>1. Placed(x)'
    BY <1>1, <1>4, <1>5, <1>6, <1>10 DEF Placed, Concluding
  <2> QED
    BY <1>1, <1>2, <1>3, <1>4, <1>6, <1>8, <1>10, <1>11, <2>1
    DEF Moves, At, Open, RowsInv, queue
<1>15. /\ \A y \in Tasks : Opening(y)' => Opening(y) /\ y # x /\ task'[y] = task[y]
       /\ \A y \in Tasks : Holding(y)' => Holding(y) /\ task'[y].id = task[y].id
                                                     /\ task'[y].uid = task[y].uid
  BY <1>2, <1>4, <1>6, <1>10 DEF Opening, Holding, At
<1>16. ReserveInv'
  <2> SUFFICES ASSUME excused # Jobs, NEW y \in Tasks
               PROVE  /\ Holding(y)' =>
                            /\ Open(task[y].id)' /\ row'[task'[y].id].starting
                            /\ \A z \in Tasks : Holding(z)' /\ task'[z].id = task'[y].id => z = y
                      /\ task'[y].pc \in {"launching", "publishing"} =>
                            Built(task[y].id)' /\ row'[task'[y].id].uid = task'[y].uid
                      /\ At(y, "publishing")' =>
                            /\ command'[task'[y].cmd].uid = task'[y].uid
                            /\ command'[task'[y].cmd].id = task'[y].id
                            /\ command'[task'[y].cmd].state \in {"alive", "exited"}
    BY <1>4 DEF ReserveInv
  <2>1. Holding(y)' => /\ Open(task[y].id)' /\ row'[task'[y].id].starting
                       /\ \A z \in Tasks : Holding(z)' /\ task'[z].id = task'[y].id => z = y
    BY <1>1, <1>4, <1>15 DEF ReserveInv, Open
  <2>2. task'[y].pc \in {"launching", "publishing"} =>
           Built(task[y].id)' /\ row'[task'[y].id].uid = task'[y].uid
    <3>1. task'[y].pc \in {"launching", "publishing"} =>
             /\ task[y].pc \in {"launching", "publishing"}
             /\ task'[y].id = task[y].id /\ task'[y].uid = task[y].uid
      BY <1>2, <1>4, <1>6, <1>10 DEF At
    <3> QED
      BY <1>1, <1>4, <3>1 DEF ReserveInv, Built, Open
  <2>3. CASE y = x
    BY <1>6, <1>8, <1>10, <1>11, <2>1, <2>2, <2>3
  <2>4. CASE y # x
    <3>1. At(y, "publishing") => /\ task[y].cmd \in Commands \ {c}
                                 /\ command[task[y].cmd].uid = task[y].uid
                                 /\ command[task[y].cmd].id = task[y].id
                                 /\ command[task[y].cmd].state \in {"alive", "exited"}
      BY <1>1, <1>3 DEF ReserveInv, Placed, At
    <3> QED
      BY <1>10, <1>11, <2>1, <2>2, <2>4, <3>1 DEF At
  <2> QED
    BY <2>3, <2>4
<1>17. RunInv'
  <2>1. \A i \in Names : Open(i) /\ row[i].running # 0 /\ excused # Jobs =>
           row[i].running \in Commands \ {c}
    BY <1>1, <1>3, Fields DEF RunInv
  <2> QED
    BY <1>1, <1>4, <1>11, <2>1 DEF RunInv, Open
<1>18. ASSUME NEW d \in Commands \ {c}, Due(d)', ~Excused(d)'
       PROVE  /\ Due(d) /\ ~Excused(d) /\ command'[d] = command[d]
              /\ command[d].uid # u /\ excused # Jobs /\ command[d].uid \in Jobs
  <2>1. Due(d) /\ command'[d] = command[d]
    BY <1>1, <1>3, <1>11, <1>13, <1>14, <1>18, MovesKeep
  <2>2. ~Excused(d) /\ excused # Jobs /\ command[d].uid \in Jobs
    BY <1>4, <1>18, <2>1, OutstandingOf DEF Excused
  <2>3. Clean(row[id].uid) /\ row[id].uid = u
    BY <1>1, <1>2, <1>4, <2>2 DEF FreeInv, ReserveInv, At
  <2> QED
    BY <2>1, <2>2, <2>3 DEF Clean, Excused
<1>19. KeptInv'
  <2>1. ASSUME NEW d \in Commands, d # c, Due(d)', ~Excused(d)'
        PROVE  /\ tree'[command'[d].uid] = d
               /\ Owner(command[d].id, command[d].uid)'
               /\ command'[d].state \in {"alive", "exited"} =>
                     \/ row'[command'[d].id].running = d
                     \/ \E y \in Tasks : At(y, "publishing")' /\ task'[y].cmd = d
    <3>1. \A y \in Tasks : At(y, "publishing") => At(y, "publishing")' /\ task'[y] = task[y]
      BY <1>4, <1>10 DEF At
    <3> QED
      BY <1>1, <1>4, <1>12, <1>18, <2>1, <3>1 DEF KeptInv, Owner, Open
  <2>2. ASSUME ~Excused(c)'
        PROVE  /\ tree'[command'[c].uid] = c
               /\ Owner(command[c].id, command[c].uid)'
               /\ \E y \in Tasks : At(y, "publishing")' /\ task'[y].cmd = c
    <3>1. excused # Jobs
      BY <1>4, <1>5, <1>8, <1>11, <2>2 DEF Excused
    <3>2. Open(id) /\ row[id].uid = u
      BY <1>1, <1>2, <1>4, <3>1 DEF ReserveInv, Built, At
    <3> QED
      BY <1>1, <1>4, <1>6, <1>8, <1>10, <1>11, <1>12, <3>2 DEF Owner, Open, At
  <2> QED
    BY <2>1, <2>2 DEF KeptInv
<1>20. DoneInv'
  <2>1. ASSUME NEW i \in Names, Open(i), row[i].uid \notin excused, row[i].done # 0
        PROVE  /\ command'[row[i].done].uid = row[i].uid /\ command'[row[i].done].id = i
               /\ Unconcluded(row[i].done)' \/ (At(Concluder, "delivering")'
                                                /\ row[i].done = task'[Concluder].cmd)
    <3>1. /\ row[i].done \in Commands
          /\ command[row[i].done].uid = row[i].uid /\ command[row[i].done].id = i
          /\ \/ Unconcluded(row[i].done)
             \/ At(Concluder, "delivering") /\ row[i].done = task[Concluder].cmd
      BY <1>1, <2>1, Fields DEF DoneInv
    <3>2. command[row[i].done].state # "none"
      BY <3>1, ConcludedOf DEF Unconcluded, At, Concluding
    <3>3. row[i].done # c /\ command'[row[i].done] = command[row[i].done]
      BY <1>3, <1>11, <3>1, <3>2
    <3> QED
      BY <1>1, <1>4, <1>10, <3>1, <3>3, TaskKinds DEF Unconcluded, At
  <2> QED
    BY <1>4, <2>1 DEF DoneInv, Open
<1> QED
  BY <1>1, <1>13, <1>14, <1>16, <1>17, <1>19, <1>20, MovesStep

\* The launch fails, wherever it was with the job's tree.
LEMMA LaunchFailsStep ==
    ASSUME JobTableInv, NEW x \in Launchers, LaunchFails(x)
    PROVE  JobTableInv'
<1>1. /\ Typed /\ (\A y \in Tasks : Placed(y)) /\ (\A c \in Commands : Commanded(c))
      /\ RowsInv /\ ReserveInv /\ RunInv /\ KeptInv /\ DoneInv /\ FreeInv
      /\ x \in Tasks /\ x # Concluder /\ Concluder \in Tasks
  BY Parts, TaskKinds, TasksAssumption
<1>2. PICK id, u : id = task[x].id /\ u = task[x].uid
  OBVIOUS
<1>3. /\ At(x, "launching") /\ Failed(x, id, FALSE)
      /\ row' = IF Open(id) THEN [row EXCEPT ![id].starting = FALSE] ELSE row
      /\ excused' = IF x \in Callers /\ Open(id) /\ Explicit(row[id])
                    THEN excused \union {row[id].uid} ELSE excused
      /\ UNCHANGED <<queue, locks, drawn, uids, terminal>>
  BY <1>2 DEF LaunchFails
<1>4. id \in Names /\ u \in Jobs /\ u <= uids
  BY <1>1, <1>2, <1>3 DEF Placed, At
<1> DEFINE r == [row[id] EXCEPT !.starting = FALSE]
<1>5. PICK c \in Commands, left \in Commands \union {0} :
         /\ command[c].state = "none"
         /\ command' = [command EXCEPT ![c] = [uid |-> u, id |-> id,
                                               state |-> "failed", forced |-> FALSE]]
         /\ tree' = [tree EXCEPT ![u] = left]
  <2>1. PICK c \in Commands :
           /\ NextCommand(c)
           /\ command' = [command EXCEPT ![c] = [uid |-> u, id |-> id,
                                                 state |-> "failed", forced |-> FALSE]]
           /\ \E left \in {tree[u], 0, c} : tree' = [tree EXCEPT ![u] = left]
    BY <1>2 DEF LaunchFails
  <2>2. c >= c
    BY DEF Commands
  <2>3. command[c].state = "none"
    BY <2>1, <2>2 DEF NextCommand
  <2>4. {tree[u], 0, c} \subseteq Commands \union {0}
    BY <1>1, <1>4 DEF Typed
  <2> QED
    BY <2>1, <2>3, <2>4
<1> DEFINE n == [uid |-> u, id |-> id, state |-> "failed", forced |-> FALSE]
<1>6. n \in CommandStates /\ n.uid = u /\ n.id = id /\ n.state = "failed"
  BY <1>4 DEF CommandStates
<1>7. command' = [command EXCEPT ![c] = n]
  BY <1>5
<1>8. Open(id) =>
        /\ r \in Row /\ r # None
        /\ r.uid = row[id].uid /\ r.resources = row[id].resources
        /\ r.starting = FALSE /\ r.running = row[id].running /\ r.done = row[id].done
  BY <1>1, <1>4, Fields, NoneAssumption DEF Row
<1>9. row' = IF Open(id) THEN [row EXCEPT ![id] = r] ELSE row
  BY <1>1, <1>3, <1>4 DEF Typed
<1> HIDE DEF n, r
<1>10. /\ row' \in [Names -> Row \union {None}]
       /\ \A i \in Names \ {id} : row'[i] = row[i]
       /\ Open(id) => row'[id] = r
       /\ ~Open(id) => row' = row
  BY <1>1, <1>4, <1>8, <1>9, RowMoves DEF Typed
<1>11. \A i \in Names : /\ row'[i] # None <=> Open(i)
                        /\ Open(i) => /\ row'[i].uid = row[i].uid
                                      /\ row'[i].resources = row[i].resources
                                      /\ row'[i].running = row[i].running
                                      /\ row'[i].done = row[i].done
                                      /\ ~(row'[i].starting /\ row'[i].running # 0)
  BY <1>1, <1>8, <1>10 DEF Open, RowsInv
<1>12. /\ task' \in [Tasks -> TaskStates]
       /\ \A y \in Tasks \ {x} : task'[y] = task[y]
       /\ \/ task'[x].pc = "idle"
          \/ x \in Jobs /\ task'[x].pc = "reporting" /\ task'[x].id = id
  BY <1>1, <1>3, <1>4, Fails
<1>13. /\ command' \in [Commands -> CommandStates] /\ command'[c] = n
       /\ \A d \in Commands \ {c} : command'[d] = command[d]
  BY <1>1, <1>6, <1>7 DEF Typed
<1>14. /\ tree' \in [Jobs -> Commands \union {0}]
       /\ \A w \in Jobs \ {u} : tree'[w] = tree[w]
  BY <1>1, <1>4, <1>5 DEF Typed
<1>15. excused \subseteq excused' /\ excused' \subseteq Jobs
  BY <1>1, <1>3, <1>4, Fields DEF Typed
<1>16. Typed'
  BY <1>1, <1>3, <1>10, <1>12, <1>13, <1>14, <1>15 DEF Typed, queue, locks
<1>17. Moves(x)
  <2>1. Placed(x)'
    BY <1>1, <1>4, <1>12 DEF Placed, Concluding
  <2> QED
    BY <1>1, <1>2, <1>3, <1>5, <1>6, <1>11, <1>12, <1>13, <1>15, <2>1 DEF Moves, At, queue
<1>18. excused' # Jobs => excused # Jobs
  BY <1>16, <1>17, <1>1, MovesKeep
<1>19. \A y \in Tasks : Holding(y)' => Holding(y) /\ y # x /\ task'[y] = task[y]
  BY <1>12 DEF Opening, Holding
<1>20. ReserveInv'
  <2> SUFFICES ASSUME excused' # Jobs, NEW y \in Tasks, Holding(y)'
               PROVE  /\ Open(task[y].id)' /\ row'[task'[y].id].starting
                      /\ \A z \in Tasks : Holding(z)' /\ task'[z].id = task'[y].id => z = y
                      /\ task'[y].pc \in {"launching", "publishing"} =>
                            Built(task[y].id)' /\ row'[task'[y].id].uid = task'[y].uid
                      /\ At(y, "publishing")' =>
                            /\ command'[task'[y].cmd].uid = task'[y].uid
                            /\ command'[task'[y].cmd].id = task'[y].id
                            /\ command'[task'[y].cmd].state \in {"alive", "exited"}
    BY DEF ReserveInv, Holding, At
  <2>1. /\ excused # Jobs /\ Holding(y) /\ y # x /\ task'[y] = task[y] /\ task[y].id \in Names
    BY <1>1, <1>18, <1>19 DEF Holding, Opening, Placed
  <2>2. /\ Open(task[y].id) /\ row[task[y].id].starting
        /\ \A z \in Tasks : Holding(z) /\ task[z].id = task[y].id => z = y
        /\ task[y].pc \in {"launching", "publishing"} =>
              Built(task[y].id) /\ row[task[y].id].uid = task[y].uid
        /\ At(y, "publishing") =>
              /\ command[task[y].cmd].uid = task[y].uid
              /\ command[task[y].cmd].id = task[y].id
              /\ command[task[y].cmd].state \in {"alive", "exited"}
              /\ task[y].cmd \in Commands
    BY <1>1, <2>1 DEF ReserveInv, Placed, At
  <2>3. task[y].id # id
    BY <1>1, <1>2, <1>3, <2>1, <2>2 DEF Holding, At
  <2>4. row'[task[y].id] = row[task[y].id]
    BY <1>10, <2>1, <2>3
  <2>5. At(y, "publishing") => task[y].cmd # c
    BY <1>5, <2>2
  <2> QED
    BY <1>13, <1>19, <2>1, <2>2, <2>4, <2>5 DEF Open, Built, At
<1>21. RunInv'
  <2>1. \A i \in Names : Open(i) /\ row[i].running # 0 /\ excused # Jobs =>
           row[i].running \in Commands \ {c}
    BY <1>1, <1>5, Fields DEF RunInv
  <2> QED
    BY <1>1, <1>11, <1>13, <1>18, <2>1 DEF RunInv, Open
<1>22. KeptInv'
  <2> SUFFICES ASSUME NEW d \in Commands, Due(d)', ~Excused(d)'
               PROVE  /\ tree'[command'[d].uid] = d
                      /\ Owner(command[d].id, command[d].uid)'
                      /\ command'[d].state \in {"alive", "exited"} =>
                            \/ row'[command'[d].id].running = d
                            \/ \E y \in Tasks : At(y, "publishing")' /\ task'[y].cmd = d
    BY DEF KeptInv
  <2>1. d # c /\ Due(d) /\ command'[d] = command[d]
    BY <1>1, <1>5, <1>6, <1>13, <1>16, <1>17, MovesKeep, OutstandingOf
  <2>2. ~Excused(d) /\ excused # Jobs /\ command[d].uid \in Jobs /\ command[d].id \in Names
    BY <1>15, <2>1, OutstandingOf DEF Excused
  <2>3. Clean(row[id].uid) /\ row[id].uid = u
    BY <1>1, <1>2, <1>3, <2>2 DEF FreeInv, ReserveInv, At
  <2>4. command[d].uid # u
    BY <2>1, <2>2, <2>3 DEF Clean, Excused
  <2>5. \A y \in Tasks : At(y, "publishing") => At(y, "publishing")' /\ task'[y] = task[y]
    BY <1>3, <1>12 DEF At
  <2>6. /\ tree[command[d].uid] = d
        /\ Owner(command[d].id, command[d].uid)
        /\ command[d].state \in {"alive", "exited"} =>
              \/ row[command[d].id].running = d
              \/ \E y \in Tasks : At(y, "publishing") /\ task[y].cmd = d
    BY <1>1, <2>1, <2>2 DEF KeptInv
  <2> QED
    BY <1>11, <1>14, <2>1, <2>2, <2>4, <2>5, <2>6 DEF Owner, Open
<1>23. DoneInv'
  <2>1. ASSUME NEW i \in Names, Open(i), row[i].uid \notin excused, row[i].done # 0
        PROVE  /\ command'[row[i].done].uid = row[i].uid /\ command'[row[i].done].id = i
               /\ Unconcluded(row[i].done)' \/ (At(Concluder, "delivering")'
                                                /\ row[i].done = task'[Concluder].cmd)
    <3>1. /\ row[i].done \in Commands
          /\ command[row[i].done].uid = row[i].uid /\ command[row[i].done].id = i
          /\ \/ Unconcluded(row[i].done)
             \/ At(Concluder, "delivering") /\ row[i].done = task[Concluder].cmd
      BY <1>1, <2>1, Fields DEF DoneInv
    <3>2. command[row[i].done].state # "none"
      BY <3>1, ConcludedOf DEF Unconcluded, At, Concluding
    <3>3. row[i].done # c /\ command'[row[i].done] = command[row[i].done]
      BY <1>5, <1>13, <3>1, <3>2
    <3> QED
      BY <1>1, <1>11, <1>12, <2>1, <3>1, <3>3 DEF Unconcluded, At
  <2> QED
    BY <1>11, <1>15, <2>1 DEF DoneInv, Open
<1> QED
  BY <1>1, <1>16, <1>17, <1>20, <1>21, <1>22, <1>23, MovesStep

\* The command is published in the row, and killed when a force came meanwhile.
LEMMA PublishStep ==
    ASSUME JobTableInv, NEW x \in Launchers, Publish(x)
    PROVE  JobTableInv'
<1>1. /\ Typed /\ (\A y \in Tasks : Placed(y)) /\ (\A c \in Commands : Commanded(c))
      /\ RowsInv /\ ReserveInv /\ RunInv /\ KeptInv /\ DoneInv /\ FreeInv
      /\ x \in Tasks /\ x # Concluder /\ Concluder \in Tasks
  BY Parts, TaskKinds, TasksAssumption
<1>2. PICK id, c : id = task[x].id /\ c = task[x].cmd
  OBVIOUS
<1>3. CASE ~Open(id)
  BY <1>2, <1>3, RowlessStep
<1>4. CASE Open(id)
  <2> DEFINE calls == IF task[x].flag THEN c ELSE 0
             r == Published(row[id], c)
  <2>1. /\ At(x, "publishing") /\ UNCHANGED <<queue, locks, drawn, uids, tree, terminal, excused>>
        /\ \/ /\ row' = [row EXCEPT ![id] = [r EXCEPT !.done = calls]]
              /\ Return(x) /\ (command' = command \/ Kill(c))
           \/ /\ row' = [row EXCEPT ![id] = [r EXCEPT !.close = "graceful"]]
              /\ Failed(x, id, TRUE) /\ command' = command
    BY <1>2, <1>4 DEF Publish
  <2>2. id \in Names /\ c \in Commands /\ calls \in {0, c}
    BY <1>1, <1>2, <2>1 DEF Placed, At
  <2>3. PICK s \in Row :
           /\ row' = [row EXCEPT ![id] = s]
           /\ s.uid = row[id].uid /\ s.resources = row[id].resources
           /\ s.starting = FALSE /\ s.running = c /\ s.done \in {row[id].done, 0, c}
    <3>1. row[id] \in Row
      BY <1>1, <1>4, <2>2, Fields
    <3>2. /\ r \in Row /\ r.uid = row[id].uid /\ r.resources = row[id].resources
          /\ r.starting = FALSE /\ r.running = c /\ r.done = row[id].done
      BY <2>2, <3>1 DEF Row, Published
    <3> HIDE DEF r, calls
    <3>3. LET a == [r EXCEPT !.done = calls]
          IN  /\ a \in Row /\ a.uid = row[id].uid /\ a.resources = row[id].resources
              /\ a.starting = FALSE /\ a.running = c /\ a.done \in {row[id].done, 0, c}
      BY <2>2, <3>2 DEF Row
    <3>4. LET a == [r EXCEPT !.close = "graceful"]
          IN  /\ a \in Row /\ a.uid = row[id].uid /\ a.resources = row[id].resources
              /\ a.starting = FALSE /\ a.running = c /\ a.done \in {row[id].done, 0, c}
      BY <3>2 DEF Row
    <3>5. CASE row' = [row EXCEPT ![id] = [r EXCEPT !.done = calls]]
      BY <3>3, <3>5
    <3>6. CASE row' = [row EXCEPT ![id] = [r EXCEPT !.close = "graceful"]]
      BY <3>4, <3>6
    <3> QED
      BY <2>1, <3>5, <3>6
  <2> HIDE DEF r, calls
  <2>4. /\ row' \in [Names -> Row \union {None}] /\ row'[id] = s /\ s # None
        /\ \A i \in Names \ {id} : row'[i] = row[i]
    BY <1>1, <2>2, <2>3, RowMoves, NoneAssumption
  <2>5. /\ command' \in [Commands -> CommandStates] /\ \A d \in Commands : SameCommand(d)
    <3>1. CASE Kill(c)
      BY <1>1, <2>2, <3>1, Kills
    <3>2. CASE command' = command
      BY <1>1, <3>2, CommandsStay DEF Typed
    <3> QED
      BY <2>1, <3>1, <3>2
  <2>6. /\ task' \in [Tasks -> TaskStates]
        /\ \A y \in Tasks \ {x} : task'[y] = task[y]
        /\ \/ task'[x].pc = "idle"
           \/ x \in Jobs /\ task'[x].pc = "reporting" /\ task'[x].id = id
    <3>1. CASE Return(x)
      BY <1>1, <3>1, Returns
    <3>2. CASE Failed(x, id, TRUE)
      BY <1>1, <2>2, <3>2, Fails
    <3> QED
      BY <2>1, <3>1, <3>2
  <2>7. Typed'
    BY <1>1, <2>1, <2>4, <2>5, <2>6 DEF Typed, queue, locks
  <2>8. \A i \in Names : /\ row'[i] # None <=> Open(i)
                         /\ Open(i) => /\ row'[i].uid = row[i].uid
                                       /\ row'[i].resources = row[i].resources
                                       /\ ~(row'[i].starting /\ row'[i].running # 0)
    BY <1>1, <1>4, <2>3, <2>4 DEF Open, RowsInv
  <2>9. Moves(x)
    <3>1. Placed(x)'
      BY <1>1, <2>2, <2>6 DEF Placed, Concluding
    <3> QED
      BY <2>1, <2>5, <2>6, <2>8, <3>1 DEF Moves, At, queue, SameCommand
  <2>10. ASSUME excused # Jobs
         PROVE  /\ row[id].starting /\ row[id].running = 0 /\ row[id].uid = task[x].uid
                /\ command[c].uid = row[id].uid /\ command[c].id = id
                /\ command[c].state \in {"alive", "exited"}
                /\ \A y \in Tasks \ {x} : Holding(y) => task[y].id # id
    BY <1>1, <1>2, <1>4, <2>1, <2>2, <2>10 DEF ReserveInv, RowsInv, Holding, At
  <2>11. \A y \in Tasks : Holding(y)' => Holding(y) /\ y # x /\ task'[y] = task[y]
    BY <2>6 DEF Opening, Holding
  <2>12. ReserveInv'
    <3> SUFFICES ASSUME excused # Jobs, NEW y \in Tasks, Holding(y)'
                 PROVE  /\ Open(task[y].id)' /\ row'[task'[y].id].starting
                        /\ \A z \in Tasks : Holding(z)' /\ task'[z].id = task'[y].id => z = y
                        /\ task'[y].pc \in {"launching", "publishing"} =>
                              Built(task[y].id)' /\ row'[task'[y].id].uid = task'[y].uid
                        /\ At(y, "publishing")' =>
                              /\ command'[task'[y].cmd].uid = task'[y].uid
                              /\ command'[task'[y].cmd].id = task'[y].id
                              /\ command'[task'[y].cmd].state \in {"alive", "exited"}
      BY <2>1 DEF ReserveInv, Holding, At
    <3>1. /\ Holding(y) /\ y # x /\ task'[y] = task[y] /\ task[y].id \in Names
          /\ task[y].id # id /\ row'[task[y].id] = row[task[y].id]
      BY <1>1, <2>4, <2>10, <2>11 DEF Holding, Opening, Placed
    <3>2. At(y, "publishing") => SameCommand(task[y].cmd)
      BY <1>1, <2>5 DEF Placed, At
    <3> QED
      BY <1>1, <2>11, <3>1, <3>2 DEF ReserveInv, Open, Built, At, SameCommand
  <2>13. RunInv'
    <3> SUFFICES ASSUME excused # Jobs, NEW i \in Names, row'[i] # None, row'[i].running # 0
                 PROVE  /\ command'[row'[i].running].uid = row'[i].uid
                        /\ command'[row'[i].running].id = i
                        /\ command'[row'[i].running].state \in {"alive", "exited"}
      BY <2>1 DEF RunInv, Open
    <3>1. CASE i = id
      BY <2>2, <2>3, <2>4, <2>5, <2>10, <3>1 DEF SameCommand
    <3>2. CASE i # id
      <4>1. Open(i) /\ row'[i] = row[i] /\ row[i].running \in Commands
        BY <1>1, <2>4, <3>2, Fields DEF Open
      <4> QED
        BY <1>1, <2>5, <4>1 DEF RunInv, SameCommand
    <3> QED
      BY <3>1, <3>2
  <2>14. KeptInv'
    <3> SUFFICES ASSUME NEW d \in Commands, Due(d)', ~Excused(d)'
                 PROVE  /\ tree'[command'[d].uid] = d
                        /\ Owner(command[d].id, command[d].uid)'
                        /\ command'[d].state \in {"alive", "exited"} =>
                              \/ row'[command'[d].id].running = d
                              \/ \E y \in Tasks : At(y, "publishing")' /\ task'[y].cmd = d
      BY DEF KeptInv
    <3>1. SameCommand(d) /\ Due(d)
      BY <1>1, <2>5, <2>7, <2>9, MovesKeep DEF SameCommand
    <3>2. /\ ~Excused(d) /\ excused # Jobs /\ command[d].id \in Names
      BY <2>1, <3>1, OutstandingOf DEF Excused, SameCommand
    <3>3. /\ tree[command[d].uid] = d
          /\ Owner(command[d].id, command[d].uid)
          /\ command[d].state \in {"alive", "exited"} =>
                \/ row[command[d].id].running = d
                \/ \E y \in Tasks : At(y, "publishing") /\ task[y].cmd = d
      BY <1>1, <3>1, <3>2 DEF KeptInv
    <3>4. Owner(command[d].id, command[d].uid)'
      BY <2>8, <3>1, <3>2, <3>3 DEF Owner, Open, SameCommand
    <3>5. ASSUME command'[d].state \in {"alive", "exited"}
          PROVE  \/ row'[command'[d].id].running = d
                 \/ \E y \in Tasks : At(y, "publishing")' /\ task'[y].cmd = d
      <4>1. command[d].state \in {"alive", "exited"} /\ command'[d].id = command[d].id
        BY <3>1, <3>5 DEF SameCommand
      <4>2. CASE d = c
        BY <2>3, <2>4, <2>10, <3>2, <4>1, <4>2
      <4>3. CASE d # c /\ row[command[d].id].running = d
        <5>1. command[d].id # id
          BY <2>10, <3>2, <4>3, TaskKinds
        <5> QED
          BY <2>4, <3>2, <4>1, <4>3, <5>1
      <4>4. CASE d # c /\ \E y \in Tasks : At(y, "publishing") /\ task[y].cmd = d
        <5>1. PICK y \in Tasks : At(y, "publishing") /\ task[y].cmd = d
          BY <4>4
        <5>2. y # x /\ task'[y] = task[y]
          BY <1>2, <2>6, <4>4, <5>1
        <5> QED
          BY <5>1, <5>2 DEF At
      <4> QED
        BY <3>3, <4>1, <4>2, <4>3, <4>4
    <3> QED
      BY <2>1, <3>1, <3>3, <3>4, <3>5 DEF SameCommand
  <2>15. DoneInv'
    <3> SUFFICES ASSUME NEW i \in Names, row'[i] # None, row'[i].uid \notin excused,
                        row'[i].done # 0
                 PROVE  /\ command'[row'[i].done].uid = row'[i].uid
                        /\ command'[row'[i].done].id = i
                        /\ \/ Unconcluded(row[i].done)'
                           \/ At(Concluder, "delivering")' /\ row'[i].done = task'[Concluder].cmd
      BY <2>1 DEF DoneInv, Open
    <3>1. Open(i) /\ row'[i].uid = row[i].uid /\ excused # Jobs
      BY <1>1, <2>8, Fields
    <3>2. CASE row'[i].done = row[i].done
      <4>1. /\ row[i].done \in Commands
            /\ command[row[i].done].uid = row[i].uid /\ command[row[i].done].id = i
            /\ \/ Unconcluded(row[i].done)
               \/ At(Concluder, "delivering") /\ row[i].done = task[Concluder].cmd
        BY <1>1, <3>1, <3>2, Fields DEF DoneInv
      <4>2. SameCommand(row[i].done) /\ task'[Concluder] = task[Concluder]
        BY <1>1, <2>5, <2>6, <4>1
      <4> QED
        BY <3>1, <3>2, <4>1, <4>2 DEF SameCommand, Unconcluded, At
    <3>3. CASE row'[i].done # row[i].done
      <4>1. i = id /\ row'[i].done = c
        BY <2>3, <2>4, <3>3
      <4> QED
        BY <2>2, <2>5, <2>10, <3>1, <4>1 DEF SameCommand, Unconcluded
    <3> QED
      BY <3>2, <3>3
  <2> QED
    BY <1>1, <2>7, <2>9, <2>12, <2>13, <2>14, <2>15, MovesStep
<1> QED
  BY <1>3, <1>4

\* The command is reaped and taken off its row.
LEMMA ReapStep ==
    ASSUME JobTableInv, NEW c \in Commands, Reap(c)
    PROVE  JobTableInv'
<1>1. /\ Typed /\ (\A y \in Tasks : Placed(y)) /\ (\A d \in Commands : Commanded(d))
      /\ RowsInv /\ ReserveInv /\ RunInv /\ KeptInv /\ DoneInv
      /\ Concluder \in Tasks
  BY Parts, TaskKinds
<1>2. PICK id : id = command[c].id
  OBVIOUS
<1> DEFINE r == [row[id] EXCEPT !.running = 0]
<1>3. /\ command[c].state = "exited" /\ Open(id) /\ row[id].running = c
      /\ row' = [row EXCEPT ![id] = r]
      /\ command' = [command EXCEPT ![c].state = "reaped"]
      /\ UNCHANGED <<queue, locks, task, drawn, uids, tree, terminal, excused>>
  BY <1>2 DEF Reap
<1>4. id \in Names /\ c # 0
  BY <1>1, <1>2, <1>3, TaskKinds DEF Commanded
<1>5. /\ r \in Row /\ r # None
      /\ r.uid = row[id].uid /\ r.resources = row[id].resources
      /\ r.starting = row[id].starting /\ r.running = 0 /\ r.done = row[id].done
  BY <1>1, <1>3, <1>4, Fields, NoneAssumption DEF Row
<1> HIDE DEF r
<1>6. /\ row' \in [Names -> Row \union {None}] /\ row'[id] = r
      /\ \A i \in Names \ {id} : row'[i] = row[i]
  BY <1>1, <1>3, <1>4, <1>5, RowMoves
<1>7. /\ command' \in [Commands -> CommandStates]
      /\ command'[c].state = "reaped" /\ command'[c].id = command[c].id
      /\ command'[c].uid = command[c].uid
      /\ \A d \in Commands \ {c} : command'[d] = command[d]
  BY <1>1, <1>3 DEF Typed, CommandStates
<1>8. Typed'
  BY <1>1, <1>3, <1>6, <1>7 DEF Typed, queue, locks
<1>9. \A i \in Names : /\ row'[i] # None <=> Open(i)
                       /\ Open(i) => /\ row'[i].uid = row[i].uid
                                     /\ row'[i].resources = row[i].resources
                                     /\ row'[i].starting = row[i].starting
                                     /\ row'[i].done = row[i].done
                                     /\ ~(row'[i].starting /\ row'[i].running # 0)
  BY <1>1, <1>3, <1>5, <1>6 DEF Open, RowsInv
<1>10. Moves(Concluder)
  BY <1>1, <1>3, <1>7, <1>9 DEF Moves, queue
<1>11. \A y \in Tasks : At(y, "publishing") /\ excused # Jobs => task[y].cmd # c
  <2>1. ASSUME NEW y \in Tasks, At(y, "publishing"), excused # Jobs, task[y].cmd = c
        PROVE  FALSE
    <3>1. row[id].starting
      BY <1>1, <1>2, <2>1 DEF ReserveInv, Holding, At
    <3> QED
      BY <1>1, <1>3, <1>4, <3>1 DEF RowsInv
  <2> QED
    BY <2>1
<1>12. ReserveInv'
  <2>1. \A y \in Tasks : At(y, "publishing") /\ excused # Jobs =>
           task[y].cmd \in Commands /\ command'[task[y].cmd] = command[task[y].cmd]
    BY <1>1, <1>7, <1>11 DEF Placed, At
  <2>2. \A y \in Tasks : Holding(y) => task[y].id \in Names
    BY <1>1 DEF Holding, Opening, Placed
  <2>3. \A y \in Tasks : task[y].pc \in {"launching", "publishing"} => Holding(y)
    BY DEF Holding
  <2>4. \A y \in Tasks : Holding(y)' <=> Holding(y)
    BY <1>3 DEF Holding, Opening
  <2> SUFFICES ASSUME excused # Jobs, NEW y \in Tasks
               PROVE  /\ Holding(y) =>
                            /\ Open(task[y].id)' /\ row'[task[y].id].starting
                            /\ \A z \in Tasks : Holding(z) /\ task[z].id = task[y].id => z = y
                      /\ task[y].pc \in {"launching", "publishing"} =>
                            Built(task[y].id)' /\ row'[task[y].id].uid = task[y].uid
                      /\ At(y, "publishing") =>
                            /\ command'[task[y].cmd].uid = task[y].uid
                            /\ command'[task[y].cmd].id = task[y].id
                            /\ command'[task[y].cmd].state \in {"alive", "exited"}
    BY <1>3, <2>4 DEF ReserveInv, At
  <2>5. Holding(y) =>
           /\ Open(task[y].id)' /\ row'[task[y].id].starting
           /\ \A z \in Tasks : Holding(z) /\ task[z].id = task[y].id => z = y
    BY <1>1, <1>3, <1>9, <2>2 DEF ReserveInv, Open
  <2>6. task[y].pc \in {"launching", "publishing"} =>
           Built(task[y].id)' /\ row'[task[y].id].uid = task[y].uid
    BY <1>1, <1>3, <1>9, <2>2, <2>3 DEF ReserveInv, Open, Built
  <2>7. At(y, "publishing") =>
           /\ command'[task[y].cmd].uid = task[y].uid
           /\ command'[task[y].cmd].id = task[y].id
           /\ command'[task[y].cmd].state \in {"alive", "exited"}
    BY <1>1, <2>1 DEF ReserveInv
  <2> QED
    BY <2>5, <2>6, <2>7
<1>13. RunInv'
  <2>1. ASSUME NEW i \in Names, row'[i] # None, row'[i].running # 0, excused # Jobs
        PROVE  /\ command'[row'[i].running].uid = row'[i].uid
               /\ command'[row'[i].running].id = i
               /\ command'[row'[i].running].state \in {"alive", "exited"}
    <3>1. i # id /\ row'[i] = row[i] /\ Open(i) /\ row[i].running \in Commands
      BY <1>1, <1>5, <1>6, <2>1, Fields DEF Open
    <3>2. row[i].running # c
      BY <1>1, <1>2, <2>1, <3>1 DEF RunInv
    <3> QED
      BY <1>1, <1>7, <2>1, <3>1, <3>2 DEF RunInv
  <2> QED
    BY <1>3, <2>1 DEF RunInv, Open
<1>14. KeptInv'
  <2> SUFFICES ASSUME NEW d \in Commands, Due(d)', ~Excused(d)'
               PROVE  /\ tree'[command'[d].uid] = d
                      /\ Owner(command[d].id, command[d].uid)'
                      /\ command'[d].state \in {"alive", "exited"} =>
                            \/ row'[command'[d].id].running = d
                            \/ \E y \in Tasks : At(y, "publishing")' /\ task'[y].cmd = d
    BY DEF KeptInv
  <2>1. /\ Due(d) /\ command'[d].uid = command[d].uid /\ command'[d].id = command[d].id
        /\ command'[d].state \in {"alive", "exited"} => d # c /\ command'[d] = command[d]
    BY <1>1, <1>3, <1>7, <1>8, <1>10, MovesKeep
  <2>2. ~Excused(d) /\ command[d].id \in Names
    BY <1>3, <2>1, OutstandingOf DEF Excused
  <2>3. /\ tree[command[d].uid] = d
        /\ Owner(command[d].id, command[d].uid)
        /\ command[d].state \in {"alive", "exited"} =>
              \/ row[command[d].id].running = d
              \/ \E y \in Tasks : At(y, "publishing") /\ task[y].cmd = d
    BY <1>1, <2>1, <2>2 DEF KeptInv
  <2>4. d # c /\ row[command[d].id].running = d => row'[command[d].id].running = d
    BY <1>3, <1>6, <2>2
  <2> QED
    BY <1>3, <1>9, <2>1, <2>2, <2>3, <2>4 DEF Owner, Open, At
<1>15. DoneInv'
  <2>1. ASSUME NEW i \in Names, Open(i), row[i].uid \notin excused, row[i].done # 0
        PROVE  /\ command'[row[i].done].uid = row[i].uid /\ command'[row[i].done].id = i
               /\ \/ command'[row[i].done].state \in {"alive", "exited", "reaped", "queued"}
                  \/ At(Concluder, "delivering") /\ row[i].done = task[Concluder].cmd
    <3>1. /\ row[i].done \in Commands
          /\ command[row[i].done].uid = row[i].uid /\ command[row[i].done].id = i
          /\ \/ Unconcluded(row[i].done)
             \/ At(Concluder, "delivering") /\ row[i].done = task[Concluder].cmd
      BY <1>1, <2>1, Fields DEF DoneInv
    <3> QED
      BY <1>7, <3>1 DEF Unconcluded
  <2> QED
    BY <1>3, <1>9, <2>1 DEF DoneInv, Open, Unconcluded, At
<1> QED
  BY <1>1, <1>8, <1>10, <1>12, <1>13, <1>14, <1>15, MovesStep

-----------------------------------------------------------------------------
(* The theorems.                                                           *)

\* Nothing has been opened at first.
LEMMA JobTableStart ==
    ASSUME Init
    PROVE  JobTableInv
<1>1. /\ \A i \in Names : row[i] = None /\ active[i] = 0
      /\ \A x \in Tasks : task[x] = Idle
      /\ \A c \in Commands : command[c] = NoCommand
      /\ pending = <<>> /\ uids = 0 /\ excused = {}
  BY DEF Init
<1>2. Idle \in TaskStates /\ Idle.pc = "idle" /\ Idle.flag = FALSE
  BY DEF Idle, TaskStates, Steps
<1>3. NoCommand \in CommandStates /\ NoCommand.state = "none"
  BY DEF NoCommand, CommandStates
<1>4. Typed
  <2>1. pending \in Seq(Commands) /\ uids \in 0..MaxJobs
    BY <1>1, BoundsAssumption
  <2>2. task \in [Tasks -> TaskStates] /\ command \in [Commands -> CommandStates]
    BY <1>2, <1>3 DEF Init
  <2> QED
    BY <2>1, <2>2 DEF Init, Typed
<1>5. (\A x \in Tasks : Placed(x)) /\ (\A c \in Commands : Commanded(c))
  BY <1>1, <1>2, <1>3 DEF Placed, Commanded, Concluding
<1>6. RowsInv /\ RunInv /\ DoneInv
  BY <1>1 DEF RowsInv, RunInv, DoneInv, Owner, Open
<1>7. OpeningInv /\ ReserveInv /\ FreeInv
  BY <1>1, <1>2, TaskKinds DEF OpeningInv, ReserveInv, FreeInv, Opening, Holding, At
<1>8. ~Working /\ task[Concluder].pc \notin Concluding
  BY <1>1, <1>2, TaskKinds DEF Working, Concluding
<1>9. QueueInv
  BY <1>1, <1>8 DEF QueueInv, Concluding, At
<1>10. ActiveInv
  <2>1. \A i : Owed(i) = {}
    BY <1>1, <1>3, <1>8 DEF Owed
  <2> QED
    BY <1>1, <2>1, FS_EmptySet DEF ActiveInv
<1>11. KeptInv
  BY <1>1, <1>3, <1>8 DEF KeptInv, Due, Unconcluded
<1> QED
  BY <1>4, <1>5, <1>6, <1>7, <1>9, <1>10, <1>11 DEF JobTableInv

\* What a frontend asks for keeps the invariant.
LEMMA CallStep ==
    ASSUME JobTableInv, NEW t \in Callers, Call(t)
    PROVE  JobTableInv'
<1>1. PICK id \in Names :
         \/ \E opens, anonymous \in BOOLEAN : Spawn(t, id, opens, anonymous)
         \/ \E calls \in BOOLEAN : StartIn(t, id, calls)
         \/ Stop(t, id) \/ ForceStop(t, id) \/ StopBlocks(t)
         \/ Keep(t, id)
         \/ OnFinish(t, id)
  BY DEF Call
<1>2. CASE \E opens, anonymous \in BOOLEAN : Spawn(t, id, opens, anonymous)
  BY <1>2, SpawnStep
<1>3. CASE \E calls \in BOOLEAN : StartIn(t, id, calls)
  BY <1>3, StartInStep
<1>4. CASE Stop(t, id) \/ ForceStop(t, id) \/ StopBlocks(t)
  BY <1>4, StopStep, ForceStopStep, StopBlocksStep
<1>5. CASE Keep(t, id) \/ OnFinish(t, id)
  BY <1>5, KeepStep, OnFinishStep
<1> QED
  BY <1>1, <1>2, <1>3, <1>4, <1>5

\* A launch keeps it, and so does a task that reclaims a job.
LEMMA LauncherSteps ==
    ASSUME JobTableInv, NEW x \in Launchers, LauncherStep(x)
    PROVE  JobTableInv'
<1>1. x \in Tasks
  BY TaskKinds
<1>2. CASE Prepare(x) \/ LaunchFails(x) \/ Fork(x) \/ Publish(x)
  BY <1>2, PrepareStep, LaunchFailsStep, ForkStep, PublishStep
<1>3. CASE Reclaim(x) \/ Drop(x)
  BY <1>1, <1>3, ReclaimStep, DropStep
<1> QED
  BY <1>2, <1>3 DEF LauncherStep

\* A caller's steps keep it.
LEMMA CallerSteps ==
    ASSUME JobTableInv, NEW t \in Callers, CallerStep(t)
    PROVE  JobTableInv'
<1>1. t \in Launchers
  BY DEF Launchers
<1>2. CASE Build(t) \/ BuildFails(t)
  BY <1>2, BuildOpenStep, BuildFailsStep
<1>3. CASE Unspawn(t) \/ Await(t)
  BY <1>3, UnspawnStep, AwaitStep
<1>4. CASE LauncherStep(t)
  BY <1>1, <1>4, LauncherSteps
<1> QED
  BY <1>2, <1>3, <1>4 DEF CallerStep

\* Those of the conclusion task keep it.
LEMMA ConcluderSteps ==
    ASSUME JobTableInv, ConcluderStep
    PROVE  JobTableInv'
<1>1. CASE Take \/ Conclude \/ Deliver \/ Finish
  BY <1>1, TakeStep, ConcludeStep, DeliverStep, FinishStep
<1>2. CASE LockTable \/ Check
  BY <1>2, LockTableStep, CheckStep
<1>3. CASE Reclaim(Concluder) \/ Drop(Concluder)
  BY <1>3, TaskKinds, ReclaimStep, DropStep
<1> QED
  BY <1>1, <1>2, <1>3 DEF ConcluderStep

\* A step that changes nothing keeps it.
LEMMA StutterStep ==
    ASSUME JobTableInv, UNCHANGED vars
    PROVE  JobTableInv'
<1>1. Typed'
  BY Parts DEF vars, Typed
<1> QED
  BY <1>1, TaskKinds, RowsStay, CommandsStay, Quiet DEF vars, Rests

\* Every step keeps the invariant.
LEMMA JobTableStep ==
    ASSUME JobTableInv, [Next]_vars
    PROVE  JobTableInv'
<1>1. CASE \E t \in Callers : Call(t) \/ CallerStep(t)
  BY <1>1, CallStep, CallerSteps
<1>2. CASE \E u \in Jobs : OpenerStep(u)
  <2>1. PICK u \in Jobs : LauncherStep(u) \/ Report(u) \/ Retire(u)
    BY <1>2 DEF OpenerStep
  <2>2. u \in Launchers
    BY DEF Launchers
  <2> QED
    BY <2>1, <2>2, LauncherSteps, ReportStep, RetireStep
<1>3. CASE \E c \in Commands : Exit(c) \/ Reap(c) \/ Submit(c)
  BY <1>3, ExitStep, ReapStep, SubmitStep
<1>4. CASE ConcluderStep
  BY <1>4, ConcluderSteps
<1>5. CASE UNCHANGED vars
  BY <1>5, StutterStep
<1> QED
  BY <1>1, <1>2, <1>3, <1>4, <1>5 DEF Next

\* It holds in every state of the system.
LEMMA JobTableAlways == Spec => []JobTableInv
<1>1. Init => JobTableInv
  BY JobTableStart
<1>2. JobTableInv /\ [Next]_vars => JobTableInv'
  BY JobTableStep
<1> QED
  BY <1>1, <1>2, PTL DEF Spec

\* No variable of the table and the queue leaves its type; a row is never both
\* reserved and running, the queue has no command twice, and its count never
\* exceeds the commands there are.
THEOREM JobTableTyped == Spec => []TypeOK
<1>1. JobTableInv => TypeOK
  <2> SUFFICES ASSUME JobTableInv PROVE TypeOK
    OBVIOUS
  <2>1. Typed /\ RowsInv /\ QueueInv /\ ActiveInv
    BY Parts
  <2>2. active \in [Names -> 0..MaxCommands]
    BY <2>1, OwedFinite DEF ActiveInv, Typed
  <2>3. \A x \in Tasks :
           /\ task[x].id \in Names \union {None}
           /\ {task[x].uid, task[x].resources} \subseteq Jobs \union {0}
           /\ task[x].cmd \in Commands \union {0}
    BY <2>1 DEF Typed, TaskStates
  <2>4. /\ \A id \in Names : Open(id) => ~(row[id].starting /\ row[id].running # 0)
        /\ \A i, k \in DOMAIN pending : i # k => pending[i] # pending[k]
    BY <2>1 DEF RowsInv, QueueInv
  <2> QED
    BY <2>1, <2>2, <2>3, <2>4 DEF TypeOK, Typed
<1> QED
  BY <1>1, JobTableAlways, PTL

\* From its fork to its conclusion a command that is not excused has its job's
\* tree to itself: neither a later launch of the job nor the reclaiming of a
\* job that was closed takes it away.
THEOREM TreesAreKept == Spec => []TreesKept
<1>1. JobTableInv => TreesKept
  BY Parts DEF TreesKept, KeptInv, Due
<1> QED
  BY <1>1, JobTableAlways, PTL

\* The callback the conclusion task delivers was registered against the command
\* it is delivered for.
THEOREM CallbacksAreMatched == Spec => CallbacksMatch
<1> DEFINE Match == \A c \in Commands :
                      /\ At(Concluder, "delivering") /\ task'[Concluder].pc = "finishing"
                      /\ c = task[Concluder].cmd /\ ~Excused(c)
                      /\ Open(command[c].id)
                      => row[command[c].id].done \in {0, c}
<1>1. ASSUME JobTableInv
      PROVE  Match
  <2> SUFFICES ASSUME NEW c \in Commands, At(Concluder, "delivering"),
                      c = task[Concluder].cmd, ~Excused(c), Open(command[c].id),
                      row[command[c].id].done # 0
               PROVE  row[command[c].id].done = c
    BY <1>1
  <2>1. Typed /\ RowsInv /\ KeptInv /\ DoneInv
    BY <1>1, Parts
  <2>2. Due(c)
    BY DEF Due, Working, At
  <2>3. /\ command[c].id \in Names /\ command[c].uid \in Jobs
        /\ tree[command[c].uid] = c /\ row[command[c].id].uid = command[c].uid
    BY <1>1, <2>1, <2>2, OutstandingOf DEF KeptInv, Owner
  <2>4. PICK d \in Commands : d = row[command[c].id].done
    BY <2>1, <2>3, Fields
  <2>5. /\ command[d].uid = command[c].uid
        /\ Unconcluded(d) \/ d = c
    BY <2>1, <2>3, <2>4 DEF DoneInv, Excused
  <2>6. Unconcluded(d) => tree[command[d].uid] = d
    BY <2>1, <2>5 DEF KeptInv, Excused, Due
  <2> QED
    BY <2>3, <2>4, <2>5, <2>6
<1>2. JobTableInv /\ [Next]_vars => [Match]_vars
  BY <1>1
<1> QED
  BY <1>2, JobTableAlways, PTL DEF Spec, CallbacksMatch

-----------------------------------------------------------------------------
(* The end of a session.  Once the queue is closed a conclusion may be     *)
(* dropped, and with it what the table's invariant says of callbacks.      *)

\* How a command stands, in a session that ends.
EndStates ==
    [uid : Jobs \union {0}, id : Names \union {None},
     state : {"none", "failed", "alive", "exited", "reaped", "queued", "concluded",
              "cancelled"},
     forced : BOOLEAN]

\* The steps a task takes for a name.
Naming == {"preparing", "launching", "publishing", "reporting", "retiring"} \union Concluding

RowsTyped == row \in [Names -> Row \union {None}]

TasksTyped ==
    /\ task \in [Tasks -> TaskStates]
    /\ \A x \in Tasks : /\ task[x].pc \in Naming => task[x].id \in Names
                        /\ At(x, "publishing") => task[x].cmd \in Commands

CommandsTyped ==
    /\ command \in [Commands -> EndStates]
    /\ pending \in Seq(Commands)
    /\ \A i \in DOMAIN pending : command[pending[i]].id \in Names

\* What is left of the table's types.
EndTyped == RowsTyped /\ TasksTyped /\ CommandsTyped

\* Some job was never taken for another's.
Sound == ~(Jobs \subseteq excused)

\* A task that is giving a job its command.
Starts(x) == task[x].pc \in {"preparing", "launching", "publishing"}

\* It has reserved the row, alone; a task of the mux does so for its own job.
StartsInv ==
    \A x \in Launchers :
        /\ Starts(x) =>
              /\ Open(task[x].id) /\ row[task[x].id].starting /\ row[task[x].id].running = 0
              /\ x \in Jobs => row[task[x].id].uid = x
              /\ \A y \in Launchers : Starts(y) /\ task[y].id = task[x].id => y = x
        /\ x \in Jobs /\ task[x].pc \in {"launching", "publishing"} => task[x].uid = x
        /\ x \in Jobs /\ At(x, "publishing") =>
              command[task[x].cmd].uid = x /\ command[task[x].cmd].state # "none"

\* What runs is in the table, or about to be.
ShownInv ==
    \A c \in AliveCommands :
        \/ \E i \in Names : Open(i) /\ row[i].running = c
        \/ \E x \in Launchers : At(x, "publishing") /\ task[x].cmd = c

\* Once all was killed, what runs could not be, or is a late launch's.
LeftInv ==
    /\ \A x \in Jobs : ~At(x, "idle") => x \in late
    /\ \A c \in AliveCommands : c \in unkilled \/ command[c].uid \in late

\* The inductive invariant of the shutdown.
ShutdownInv ==
    /\ phase \in Phases
    /\ ~Closed => JobTableInv
    /\ Closed => EndTyped /\ \A t \in Callers : At(t, "idle")
    /\ Sound => /\ StartsInv
                /\ phase \in {"open", "closed"} => ShownInv
                /\ phase \notin {"open", "closed"} => LeftInv

\* What the steps of the mux keep while a session ends.
EndKept ==
    /\ EndTyped' /\ excused \subseteq excused'
    /\ StartsInv => StartsInv'
    /\ StartsInv /\ ShownInv => ShownInv'
    /\ StartsInv /\ LeftInv /\ (\A t \in Callers : At(t, "idle")) =>
          (UNCHANGED <<unkilled, late>> => LeftInv')

\* A row with a command or a reservation keeps it.
RowSpared(i) ==
    Open(i) /\ (row[i].starting \/ row[i].running # 0) =>
        /\ row'[i] # None /\ row'[i].uid = row[i].uid
        /\ row'[i].starting = row[i].starting /\ row'[i].running = row[i].running

\* A command does not start.
CommandSpared(c) ==
    /\ command'[c].uid = command[c].uid
    /\ command'[c].state = "alive" => command[c].state = "alive"
    /\ command'[c].state = "none" => command[c].state = "none"

\* A task does not start a launch, nor end one that has forked.
TaskSpared(y) ==
    \/ task'[y] = task[y]
    \/ ~Starts(y)' /\ ~At(y, "publishing") /\ (y \in Jobs => ~At(y, "idle"))

\* A step that is not about launches.
Spares ==
    /\ excused \subseteq excused'
    /\ \A y \in Launchers : TaskSpared(y)
    /\ \A i \in Names : RowSpared(i)
    /\ \A c \in Commands : CommandSpared(c)

\* Such a step keeps it all.
LEMMA SparesKeep ==
    ASSUME EndTyped, EndTyped', Spares
    PROVE  EndKept
<1>1. /\ Launchers \subseteq Tasks /\ Jobs \subseteq Launchers /\ 0 \notin Commands
      /\ \A x \in Tasks : /\ Starts(x) => task[x].id \in Names
                          /\ At(x, "publishing") => task[x].cmd \in Commands
  BY TaskKinds DEF EndTyped, TasksTyped, Starts, Naming, Launchers
<1>2. \A x \in Launchers : Starts(x)' => Starts(x) /\ task'[x] = task[x]
  BY DEF Spares, TaskSpared, Starts
<1>3. \A x \in Launchers : At(x, "publishing") => task'[x] = task[x]
  BY DEF Spares, TaskSpared
<1>4. ASSUME StartsInv PROVE StartsInv'
  <2> SUFFICES ASSUME NEW x \in Launchers
               PROVE  /\ Starts(x)' =>
                            /\ row'[task'[x].id] # None /\ row'[task'[x].id].starting
                            /\ row'[task'[x].id].running = 0
                            /\ x \in Jobs => row'[task'[x].id].uid = x
                            /\ \A y \in Launchers : Starts(y)' /\ task'[y].id = task'[x].id => y = x
                      /\ x \in Jobs /\ task'[x].pc \in {"launching", "publishing"} => task'[x].uid = x
                      /\ x \in Jobs /\ At(x, "publishing")' =>
                            /\ command'[task'[x].cmd].uid = x
                            /\ command'[task'[x].cmd].state # "none"
    BY DEF StartsInv, Open
  <2>1. task'[x].pc \in {"launching", "publishing"} => Starts(x)'
    BY DEF Starts
  <2>2. CASE Starts(x)'
    <3>1. Starts(x) /\ task'[x] = task[x] /\ task[x].id \in Names
      BY <1>1, <1>2, <2>2
    <3>2. PICK i \in Names : i = task[x].id
      BY <3>1
    <3>3. /\ Open(i) /\ row[i].starting /\ row[i].running = 0
          /\ x \in Jobs => row[i].uid = x
          /\ \A y \in Launchers : Starts(y) /\ task[y].id = i => y = x
      BY <1>4, <3>1, <3>2 DEF StartsInv
    <3>4. /\ row'[i] # None /\ row'[i].uid = row[i].uid
          /\ row'[i].starting = row[i].starting /\ row'[i].running = row[i].running
      BY <3>3 DEF Spares, RowSpared
    <3>5. \A y \in Launchers : Starts(y)' /\ task'[y].id = i => y = x
      BY <1>2, <3>3
    <3>6. x \in Jobs /\ task[x].pc \in {"launching", "publishing"} => task[x].uid = x
      BY <1>4 DEF StartsInv
    <3>7. x \in Jobs /\ At(x, "publishing")' =>
             command'[task'[x].cmd].uid = x /\ command'[task'[x].cmd].state # "none"
      BY <1>1, <1>4, <3>1 DEF StartsInv, Spares, CommandSpared, At
    <3> QED
      BY <3>1, <3>2, <3>3, <3>4, <3>5, <3>6, <3>7
  <2>3. CASE ~Starts(x)'
    BY <2>1, <2>3 DEF At
  <2> QED
    BY <2>2, <2>3
<1>5. ASSUME ShownInv PROVE ShownInv'
  <2> SUFFICES ASSUME NEW c \in Commands, command'[c].state = "alive"
               PROVE  \/ \E i \in Names : row'[i] # None /\ row'[i].running = c
                      \/ \E x \in Launchers : At(x, "publishing")' /\ task'[x].cmd = c
    BY DEF ShownInv, AliveCommands, Open
  <2>1. c \in AliveCommands /\ c # 0
    BY <1>1 DEF Spares, CommandSpared, AliveCommands
  <2>2. CASE \E i \in Names : Open(i) /\ row[i].running = c
    BY <2>1, <2>2 DEF Spares, RowSpared
  <2>3. CASE \E x \in Launchers : At(x, "publishing") /\ task[x].cmd = c
    BY <1>3, <2>3 DEF At
  <2> QED
    BY <1>5, <2>1, <2>2, <2>3 DEF ShownInv
<1>6. ASSUME LeftInv, UNCHANGED <<unkilled, late>> PROVE LeftInv'
  <2>1. \A x \in Jobs : At(x, "idle") => At(x, "idle")'
    BY <1>1 DEF Spares, TaskSpared, At
  <2>2. \A c \in Commands : command'[c].state = "alive" =>
           command[c].state = "alive" /\ command'[c].uid = command[c].uid
    BY DEF Spares, CommandSpared
  <2> QED
    BY <1>6, <2>1, <2>2 DEF LeftInv, AliveCommands
<1> QED
  BY <1>4, <1>5, <1>6 DEF EndKept, Spares

\* One task moves.
LEMMA TaskEdits ==
    ASSUME TasksTyped, NEW x \in Tasks, NEW v \in TaskStates, task' = [task EXCEPT ![x] = v],
           v.pc \in Naming => v.id \in Names, v.pc = "publishing" => v.cmd \in Commands
    PROVE  /\ TasksTyped' /\ task'[x] = v
           /\ \A y \in Tasks \ {x} : task'[y] = task[y]
<1>1. /\ task' \in [Tasks -> TaskStates] /\ task'[x] = v
      /\ \A y \in Tasks \ {x} : task'[y] = task[y]
  BY DEF TasksTyped
<1> QED
  BY <1>1 DEF TasksTyped, At

\* One row changes, if it is one.
LEMMA RowEdits ==
    ASSUME RowsTyped, NEW id \in Names, NEW r \in Row \union {None}, row' = [row EXCEPT ![id] = r]
    PROVE  /\ RowsTyped' /\ row'[id] = r
           /\ \A i \in Names \ {id} : row'[i] = row[i]
BY DEF RowsTyped

\* A task goes on for the same name.
LEMMA GoesOn ==
    ASSUME TasksTyped, NEW x \in Tasks, NEW pc \in Steps \ {"publishing"}, Goto(x, pc),
           pc \in Naming => task[x].pc \in Naming
    PROVE  /\ TasksTyped' /\ task'[x].pc = pc
           /\ \A y \in Tasks \ {x} : task'[y] = task[y]
<1> DEFINE v == [task[x] EXCEPT !.pc = pc]
<1>1. v \in TaskStates /\ v.pc = pc /\ v.id = task[x].id
  BY DEF TasksTyped, TaskStates
<1>2. task' = [task EXCEPT ![x] = v]
  BY DEF Goto
<1>3. v.pc \in Naming => v.id \in Names
  BY <1>1 DEF TasksTyped
<1> HIDE DEF v
<1> QED
  BY <1>1, <1>2, <1>3, TaskEdits

\* A task is done.
LEMMA GoesIdle ==
    ASSUME TasksTyped, NEW x \in Tasks, Return(x)
    PROVE  /\ TasksTyped' /\ task'[x].pc = "idle"
           /\ \A y \in Tasks \ {x} : task'[y] = task[y]
<1>1. Idle \in TaskStates /\ Idle.pc = "idle" /\ "idle" \notin Naming
  BY DEF Idle, TaskStates, Steps, Naming, Concluding
<1> QED
  BY <1>1, TaskEdits DEF Return

\* A task's launch failed.
LEMMA GoesFailed ==
    ASSUME TasksTyped, NEW x \in Launchers, NEW id \in Names, NEW retained \in BOOLEAN,
           Failed(x, id, retained)
    PROVE  /\ TasksTyped' /\ task'[x].pc \in {"idle", "reporting"}
           /\ \A y \in Tasks \ {x} : task'[y] = task[y]
<1> DEFINE w == [Idle EXCEPT !.pc = "reporting", !.id = id, !.flag = retained]
<1>1. Idle \in TaskStates /\ Idle.pc = "idle" /\ "idle" \notin Naming
  BY DEF Idle, TaskStates, Steps, Naming, Concluding
<1>2. w \in TaskStates /\ w.pc = "reporting" /\ w.id = id
  BY DEF Idle, TaskStates, Steps
<1>3. task' = [task EXCEPT ![x] = IF x \in Jobs THEN w ELSE Idle]
  BY DEF Failed
<1>4. x \in Tasks
  BY TaskKinds
<1> HIDE DEF w
<1>5. PICK v \in TaskStates : /\ v = IF x \in Jobs THEN w ELSE Idle
                              /\ v.pc \in {"idle", "reporting"}
                              /\ v.pc \in Naming => v.id \in Names
  BY <1>1, <1>2
<1> QED
  BY <1>3, <1>4, <1>5, TaskEdits

\* A row that is taken leaves a task without a name.
LEMMA GoesReclaiming ==
    ASSUME EndTyped, NEW x \in Tasks, NEW id \in Names, NEW r \in Row, TakeRow(x, id, r)
    PROVE  /\ RowsTyped' /\ TasksTyped' /\ task'[x].pc = "reclaiming"
           /\ \A y \in Tasks \ {x} : task'[y] = task[y]
           /\ row'[id] = None /\ \A i \in Names \ {id} : row'[i] = row[i]
<1> DEFINE v == [Idle EXCEPT !.pc = "reclaiming", !.uid = r.uid, !.resources = r.resources]
<1>1. row' = [row EXCEPT ![id] = None] /\ task' = [task EXCEPT ![x] = v]
  BY DEF TakeRow
<1>2. v \in TaskStates /\ v.pc = "reclaiming" /\ "reclaiming" \notin Naming
  BY DEF Idle, TaskStates, Steps, Row, Naming, Concluding
<1> HIDE DEF v
<1> QED
  BY <1>1, <1>2, TaskEdits, RowEdits DEF EndTyped

\* The fields of an open row, and of one changed in how it closes or whom it calls.
LEMMA RowFields ==
    ASSUME RowsTyped, NEW id \in Names, Open(id)
    PROVE  /\ row[id] \in Row /\ row[id].running \in Commands \union {0}
           /\ \A r : \/ \E d \in {0, row[id].running} : r = [row[id] EXCEPT !.done = d]
                     \/ \E mode \in {"never", "graceful", "force"} :
                           r = [row[id] EXCEPT !.close = mode]
                     => /\ r \in Row /\ r # None /\ r.uid = row[id].uid
                        /\ r.starting = row[id].starting /\ r.running = row[id].running
BY NoneAssumption, BoundsAssumption, 0 \in Commands \union {0} DEF RowsTyped, Open, Row

\* The commands as they were.
LEMMA CommandsKept ==
    ASSUME CommandsTyped, UNCHANGED <<command, pending>>
    PROVE  CommandsTyped'
BY DEF CommandsTyped

\* What did not change is spared.
LEMMA Spared ==
    /\ row' = row => (\A i \in Names : RowSpared(i)) /\ (RowsTyped => RowsTyped')
    /\ command' = command => \A c \in Commands : CommandSpared(c)
    /\ \A y \in Tasks : task'[y] = task[y] => TaskSpared(y)
BY DEF RowSpared, CommandSpared, TaskSpared, Open, RowsTyped

\* The task of a row that closes goes on to reclaim it, and to drop it.
LEMMA ReclaimEnds ==
    ASSUME EndTyped, NEW x \in Tasks, Reclaim(x) \/ Drop(x)
    PROVE  EndKept
<1>1. /\ UNCHANGED <<row, pending, command, excused>>
      /\ \/ At(x, "reclaiming") /\ Goto(x, "dropping")
         \/ At(x, "dropping") /\ Return(x)
  BY DEF Reclaim, Drop, queue
<1>2. "dropping" \in Steps \ {"publishing"} /\ "dropping" \notin Naming
  BY DEF Steps, Naming, Concluding
<1>3. /\ TasksTyped' /\ task'[x].pc \in {"dropping", "idle"}
      /\ \A y \in Tasks \ {x} : task'[y] = task[y]
  BY <1>1, <1>2, GoesOn, GoesIdle DEF EndTyped
<1>4. TaskSpared(x)
  BY <1>1, <1>3 DEF TaskSpared, Starts, At
<1>5. EndTyped'
  BY <1>1, <1>3, Spared, CommandsKept DEF EndTyped
<1>6. Spares
  BY <1>1, <1>3, <1>4, TaskKinds, Spared DEF Spares
<1> QED
  BY <1>5, <1>6, SparesKeep

\* A launch that failed is reported.
LEMMA ReportEnds ==
    ASSUME EndTyped, NEW x \in Jobs, Report(x)
    PROVE  EndKept
<1>1. PICK id : id = task[x].id
  OBVIOUS
<1> DEFINE r == [row[id] EXCEPT !.done = 0]
<1>2. /\ At(x, "reporting") /\ Goto(x, "retiring")
      /\ row' = IF Open(id) THEN [row EXCEPT ![id] = r] ELSE row
      /\ UNCHANGED <<pending, command, excused>>
  BY <1>1 DEF Report, queue
<1>3. x \in Tasks /\ id \in Names
  BY <1>1, <1>2, TaskKinds DEF EndTyped, TasksTyped, Naming, At
<1>4. Open(id) => /\ r \in Row /\ r # None /\ r.uid = row[id].uid
                  /\ r.starting = row[id].starting /\ r.running = row[id].running
  BY <1>3, RowFields DEF EndTyped
<1> HIDE DEF r
<1>5. RowsTyped' /\ \A i \in Names : RowSpared(i)
  <2>1. CASE Open(id)
    <3>1. /\ RowsTyped' /\ row'[id] = r
          /\ \A i \in Names \ {id} : row'[i] = row[i]
      BY <1>2, <1>3, <1>4, <2>1, RowEdits DEF EndTyped
    <3> QED
      BY <1>4, <2>1, <3>1 DEF RowSpared, Open
  <2>2. CASE ~Open(id)
    BY <1>2, <2>2, Spared DEF EndTyped
  <2> QED
    BY <2>1, <2>2
<1>6. "retiring" \in Steps \ {"publishing"} /\ task[x].pc \in Naming
  BY <1>2 DEF Steps, Naming, At
<1>7. /\ TasksTyped' /\ task'[x].pc = "retiring"
      /\ \A y \in Tasks \ {x} : task'[y] = task[y]
  BY <1>2, <1>3, <1>6, GoesOn DEF EndTyped
<1>8. TaskSpared(x)
  BY <1>2, <1>7 DEF TaskSpared, Starts, At
<1>9. EndTyped'
  BY <1>2, <1>5, <1>7, CommandsKept DEF EndTyped
<1>10. Spares
  BY <1>2, <1>5, <1>7, <1>8, TaskKinds, Spared DEF Spares
<1> QED
  BY <1>9, <1>10, SparesKeep

\* Its job is closed, when it is not reserved and nothing runs.
LEMMA RetireEnds ==
    ASSUME EndTyped, NEW x \in Jobs, Retire(x)
    PROVE  EndKept
<1>1. PICK id : id = task[x].id
  OBVIOUS
<1> DEFINE r == [row[id] EXCEPT !.close = "graceful"]
<1>2. /\ At(x, "retiring")
      /\ UNCHANGED <<pending, command>> /\ excused \subseteq excused'
      /\ \/ Return(x) /\ UNCHANGED row
         \/ Open(id) /\ row' = [row EXCEPT ![id] = r] /\ Return(x)
         \/ Open(id) /\ Closable(r) /\ TakeRow(x, id, r)
  BY <1>1 DEF Retire, queue
<1>3. x \in Tasks /\ id \in Names
  BY <1>1, <1>2, TaskKinds DEF EndTyped, TasksTyped, Naming, At
<1>4. Open(id) => /\ r \in Row /\ r # None /\ r.uid = row[id].uid
                  /\ r.starting = row[id].starting /\ r.running = row[id].running
  BY <1>3, RowFields DEF EndTyped
<1>5. Closable(r) => r.running = 0 /\ ~r.starting
  BY DEF Closable
<1> HIDE DEF r
<1>6. /\ RowsTyped' /\ TasksTyped' /\ task'[x].pc \in {"idle", "reclaiming"}
      /\ \A y \in Tasks \ {x} : task'[y] = task[y]
      /\ \A i \in Names : RowSpared(i)
  <2>1. CASE Return(x) /\ UNCHANGED row
    BY <1>3, <2>1, GoesIdle, Spared DEF EndTyped
  <2>2. CASE Open(id) /\ row' = [row EXCEPT ![id] = r] /\ Return(x)
    <3>1. /\ RowsTyped' /\ row'[id] = r
          /\ \A i \in Names \ {id} : row'[i] = row[i]
      BY <1>3, <1>4, <2>2, RowEdits DEF EndTyped
    <3>2. \A i \in Names : RowSpared(i)
      BY <1>4, <2>2, <3>1 DEF RowSpared, Open
    <3> QED
      BY <1>3, <2>2, <3>1, <3>2, GoesIdle DEF EndTyped
  <2>3. CASE Open(id) /\ Closable(r) /\ TakeRow(x, id, r)
    <3>1. /\ RowsTyped' /\ TasksTyped' /\ task'[x].pc = "reclaiming"
          /\ \A y \in Tasks \ {x} : task'[y] = task[y]
          /\ \A i \in Names \ {id} : row'[i] = row[i]
      BY <1>3, <1>4, <2>3, GoesReclaiming
    <3>2. \A i \in Names : RowSpared(i)
      BY <1>4, <1>5, <2>3, <3>1 DEF RowSpared, Open
    <3> QED
      BY <3>1, <3>2
  <2> QED
    BY <1>2, <2>1, <2>2, <2>3
<1>7. TaskSpared(x)
  BY <1>2, <1>6 DEF TaskSpared, Starts, At
<1>8. EndTyped'
  BY <1>2, <1>6, CommandsKept DEF EndTyped
<1>9. Spares
  BY <1>2, <1>6, <1>7, TaskKinds, Spared DEF Spares
<1> QED
  BY <1>8, <1>9, SparesKeep

\* The conclusion task launches nothing.
LEMMA ConcluderMoves ==
    ASSUME EndTyped', excused \subseteq excused',
           \A y \in Tasks \ {Concluder} : task'[y] = task[y],
           \A i \in Names : RowSpared(i), \A c \in Commands : CommandSpared(c)
    PROVE  Spares
BY TaskKinds, TasksAssumption, Spared DEF Spares

\* It takes a conclusion.
LEMMA TakeEnds ==
    ASSUME EndTyped, Take
    PROVE  EndKept
<1>1. PICK c : c = Head(pending)
  OBVIOUS
<1> DEFINE v == [Idle EXCEPT !.pc = "concluding", !.cmd = c, !.id = command[c].id]
<1>2. /\ pending # <<>> /\ pending' = Tail(pending)
      /\ task' = [task EXCEPT ![Concluder] = v]
      /\ UNCHANGED <<row, command, excused>>
  BY <1>1 DEF Take
<1>3. pending \in Seq(Commands)
  BY DEF EndTyped, CommandsTyped
<1>4. /\ pending' \in Seq(Commands) /\ c \in Commands /\ 1 \in DOMAIN pending /\ c = pending[1]
      /\ \A i \in DOMAIN pending' : i + 1 \in DOMAIN pending /\ pending'[i] = pending[i + 1]
  BY <1>1, <1>2, <1>3, Queues
<1>5. command[c].id \in Names
  BY <1>4 DEF EndTyped, CommandsTyped
<1>6. v \in TaskStates /\ v.pc = "concluding" /\ v.id = command[c].id
  BY <1>4, <1>5 DEF Idle, TaskStates, Steps
<1> HIDE DEF v
<1>7. TasksTyped' /\ \A y \in Tasks \ {Concluder} : task'[y] = task[y]
  BY <1>2, <1>5, <1>6, TaskKinds, TaskEdits DEF EndTyped
<1>8. CommandsTyped'
  BY <1>2, <1>4 DEF EndTyped, CommandsTyped
<1>9. EndTyped'
  BY <1>2, <1>7, <1>8, Spared DEF EndTyped
<1>10. Spares
  BY <1>2, <1>7, <1>9, ConcluderMoves, Spared
<1> QED
  BY <1>9, <1>10, SparesKeep

\* It concludes the command.
LEMMA ConcludeEnds ==
    ASSUME EndTyped, Conclude
    PROVE  EndKept
<1>1. PICK c : c = task[Concluder].cmd
  OBVIOUS
<1>2. PICK retained \in {FALSE} \union {command[c].forced /\ "terminate" \in Faults} :
         /\ task' = [task EXCEPT ![Concluder].pc = "delivering", ![Concluder].flag = retained]
         /\ excused' = IF retained THEN excused \union {command[c].uid} ELSE excused
  BY <1>1 DEF Conclude
<1>3. /\ At(Concluder, "concluding")
      /\ command' = [command EXCEPT ![c].state = "concluded"]
      /\ UNCHANGED <<row, pending>>
  BY <1>1 DEF Conclude, queue
<1> DEFINE v == [task[Concluder] EXCEPT !.pc = "delivering", !.flag = retained]
<1>4. task[Concluder] \in TaskStates /\ task[Concluder].id \in Names
  BY <1>3, TaskKinds DEF EndTyped, TasksTyped, At, Naming, Concluding
<1>5. retained \in BOOLEAN
  <2>1. retained = FALSE \/ retained = (command[c].forced /\ "terminate" \in Faults)
    BY <1>2
  <2> QED
    BY <2>1
<1>6. v \in TaskStates /\ v.pc = "delivering" /\ v.id = task[Concluder].id
  BY <1>4, <1>5 DEF TaskStates, Steps
<1>7. task' = [task EXCEPT ![Concluder] = v]
  BY <1>2, TaskKinds DEF EndTyped, TasksTyped, TaskStates
<1> HIDE DEF v
<1>8. TasksTyped' /\ \A y \in Tasks \ {Concluder} : task'[y] = task[y]
  BY <1>4, <1>6, <1>7, TaskKinds, TaskEdits DEF EndTyped
<1>9. /\ command' \in [Commands -> EndStates]
      /\ \A d \in Commands : /\ command'[d].id = command[d].id /\ command'[d].uid = command[d].uid
                             /\ command'[d].state \in {command[d].state, "concluded"}
  BY <1>3 DEF EndTyped, CommandsTyped, EndStates
<1>10. CommandsTyped' /\ \A d \in Commands : CommandSpared(d)
  BY <1>3, <1>9 DEF EndTyped, CommandsTyped, CommandSpared
<1>11. EndTyped'
  BY <1>3, <1>8, <1>10, Spared DEF EndTyped
<1>12. Spares
  BY <1>2, <1>3, <1>8, <1>10, <1>11, ConcluderMoves, Spared
<1> QED
  BY <1>11, <1>12, SparesKeep

\* It delivers the conclusion.
LEMMA DeliverEnds ==
    ASSUME EndTyped, Deliver
    PROVE  EndKept
<1>1. PICK id : id = task[Concluder].id
  OBVIOUS
<1> DEFINE r == [row[id] EXCEPT !.done = 0]
<1>2. /\ At(Concluder, "delivering") /\ Goto(Concluder, "finishing")
      /\ row' = IF Open(id) THEN [row EXCEPT ![id] = r] ELSE row
      /\ UNCHANGED <<pending, command, excused>>
  BY <1>1 DEF Deliver, queue
<1>3. id \in Names
  BY <1>1, <1>2, TaskKinds DEF EndTyped, TasksTyped, Naming, Concluding, At
<1>4. Open(id) => /\ r \in Row /\ r # None /\ r.uid = row[id].uid
                  /\ r.starting = row[id].starting /\ r.running = row[id].running
  BY <1>3, RowFields DEF EndTyped
<1> HIDE DEF r
<1>5. RowsTyped' /\ \A i \in Names : RowSpared(i)
  <2>1. CASE Open(id)
    <3>1. /\ RowsTyped' /\ row'[id] = r
          /\ \A i \in Names \ {id} : row'[i] = row[i]
      BY <1>2, <1>3, <1>4, <2>1, RowEdits DEF EndTyped
    <3> QED
      BY <1>4, <2>1, <3>1 DEF RowSpared, Open
  <2>2. CASE ~Open(id)
    BY <1>2, <2>2, Spared DEF EndTyped
  <2> QED
    BY <2>1, <2>2
<1>6. "finishing" \in Steps \ {"publishing"} /\ task[Concluder].pc \in Naming
  BY <1>2 DEF Steps, Naming, Concluding, At
<1>7. TasksTyped' /\ \A y \in Tasks \ {Concluder} : task'[y] = task[y]
  BY <1>2, <1>6, TaskKinds, GoesOn DEF EndTyped
<1>8. EndTyped'
  BY <1>2, <1>5, <1>7, CommandsKept DEF EndTyped
<1>9. Spares
  BY <1>2, <1>5, <1>7, <1>8, ConcluderMoves, Spared
<1> QED
  BY <1>8, <1>9, SparesKeep

\* It is done with the conclusion, and takes the table.
LEMMA FinishEnds ==
    ASSUME EndTyped, Finish \/ LockTable
    PROVE  EndKept
<1>1. /\ UNCHANGED <<row, pending, command, excused>>
      /\ \/ At(Concluder, "finishing") /\ Goto(Concluder, "locking")
         \/ At(Concluder, "locking") /\ Goto(Concluder, "checking")
  BY DEF Finish, LockTable, queue
<1>2. {"locking", "checking"} \subseteq Steps \ {"publishing"} /\ task[Concluder].pc \in Naming
  BY <1>1 DEF Steps, Naming, Concluding, At
<1>3. TasksTyped' /\ \A y \in Tasks \ {Concluder} : task'[y] = task[y]
  BY <1>1, <1>2, TaskKinds, GoesOn DEF EndTyped
<1>4. EndTyped'
  BY <1>1, <1>3, Spared, CommandsKept DEF EndTyped
<1>5. Spares
  BY <1>1, <1>3, <1>4, ConcluderMoves, Spared
<1> QED
  BY <1>4, <1>5, SparesKeep

\* It closes the job, when it is not reserved and nothing runs.
LEMMA CheckEnds ==
    ASSUME EndTyped, Check
    PROVE  EndKept
<1>1. PICK id : id = task[Concluder].id
  OBVIOUS
<1>2. /\ At(Concluder, "checking")
      /\ UNCHANGED <<pending, command>>
      /\ \/ Return(Concluder) /\ UNCHANGED row
         \/ Open(id) /\ Closable(row[id]) /\ TakeRow(Concluder, id, row[id])
         \/ /\ Open(id) /\ Closable(row[id])
            /\ row' = [row EXCEPT ![id] = None] /\ Return(Concluder)
  BY <1>1 DEF Check, queue
<1>3. excused \subseteq excused'
  BY DEF Check, TakenForIdle
<1>4. id \in Names
  BY <1>1, <1>2, TaskKinds DEF EndTyped, TasksTyped, Naming, Concluding, At
<1>5. Open(id) => row[id] \in Row
  BY <1>4, RowFields DEF EndTyped
<1>6. Closable(row[id]) => row[id].running = 0 /\ ~row[id].starting
  BY DEF Closable
<1>7. /\ RowsTyped' /\ TasksTyped'
      /\ \A y \in Tasks \ {Concluder} : task'[y] = task[y]
      /\ \A i \in Names : RowSpared(i)
  <2>1. CASE Return(Concluder) /\ UNCHANGED row
    BY <2>1, TaskKinds, GoesIdle, Spared DEF EndTyped
  <2>2. ASSUME Open(id), Closable(row[id]), \A i \in Names \ {id} : row'[i] = row[i]
        PROVE  \A i \in Names : RowSpared(i)
    BY <1>6, <2>2 DEF RowSpared, Open
  <2>3. CASE Open(id) /\ Closable(row[id]) /\ TakeRow(Concluder, id, row[id])
    BY <1>4, <1>5, <2>2, <2>3, TaskKinds, GoesReclaiming
  <2>4. CASE /\ Open(id) /\ Closable(row[id])
             /\ row' = [row EXCEPT ![id] = None] /\ Return(Concluder)
    BY <1>4, <2>2, <2>4, TaskKinds, RowEdits, GoesIdle DEF EndTyped
  <2> QED
    BY <1>2, <2>1, <2>3, <2>4
<1>8. EndTyped'
  BY <1>2, <1>7, CommandsKept DEF EndTyped
<1>9. Spares
  BY <1>2, <1>3, <1>7, <1>8, ConcluderMoves, Spared
<1> QED
  BY <1>8, <1>9, SparesKeep

\* A command ends, or its conclusion is dropped.
LEMMA ExitEnds ==
    ASSUME EndTyped, NEW c \in Commands, Exit(c) \/ SubmitClosed(c)
    PROVE  EndKept
<1>1. /\ UNCHANGED <<row, pending, task, excused>>
      /\ \E s \in {"exited", "cancelled"} : command' = [command EXCEPT ![c].state = s]
  BY DEF Exit, SubmitClosed, queue
<1>2. /\ command' \in [Commands -> EndStates]
      /\ \A d \in Commands :
            /\ command'[d].id = command[d].id /\ command'[d].uid = command[d].uid
            /\ command'[d].state \in {command[d].state, "exited", "cancelled"}
  BY <1>1 DEF EndTyped, CommandsTyped, EndStates
<1>3. CommandsTyped' /\ \A d \in Commands : CommandSpared(d)
  BY <1>1, <1>2 DEF EndTyped, CommandsTyped, CommandSpared
<1>4. TasksTyped'
  BY <1>1 DEF EndTyped, TasksTyped, At
<1>5. EndTyped'
  BY <1>1, <1>3, <1>4, Spared DEF EndTyped
<1>6. Spares
  BY <1>1, <1>3, <1>5, ConcluderMoves, Spared
<1> QED
  BY <1>5, <1>6, SparesKeep

\* A command is reaped, which then no longer ran.
LEMMA ReapEnds ==
    ASSUME EndTyped, NEW c \in Commands, Reap(c)
    PROVE  EndKept
<1>1. PICK id : id = command[c].id
  OBVIOUS
<1> DEFINE r == [row[id] EXCEPT !.running = 0]
<1>2. /\ command[c].state = "exited" /\ Open(id) /\ row[id].running = c
      /\ row' = [row EXCEPT ![id] = r]
      /\ command' = [command EXCEPT ![c].state = "reaped"]
      /\ UNCHANGED <<pending, task, excused>>
  BY <1>1 DEF Reap, queue
<1>3. /\ command' \in [Commands -> EndStates]
      /\ command'[c].state = "reaped"
      /\ \A d \in Commands : /\ command'[d].id = command[d].id /\ command'[d].uid = command[d].uid
                             /\ d # c => command'[d] = command[d]
  BY <1>2 DEF EndTyped, CommandsTyped, EndStates
<1>4. /\ RowsTyped'
      /\ \A i \in Names : /\ row'[i] # None <=> Open(i)
                          /\ i # id => row'[i] = row[i]
                          /\ Open(i) => /\ row'[i].uid = row[i].uid
                                        /\ row'[i].starting = row[i].starting
                                        /\ row'[i].running \in {row[i].running, 0}
  <2>1. CASE id \in Names
    <3>1. /\ r \in Row /\ r # None /\ r.uid = row[id].uid
          /\ r.starting = row[id].starting /\ r.running = 0
      <4>1. row[id] \in Row
        BY <1>2, <2>1, RowFields DEF EndTyped
      <4> QED
        BY <4>1, NoneAssumption DEF Row
    <3> HIDE DEF r
    <3>2. /\ RowsTyped' /\ row'[id] = r
          /\ \A i \in Names \ {id} : row'[i] = row[i]
      BY <1>2, <2>1, <3>1, RowEdits DEF EndTyped
    <3> QED
      BY <1>2, <3>1, <3>2 DEF Open
  <2>2. CASE id \notin Names
    <3>1. row' = row
      BY <1>2, <2>2 DEF EndTyped, RowsTyped
    <3> QED
      BY <3>1 DEF EndTyped, RowsTyped, Open
  <2> QED
    BY <2>1, <2>2
<1>5. TasksTyped' /\ CommandsTyped'
  BY <1>2, <1>3 DEF EndTyped, TasksTyped, CommandsTyped, At
<1>6. EndTyped'
  BY <1>4, <1>5 DEF EndTyped
<1>7. /\ Launchers \subseteq Tasks /\ 0 \notin Commands
      /\ \A x \in Launchers : /\ Starts(x) => task[x].id \in Names
                              /\ At(x, "publishing") => task[x].cmd \in Commands
  BY TaskKinds DEF EndTyped, TasksTyped, Starts, Naming
<1>8. ASSUME StartsInv PROVE StartsInv'
  <2>1. \A x \in Launchers : Starts(x) => Open(task[x].id) /\ row[task[x].id].running = 0
    BY <1>8 DEF StartsInv
  <2> QED
    BY <1>2, <1>3, <1>4, <1>7, <1>8, <2>1 DEF StartsInv, Starts, Open, At
<1>9. ASSUME ShownInv PROVE ShownInv'
  <2> SUFFICES ASSUME NEW d \in Commands, command'[d].state = "alive"
               PROVE  \/ \E i \in Names : row'[i] # None /\ row'[i].running = d
                      \/ \E x \in Launchers : At(x, "publishing")' /\ task'[x].cmd = d
    BY DEF ShownInv, AliveCommands, Open
  <2>1. d # c /\ d \in AliveCommands
    BY <1>3 DEF AliveCommands
  <2>2. \A i \in Names : Open(i) /\ row[i].running = d => row'[i] # None /\ row'[i].running = d
    BY <1>2, <1>4, <2>1
  <2> QED
    BY <1>2, <1>9, <2>1, <2>2 DEF ShownInv, At
<1>10. ASSUME LeftInv, UNCHANGED <<unkilled, late>> PROVE LeftInv'
  <2>1. \A d \in Commands : command'[d].state = "alive" =>
           command[d].state = "alive" /\ command'[d].uid = command[d].uid
    BY <1>3
  <2> QED
    BY <1>2, <1>10, <2>1 DEF LeftInv, AliveCommands, At
<1> QED
  BY <1>2, <1>6, <1>8, <1>9, <1>10 DEF EndKept

\* What the types say of a task that starts a launch.
LEMMA StartsOf ==
    ASSUME EndTyped
    PROVE  /\ Launchers \subseteq Tasks /\ Jobs \subseteq Launchers
           /\ 0 \notin Commands /\ Concluder \notin Launchers
           /\ \A x \in Tasks : /\ Starts(x) => task[x].id \in Names
                               /\ At(x, "publishing") => task[x].cmd \in Commands /\ Starts(x)
BY TaskKinds, TasksAssumption DEF EndTyped, TasksTyped, Starts, Naming, Launchers, At

\* A launch finds what it needs of its job, or fails.
LEMMA PrepareEnds ==
    ASSUME EndTyped, NEW x \in Launchers, Prepare(x)
    PROVE  EndKept
<1>1. PICK id, u : id = task[x].id /\ u = row[id].uid
  OBVIOUS
<1>2. /\ At(x, "preparing") /\ UNCHANGED <<row, pending, command>>
      /\ excused \subseteq excused'
      /\ \/ /\ Built(id)
            /\ task' = [task EXCEPT ![x].pc = "launching", ![x].uid = u]
         \/ Failed(x, id, FALSE)
  BY <1>1 DEF Prepare, queue
<1>3. x \in Tasks /\ id \in Names
  BY <1>1, <1>2, StartsOf DEF Starts, At
<1>4. CASE Failed(x, id, FALSE)
  <2>1. /\ TasksTyped' /\ task'[x].pc \in {"idle", "reporting"}
        /\ \A y \in Tasks \ {x} : task'[y] = task[y]
    BY <1>3, <1>4, GoesFailed DEF EndTyped
  <2>2. TaskSpared(x)
    BY <1>2, <2>1 DEF TaskSpared, Starts, At
  <2>3. EndTyped'
    BY <1>2, <2>1, Spared, CommandsKept DEF EndTyped
  <2>4. Spares
    BY <1>2, <2>1, <2>2, TaskKinds, Spared DEF Spares
  <2> QED
    BY <2>3, <2>4, SparesKeep
<1>5. CASE Built(id) /\ task' = [task EXCEPT ![x].pc = "launching", ![x].uid = u]
  <2> DEFINE v == [task[x] EXCEPT !.pc = "launching", !.uid = u]
  <2>1. u \in Jobs
    BY <1>1, <1>3, <1>5, RowFields DEF EndTyped, Built, Row
  <2>2. /\ v \in TaskStates /\ v.pc = "launching" /\ v.id = id /\ v.uid = u
    BY <1>1, <1>3, <2>1 DEF EndTyped, TasksTyped, TaskStates, Steps
  <2>3. task' = [task EXCEPT ![x] = v]
    BY <1>3, <1>5 DEF EndTyped, TasksTyped, TaskStates
  <2> HIDE DEF v
  <2>4. TasksTyped' /\ task'[x] = v /\ \A y \in Tasks \ {x} : task'[y] = task[y]
    BY <1>3, <2>2, <2>3, TaskEdits DEF EndTyped
  <2>5. EndTyped'
    BY <1>2, <2>4, Spared, CommandsKept DEF EndTyped
  <2>6. /\ \A y \in Tasks : Starts(y)' <=> Starts(y)
        /\ \A y \in Tasks : task'[y].id = task[y].id
        /\ \A y \in Tasks : At(y, "publishing")' <=> At(y, "publishing")
        /\ \A y \in Tasks : At(y, "publishing") => task'[y] = task[y]
        /\ \A y \in Tasks : At(y, "idle")' <=> At(y, "idle")
    BY <1>1, <1>2, <2>2, <2>4 DEF Starts, At
  <2>7. ASSUME StartsInv PROVE StartsInv'
    <3>1. x \in Jobs => row[id].uid = x
      BY <1>1, <1>2, <2>7 DEF StartsInv, Starts, At
    <3>2. \A y \in Jobs : task'[y].pc \in {"launching", "publishing"} => task'[y].uid = y
      <4>1. ASSUME NEW y \in Jobs, task'[y].pc \in {"launching", "publishing"}
            PROVE  task'[y].uid = y
        <5>1. CASE y = x
          BY <1>1, <2>2, <2>4, <3>1, <5>1
        <5>2. CASE y # x
          BY <2>4, <2>7, <4>1, <5>2, StartsOf DEF StartsInv
        <5> QED
          BY <5>1, <5>2
      <4> QED
        BY <4>1
    <3>3. \A y \in Jobs : At(y, "publishing")' =>
             command'[task'[y].cmd].uid = y /\ command'[task'[y].cmd].state # "none"
      BY <1>2, <2>6, <2>7, StartsOf DEF StartsInv
    <3>4. ASSUME NEW y \in Launchers, Starts(y)'
          PROVE  /\ Open(task[y].id)' /\ row'[task'[y].id].starting
                 /\ row'[task'[y].id].running = 0
                 /\ y \in Jobs => row'[task'[y].id].uid = y
                 /\ \A z \in Launchers : Starts(z)' /\ task'[z].id = task'[y].id => z = y
      BY <1>2, <2>6, <2>7, <3>4, StartsOf DEF StartsInv, Open
    <3> QED
      BY <3>2, <3>3, <3>4 DEF StartsInv
  <2>8. ASSUME ShownInv PROVE ShownInv'
    BY <1>2, <2>6, <2>8, StartsOf DEF ShownInv, AliveCommands, Open
  <2>9. ASSUME LeftInv, UNCHANGED <<unkilled, late>> PROVE LeftInv'
    BY <1>2, <2>6, <2>9, StartsOf DEF LeftInv, AliveCommands
  <2> QED
    BY <1>2, <2>5, <2>7, <2>8, <2>9 DEF EndKept
<1> QED
  BY <1>2, <1>4, <1>5

\* A launch that fails lets go of its reservation.
LEMMA LaunchFailsEnds ==
    ASSUME EndTyped, NEW x \in Launchers, LaunchFails(x)
    PROVE  EndKept
<1>1. PICK id, u : id = task[x].id /\ u = task[x].uid
  OBVIOUS
<1> DEFINE r == [row[id] EXCEPT !.starting = FALSE]
<1>2. PICK c \in Commands :
         /\ NextCommand(c)
         /\ command' = [command EXCEPT ![c] = [uid |-> u, id |-> id,
                                               state |-> "failed", forced |-> FALSE]]
  BY <1>1 DEF LaunchFails
<1>3. /\ At(x, "launching") /\ Failed(x, id, FALSE)
      /\ row' = IF Open(id) THEN [row EXCEPT ![id] = r] ELSE row
      /\ UNCHANGED pending /\ excused \subseteq excused'
  BY <1>1 DEF LaunchFails, queue
<1>4. x \in Tasks /\ id \in Names /\ Starts(x)
  BY <1>1, <1>3, StartsOf DEF Starts, At
<1>5. command[c].state = "none"
  <2>1. c >= c
    BY DEF Commands
  <2> QED
    BY <1>2, <2>1 DEF NextCommand
<1>6. /\ TasksTyped' /\ task'[x].pc \in {"idle", "reporting"}
      /\ \A y \in Tasks \ {x} : task'[y] = task[y]
  BY <1>3, <1>4, GoesFailed DEF EndTyped
<1>7. u \in Jobs \union {0}
  BY <1>1, <1>4 DEF EndTyped, TasksTyped, TaskStates
<1>8. /\ command' \in [Commands -> EndStates]
      /\ command'[c].id = id /\ command'[c].state = "failed"
      /\ \A d \in Commands \ {c} : command'[d] = command[d]
  <2> DEFINE n == [uid |-> u, id |-> id, state |-> "failed", forced |-> FALSE]
  <2>1. n \in EndStates /\ n.id = id /\ n.state = "failed"
    BY <1>4, <1>7 DEF EndStates
  <2>2. command' = [command EXCEPT ![c] = n]
    BY <1>2
  <2> HIDE DEF n
  <2> QED
    BY <2>1, <2>2 DEF EndTyped, CommandsTyped
<1>9. /\ RowsTyped'
      /\ \A i \in Names : /\ row'[i] # None <=> Open(i)
                          /\ i # id => row'[i] = row[i]
                          /\ Open(i) => row'[i].running = row[i].running
  <2>1. CASE Open(id)
    <3>1. r \in Row /\ r # None /\ r.running = row[id].running
      <4>1. row[id] \in Row
        BY <1>4, <2>1, RowFields DEF EndTyped
      <4> QED
        BY <4>1, NoneAssumption DEF Row
    <3> HIDE DEF r
    <3> QED
      BY <1>3, <1>4, <2>1, <3>1, RowEdits DEF EndTyped, Open
  <2>2. CASE ~Open(id)
    BY <1>3, <2>2 DEF EndTyped, RowsTyped, Open
  <2> QED
    BY <2>1, <2>2
<1>10. CommandsTyped'
  <2>1. \A i \in DOMAIN pending : pending[i] \in Commands
    BY DEF EndTyped, CommandsTyped
  <2> QED
    BY <1>3, <1>4, <1>8, <2>1 DEF EndTyped, CommandsTyped
<1>11. EndTyped'
  BY <1>6, <1>9, <1>10 DEF EndTyped
<1>12. /\ \A y \in Tasks : Starts(y)' => y # x /\ Starts(y) /\ task'[y] = task[y]
       /\ \A y \in Tasks : At(y, "publishing") => At(y, "publishing")' /\ task'[y] = task[y]
       /\ \A y \in Tasks : ~At(y, "idle")' => ~At(y, "idle")
       /\ \A y \in Tasks : At(y, "publishing")' => Starts(y)'
  BY <1>3, <1>6 DEF Starts, At
<1>13. ASSUME StartsInv PROVE StartsInv'
  <2>1. ASSUME NEW y \in Launchers, Starts(y)'
        PROVE  /\ Open(task[y].id)' /\ row'[task'[y].id].starting
               /\ row'[task'[y].id].running = 0
               /\ y \in Jobs => row'[task'[y].id].uid = y
               /\ \A z \in Launchers : Starts(z)' /\ task'[z].id = task'[y].id => z = y
    <3>1. y # x /\ Starts(y) /\ task'[y] = task[y] /\ task[y].id \in Names
      BY <1>12, <2>1, StartsOf
    <3>2. task[y].id # id
      BY <1>1, <1>4, <1>13, <3>1 DEF StartsInv
    <3>3. row'[task[y].id] = row[task[y].id]
      BY <1>9, <3>1, <3>2
    <3> QED
      BY <1>12, <1>13, <3>1, <3>3, StartsOf DEF StartsInv, Open
  <2>2. \A y \in Launchers : y \in Jobs /\ task'[y].pc \in {"launching", "publishing"} =>
           task'[y].uid = y
    BY <1>12, <1>13, StartsOf DEF StartsInv, Starts
  <2>3. ASSUME NEW y \in Launchers, y \in Jobs, At(y, "publishing")'
        PROVE  command'[task'[y].cmd].uid = y /\ command'[task'[y].cmd].state # "none"
    <3>1. At(y, "publishing") /\ task'[y] = task[y] /\ task[y].cmd \in Commands
      BY <1>12, <2>3, StartsOf DEF At
    <3>2. command[task[y].cmd].uid = y /\ command[task[y].cmd].state # "none"
      BY <1>13, <2>3, <3>1 DEF StartsInv
    <3> QED
      BY <1>5, <1>8, <3>1, <3>2
  <2> QED
    BY <2>1, <2>2, <2>3 DEF StartsInv
<1>14. \A d \in Commands : command'[d].state = "alive" => d # c /\ command[d].state = "alive"
  BY <1>8
<1>15. ASSUME ShownInv PROVE ShownInv'
  <2> SUFFICES ASSUME NEW d \in Commands, command'[d].state = "alive"
               PROVE  \/ \E i \in Names : row'[i] # None /\ row'[i].running = d
                      \/ \E y \in Launchers : At(y, "publishing")' /\ task'[y].cmd = d
    BY DEF ShownInv, AliveCommands, Open
  <2>1. d \in AliveCommands
    BY <1>14 DEF AliveCommands
  <2> QED
    BY <1>9, <1>12, <1>15, <2>1, StartsOf DEF ShownInv
<1>16. ASSUME LeftInv, UNCHANGED <<unkilled, late>> PROVE LeftInv'
  <2>1. \A d \in AliveCommands' : d \in AliveCommands /\ command'[d] = command[d]
    BY <1>8, <1>14 DEF AliveCommands
  <2> QED
    BY <1>12, <1>16, <2>1, StartsOf DEF LeftInv
<1> QED
  BY <1>3, <1>11, <1>13, <1>15, <1>16 DEF EndKept

\* The command is forked.
LEMMA ForkEnds ==
    ASSUME EndTyped, NEW x \in Launchers, Fork(x)
    PROVE  EndKept
<1>1. PICK id, u : id = task[x].id /\ u = task[x].uid
  OBVIOUS
<1>2. PICK c \in Commands :
         /\ NextCommand(c)
         /\ command' = [command EXCEPT ![c] = [uid |-> u, id |-> id,
                                               state |-> "alive", forced |-> FALSE]]
         /\ task' = [task EXCEPT ![x].pc = "publishing", ![x].cmd = c]
  BY <1>1 DEF Fork
<1>3. At(x, "launching") /\ UNCHANGED <<row, pending, excused>>
  BY DEF Fork, queue
<1>4. x \in Tasks /\ id \in Names /\ Starts(x)
  BY <1>1, <1>3, StartsOf DEF Starts, At
<1>5. command[c].state = "none"
  <2>1. c >= c
    BY DEF Commands
  <2> QED
    BY <1>2, <2>1 DEF NextCommand
<1> DEFINE v == [task[x] EXCEPT !.pc = "publishing", !.cmd = c]
           n == [uid |-> u, id |-> id, state |-> "alive", forced |-> FALSE]
<1>6. v \in TaskStates /\ v.pc = "publishing" /\ v.cmd = c /\ v.id = id /\ v.uid = u
  BY <1>1, <1>4 DEF EndTyped, TasksTyped, TaskStates, Steps
<1>7. task' = [task EXCEPT ![x] = v]
  BY <1>2, <1>4 DEF EndTyped, TasksTyped, TaskStates
<1>8. n \in EndStates /\ n.uid = u /\ n.id = id /\ n.state = "alive"
  BY <1>1, <1>4 DEF EndTyped, TasksTyped, TaskStates, EndStates
<1>9. command' = [command EXCEPT ![c] = n]
  BY <1>2
<1> HIDE DEF v, n
<1>10. TasksTyped' /\ task'[x] = v /\ \A y \in Tasks \ {x} : task'[y] = task[y]
  BY <1>4, <1>6, <1>7, TaskEdits DEF EndTyped
<1>11. /\ command' \in [Commands -> EndStates] /\ command'[c] = n
       /\ \A d \in Commands \ {c} : command'[d] = command[d]
  BY <1>8, <1>9 DEF EndTyped, CommandsTyped
<1>12. CommandsTyped'
  <2>1. \A i \in DOMAIN pending : pending[i] \in Commands
    BY DEF EndTyped, CommandsTyped
  <2> QED
    BY <1>3, <1>4, <1>8, <1>11, <2>1 DEF EndTyped, CommandsTyped
<1>13. EndTyped'
  BY <1>3, <1>10, <1>12, Spared DEF EndTyped
<1>14. /\ \A y \in Tasks : Starts(y)' <=> Starts(y)
       /\ \A y \in Tasks : task'[y].id = task[y].id /\ task'[y].uid = task[y].uid
       /\ \A y \in Tasks : task'[y].pc \in {"launching", "publishing"} =>
             task[y].pc \in {"launching", "publishing"}
       /\ \A y \in Tasks : At(y, "publishing")' <=> At(y, "publishing") \/ y = x
       /\ \A y \in Tasks : At(y, "publishing") => y # x /\ task'[y] = task[y]
       /\ \A y \in Tasks : At(y, "idle")' <=> At(y, "idle")
  BY <1>1, <1>3, <1>6, <1>10 DEF Starts, At
<1>15. ASSUME StartsInv PROVE StartsInv' /\ (x \in Jobs => u = x)
  <2>1. \A y \in Jobs : task[y].pc \in {"launching", "publishing"} => task[y].uid = y
    BY <1>15, StartsOf DEF StartsInv
  <2>2. x \in Jobs => u = x
    BY <1>1, <1>3, <2>1 DEF At
  <2>3. \A y \in Jobs : task'[y].pc \in {"launching", "publishing"} => task'[y].uid = y
    BY <1>14, <2>1, StartsOf
  <2>4. ASSUME NEW y \in Jobs, At(y, "publishing")'
        PROVE  command'[task'[y].cmd].uid = y /\ command'[task'[y].cmd].state # "none"
    <3>1. CASE y = x
      BY <1>6, <1>8, <1>10, <1>11, <2>2, <3>1
    <3>2. CASE y # x
      <4>1. /\ At(y, "publishing") /\ task'[y] = task[y] /\ task[y].cmd \in Commands
            /\ command[task[y].cmd].uid = y /\ command[task[y].cmd].state # "none"
        BY <1>14, <1>15, <2>4, <3>2, StartsOf DEF StartsInv
      <4> QED
        BY <1>5, <1>11, <4>1
    <3> QED
      BY <3>1, <3>2
  <2>5. ASSUME NEW y \in Launchers, Starts(y)'
        PROVE  /\ Open(task[y].id)' /\ row'[task'[y].id].starting
               /\ row'[task'[y].id].running = 0
               /\ y \in Jobs => row'[task'[y].id].uid = y
               /\ \A z \in Launchers : Starts(z)' /\ task'[z].id = task'[y].id => z = y
    BY <1>3, <1>14, <1>15, <2>5, StartsOf DEF StartsInv, Open
  <2> QED
    BY <2>2, <2>3, <2>4, <2>5 DEF StartsInv
<1>16. ASSUME ShownInv PROVE ShownInv'
  <2> SUFFICES ASSUME NEW d \in Commands, command'[d].state = "alive"
               PROVE  \/ \E i \in Names : row'[i] # None /\ row'[i].running = d
                      \/ \E y \in Launchers : At(y, "publishing")' /\ task'[y].cmd = d
    BY DEF ShownInv, AliveCommands, Open
  <2>1. CASE d = c
    BY <1>4, <1>6, <1>10, <1>14, <2>1
  <2>2. CASE d # c
    <3>1. d \in AliveCommands
      BY <1>11, <2>2 DEF AliveCommands
    <3> QED
      BY <1>3, <1>14, <1>16, <3>1, StartsOf DEF ShownInv, Open
  <2> QED
    BY <2>1, <2>2
<1>17. ASSUME StartsInv, LeftInv, UNCHANGED <<unkilled, late>>,
              x \in Callers => At(x, "idle")
       PROVE LeftInv'
  <2>1. x \in Jobs /\ u = x
    BY <1>3, <1>15, <1>17 DEF Launchers, At
  <2>2. x \in late
    BY <1>3, <1>17, <2>1 DEF LeftInv, At
  <2>3. \A d \in AliveCommands' : d = c \/ (d \in AliveCommands /\ command'[d] = command[d])
    BY <1>11 DEF AliveCommands
  <2> QED
    BY <1>8, <1>11, <1>14, <1>17, <2>1, <2>2, <2>3, StartsOf DEF LeftInv
<1> QED
  BY <1>3, <1>13, <1>15, <1>16, <1>17 DEF EndKept

\* A kill lets no command run, and only that one exit.
LEMMA KillEnds ==
    ASSUME CommandsTyped, NEW c \in Commands, Kill(c), UNCHANGED pending
    PROVE  /\ CommandsTyped' /\ command'[c].state # "alive"
           /\ \A d \in Commands : CommandSpared(d)
<1>1. command[c] \in EndStates
  BY DEF CommandsTyped
<1>2. PICK s : s = IF command[c].state = "alive" THEN "exited" ELSE command[c].state
  OBVIOUS
<1> DEFINE v == [command[c] EXCEPT !.forced = TRUE, !.state = s]
<1>3. /\ v \in EndStates /\ v.uid = command[c].uid /\ v.id = command[c].id /\ v.state = s
      /\ s # "alive" /\ (s = "none" => command[c].state = "none")
  BY <1>1, <1>2 DEF EndStates
<1>4. command' = [command EXCEPT ![c] = v]
  BY <1>2 DEF Kill, CommandsTyped, EndStates
<1> HIDE DEF v
<1>5. /\ command' \in [Commands -> EndStates] /\ command'[c] = v
      /\ \A d \in Commands \ {c} : command'[d] = command[d]
  BY <1>3, <1>4 DEF CommandsTyped
<1>6. \A i \in DOMAIN pending : pending[i] \in Commands
  BY DEF CommandsTyped
<1> QED
  BY <1>3, <1>5, <1>6 DEF CommandSpared, CommandsTyped

\* The command is published in the row that was reserved for it, and may be killed.
LEMMA PublishEnds ==
    ASSUME EndTyped, NEW x \in Launchers, Publish(x)
    PROVE  EndKept
<1>1. PICK id, c : id = task[x].id /\ c = task[x].cmd
  OBVIOUS
<1>2. At(x, "publishing") /\ UNCHANGED <<pending, excused>>
  BY DEF Publish, queue
<1>3. x \in Tasks /\ id \in Names /\ c \in Commands /\ c # 0 /\ Starts(x)
  BY <1>1, <1>2, StartsOf
<1> DEFINE calls == IF task[x].flag THEN c ELSE 0
           r == [Published(row[id], c) EXCEPT !.done = calls]
           q == [Published(row[id], c) EXCEPT !.close = "graceful"]
<1>4. /\ Open(id) => row' = [row EXCEPT ![id] = r] \/ row' = [row EXCEPT ![id] = q]
      /\ ~Open(id) => row' = row
      /\ UNCHANGED command \/ Kill(c)
      /\ Return(x) \/ Failed(x, id, TRUE)
  BY <1>1 DEF Publish
<1>5. Open(id) =>
         /\ r \in Row /\ r # None /\ r.uid = row[id].uid /\ r.running = c /\ r.starting = FALSE
         /\ q \in Row /\ q # None /\ q.uid = row[id].uid /\ q.running = c /\ q.starting = FALSE
  <2>1. Open(id) => row[id] \in Row
    BY <1>3, RowFields DEF EndTyped
  <2>2. calls \in Commands \union {0}
    BY <1>3
  <2> HIDE DEF calls
  <2> QED
    BY <1>3, <2>1, <2>2, NoneAssumption DEF Row, Published
<1> HIDE DEF r, q
<1>6. /\ RowsTyped'
      /\ \A i \in Names \ {id} : row'[i] = row[i]
      /\ Open(id) => row'[id] # None /\ row'[id].running = c
  <2>1. CASE Open(id)
    BY <1>3, <1>4, <1>5, <2>1, RowEdits DEF EndTyped
  <2>2. CASE ~Open(id)
    BY <1>4, <2>2 DEF EndTyped, RowsTyped
  <2> QED
    BY <2>1, <2>2
<1>7. /\ TasksTyped' /\ task'[x].pc \in {"idle", "reporting"}
      /\ \A y \in Tasks \ {x} : task'[y] = task[y]
  BY <1>3, <1>4, GoesIdle, GoesFailed DEF EndTyped
<1>8. CommandsTyped' /\ \A d \in Commands : CommandSpared(d)
  BY <1>2, <1>3, <1>4, CommandsKept, KillEnds, Spared DEF EndTyped
<1>9. EndTyped'
  BY <1>6, <1>7, <1>8 DEF EndTyped
<1>10. /\ \A y \in Tasks : Starts(y)' => y # x /\ Starts(y) /\ task'[y] = task[y]
       /\ \A y \in Tasks : At(y, "publishing") /\ y # x =>
             At(y, "publishing")' /\ task'[y] = task[y]
       /\ \A y \in Tasks : ~At(y, "idle")' => ~At(y, "idle")
       /\ \A y \in Tasks : At(y, "publishing")' => Starts(y)'
  BY <1>2, <1>7 DEF Starts, At
<1>11. ASSUME StartsInv PROVE StartsInv'
  <2>1. ASSUME NEW y \in Launchers, Starts(y)'
        PROVE  /\ Open(task[y].id)' /\ row'[task'[y].id].starting
               /\ row'[task'[y].id].running = 0
               /\ y \in Jobs => row'[task'[y].id].uid = y
               /\ \A z \in Launchers : Starts(z)' /\ task'[z].id = task'[y].id => z = y
    <3>1. y # x /\ Starts(y) /\ task'[y] = task[y] /\ task[y].id \in Names
      BY <1>10, <2>1, StartsOf
    <3>2. task[y].id # id
      BY <1>1, <1>3, <1>11, <3>1 DEF StartsInv
    <3>3. row'[task[y].id] = row[task[y].id]
      BY <1>6, <3>1, <3>2
    <3> QED
      BY <1>10, <1>11, <3>1, <3>3, StartsOf DEF StartsInv, Open
  <2>2. \A y \in Launchers : y \in Jobs /\ task'[y].pc \in {"launching", "publishing"} =>
           task'[y].uid = y
    BY <1>10, <1>11, StartsOf DEF StartsInv, Starts
  <2>3. ASSUME NEW y \in Launchers, y \in Jobs, At(y, "publishing")'
        PROVE  command'[task'[y].cmd].uid = y /\ command'[task'[y].cmd].state # "none"
    <3>1. At(y, "publishing") /\ task'[y] = task[y] /\ task[y].cmd \in Commands
      BY <1>10, <2>3, StartsOf DEF At
    <3>2. command[task[y].cmd].uid = y /\ command[task[y].cmd].state # "none"
      BY <1>11, <2>3, <3>1 DEF StartsInv
    <3> QED
      BY <1>8, <3>1, <3>2 DEF CommandSpared
  <2> QED
    BY <2>1, <2>2, <2>3 DEF StartsInv
<1>12. ASSUME StartsInv, ShownInv PROVE ShownInv'
  <2> SUFFICES ASSUME NEW d \in Commands, command'[d].state = "alive"
               PROVE  \/ \E i \in Names : row'[i] # None /\ row'[i].running = d
                      \/ \E y \in Launchers : At(y, "publishing")' /\ task'[y].cmd = d
    BY DEF ShownInv, AliveCommands, Open
  <2>1. d \in AliveCommands /\ d # 0
    BY <1>8, StartsOf DEF CommandSpared, AliveCommands
  <2>2. Open(id) /\ row[id].running = 0
    BY <1>1, <1>3, <1>12 DEF StartsInv
  <2>3. CASE d = c
    BY <1>3, <1>6, <2>2, <2>3
  <2>4. CASE d # c
    <3>1. \A i \in Names : Open(i) /\ row[i].running = d => row'[i] # None /\ row'[i].running = d
      BY <1>6, <2>1, <2>2 DEF Open
    <3>2. \A y \in Launchers : At(y, "publishing") /\ task[y].cmd = d =>
             At(y, "publishing")' /\ task'[y].cmd = d
      BY <1>1, <1>10, <2>4, StartsOf
    <3> QED
      BY <1>12, <2>1, <3>1, <3>2 DEF ShownInv
  <2> QED
    BY <2>3, <2>4
<1>13. ASSUME LeftInv, UNCHANGED <<unkilled, late>> PROVE LeftInv'
  <2>1. \A d \in AliveCommands' : d \in AliveCommands /\ command'[d].uid = command[d].uid
    BY <1>8 DEF AliveCommands, CommandSpared
  <2> QED
    BY <1>10, <1>13, <2>1, StartsOf DEF LeftInv
<1> QED
  BY <1>2, <1>9, <1>11, <1>12, <1>13 DEF EndKept
-----------------------------------------------------------------------------

\* A launch keeps what is left of the invariant, and so does a task that
\* reclaims a job.
LEMMA LauncherEnds ==
    ASSUME EndTyped, NEW x \in Launchers, LauncherStep(x)
    PROVE  EndKept
<1>1. x \in Tasks
  BY TaskKinds
<1> QED
  BY <1>1, PrepareEnds, LaunchFailsEnds, ForkEnds, PublishEnds, ReclaimEnds DEF LauncherStep

\* A task of the mux that launches, reports or retires keeps it.
LEMMA OpenerEnds ==
    ASSUME EndTyped, NEW u \in Jobs, OpenerStep(u)
    PROVE  EndKept
<1>1. u \in Launchers
  BY DEF Launchers
<1> QED
  BY <1>1, LauncherEnds, ReportEnds, RetireEnds DEF OpenerStep

\* The conclusion task keeps it.
LEMMA ConcluderEnds ==
    ASSUME EndTyped, ConcluderStep
    PROVE  EndKept
BY TaskKinds, TakeEnds, ConcludeEnds, DeliverEnds, FinishEnds, CheckEnds, ReclaimEnds
   DEF ConcluderStep

\* What goes on once the queue is closed keeps it.
LEMMA TasksEnd ==
    ASSUME EndTyped, TasksStep
    PROVE  EndKept
BY OpenerEnds, ConcluderEnds, ExitEnds, ReapEnds DEF TasksStep
-----------------------------------------------------------------------------

\* In a session that is open the table's invariant gives the types, and all of a
\* launch but whose it is.
LEMMA OpenTyped == JobTableInv => EndTyped
<1> SUFFICES ASSUME JobTableInv PROVE EndTyped
  OBVIOUS
<1>1. /\ Typed /\ (\A y \in Tasks : Placed(y)) /\ (\A c \in Commands : Commanded(c)) /\ QueueInv
  BY Parts
<1>2. CommandStates \subseteq EndStates
  BY DEF CommandStates, EndStates
<1>3. TasksTyped
  BY <1>1 DEF Typed, TasksTyped, Placed, Naming, Concluding, At
<1>4. CommandsTyped
  <2>1. \A i \in DOMAIN pending : pending[i] \in Commands
    BY <1>1 DEF Typed
  <2> QED
    BY <1>1, <1>2, <2>1 DEF Typed, CommandsTyped, QueueInv, Commanded
<1> QED
  BY <1>1, <1>3, <1>4 DEF EndTyped, RowsTyped, Typed

\* A task of the mux launches for the job it was made for.
OwnRows == \A x \in Jobs : Starts(x) => row[task[x].id].uid = x

\* Then the launches that are under way are known.
LEMMA OpenStarts == JobTableInv /\ Sound /\ OwnRows => StartsInv
<1> SUFFICES ASSUME JobTableInv, Sound, OwnRows PROVE StartsInv
  OBVIOUS
<1>1. /\ Typed /\ (\A y \in Tasks : Placed(y)) /\ RowsInv /\ ReserveInv /\ excused # Jobs
  BY Parts DEF Sound, Typed
<1>2. \A x \in Launchers : x \in Tasks /\ (Starts(x) => Holding(x) /\ task[x].id \in Names)
  BY OpenTyped, StartsOf DEF Starts, Holding
<1>3. ASSUME NEW x \in Launchers, Starts(x)
      PROVE  /\ Open(task[x].id) /\ row[task[x].id].starting /\ row[task[x].id].running = 0
             /\ x \in Jobs => row[task[x].id].uid = x
             /\ \A y \in Launchers : Starts(y) /\ task[y].id = task[x].id => y = x
  BY <1>1, <1>2, <1>3 DEF ReserveInv, RowsInv, OwnRows
<1>4. ASSUME NEW x \in Jobs, task[x].pc \in {"launching", "publishing"}
      PROVE  /\ task[x].uid = x
             /\ At(x, "publishing") =>
                   command[task[x].cmd].uid = x /\ command[task[x].cmd].state # "none"
  BY <1>1, <1>4, TaskKinds DEF ReserveInv, OwnRows, Starts
<1> QED
  BY <1>3, <1>4, TaskKinds DEF StartsInv, At

\* And conversely.
LEMMA StartsOwn ==
    ASSUME StartsInv
    PROVE  OwnRows
BY DEF StartsInv, OwnRows, Launchers

\* A caller that launches nothing.
LEMMA CallerMoves ==
    ASSUME EndTyped, EndTyped', excused \subseteq excused', NEW t \in Callers,
           \A y \in Tasks \ {t} : task'[y] = task[y],
           task'[t] = task[t] \/ (~Starts(t)' /\ ~At(t, "publishing")),
           \A i \in Names : RowSpared(i), \A c \in Commands : CommandSpared(c)
    PROVE  EndKept
<1>1. TaskSpared(t)
  BY TaskKinds DEF TaskSpared
<1>2. Spares
  BY <1>1, StartsOf, Spared DEF Spares
<1> QED
  BY <1>2, SparesKeep

\* A job is opened, or given a launch that first has to wait.
LEMMA SpawnEnds ==
    ASSUME EndTyped, EndTyped', NEW t \in Callers, NEW id \in Names,
           \/ \E opens, anonymous \in BOOLEAN : Spawn(t, id, opens, anonymous)
           \/ \E calls \in BOOLEAN : StartIn(t, id, calls)
    PROVE  EndKept
<1>1. t \in Tasks
  BY TaskKinds
<1>2. /\ At(t, "idle") /\ UNCHANGED <<command, excused>>
      /\ ~Open(id) \/ ~Busy(row[id])
      /\ \E r : row' = [row EXCEPT ![id] = r]
  BY DEF Spawn, StartIn
<1>3. \A i \in Names : RowSpared(i)
  BY <1>2 DEF EndTyped, RowsTyped, RowSpared, Busy, Open
<1>4. \E v : task' = [task EXCEPT ![t] = v] /\ v.pc \in {"building", "waiting"}
  <2>1. CASE \E opens, anonymous \in BOOLEAN : Spawn(t, id, opens, anonymous)
    <3>4. PICK w : w = uids'
      OBVIOUS
    <3>1. PICK opens \in BOOLEAN :
             task' = [task EXCEPT ![t] = [Idle EXCEPT !.pc = "building", !.id = id,
                                                      !.uid = w, !.flag = opens]]
      BY <2>1, <3>4 DEF Spawn
    <3> DEFINE v == [Idle EXCEPT !.pc = "building", !.id = id, !.uid = w, !.flag = opens]
    <3>2. v.pc = "building"
      BY DEF Idle
    <3>3. task' = [task EXCEPT ![t] = v]
      BY <3>1
    <3> HIDE DEF v
    <3> QED
      BY <3>2, <3>3
  <2>2. CASE \E calls \in BOOLEAN : StartIn(t, id, calls)
    <3>1. PICK calls \in BOOLEAN :
             task' = [task EXCEPT ![t] = [Idle EXCEPT !.pc = "waiting", !.id = id,
                                                      !.flag = calls]]
      BY <2>2 DEF StartIn
    <3> DEFINE v == [Idle EXCEPT !.pc = "waiting", !.id = id, !.flag = calls]
    <3>2. v.pc = "waiting"
      BY DEF Idle
    <3>3. task' = [task EXCEPT ![t] = v]
      BY <3>1
    <3> HIDE DEF v
    <3> QED
      BY <3>2, <3>3
  <2> QED
    BY <2>1, <2>2
<1>5. /\ task'[t].pc \in {"building", "waiting"}
      /\ \A y \in Tasks \ {t} : task'[y] = task[y]
  BY <1>1, <1>4 DEF EndTyped, TasksTyped
<1> QED
  BY <1>2, <1>3, <1>5, CallerMoves, Spared DEF Starts, At

\* A job is asked to stop, and closed at once when nothing of it is in flight.
LEMMA StopEnds ==
    ASSUME EndTyped, EndTyped', NEW t \in Callers, NEW id \in Names,
           Stop(t, id) \/ ForceStop(t, id)
    PROVE  EndKept
<1>1. t \in Tasks
  BY TaskKinds
<1>2. PICK mode \in {"graceful", "force"} : AcceptStop(t, id, mode)
  BY DEF Stop, ForceStop
<1> DEFINE r == [row[id] EXCEPT !.close = mode]
<1>3. /\ At(t, "idle") /\ Open(id) /\ UNCHANGED pending
      /\ command' = command \/ (row[id].running # 0 /\ Kill(row[id].running))
  BY DEF Stop, ForceStop, queue
<1>4. /\ r \in Row /\ r # None /\ r.uid = row[id].uid
      /\ r.starting = row[id].starting /\ r.running = row[id].running
      /\ row[id].running \in Commands \union {0}
  BY <1>3, RowFields DEF EndTyped
<1>5. Closable(r) => r.running = 0 /\ ~r.starting
  BY DEF Closable
<1>6. /\ \/ row' = [row EXCEPT ![id] = r] /\ UNCHANGED task
         \/ Closable(r) /\ TakeRow(t, id, r)
      /\ excused \subseteq excused'
  BY <1>2 DEF AcceptStop, TakenForIdle
<1> HIDE DEF r
<1>7. /\ \A y \in Tasks \ {t} : task'[y] = task[y]
      /\ task'[t] = task[t] \/ task'[t].pc = "reclaiming"
      /\ \A i \in Names : RowSpared(i)
  <2>1. CASE row' = [row EXCEPT ![id] = r] /\ UNCHANGED task
    <3>1. row'[id] = r /\ \A i \in Names \ {id} : row'[i] = row[i]
      BY <1>4, <2>1, RowEdits DEF EndTyped
    <3> QED
      BY <1>3, <1>4, <2>1, <3>1 DEF RowSpared, Open
  <2>2. CASE Closable(r) /\ TakeRow(t, id, r)
    <3>1. /\ task'[t].pc = "reclaiming"
          /\ \A y \in Tasks \ {t} : task'[y] = task[y]
          /\ \A i \in Names \ {id} : row'[i] = row[i]
      BY <1>1, <1>4, <2>2, GoesReclaiming
    <3> QED
      BY <1>3, <1>4, <1>5, <2>2, <3>1 DEF RowSpared, Open
  <2> QED
    BY <1>6, <2>1, <2>2
<1>8. \A c \in Commands : CommandSpared(c)
  BY <1>3, <1>4, KillEnds, Spared DEF EndTyped
<1> QED
  BY <1>3, <1>6, <1>7, <1>8, CallerMoves DEF Starts, At

\* A stop waits; a job is kept, or watched.
LEMMA KeepEnds ==
    ASSUME EndTyped, EndTyped', NEW t \in Callers, NEW id \in Names,
           StopBlocks(t) \/ Keep(t, id) \/ OnFinish(t, id)
    PROVE  EndKept
<1>1. t \in Tasks
  BY TaskKinds
<1>2. CASE StopBlocks(t)
  <2>1. At(t, "idle") /\ Goto(t, "blocked") /\ UNCHANGED <<row, command, excused>>
    BY <1>2 DEF StopBlocks
  <2>2. "blocked" \in Steps \ {"publishing"} /\ "blocked" \notin Naming
    BY DEF Steps, Naming, Concluding
  <2>3. task'[t].pc = "blocked" /\ \A y \in Tasks \ {t} : task'[y] = task[y]
    BY <1>1, <2>1, <2>2, GoesOn DEF EndTyped
  <2> QED
    BY <2>1, <2>3, CallerMoves, Spared DEF Starts, At
<1>3. CASE Keep(t, id) \/ OnFinish(t, id)
  <2>1. PICK r : /\ row' = [row EXCEPT ![id] = r] /\ Open(id)
                 /\ \/ \E d \in {0, row[id].running} : r = [row[id] EXCEPT !.done = d]
                    \/ \E mode \in {"never", "graceful", "force"} :
                          r = [row[id] EXCEPT !.close = mode]
    BY <1>3 DEF Keep, OnFinish
  <2>2. /\ r \in Row /\ r # None /\ r.uid = row[id].uid
        /\ r.starting = row[id].starting /\ r.running = row[id].running
    BY <2>1, RowFields DEF EndTyped
  <2>3. row'[id] = r /\ \A i \in Names \ {id} : row'[i] = row[i]
    BY <2>1, <2>2, RowEdits DEF EndTyped
  <2>4. \A i \in Names : RowSpared(i)
    BY <2>1, <2>2, <2>3 DEF RowSpared, Open
  <2>5. UNCHANGED <<task, command, excused>>
    BY <1>3 DEF Keep, OnFinish
  <2> QED
    BY <1>1, <2>4, <2>5, CallerMoves, Spared
<1> QED
  BY <1>2, <1>3

\* spawn fails to build the job, or finds that the row is gone.
LEMMA BuildFailsEnds ==
    ASSUME EndTyped, EndTyped', NEW t \in Callers,
           BuildFails(t) \/ (Build(t) /\ ~Open(task[t].id))
    PROVE  EndKept
<1>1. t \in Tasks
  BY TaskKinds
<1>2. At(t, "building") /\ Goto(t, "unspawning") /\ UNCHANGED <<row, command, excused>>
  BY DEF Build, BuildFails
<1>3. "unspawning" \in Steps \ {"publishing"} /\ "unspawning" \notin Naming
  BY DEF Steps, Naming, Concluding
<1>4. task'[t].pc = "unspawning" /\ \A y \in Tasks \ {t} : task'[y] = task[y]
  BY <1>1, <1>2, <1>3, GoesOn DEF EndTyped
<1> QED
  BY <1>2, <1>4, CallerMoves, Spared DEF Starts, At

\* A conclusion is queued.
LEMMA SubmitEnds ==
    ASSUME EndTyped, EndTyped', NEW c \in Commands, Submit(c)
    PROVE  EndKept
<1>1. /\ UNCHANGED <<row, task, excused>>
      /\ command' = [command EXCEPT ![c].state = "queued"]
  BY DEF Submit
<1>2. \A d \in Commands : CommandSpared(d)
  BY <1>1 DEF EndTyped, CommandsTyped, EndStates, CommandSpared
<1>3. Spares
  BY <1>1, <1>2, ConcluderMoves, Spared
<1> QED
  BY <1>3, SparesKeep

\* The job is built, and a task of the mux left to launch its command.
LEMMA BuildEnds ==
    ASSUME JobTableInv, JobTableInv', NEW t \in Callers, Build(t), Open(task[t].id), Sound',
           StartsInv, ShownInv
    PROVE  excused \subseteq excused' /\ StartsInv' /\ ShownInv'
<1>1. /\ Typed /\ Typed' /\ (\A y \in Tasks : Placed(y)) /\ OpeningInv
      /\ t \in Tasks /\ t \notin Jobs /\ EndTyped
  BY OpenTyped, TaskKinds DEF JobTableInv
<1>2. PICK id, u : id = task[t].id /\ u = task[t].uid
  OBVIOUS
<1> DEFINE r == [row[id] EXCEPT !.resources = u]
           w == [Idle EXCEPT !.pc = "preparing", !.id = id, !.uid = u]
<1>3. /\ At(t, "building") /\ Open(id)
      /\ row' = [row EXCEPT ![id] = r]
      /\ task' = [x \in Tasks |-> IF x = t THEN Idle
                                  ELSE IF x = u /\ task[t].flag THEN w ELSE task[x]]
      /\ excused' = IF row[id].uid = u THEN excused ELSE Jobs
      /\ UNCHANGED command
  BY <1>2 DEF Build
<1>4. id \in Names /\ u \in Jobs /\ At(u, "idle")
  BY <1>1, <1>2, <1>3 DEF Placed, OpeningInv, Opening, At
<1>5. excused' = excused /\ row[id].uid = u
  BY <1>3 DEF Sound
<1>6. r \in Row /\ r # None /\ r.uid = u /\ r.running = row[id].running
  <2>1. row[id] \in Row
    BY <1>1, <1>3, <1>4, Fields
  <2> QED
    BY <1>4, <1>5, <2>1, NoneAssumption DEF Row
<1>7. Idle.pc = "idle" /\ w.pc = "preparing" /\ w.id = id
  BY DEF Idle
<1> HIDE DEF r, w
<1>8. row'[id] = r /\ \A i \in Names \ {id} : row'[i] = row[i]
  BY <1>1, <1>3, <1>4, <1>6, RowMoves
<1>9. /\ task'[t] = Idle
      /\ \A y \in Tasks \ {t, u} : task'[y] = task[y]
      /\ task'[u] = w \/ task'[u] = task[u]
  BY <1>1, <1>3, <1>4, TaskKinds
<1>10. \A i \in Names : Open(i) => /\ row'[i] # None /\ row'[i].uid = row[i].uid
                                   /\ row'[i].running = row[i].running
  BY <1>3, <1>5, <1>6, <1>8 DEF Open
<1>11. OwnRows'
  <2> SUFFICES ASSUME NEW x \in Jobs, Starts(x)'
               PROVE  row'[task'[x].id].uid = x
    BY DEF OwnRows
  <2>1. CASE task'[x] = task[x]
    <3>1. Starts(x) /\ x \in Launchers
      BY <2>1 DEF Starts, Launchers
    <3>2. task[x].id \in Names /\ Open(task[x].id) /\ row[task[x].id].uid = x
      BY <1>1, <3>1, StartsOf DEF StartsInv
    <3> QED
      BY <1>10, <2>1, <3>2
  <2>2. CASE task'[x] # task[x]
    <3>1. x = u /\ task'[x] = w
      BY <1>1, <1>9, <2>2, TaskKinds
    <3> QED
      BY <1>6, <1>7, <1>8, <3>1
  <2> QED
    BY <2>1, <2>2
<1>12. StartsInv'
  <2>1. (JobTableInv /\ Sound /\ OwnRows => StartsInv)'
    BY OpenStarts, PTL
  <2> QED
    BY <1>11, <2>1
<1>13. \A x \in Launchers : At(x, "publishing") => task'[x] = task[x]
  BY <1>1, <1>3, <1>4, <1>9, StartsOf DEF At
<1>14. ShownInv'
  <2> SUFFICES ASSUME NEW c \in Commands, command'[c].state = "alive"
               PROVE  \/ \E i \in Names : row'[i] # None /\ row'[i].running = c
                      \/ \E x \in Launchers : At(x, "publishing")' /\ task'[x].cmd = c
    BY DEF ShownInv, AliveCommands, Open
  <2>1. c \in AliveCommands
    BY <1>3 DEF AliveCommands
  <2> QED
    BY <1>10, <1>13, <2>1 DEF ShownInv, At
<1> QED
  BY <1>5, <1>12, <1>14

\* A spawn that failed removes its row, which nobody has given a command.
LEMMA UnspawnEnds ==
    ASSUME JobTableInv, JobTableInv', NEW t \in Callers, Unspawn(t), Sound',
           StartsInv, ShownInv
    PROVE  excused \subseteq excused' /\ StartsInv' /\ ShownInv'
<1>1. /\ Typed /\ (\A y \in Tasks : Placed(y)) /\ (\A c \in Commands : Commanded(c))
      /\ OpeningInv /\ ReserveInv /\ RunInv
      /\ t \in Tasks /\ t \notin Jobs /\ EndTyped
  BY Parts, OpenTyped, TaskKinds
<1>2. PICK id, u : id = task[t].id /\ u = task[t].uid
  OBVIOUS
<1>3. /\ At(t, "unspawning") /\ Return(t) /\ UNCHANGED command
      /\ \/ /\ Open(id) /\ row' = [row EXCEPT ![id] = None]
            /\ excused' = IF row[id].uid = u /\ (row[id].starting => task[t].flag)
                          THEN excused ELSE Jobs
         \/ ~Open(id) /\ UNCHANGED <<row, excused>>
  BY <1>2 DEF Unspawn
<1>4. id \in Names /\ u \in Jobs /\ Opening(t)
  BY <1>1, <1>2, <1>3 DEF Placed, Opening, At
<1>5. /\ excused' = excused /\ excused # Jobs
      /\ Open(id) => row[id].uid = u /\ (row[id].starting => task[t].flag)
  BY <1>3 DEF Sound
<1>6. /\ \A y \in Tasks \ {t} : task'[y] = task[y]
      /\ task'[t].pc = "idle"
  BY <1>1, <1>3, Returns
<1>7. \A i \in Names \ {id} : row'[i] = row[i]
  BY <1>1, <1>3 DEF Typed
<1>8. Open(id) => row[id].running = 0
  <2> SUFFICES ASSUME Open(id), row[id].running # 0 PROVE FALSE
    OBVIOUS
  <2>1. PICK c \in Commands : c = row[id].running
    BY <1>1, <1>4, Fields
  <2>2. command[c].uid = u /\ command[c].state # "none"
    BY <1>1, <1>4, <1>5, <2>1 DEF RunInv
  <2> QED
    BY <1>1, <1>2, <1>4, <1>5, <2>2 DEF OpeningInv
<1>9. ASSUME NEW x \in Launchers, x # t, Starts(x)
      PROVE  task[x].id \in Names \ {id}
  <2>1. Open(task[x].id) /\ row[task[x].id].starting /\ task[x].id \in Names
    BY <1>1, <1>9, StartsOf DEF StartsInv
  <2>2. SUFFICES ASSUME task[x].id = id PROVE FALSE
    BY <2>1
  <2>3. Holding(t) /\ Holding(x)
    BY <1>4, <1>5, <1>9, <2>1, <2>2 DEF Holding, Starts
  <2> QED
    BY <1>1, <1>2, <1>5, <1>9, <2>2, <2>3, StartsOf DEF ReserveInv
<1>10. OwnRows'
  <2> SUFFICES ASSUME NEW x \in Jobs, Starts(x)'
               PROVE  row'[task'[x].id].uid = x
    BY DEF OwnRows
  <2>1. x # t /\ x \in Launchers /\ task'[x] = task[x] /\ Starts(x)
    BY <1>1, <1>6, TaskKinds DEF Starts, Launchers
  <2>2. row[task[x].id].uid = x
    BY <2>1 DEF StartsInv
  <2> QED
    BY <1>7, <1>9, <2>1, <2>2
<1>11. StartsInv'
  <2>1. (JobTableInv /\ Sound /\ OwnRows => StartsInv)'
    BY OpenStarts, PTL
  <2> QED
    BY <1>10, <2>1
<1>12. ShownInv'
  <2> SUFFICES ASSUME NEW c \in Commands, command'[c].state = "alive"
               PROVE  \/ \E i \in Names : row'[i] # None /\ row'[i].running = c
                      \/ \E x \in Launchers : At(x, "publishing")' /\ task'[x].cmd = c
    BY DEF ShownInv, AliveCommands, Open
  <2>1. c \in AliveCommands /\ c # 0
    BY <1>1, <1>3, StartsOf DEF AliveCommands
  <2>2. \A i \in Names : Open(i) /\ row[i].running = c => row'[i] # None /\ row'[i].running = c
    BY <1>7, <1>8, <2>1 DEF Open
  <2>3. \A x \in Launchers : At(x, "publishing") => task'[x] = task[x]
    BY <1>1, <1>3, <1>6, StartsOf DEF At
  <2> QED
    BY <2>1, <2>2, <2>3 DEF ShownInv, At
<1> QED
  BY <1>5, <1>11, <1>12

\* start_in has waited for the conclusions the queue knew of.
LEMMA AwaitEnds ==
    ASSUME JobTableInv, JobTableInv', NEW t \in Callers, Await(t), Sound',
           StartsInv, ShownInv
    PROVE  excused \subseteq excused' /\ StartsInv' /\ ShownInv'
<1>1. Typed /\ t \in Tasks /\ t \notin Jobs /\ EndTyped
  BY Parts, OpenTyped, TaskKinds
<1>2. /\ At(t, "waiting") /\ Goto(t, "preparing") /\ excused \subseteq excused'
      /\ UNCHANGED <<row, command>>
  BY DEF Await, TakenForIdle
<1>3. \A y \in Tasks \ {t} : task'[y] = task[y]
  BY <1>1, <1>2, Goes DEF Steps
<1>4. \A x \in Jobs : x # t /\ task'[x] = task[x]
  BY <1>1, <1>3, TaskKinds
<1>5. OwnRows'
  BY <1>2, <1>4, StartsOwn DEF OwnRows, Starts
<1>6. StartsInv'
  <2>1. (JobTableInv /\ Sound /\ OwnRows => StartsInv)'
    BY OpenStarts, PTL
  <2> QED
    BY <1>5, <2>1
<1>7. \A x \in Launchers : At(x, "publishing") => task'[x] = task[x]
  BY <1>1, <1>2, <1>3, StartsOf DEF At
<1>8. ShownInv'
  BY <1>2, <1>7 DEF ShownInv, AliveCommands, Open, At
<1> QED
  BY <1>2, <1>6, <1>8

\* While the session is open every launch is known, and so is what runs.
LEMMA OpenStep ==
    ASSUME JobTableInv, Next, Sound => StartsInv /\ ShownInv
    PROVE  Sound' => StartsInv' /\ ShownInv'
<1>1. JobTableInv' /\ EndTyped /\ EndTyped'
  <2>1. JobTableInv'
    BY JobTableStep
  <2>2. EndTyped /\ (JobTableInv' => EndTyped')
    BY OpenTyped, PTL
  <2> QED
    BY <2>1, <2>2
<1>2. EndKept => (Sound' => StartsInv' /\ ShownInv')
  BY DEF EndKept, Sound
<1>3. ASSUME NEW t \in Callers, Call(t) PROVE EndKept
  BY <1>1, <1>3, SpawnEnds, StopEnds, KeepEnds DEF Call
<1>4. ASSUME NEW t \in Callers, CallerStep(t) PROVE Sound' => StartsInv' /\ ShownInv'
  <2>1. CASE Build(t) /\ Open(task[t].id)
    <3>1. excused \subseteq excused'
      BY <1>1, <2>1 DEF Build, JobTableInv, Typed
    <3>2. Sound' => Sound
      BY <3>1 DEF Sound
    <3> QED
      BY <1>1, <2>1, <3>2, BuildEnds
  <2>2. CASE BuildFails(t) \/ (Build(t) /\ ~Open(task[t].id))
    BY <1>1, <1>2, <2>2, BuildFailsEnds
  <2>3. CASE Unspawn(t)
    <3>1. excused \subseteq excused'
      BY <1>1, <2>3 DEF Unspawn, JobTableInv, Typed
    <3>2. Sound' => Sound
      BY <3>1 DEF Sound
    <3> QED
      BY <1>1, <2>3, <3>2, UnspawnEnds
  <2>4. CASE Await(t)
    <3>1. Sound' => Sound
      BY <2>4 DEF Await, TakenForIdle, Sound
    <3> QED
      BY <1>1, <2>4, <3>1, AwaitEnds
  <2>5. CASE LauncherStep(t)
    BY <1>1, <1>2, <2>5, LauncherEnds DEF Launchers
  <2> QED
    BY <1>4, <2>1, <2>2, <2>3, <2>4, <2>5 DEF CallerStep
<1>5. ASSUME NEW u \in Jobs, OpenerStep(u) PROVE EndKept
  BY <1>1, <1>5, OpenerEnds
<1>6. ASSUME NEW c \in Commands, Exit(c) \/ Reap(c) \/ Submit(c) PROVE EndKept
  BY <1>1, <1>6, ExitEnds, ReapEnds, SubmitEnds
<1>7. ASSUME ConcluderStep PROVE EndKept
  BY <1>1, <1>7, ConcluderEnds
<1> QED
  BY <1>2, <1>3, <1>4, <1>5, <1>6, <1>7 DEF Next
-----------------------------------------------------------------------------

\* The mux's tasks do nothing for a caller.
LEMMA CallersRest ==
    ASSUME EndTyped, TasksStep, NEW t \in Callers
    PROVE  task'[t] = task[t]
<1>1. /\ task \in [Tasks -> TaskStates] /\ t \in Tasks
      /\ t \notin Jobs /\ t # Concluder
  BY TaskKinds DEF EndTyped, TasksTyped
<1>2. ASSUME NEW x \in Tasks, x # t, Reclaim(x) \/ Drop(x)
      PROVE  task'[t] = task[t]
  BY <1>1, <1>2 DEF Reclaim, Drop, Goto, Return
<1>3. ASSUME NEW u \in Jobs, OpenerStep(u) PROVE task'[t] = task[t]
  <2>1. u # t /\ u \in Tasks
    BY <1>1, TaskKinds
  <2>2. CASE Prepare(u) \/ LaunchFails(u)
    BY <1>1, <2>1, <2>2 DEF Prepare, LaunchFails, Failed
  <2>3. CASE Fork(u)
    BY <1>1, <2>1, <2>3 DEF Fork
  <2>4. CASE Publish(u)
    BY <1>1, <2>1, <2>4 DEF Publish, Failed, Return
  <2>5. CASE Report(u)
    BY <1>1, <2>1, <2>5 DEF Report, Goto
  <2>6. CASE Retire(u)
    BY <1>1, <2>1, <2>6 DEF Retire, Return, TakeRow
  <2> QED
    BY <1>2, <1>3, <2>1, <2>2, <2>3, <2>4, <2>5, <2>6 DEF OpenerStep, LauncherStep
<1>4. ASSUME ConcluderStep PROVE task'[t] = task[t]
  <2>1. CASE Take
    BY <1>1, <2>1 DEF Take
  <2>2. CASE Conclude
    BY <1>1, <2>2 DEF Conclude
  <2>3. CASE Deliver \/ Finish \/ LockTable
    BY <1>1, <2>3 DEF Deliver, Finish, LockTable, Goto
  <2>4. CASE Check
    BY <1>1, <2>4 DEF Check, Return, TakeRow
  <2> QED
    BY <1>1, <1>2, <1>4, <2>1, <2>2, <2>3, <2>4, TaskKinds DEF ConcluderStep
<1>5. ASSUME NEW c \in Commands, Exit(c) \/ SubmitClosed(c) \/ Reap(c) PROVE task'[t] = task[t]
  BY <1>5 DEF Exit, SubmitClosed, Reap
<1> QED
  BY <1>3, <1>4, <1>5 DEF TasksStep

\* A step of the table's that changes no task.
LEMMA TableMoves ==
    ASSUME EndTyped, EndTyped', excused' = excused, task' = task,
           \A i \in Names : RowSpared(i), \A c \in Commands : CommandSpared(c)
    PROVE  EndKept
<1>1. Spares
  BY StartsOf, Spared DEF Spares
<1> QED
  BY <1>1, SparesKeep

\* What was in the table is killed, but for what could not be; what was about to
\* be is a late launch's.
LEMMA KillAllEnds ==
    ASSUME EndTyped, KillAll, \A t \in Callers : At(t, "idle")
    PROVE  EndKept /\ (StartsInv /\ ShownInv => LeftInv')
<1>1. PICK failed \in SUBSET Outstanding :
         /\ unkilled' = failed
         /\ command' = [c \in Commands |->
                           IF c \in Outstanding \ failed
                           THEN [command[c] EXCEPT
                                    !.forced = TRUE,
                                    !.state = IF @ = "alive" THEN "exited" ELSE @]
                           ELSE command[c]]
         /\ row' = [id \in Names |->
                       IF id \in OpenRows(failed)
                       THEN [row[id] EXCEPT !.done = 0] ELSE row[id]]
  BY DEF KillAll
<1>2. late' = Launching /\ UNCHANGED <<pending, task, excused>>
  BY DEF KillAll, queue
<1>3. \A id \in OpenRows(failed) :
         LET r == [row[id] EXCEPT !.done = 0]
         IN  /\ r \in Row /\ r # None /\ r.uid = row[id].uid
             /\ r.starting = row[id].starting /\ r.running = row[id].running
  BY RowFields DEF EndTyped, OpenRows
<1>4. /\ RowsTyped'
      /\ \A i \in Names : RowSpared(i)
  <2>1. ASSUME NEW i \in Names
        PROVE  row'[i] \in Row \union {None} /\ RowSpared(i)
    <3>1. CASE i \in OpenRows(failed)
      <4> DEFINE r == [row[i] EXCEPT !.done = 0]
      <4>1. /\ r \in Row /\ r # None /\ r.uid = row[i].uid
            /\ r.starting = row[i].starting /\ r.running = row[i].running
        BY <1>3, <3>1
      <4>2. row'[i] = r
        BY <1>1, <2>1, <3>1
      <4> HIDE DEF r
      <4> QED
        BY <4>1, <4>2 DEF RowSpared
    <3>2. CASE i \notin OpenRows(failed)
      <4>1. row'[i] = row[i] /\ ~Open(i)
        BY <1>1, <2>1, <3>2 DEF OpenRows
      <4> QED
        BY <4>1 DEF EndTyped, RowsTyped, RowSpared
    <3> QED
      BY <3>1, <3>2
  <2>2. row' = [i \in Names |-> row'[i]]
    BY <1>1
  <2> QED
    BY <2>1, <2>2 DEF RowsTyped
<1>5. \A c \in Commands :
         /\ command'[c] \in EndStates /\ command'[c].id = command[c].id
         /\ command'[c].uid = command[c].uid
         /\ command'[c].state = "alive" => /\ command[c].state = "alive"
                                           /\ c \notin Outstanding \/ c \in failed
         /\ command'[c].state = "none" => command[c].state = "none"
  <2> SUFFICES ASSUME NEW c \in Commands
               PROVE  /\ command'[c] \in EndStates /\ command'[c].id = command[c].id
                      /\ command'[c].uid = command[c].uid
                      /\ command'[c].state = "alive" => /\ command[c].state = "alive"
                                                        /\ c \notin Outstanding \/ c \in failed
                      /\ command'[c].state = "none" => command[c].state = "none"
    OBVIOUS
  <2>1. command[c] \in EndStates
    BY DEF EndTyped, CommandsTyped
  <2>2. PICK s : s = IF command[c].state = "alive" THEN "exited" ELSE command[c].state
    OBVIOUS
  <2> DEFINE v == [command[c] EXCEPT !.forced = TRUE, !.state = s]
  <2>3. /\ v \in EndStates /\ v.uid = command[c].uid /\ v.id = command[c].id /\ v.state = s
        /\ s # "alive" /\ (s = "none" => command[c].state = "none")
    BY <2>1, <2>2 DEF EndStates
  <2>4. command'[c] = IF c \in Outstanding \ failed THEN v ELSE command[c]
    BY <1>1, <2>2
  <2> HIDE DEF v
  <2> QED
    BY <2>1, <2>3, <2>4
<1>6. CommandsTyped' /\ \A c \in Commands : CommandSpared(c)
  <2>1. command' \in [Commands -> EndStates]
    <3>1. command' = [c \in Commands |-> command'[c]]
      BY <1>1
    <3> QED
      BY <1>5, <3>1
  <2>2. \A i \in DOMAIN pending : pending[i] \in Commands
    BY DEF EndTyped, CommandsTyped
  <2> QED
    BY <1>2, <1>5, <2>1, <2>2 DEF EndTyped, CommandsTyped, CommandSpared
<1>7. EndTyped'
  BY <1>2, <1>4, <1>6 DEF EndTyped, TasksTyped, At
<1>8. EndKept
  BY <1>2, <1>4, <1>6, <1>7, TableMoves
<1>9. ASSUME StartsInv, ShownInv PROVE LeftInv'
  <2>1. \A u \in Jobs : ~At(u, "idle") => u \in late'
    BY <1>2 DEF Launching
  <2>2. ASSUME NEW c \in Commands, command'[c].state = "alive"
        PROVE  c \in unkilled' \/ command'[c].uid \in late'
    <3>1. /\ c \in AliveCommands /\ c # 0 /\ command'[c].uid = command[c].uid
          /\ c \notin Outstanding \/ c \in failed
      BY <1>5, <2>2, StartsOf DEF AliveCommands
    <3>2. CASE \E i \in Names : Open(i) /\ row[i].running = c
      BY <1>1, <3>1, <3>2 DEF Outstanding
    <3>3. CASE \E x \in Launchers : At(x, "publishing") /\ task[x].cmd = c
      <4>1. PICK x \in Jobs : At(x, "publishing") /\ task[x].cmd = c
        BY <3>3 DEF Launchers, At
      <4>2. command[c].uid = x
        BY <1>9, <4>1, StartsOf DEF StartsInv
      <4> QED
        BY <2>1, <3>1, <4>1, <4>2 DEF At
    <3> QED
      BY <1>9, <3>1, <3>2, <3>3 DEF ShownInv
  <2> QED
    BY <1>2, <2>1, <2>2 DEF LeftInv, AliveCommands, At
<1> QED
  BY <1>8, <1>9

\* The rows lose what they have, and stay.
LEMMA DropResourcesEnds ==
    ASSUME EndTyped, DropResources
    PROVE  EndKept
<1>1. /\ row' = [id \in Names |->
                    IF Open(id) THEN [row[id] EXCEPT !.resources = 0] ELSE row[id]]
      /\ UNCHANGED <<pending, task, command, excused>>
  BY DEF DropResources, queue
<1>2. \A i \in Names : row'[i] \in Row \union {None} /\ RowSpared(i)
  <2> SUFFICES ASSUME NEW i \in Names
               PROVE  row'[i] \in Row \union {None} /\ RowSpared(i)
    OBVIOUS
  <2>1. CASE Open(i)
    <3> DEFINE r == [row[i] EXCEPT !.resources = 0]
    <3>1. row[i] \in Row
      BY <2>1, RowFields DEF EndTyped
    <3>2. /\ r \in Row /\ r # None /\ r.uid = row[i].uid
          /\ r.starting = row[i].starting /\ r.running = row[i].running
      BY <3>1, NoneAssumption DEF Row
    <3>3. row'[i] = r
      BY <1>1, <2>1
    <3> HIDE DEF r
    <3> QED
      BY <3>2, <3>3 DEF RowSpared
  <2>2. CASE ~Open(i)
    <3>1. row'[i] = row[i]
      BY <1>1, <2>2
    <3> QED
      BY <2>2, <3>1 DEF EndTyped, RowsTyped, RowSpared
  <2> QED
    BY <2>1, <2>2
<1>3. RowsTyped'
  <2>1. row' = [i \in Names |-> row'[i]]
    BY <1>1
  <2> QED
    BY <1>2, <2>1 DEF RowsTyped
<1>4. EndTyped'
  BY <1>1, <1>3, CommandsKept DEF EndTyped, TasksTyped, At
<1> QED
  BY <1>1, <1>2, <1>4, TableMoves, Spared

\* A step that changes nothing of the table keeps what is left of its invariant.
LEMMA TableRests ==
    ASSUME EndTyped, UNCHANGED vars
    PROVE  EndKept
<1>1. UNCHANGED <<row, pending, task, command, excused>>
  BY DEF vars
<1>2. EndTyped'
  BY <1>1, CommandsKept, Spared DEF EndTyped, TasksTyped, At
<1> QED
  BY <1>1, <1>2, TableMoves, Spared

\* Every step of a session that ends keeps the invariant.
LEMMA ShutdownKeeps ==
    ASSUME ShutdownInv, [ShutdownNext]_svars
    PROVE  ShutdownInv'
<1>1. /\ phase \in Phases
      /\ ~Closed => JobTableInv
      /\ Closed => EndTyped /\ \A t \in Callers : At(t, "idle")
      /\ Sound => /\ StartsInv
                  /\ phase \in {"open", "closed"} => ShownInv
                  /\ phase \notin {"open", "closed"} => LeftInv
  BY DEF ShutdownInv
<1>2. EndTyped
  BY <1>1, OpenTyped
<1>3. EndKept => EndTyped' /\ (Sound' => Sound)
  BY DEF EndKept, Sound
<1>4. CASE ~Closed /\ [Next]_vars /\ UNCHANGED <<phase, unkilled, late>>
  <2>1. JobTableInv'
    BY <1>1, <1>4, JobTableStep
  <2>2. Sound' => StartsInv' /\ ShownInv'
    <3>1. CASE Next
      BY <1>1, <1>4, <3>1, OpenStep DEF Closed
    <3>2. CASE UNCHANGED vars
      BY <1>1, <1>2, <1>3, <1>4, <3>2, TableRests DEF EndKept, Closed
    <3> QED
      BY <1>4, <3>1, <3>2
  <2> QED
    BY <1>1, <1>4, <2>1, <2>2 DEF ShutdownInv, Closed
<1>5. CASE Closed /\ (TasksStep \/ UNCHANGED vars) /\ UNCHANGED <<phase, unkilled, late>>
  <2>1. EndKept /\ \A t \in Callers : task'[t] = task[t]
    BY <1>2, <1>5, TasksEnd, CallersRest, TableRests DEF vars
  <2>2. EndTyped' /\ \A t \in Callers : At(t, "idle")'
    BY <1>1, <1>3, <1>5, <2>1 DEF At
  <2>3. Sound' => /\ StartsInv'
                  /\ phase = "closed" => ShownInv'
                  /\ phase # "closed" => LeftInv'
    BY <1>1, <1>3, <1>5, <2>1 DEF EndKept, Closed
  <2> QED
    BY <1>1, <1>5, <2>2, <2>3 DEF ShutdownInv, Closed
<1>6. CASE Cancel
  <2>1. /\ phase = "open" /\ phase' = "closed" /\ UNCHANGED vars
        /\ \A t \in Callers : At(t, "idle")
    BY <1>6 DEF Cancel
  <2>2. EndKept /\ \A t \in Callers : At(t, "idle")'
    BY <1>2, <2>1, TableRests DEF vars, At
  <2> QED
    BY <1>1, <1>3, <2>1, <2>2 DEF ShutdownInv, EndKept, Closed, Phases
<1>7. CASE KillAll
  <2>1. /\ phase = "closed" /\ phase' = "killed" /\ UNCHANGED task
    BY <1>7 DEF KillAll
  <2>2. /\ EndKept /\ (StartsInv /\ ShownInv => LeftInv')
        /\ \A t \in Callers : At(t, "idle")'
    BY <1>1, <1>2, <1>7, <2>1, KillAllEnds DEF At, Closed
  <2> QED
    BY <1>1, <1>3, <2>1, <2>2 DEF ShutdownInv, EndKept, Closed, Phases
<1>8. CASE Join \/ DropResources \/ Abort
  <2>1. /\ phase \notin {"open", "closed"} /\ phase' \in Phases \ {"open", "closed"}
        /\ UNCHANGED <<task, unkilled, late>>
    BY <1>8 DEF Join, DropResources, Abort, Phases, vars
  <2>2. EndKept
    BY <1>2, <1>8, DropResourcesEnds, TableRests DEF Join, Abort
  <2>3. Closed /\ Closed' /\ \A t \in Callers : At(t, "idle") /\ At(t, "idle")'
    BY <1>1, <2>1 DEF Closed, At
  <2> QED
    BY <1>1, <1>3, <2>1, <2>2, <2>3 DEF ShutdownInv, EndKept
<1>9. CASE UNCHANGED svars
  BY <1>4, <1>5, <1>9 DEF svars
<1> QED
  BY <1>4, <1>5, <1>6, <1>7, <1>8, <1>9 DEF ShutdownNext, ShutdownStep

\* A session begins with nothing open.
LEMMA ShutdownStart ==
    ASSUME ShutdownInit
    PROVE  ShutdownInv
<1>1. /\ Init /\ phase = "open" /\ JobTableInv
  BY JobTableStart DEF ShutdownInit
<1>2. /\ \A x \in Tasks : At(x, "idle")
      /\ \A c \in Commands : command[c].state = "none"
  BY <1>1 DEF Init, Idle, NoCommand, At
<1>3. OwnRows /\ ShownInv
  BY <1>2, TaskKinds DEF OwnRows, ShownInv, AliveCommands, Starts, At
<1> QED
  BY <1>1, <1>3, OpenStarts DEF ShutdownInv, Phases, Closed

\* When shutdown has returned nothing of the session runs but what it says it
\* could not kill and the commands of launches that were under way during the
\* kills, in a session that has not excused every job.  It excuses them all at
\* once where the row that a build or a failed spawn acts on is by then another
\* job's: a failed spawn removes it, and that job's command goes unkilled.
THEOREM NothingIsLeft == ShutdownSpec => [](Sound => NothingLeftRunning)
<1>1. ShutdownInit => ShutdownInv
  BY ShutdownStart
<1>2. ShutdownInv /\ [ShutdownNext]_svars => ShutdownInv'
  BY ShutdownKeeps
<1>3. ShutdownInv => (Sound => NothingLeftRunning)
  BY DEF ShutdownInv, LeftInv, NothingLeftRunning
<1> QED
  BY <1>1, <1>2, <1>3, PTL DEF ShutdownSpec
=============================================================================
