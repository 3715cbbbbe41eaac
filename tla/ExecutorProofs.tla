--------------------------- MODULE ExecutorProofs ---------------------------
(***************************************************************************)
(* Proofs about marsh-exec: who owns a seed and which processes are left   *)
(* over, for every number of sessions, jobs and processes; and what the    *)
(* log of a command holds, for every number of threads and every length.   *)
(*                                                                         *)
(* Two sessions never hold the lock's file together, children that have    *)
(* not executed yet included.  A traced process runs only under a tracer   *)
(* that has its markers, so that a scan that found no marker leaves no     *)
(* process running: what it passed cannot start a marked one behind it.    *)
(*                                                                         *)
(* The log, cut wherever the run is looked at, decodes to each call that   *)
(* returned, once, at its entry's stamp, with the calls in flight pending; *)
(* the stamps of a thread grow; its git spans are apart.  What is made of  *)
(* that is in TraceProofs.                                                 *)
(***************************************************************************)
EXTENDS Session, Trace, TLAPS, WellFoundedInduction, FiniteSetTheorems, SequenceTheorems


\* The lock is with one session, from the lease to the last child's exec.
LockInv ==
    /\ \A s \in Sessions : Past(s) => files[s]
    /\ \A s, r \in Sessions : s # r => ~(Held(s) /\ Held(r))

\* A session has no process and no job before it is open.
NothingYet ==
    \A s \in Sessions : marsh[s] \in {"off", "leased", "built", "sweeping"} =>
        /\ \A n \in Pids : proc[n].session # s
        /\ \A j \in Jobs : job[s][j] = "idle"

Starting == {"forked", "armed", "checked"}

\* What is traced runs only under a tracer of its job, which is marked from
\* its exec on and takes the traced with it.
Traced(n) ==
    /\ proc[n].st # "free" => proc[n].session \in Sessions /\ proc[n].job \in Jobs
    /\ proc[n].st \in Starting => proc[n].tracer = 0 /\ ~proc[n].marked
    /\ proc[n].st = "live" /\ proc[n].tracer = 0 => proc[n].marked
    /\ proc[n].st = "live" /\ proc[n].tracer # 0 =>
          LET t == proc[n].tracer
          IN  /\ proc[t].st \in {"live", "doomed"} /\ proc[t].marked
              /\ proc[t].tracer = 0
              /\ proc[t].session = proc[n].session /\ proc[t].job = proc[n].job

\* The scan under way is the one the session, or the job, is waiting for.
SweepInv ==
    \A s \in Sessions :
        /\ marsh[s] = "sweeping" <=> sweep[s].of = "all"
        /\ sweep[s].of = "none" => sweep[s].at = FirstPid
        /\ sweep[s].of \in Jobs => marsh[s] = "open" /\ job[s][sweep[s].of] = "sweeping"

Found(n) == proc[n].marked /\ proc[n].st \in {"live", "doomed"}

\* A scan that has found nothing so far has left nothing behind it.
Scanned ==
    \A s \in Sessions, n \in Pids :
        n < sweep[s].at /\ sweep[s].hits = {} /\ Found(n) =>
            /\ sweep[s].of # "all"
            /\ sweep[s].of = proc[n].job => proc[n].session # s

\* A job nothing is left of but what was killed; a running one may have such
\* leftovers of the command before.
JobsInv ==
    \A s \in Sessions, j \in Jobs : marsh[s] = "open" =>
        \A n \in Of(s, j) :
            /\ job[s][j] \in {"idle", "sweeping"} /\ Alive(n) => proc[n].st = "doomed"
            /\ job[s][j] \in {"idle", "running"} /\ n \notin loose
                 /\ proc[n].st = "doomed" => ~proc[n].marked

LooseInv ==
    \A n \in loose : proc[n].st \in {"doomed", "gone"} /\ proc[n].tracer # 0

SessionInv ==
    /\ TypeOK
    /\ LockInv
    /\ NothingYet
    /\ \A n \in Pids : Traced(n)
    /\ SweepInv
    /\ Scanned
    /\ NoStragglers
    /\ JobsInv
    /\ LooseInv

-----------------------------------------------------------------------------
(* What the steps do to the processes.                                     *)

\* The processes as records.
Processes == [st : Stages, session : Sessions \union {None}, job : Jobs \union {None},
              tracer : 0..MaxPid, marked : BOOLEAN, grouped : BOOLEAN]

\* Process m is the one it was, but for its stage, ...
Same(m) ==
    /\ proc'[m].session = proc[m].session
    /\ proc'[m].job = proc[m].job
    /\ proc'[m].tracer = proc[m].tracer
    /\ proc'[m].marked = proc[m].marked
    /\ proc'[m].grouped = proc[m].grouped

\* ... and some of those that are alive are doomed.
Dooms(D) ==
    \A m \in Pids :
        /\ Same(m)
        /\ proc'[m].st = IF m \in D /\ Alive(m) THEN "doomed" ELSE proc[m].st

\* Doomed changes stages only.
LEMMA DoomedDooms ==
    ASSUME TypeOK, NEW D, proc' = Doomed(D)
    PROVE  Dooms(D) /\ proc' \in [Pids -> Processes]
<1>1. ASSUME NEW m \in Pids
      PROVE  /\ proc'[m] = IF m \in D /\ Alive(m) THEN [proc[m] EXCEPT !.st = "doomed"]
                           ELSE proc[m]
             /\ proc[m] \in Processes
  BY DEF Doomed, TypeOK, Processes
<1>2. ASSUME NEW m \in Pids
      PROVE  /\ Same(m)
             /\ proc'[m].st = IF m \in D /\ Alive(m) THEN "doomed" ELSE proc[m].st
             /\ proc'[m] \in Processes
  BY <1>1 DEF Processes, Same, Stages
<1>3. proc' = [m \in Pids |-> IF m \in D /\ Alive(m) THEN [proc[m] EXCEPT !.st = "doomed"]
                              ELSE proc[m]]
  BY DEF Doomed
<1> QED
  BY <1>2, <1>3 DEF Dooms

\* One process moves to another stage, and is marked when it executes.
Moves(n, st) ==
    /\ \A m \in Pids \ {n} : proc'[m] = proc[m]
    /\ proc'[n].session = proc[n].session
    /\ proc'[n].job = proc[n].job
    /\ proc'[n].tracer = proc[n].tracer
    /\ proc'[n].st = st

\* The stages of child_setup, an exec and an exit are such moves.
LEMMA MoveTyped ==
    ASSUME TypeOK, NEW n \in Pids, NEW st \in Stages
    PROVE  /\ proc' = [proc EXCEPT ![n].st = st] =>
                Moves(n, st) /\ Same(n) /\ proc' \in [Pids -> Processes]
           /\ proc' = [proc EXCEPT ![n].st = st, ![n].marked = TRUE] =>
                Moves(n, st) /\ proc'[n].marked /\ proc' \in [Pids -> Processes]
<1>1. proc \in [Pids -> Processes]
  BY DEF TypeOK, Processes
<1> QED
  BY <1>1 DEF Moves, Same, Processes

\* Process m is started, as a tracer or by process n.
Starts(m) ==
    /\ m \in Pids /\ m = last + 1 /\ last' = m
    /\ \A i \in Pids \ {m} : proc'[i] = proc[i]
    /\ proc[m].st = "free"
    /\ proc' \in [Pids -> Processes]

\* What each command's steps do to the processes.
LEMMA ForkStarts ==
    ASSUME TypeOK, NEW s \in Sessions, NEW j \in Jobs, Fork(s, j)
    PROVE  /\ Starts(last + 1)
           /\ proc'[last + 1].st = "forked"
           /\ proc'[last + 1].session = s /\ proc'[last + 1].job = j
           /\ proc'[last + 1].tracer = 0 /\ ~proc'[last + 1].marked
<1>1. last + 1 \in Pids /\ last' = last + 1 /\ last + 1 > last
  BY MaxPidAssumption DEF Fork, TypeOK, Pids
<1>2. [st |-> "forked", session |-> s, job |-> j, tracer |-> 0,
       marked |-> FALSE, grouped |-> TRUE] \in Processes
  BY MaxPidAssumption DEF Processes, Stages
<1>3. Starts(last + 1)
  BY <1>1, <1>2 DEF Starts, Fork, TypeOK, Processes
<1>4. proc'[last + 1] = [st |-> "forked", session |-> s, job |-> j, tracer |-> 0,
                         marked |-> FALSE, grouped |-> TRUE]
  BY <1>1 DEF Fork, TypeOK
<1> QED
  BY <1>3, <1>4

\* A process starts one of its own job, under its own tracer or itself.
LEMMA SpawnStarts ==
    ASSUME TypeOK, NEW n \in Pids, Spawn(n)
    PROVE  LET m == last + 1
           IN  /\ Starts(m) /\ n < m /\ proc[n].st = "live" /\ proc'[m].st = "live"
               /\ proc'[m].session = proc[n].session /\ proc'[m].job = proc[n].job
               /\ proc'[m].tracer = IF proc[n].tracer = 0 THEN n ELSE proc[n].tracer
               /\ proc'[m].marked => proc[n].marked
<1> DEFINE m == last + 1
<1>1. m \in Pids /\ last' = m /\ m > last /\ n <= last /\ n < m /\ proc[n].st = "live"
  <2>1. proc[n].st = "live" /\ last < MaxPid /\ last' = last + 1
    BY DEF Spawn
  <2>2. last \in 0..MaxPid /\ ((n > last) = (proc[n].st = "free"))
    BY DEF TypeOK
  <2> QED
    BY <2>1, <2>2, MaxPidAssumption DEF Pids
<1>2. PICK marked \in {proc[n].marked, FALSE}, grouped \in {proc[n].grouped, FALSE} :
         proc' = [proc EXCEPT ![m] =
                     [proc[n] EXCEPT !.marked = marked, !.grouped = grouped,
                                     !.tracer = IF IsTracer(n) THEN n ELSE @]]
  BY <1>1 DEF Spawn
<1>3. proc \in [Pids -> Processes]
  BY DEF TypeOK, Processes
<1>4. proc[n] \in Processes
  BY <1>3
<1>5. /\ proc'[m] = [proc[n] EXCEPT !.marked = marked, !.grouped = grouped,
                                    !.tracer = IF IsTracer(n) THEN n ELSE proc[n].tracer]
      /\ \A i \in Pids \ {m} : proc'[i] = proc[i]
  BY <1>1, <1>2, <1>3
<1>6. /\ marked \in BOOLEAN /\ grouped \in BOOLEAN
      /\ n \in 0..MaxPid
  <2>1. proc[n].marked \in BOOLEAN /\ proc[n].grouped \in BOOLEAN
    BY <1>4 DEF Processes
  <2>2. marked \in {proc[n].marked, FALSE} /\ grouped \in {proc[n].grouped, FALSE}
    BY <1>2
  <2>3. marked \in BOOLEAN /\ grouped \in BOOLEAN
    BY <2>1, <2>2, ZenonT(60)
  <2> QED
    BY <2>3, MaxPidAssumption DEF Pids
<1>7. proc'[m] \in Processes
  <2>1. PICK t \in 0..MaxPid :
           proc'[m] = [proc[n] EXCEPT !.marked = marked, !.grouped = grouped, !.tracer = t]
    <3>1. (IF IsTracer(n) THEN n ELSE proc[n].tracer) \in 0..MaxPid
      BY <1>4, <1>6 DEF Processes
    <3> QED
      BY <1>5, <3>1
  <2> QED
    BY <1>4, <1>6, <2>1 DEF Processes
<1>8. proc' \in [Pids -> Processes]
  BY <1>1, <1>2, <1>3, <1>5, <1>7
<1>9. proc[m].st = "free"
  BY <1>1 DEF TypeOK
<1>10. /\ proc'[m].st = "live" /\ proc'[m].session = proc[n].session
       /\ proc'[m].job = proc[n].job
       /\ proc'[m].tracer = IF proc[n].tracer = 0 THEN n ELSE proc[n].tracer
       /\ proc'[m].marked => proc[n].marked
  BY <1>1, <1>4, <1>5 DEF Processes, IsTracer
<1> QED
  BY <1>1, <1>5, <1>8, <1>9, <1>10 DEF Starts

\* A process that dies dooms its tracees.
LEMMA DieDooms ==
    ASSUME TypeOK, NEW n \in Pids, Die(n)
    PROVE  /\ proc[n].st = "doomed" /\ proc'[n].st = "gone"
           /\ \A m \in Pids :
                 /\ Same(m)
                 /\ m # n => proc'[m].st = IF proc[m].tracer = n /\ proc[m].st = "live"
                                           THEN "doomed" ELSE proc[m].st
           /\ proc' \in [Pids -> Processes]
<1> DEFINE p == Doomed(Tracees(n))
<1>1. ASSUME NEW m \in Pids
      PROVE  /\ p[m] = IF proc[m].tracer = n /\ proc[m].st = "live"
                       THEN [proc[m] EXCEPT !.st = "doomed"] ELSE proc[m]
             /\ proc[m] \in Processes
  <2>1. proc[m] \in Processes
    BY DEF TypeOK, Processes
  <2>2. (m \in Tracees(n) /\ Alive(m)) <=> (proc[m].tracer = n /\ proc[m].st = "live")
    BY DEF Tracees, Alive
  <2>3. p[m] = IF m \in Tracees(n) /\ Alive(m) THEN [proc[m] EXCEPT !.st = "doomed"]
               ELSE proc[m]
    BY DEF Doomed
  <2> QED
    BY <2>1, <2>2, <2>3
<1>2. p \in [Pids -> Processes]
  <2>1. p = [m \in Pids |-> IF m \in Tracees(n) /\ Alive(m)
                            THEN [proc[m] EXCEPT !.st = "doomed"] ELSE proc[m]]
    BY DEF Doomed
  <2>2. \A m \in Pids : p[m] \in Processes
    BY <1>1, ZenonT(60) DEF Processes, Stages
  <2> QED
    BY <2>1, <2>2
<1>3. proc' = [p EXCEPT ![n].st = "gone"] /\ proc[n].st = "doomed"
  BY DEF Die, KilledWith
<1> HIDE DEF p
<1>4. /\ \A m \in Pids \ {n} : proc'[m] = p[m]
      /\ proc'[n] = [p[n] EXCEPT !.st = "gone"]
  BY <1>2, <1>3
<1>5. proc' \in [Pids -> Processes]
  BY <1>2, <1>3 DEF Processes, Stages
<1> QED
  BY <1>1, <1>3, <1>4, <1>5 DEF Same, Processes

\* The scans a session can be at.
Scans == [of : {"none", "all"} \union Jobs, at : 1..(MaxPid + 1), hits : SUBSET Pids]

\* A scan that goes on is one still.
LEMMA ScanTyped ==
    ASSUME NEW x \in Scans, NEW a \in 1..(MaxPid + 1), NEW h \in SUBSET Pids
    PROVE  [x EXCEPT !.at = a, !.hits = h] \in Scans /\ [x EXCEPT !.at = a] \in Scans
BY DEF Scans

\* The end of a scan starts another, opens the session or lets the job go on.
LEMMA EndScanCases ==
    ASSUME NEW s \in Sessions, EndScan(s)
    PROVE  /\ sweep[s].of # "none" /\ sweep[s].at > MaxPid
           /\ UNCHANGED <<files, proc, last, loose>>
           /\ \/ /\ sweep[s].hits # {}
                 /\ \A n \in sweep[s].hits : proc[n].st = "gone"
                 /\ sweep' = [sweep EXCEPT ![s] = [NoSweep EXCEPT !.of = sweep[s].of]]
                 /\ UNCHANGED <<marsh, job>>
              \/ /\ sweep[s].hits = {} /\ sweep[s].of = "all"
                 /\ sweep' = [sweep EXCEPT ![s] = NoSweep]
                 /\ marsh' = [marsh EXCEPT ![s] = "open"] /\ job' = job
              \/ /\ sweep[s].hits = {} /\ sweep[s].of # "all"
                 /\ sweep' = [sweep EXCEPT ![s] = NoSweep]
                 /\ job' = [job EXCEPT ![s][sweep[s].of] = "idle"] /\ marsh' = marsh
BY DEF EndScan, Again, ScanFound, SweptAll, SweptJob

\* A deadline closes the session, or leaves the job its tree.
LEMMA TimeoutCases ==
    ASSUME NEW s \in Sessions, SweepTimesOut(s)
    PROVE  /\ sweep[s].of # "none"
           /\ UNCHANGED <<files, proc, last, loose>>
           /\ sweep' = [sweep EXCEPT ![s] = NoSweep]
           /\ \/ /\ sweep[s].of = "all"
                 /\ marsh' = [marsh EXCEPT ![s] = "dead"] /\ job' = job
              \/ /\ sweep[s].of # "all"
                 /\ job' = [job EXCEPT ![s][sweep[s].of] = "kept"] /\ marsh' = marsh
BY DEF SweepTimesOut

\* A visit dooms what belongs to the scan and remembers it, or passes on.
LEMMA VisitCases ==
    ASSUME TypeOK, NEW s \in Sessions, Visit(s)
    PROVE  LET n == sweep[s].at
           IN  /\ n \in Pids /\ n + 1 \in 1..(MaxPid + 1) /\ sweep[s].of # "none"
               /\ UNCHANGED <<marsh, files, job, last, loose>>
               /\ \/ /\ Belongs(s, n) /\ proc' = Doomed({n})
                     /\ sweep' = [sweep EXCEPT ![s] = [sweep[s] EXCEPT !.at = n + 1,
                                                !.hits = sweep[s].hits \union {n}]]
                  \/ /\ ~Belongs(s, n) /\ proc' = proc
                     /\ sweep' = [sweep EXCEPT ![s] = [sweep[s] EXCEPT !.at = n + 1]]
<1>1. sweep[s] \in Scans
  BY DEF TypeOK, Scans
<1>2. sweep[s].at \in 1..(MaxPid + 1) /\ sweep[s].at <= MaxPid
  BY <1>1 DEF Scans, Visit
<1>3. sweep[s].at \in Pids /\ sweep[s].at + 1 \in 1..(MaxPid + 1)
  BY <1>2, MaxPidAssumption DEF Pids
<1> QED
  BY <1>3 DEF Visit

\* The scan moves on by one number and goes on being the same one.
LEMMA VisitScans ==
    ASSUME TypeOK, NEW s \in Sessions, Visit(s)
    PROVE  LET n == sweep[s].at
           IN  /\ \A q \in Sessions \ {s} : sweep'[q] = sweep[q]
               /\ sweep'[s].of = sweep[s].of /\ sweep'[s].at = n + 1
               /\ \/ Belongs(s, n) /\ sweep'[s].hits = sweep[s].hits \union {n}
                  \/ ~Belongs(s, n) /\ sweep'[s].hits = sweep[s].hits
<1> DEFINE n == sweep[s].at
           x == [sweep[s] EXCEPT !.at = n + 1, !.hits = sweep[s].hits \union {n}]
           y == [sweep[s] EXCEPT !.at = n + 1]
<1>1. sweep[s] \in Scans /\ DOMAIN sweep = Sessions /\ sweep = [q \in Sessions |-> sweep[q]]
  BY DEF TypeOK, Scans
<1>2. /\ x.of = sweep[s].of /\ x.at = n + 1 /\ x.hits = sweep[s].hits \union {n}
      /\ y.of = sweep[s].of /\ y.at = n + 1 /\ y.hits = sweep[s].hits
  BY <1>1 DEF Scans
<1>3. \/ Belongs(s, n) /\ sweep' = [sweep EXCEPT ![s] = x]
      \/ ~Belongs(s, n) /\ sweep' = [sweep EXCEPT ![s] = y]
  BY VisitCases
<1> HIDE DEF x, y
<1>4. /\ \A q \in Sessions \ {s} : sweep'[q] = sweep[q]
      /\ \/ Belongs(s, n) /\ sweep'[s] = x
         \/ ~Belongs(s, n) /\ sweep'[s] = y
  BY <1>1, <1>3
<1> QED
  BY <1>2, <1>4

\* The stages, the processes and the scans stay typed (TypeOK).
LEMMA SessionTyping ==
    ASSUME TypeOK, [Next]_vars
    PROVE  TypeOK'
<1>1. /\ proc \in [Pids -> Processes] /\ last \in 0..MaxPid /\ loose \subseteq Pids
      /\ FirstPid \in 1..(MaxPid + 1)
      /\ \A n \in Pids : (n > last) = (proc[n].st = "free")
  BY MaxPidAssumption DEF TypeOK, Processes, FirstPid
<1>2. \A x \in {"none", "all"} \union Jobs :
         [NoSweep EXCEPT !.of = x] \in
            [of : {"none", "all"} \union Jobs, at : 1..(MaxPid + 1), hits : SUBSET Pids]
  BY <1>1 DEF NoSweep
<1>3. NoSweep \in
         [of : {"none", "all"} \union Jobs, at : 1..(MaxPid + 1), hits : SUBSET Pids]
  BY <1>1 DEF NoSweep
<1>4. ASSUME UNCHANGED <<proc, last>> PROVE
         /\ proc' \in [Pids -> Processes] /\ last' \in 0..MaxPid
         /\ \A n \in Pids : (n > last') = (proc'[n].st = "free")
  BY <1>1, <1>4
<1>5. ASSUME NEW D, proc' = Doomed(D), UNCHANGED last PROVE
         /\ proc' \in [Pids -> Processes] /\ last' \in 0..MaxPid
         /\ \A n \in Pids : (n > last') = (proc'[n].st = "free")
  BY <1>1, <1>5, DoomedDooms DEF Dooms, Alive
<1>6. ASSUME NEW n \in Pids, NEW st \in Stages \ {"free"}, Moves(n, st),
             proc' \in [Pids -> Processes], UNCHANGED last, proc[n].st # "free" PROVE
         /\ proc' \in [Pids -> Processes] /\ last' \in 0..MaxPid
         /\ \A m \in Pids : (m > last') = (proc'[m].st = "free")
  BY <1>1, <1>6 DEF Moves
<1>7. ASSUME NEW m, Starts(m), proc'[m].st # "free" PROVE
         /\ proc' \in [Pids -> Processes] /\ last' \in 0..MaxPid
         /\ \A n \in Pids : (n > last') = (proc'[n].st = "free")
  BY <1>1, <1>7, MaxPidAssumption DEF Starts, Pids
<1>8. ASSUME NEW s \in Sessions, Acquire(s)
      PROVE  TypeOK'
  BY <1>8 DEF Acquire, TypeOK
<1>9. ASSUME NEW s \in Sessions, Build(s)
      PROVE  TypeOK'
  BY <1>9 DEF Build, TypeOK
<1>10. ASSUME NEW s \in Sessions, Materialize(s)
      PROVE  TypeOK'
  BY <1>2, <1>10 DEF Materialize, TypeOK
<1>11. ASSUME NEW s \in Sessions, Crash(s)
      PROVE  TypeOK'
  BY <1>3, <1>11 DEF Crash, TypeOK
<1>12. ASSUME NEW s \in Sessions, CloseFiles(s)
      PROVE  TypeOK'
  BY <1>12 DEF CloseFiles, TypeOK
<1>13. ASSUME NEW s \in Sessions, EndThreads(s)
       PROVE  TypeOK'
  <2>1. UNCHANGED <<files, job, last, sweep, loose>> /\ marsh' = [marsh EXCEPT ![s] = "dead"]
    BY <1>13 DEF EndThreads
  <2>2. \E D : proc' = Doomed(D)
    BY <1>13 DEF EndThreads
  <2> QED
    BY <1>5, <2>1, <2>2 DEF Processes, TypeOK
<1>14. ASSUME NEW n \in Pids, Die(n)
       PROVE  TypeOK'
  <2>1. UNCHANGED <<marsh, files, job, last, sweep, loose>>
    BY <1>14 DEF Die
  <2>2. /\ \A m \in Pids : proc'[m].st = "free" <=> proc[m].st = "free"
        /\ proc' \in [Pids -> Processes]
    BY <1>14, DieDooms
  <2> QED
    BY <1>1, <2>1, <2>2 DEF Processes, TypeOK
<1>15. ASSUME NEW s \in Sessions, NEW j \in Jobs, Fork(s, j)
       PROVE  TypeOK'
  <2>1. UNCHANGED <<marsh, files, sweep, loose>> /\ job' = [job EXCEPT ![s][j] = "running"]
    BY <1>15 DEF Fork
  <2>2. Starts(last + 1) /\ proc'[last + 1].st # "free"
    BY <1>15, ForkStarts
  <2> QED
    BY <1>7, <2>1, <2>2 DEF Processes, TypeOK
<1>16. ASSUME NEW n \in Pids, Spawn(n)
       PROVE  TypeOK'
  <2>1. UNCHANGED <<marsh, files, job, sweep, loose>>
    BY <1>16 DEF Spawn
  <2>2. Starts(last + 1) /\ proc'[last + 1].st # "free"
    BY <1>16, SpawnStarts
  <2> QED
    BY <1>7, <2>1, <2>2 DEF Processes, TypeOK
<1>17. ASSUME NEW n \in Pids, Arm(n) \/ CheckParent(n) \/ Exec(n) \/ Exit(n)
       PROVE  TypeOK'
  <2>1. UNCHANGED <<marsh, files, job, last, sweep, loose>> /\ proc[n].st # "free"
    BY <1>17 DEF Arm, CheckParent, Exec, Exit
  <2>2. \E st \in Stages \ {"free"} :
           \/ proc' = [proc EXCEPT ![n].st = st]
           \/ proc' = [proc EXCEPT ![n].st = st, ![n].marked = TRUE]
    BY <1>17 DEF Arm, CheckParent, Exec, Exit, Stages
  <2>3. PICK st \in Stages \ {"free"} : Moves(n, st) /\ proc' \in [Pids -> Processes]
    BY <2>2, MoveTyped
  <2> QED
    BY <1>6, <2>1, <2>3 DEF Processes, TypeOK
<1>18. ASSUME NEW s \in Sessions, NEW j \in Jobs, Conclude(s, j)
       PROVE  TypeOK'
  BY <1>18 DEF Conclude, TypeOK
<1>19. ASSUME NEW s \in Sessions, NEW j \in Jobs, ForceStop(s, j)
       PROVE  TypeOK'
  <2>1. /\ UNCHANGED <<marsh, files, last, sweep, loose>>
        /\ job' = [job EXCEPT ![s][j] = "killed"] /\ proc' = Doomed(Group(s, j))
    BY <1>19 DEF ForceStop
  <2> QED
    BY <1>5, <2>1 DEF Processes, TypeOK
<1>20. ASSUME NEW s \in Sessions, NEW j \in Jobs, KillGroup(s, j)
       PROVE  TypeOK'
  <2>1. /\ UNCHANGED <<marsh, files, last, sweep, loose>>
        /\ job' = [job EXCEPT ![s][j] = "reaping"] /\ proc' = Doomed(Group(s, j))
    BY <1>20 DEF KillGroup
  <2> QED
    BY <1>5, <2>1 DEF Processes, TypeOK
<1>21. ASSUME NEW s \in Sessions, NEW j \in Jobs, SweepOwner(s, j)
       PROVE  TypeOK'
  BY <1>2, <1>21 DEF SweepOwner, TypeOK
<1>22. ASSUME NEW s \in Sessions, NEW j \in Jobs, Reap(s, j)
       PROVE  TypeOK'
  BY <1>22 DEF Reap, Of, TypeOK
<1>23. ASSUME NEW s \in Sessions, Visit(s)
       PROVE  TypeOK'
  <2> DEFINE n == sweep[s].at
  <2>1. /\ n \in Pids /\ n + 1 \in 1..(MaxPid + 1)
        /\ UNCHANGED <<marsh, files, job, last, loose>>
        /\ \E D : proc' = Doomed(D) \/ proc' = proc
        /\ \/ sweep' = [sweep EXCEPT ![s] = [sweep[s] EXCEPT !.at = n + 1,
                                             !.hits = sweep[s].hits \union {n}]]
           \/ sweep' = [sweep EXCEPT ![s] = [sweep[s] EXCEPT !.at = n + 1]]
    BY <1>23, VisitCases DEF TypeOK
  <2>2. sweep[s] \in Scans /\ sweep[s].hits \union {n} \in SUBSET Pids
    BY <2>1 DEF TypeOK, Scans
  <2>3. \E x \in Scans : sweep' = [sweep EXCEPT ![s] = x]
    BY <2>1, <2>2, ScanTyped
  <2> QED
    BY <1>4, <1>5, <2>1, <2>3 DEF Processes, TypeOK, Scans
<1>24. ASSUME NEW s \in Sessions, EndScan(s)
       PROVE  TypeOK'
  <2>1. sweep[s].of \in {"none", "all"} \union Jobs
    BY DEF TypeOK
  <2>2. UNCHANGED <<files, proc, last, loose>>
    BY <1>24, EndScanCases
  <2>3. \E x \in Scans : sweep' = [sweep EXCEPT ![s] = x]
    BY <1>2, <1>3, <1>24, <2>1, EndScanCases DEF Scans
  <2>4. /\ marsh' = marsh \/ marsh' = [marsh EXCEPT ![s] = "open"]
        /\ \/ job' = job
           \/ sweep[s].of \in Jobs /\ job' = [job EXCEPT ![s][sweep[s].of] = "idle"]
    BY <1>24, <2>1, EndScanCases
  <2>5. /\ marsh' \in [Sessions -> {"off", "leased", "built", "sweeping", "open", "dying", "dead"}]
        /\ job' \in [Sessions -> [Jobs -> {"idle", "running", "reaping", "killed", "sweeping", "kept"}]]
    <3>1. job \in [Sessions -> [Jobs -> {"idle", "running", "reaping", "killed", "sweeping", "kept"}]]
      BY DEF TypeOK
    <3>2. ASSUME NEW j \in Jobs, job' = [job EXCEPT ![s][j] = "idle"]
          PROVE  job' \in [Sessions -> [Jobs -> {"idle", "running", "reaping", "killed", "sweeping", "kept"}]]
      BY <3>1, <3>2
    <3>3. marsh' \in [Sessions -> {"off", "leased", "built", "sweeping", "open", "dying", "dead"}]
      BY <2>4 DEF TypeOK
    <3> QED
      BY <2>4, <3>1, <3>2, <3>3
  <2>6. sweep' \in [Sessions -> Scans]
    BY <1>3, <2>3 DEF TypeOK, Scans
  <2> QED
    BY <1>4, <2>2, <2>5, <2>6 DEF Processes, TypeOK, Scans
<1>25. ASSUME NEW s \in Sessions, SweepTimesOut(s)
       PROVE  TypeOK'
  <2>1. sweep[s].of \in {"none", "all"} \union Jobs
    BY DEF TypeOK
  <2>2. UNCHANGED <<files, proc, last, loose>> /\ sweep' = [sweep EXCEPT ![s] = NoSweep]
    BY <1>25, TimeoutCases
  <2>3. /\ marsh' = marsh \/ marsh' = [marsh EXCEPT ![s] = "dead"]
        /\ \/ job' = job
           \/ sweep[s].of \in Jobs /\ job' = [job EXCEPT ![s][sweep[s].of] = "kept"]
    BY <1>25, <2>1, TimeoutCases
  <2>5. /\ marsh' \in [Sessions -> {"off", "leased", "built", "sweeping", "open", "dying", "dead"}]
        /\ job' \in [Sessions -> [Jobs -> {"idle", "running", "reaping", "killed", "sweeping", "kept"}]]
    <3>1. job \in [Sessions -> [Jobs -> {"idle", "running", "reaping", "killed", "sweeping", "kept"}]]
      BY DEF TypeOK
    <3>2. ASSUME NEW j \in Jobs, job' = [job EXCEPT ![s][j] = "kept"]
          PROVE  job' \in [Sessions -> [Jobs -> {"idle", "running", "reaping", "killed", "sweeping", "kept"}]]
      BY <3>1, <3>2
    <3>3. marsh' \in [Sessions -> {"off", "leased", "built", "sweeping", "open", "dying", "dead"}]
      BY <2>3 DEF TypeOK
    <3> QED
      BY <2>3, <3>1, <3>2, <3>3
  <2>6. sweep' \in [Sessions -> Scans]
    BY <1>3, <2>2 DEF TypeOK, Scans
  <2> QED
    BY <1>4, <2>2, <2>5, <2>6 DEF Processes, TypeOK, Scans
<1>26. CASE UNCHANGED vars
  BY <1>26 DEF vars, TypeOK
<1> QED
  BY <1>8, <1>9, <1>10, <1>11, <1>12, <1>13, <1>14, <1>15, <1>16, <1>17, <1>18, <1>19,
     <1>20, <1>21, <1>22, <1>23, <1>24, <1>25, <1>26 DEF Next, Kernel

\* The steps of one process that is there already.
LEMMA ShiftMoves ==
    ASSUME TypeOK, NEW n \in Pids
    PROVE  /\ Arm(n) => Moves(n, "armed") /\ Same(n) /\ proc[n].st = "forked"
           /\ CheckParent(n) => /\ Moves(n, "checked") \/ Moves(n, "gone")
                                /\ Same(n) /\ proc[n].st = "armed"
           /\ Exec(n) => Moves(n, "live") /\ proc'[n].marked /\ proc[n].st = "checked"
           /\ Exit(n) => Moves(n, "gone") /\ Same(n) /\ proc[n].st = "live"
<1>1. {"armed", "checked", "live", "gone"} \subseteq Stages
  BY DEF Stages
<1>2. Arm(n) => Moves(n, "armed") /\ Same(n) /\ proc[n].st = "forked"
  BY <1>1, MoveTyped DEF Arm
<1>3. CheckParent(n) => /\ Moves(n, "checked") \/ Moves(n, "gone")
                        /\ Same(n) /\ proc[n].st = "armed"
  <2>1. CASE CheckParent(n) /\ ParentCheck(n)
    BY <1>1, <2>1, MoveTyped DEF CheckParent
  <2>2. CASE CheckParent(n) /\ ~ParentCheck(n)
    BY <1>1, <2>2, MoveTyped DEF CheckParent
  <2> QED
    BY <2>1, <2>2
<1>4. Exec(n) => Moves(n, "live") /\ proc'[n].marked /\ proc[n].st = "checked"
  BY <1>1, MoveTyped DEF Exec
<1>5. Exit(n) => Moves(n, "gone") /\ Same(n) /\ proc[n].st = "live"
  BY <1>1, MoveTyped DEF Exit
<1> QED
  BY <1>2, <1>3, <1>4, <1>5

\* All the ways a step can change the processes.
LEMMA ProcKinds ==
    ASSUME TypeOK, [Next]_vars
    PROVE  \/ proc' = proc
           \/ \E D : proc' = Doomed(D)
           \/ \E n \in Pids : \/ Die(n) \/ Arm(n) \/ CheckParent(n) \/ Exec(n)
                              \/ Exit(n) \/ Spawn(n)
           \/ \E s \in Sessions, j \in Jobs : Fork(s, j)
<1>1. ASSUME NEW s \in Sessions, Visit(s) \/ EndThreads(s) \/
                \E j \in Jobs : ForceStop(s, j) \/ KillGroup(s, j)
      PROVE  proc' = proc \/ \E D : proc' = Doomed(D)
  BY <1>1 DEF Visit, EndThreads, ForceStop, KillGroup
<1>2. ASSUME NEW s \in Sessions, EndScan(s) \/ SweepTimesOut(s)
      PROVE  proc' = proc
  BY <1>2, EndScanCases, TimeoutCases
<1> QED
  BY <1>1, <1>2 DEF Next, Kernel, vars, Acquire, Build, Materialize, Crash, CloseFiles,
     Conclude, SweepOwner, Reap

-----------------------------------------------------------------------------
(* The lock.                                                               *)

\* A child that has not executed was one before the step, of the same
\* session, or is being forked.
LEMMA StartingOrigin ==
    ASSUME TypeOK, [Next]_vars, NEW n \in Pids, proc'[n].st \in Starting
    PROVE  \/ proc[n].st \in Starting /\ Same(n)
           \/ \E s \in Sessions, j \in Jobs : Fork(s, j) /\ proc'[n].session = s
<1> USE DEF Starting
<1>1. CASE proc' = proc
  BY <1>1 DEF Same
<1>2. ASSUME NEW D, proc' = Doomed(D)
      PROVE  proc[n].st \in Starting /\ Same(n)
  BY <1>2, DoomedDooms DEF Dooms
<1>3. ASSUME NEW m \in Pids, Die(m)
      PROVE  proc[n].st \in Starting /\ Same(n)
  BY <1>3, DieDooms
<1>4. ASSUME NEW m \in Pids, Spawn(m)
      PROVE  proc[n].st \in Starting /\ Same(n)
  BY <1>4, SpawnStarts DEF Starts, Same
<1>5. ASSUME NEW m \in Pids, Arm(m) \/ CheckParent(m) \/ Exec(m) \/ Exit(m)
      PROVE  proc[n].st \in Starting /\ Same(n)
  BY <1>5, ShiftMoves DEF Moves, Same
<1>6. ASSUME NEW s \in Sessions, NEW j \in Jobs, Fork(s, j)
      PROVE  \/ proc[n].st \in Starting /\ Same(n)
             \/ Fork(s, j) /\ proc'[n].session = s
  BY <1>6, ForkStarts DEF Starts, Same
<1> QED
  BY <1>1, <1>2, <1>3, <1>4, <1>5, <1>6, ProcKinds

\* Only the one that acquires the lock comes to hold it.
LEMMA HeldOrigin ==
    ASSUME TypeOK, LockInv, [Next]_vars, NEW s \in Sessions, Held(s)'
    PROVE  Held(s) \/ Acquire(s)
<1>1. CASE files'[s]
  <2>1. files[s] \/ Acquire(s)
    <3>1. CASE \E r \in Sessions : Acquire(r)
      BY <1>1, <3>1 DEF Acquire, TypeOK
    <3>2. CASE \E r \in Sessions : Build(r) \/ CloseFiles(r)
      BY <1>1, <3>2 DEF Build, CloseFiles, TypeOK
    <3>3. ASSUME NEW r \in Sessions, EndScan(r) \/ SweepTimesOut(r)
          PROVE  files' = files
      BY <3>3, EndScanCases, TimeoutCases
    <3> QED
      BY <1>1, <3>1, <3>2, <3>3, ZenonT(60) DEF Next, Kernel, vars, Die, Arm, CheckParent, Exec, Spawn,
         Exit, EndThreads, Materialize, Crash, Visit, Fork, Conclude, ForceStop,
         SweepOwner, KillGroup, Reap
  <2> QED
    BY <2>1, SMTT(60) DEF Held
<1>2. ASSUME NEW n \in Pids, proc'[n].session = s, proc'[n].st \in Starting
      PROVE  Held(s)
  <2>1. CASE proc[n].st \in Starting /\ Same(n)
    BY <1>2, <2>1 DEF Held, Same, Starting
  <2>2. ASSUME NEW j \in Jobs, Fork(s, j)
        PROVE  Held(s)
    BY <2>2 DEF Fork, LockInv, Past, Held
  <2> QED
    BY <1>2, <2>1, <2>2, StartingOrigin
<1> QED
  BY <1>1, <1>2 DEF Held, Starting

\* A session that is past its lease was, or has just acquired it.
LEMMA PastOrigin ==
    ASSUME TypeOK, SweepInv, [Next]_vars, NEW s \in Sessions, Past(s)'
    PROVE  /\ Past(s) \/ Acquire(s)
           /\ files[s] => files'[s]
           /\ marsh'[s] = "open" => marsh[s] \in {"sweeping", "open"}
<1>1. ASSUME NEW r \in Sessions, Acquire(r) \/ Build(r) \/ Materialize(r) \/ Crash(r)
                \/ CloseFiles(r) \/ EndThreads(r)
      PROVE  /\ Past(s) \/ Acquire(s)
             /\ files[s] => files'[s]
             /\ marsh'[s] = "open" => marsh[s] = "open"
  BY <1>1 DEF Acquire, Build, Materialize, Crash, CloseFiles, EndThreads, TypeOK, Past
<1>2. ASSUME NEW r \in Sessions, EndScan(r)
      PROVE  /\ files' = files
             /\ \/ marsh'[s] = marsh[s]
                \/ marsh[s] = "sweeping" /\ marsh'[s] = "open"
  BY <1>2, EndScanCases DEF TypeOK, SweepInv
<1>3. ASSUME NEW r \in Sessions, SweepTimesOut(r)
      PROVE  files' = files /\ marsh'[s] = marsh[s]
  BY <1>3, TimeoutCases DEF TypeOK, Past
<1>4. \/ \E r \in Sessions : \/ Acquire(r) \/ Build(r) \/ Materialize(r) \/ Crash(r)
                             \/ CloseFiles(r) \/ EndThreads(r)
                             \/ EndScan(r) \/ SweepTimesOut(r)
      \/ UNCHANGED <<files, marsh>>
  <2>1. ASSUME NEW r \in Sessions, NEW j \in Jobs,
               \/ Fork(r, j) \/ Conclude(r, j) \/ ForceStop(r, j)
               \/ SweepOwner(r, j) \/ KillGroup(r, j) \/ Reap(r, j)
        PROVE  UNCHANGED <<files, marsh>>
    BY <2>1 DEF Fork, Conclude, ForceStop, SweepOwner, KillGroup, Reap
  <2>2. ASSUME NEW n \in Pids,
               Die(n) \/ Arm(n) \/ CheckParent(n) \/ Exec(n) \/ Spawn(n) \/ Exit(n)
        PROVE  UNCHANGED <<files, marsh>>
    BY <2>2 DEF Die, Arm, CheckParent, Exec, Spawn, Exit
  <2>3. ASSUME NEW r \in Sessions, Visit(r)
        PROVE  UNCHANGED <<files, marsh>>
    BY <2>3 DEF Visit
  <2>4. UNCHANGED vars => UNCHANGED <<files, marsh>>
    BY DEF vars
  <2> QED
    BY <2>1, <2>2, <2>3, <2>4 DEF Next, Kernel
<1> QED
  BY <1>1, <1>2, <1>3, <1>4 DEF Past

\* The lock stays with one session (acquire).
LEMMA LockStep ==
    ASSUME TypeOK, SweepInv, LockInv, [Next]_vars
    PROVE  LockInv'
<1>1. ASSUME NEW s \in Sessions, Past(s)'
      PROVE  files'[s]
  <2>1. CASE Past(s)
    BY <1>1, <2>1, PastOrigin DEF LockInv
  <2>2. CASE Acquire(s)
    BY <2>2 DEF Acquire, TypeOK
  <2> QED
    BY <1>1, <2>1, <2>2, PastOrigin
<1>2. ASSUME NEW s \in Sessions, NEW r \in Sessions, s # r, Held(s)', Held(r)'
      PROVE  FALSE
  <2>1. Held(s) \/ Acquire(s)
    BY <1>2, HeldOrigin
  <2>2. Held(r) \/ Acquire(r)
    BY <1>2, HeldOrigin
  <2>3. ~(Held(s) /\ Held(r))
    BY <1>2 DEF LockInv
  <2>4. Acquire(s) => ~Held(r)
    BY <1>2 DEF Acquire, Locked
  <2>5. Acquire(r) => ~Held(s)
    BY <1>2 DEF Acquire, Locked
  <2>6. ~(Acquire(s) /\ Acquire(r))
    BY <1>2 DEF Acquire, TypeOK
  <2> QED
    BY <2>1, <2>2, <2>3, <2>4, <2>5, <2>6
<1> QED
  BY <1>1, <1>2 DEF LockInv

-----------------------------------------------------------------------------
(* The processes.                                                          *)

\* What is dead or dying stays so.
LEMMA DoneStays ==
    ASSUME TypeOK, [Next]_vars, NEW n \in Pids, proc[n].st \in {"doomed", "gone"}
    PROVE  /\ Same(n) /\ proc'[n].st \in {"doomed", "gone"}
           /\ proc[n].st = "gone" => proc'[n].st = "gone"
<1>1. CASE proc' = proc
  BY <1>1 DEF Same
<1>2. ASSUME NEW D, proc' = Doomed(D)
      PROVE  /\ Same(n) /\ proc'[n].st \in {"doomed", "gone"}
             /\ proc[n].st = "gone" => proc'[n].st = "gone"
  BY <1>2, DoomedDooms DEF Dooms, Alive
<1>3. ASSUME NEW m \in Pids, Die(m)
      PROVE  /\ Same(n) /\ proc'[n].st \in {"doomed", "gone"}
             /\ proc[n].st = "gone" => proc'[n].st = "gone"
  BY <1>3, DieDooms
<1>4. ASSUME NEW m \in Pids, Arm(m) \/ CheckParent(m) \/ Exec(m) \/ Exit(m)
      PROVE  Same(n) /\ proc'[n].st = proc[n].st
  BY <1>4, ShiftMoves DEF Moves, Same
<1>5. ASSUME NEW m, Starts(m)
      PROVE  Same(n) /\ proc'[n].st = proc[n].st
  BY <1>5 DEF Starts, Same
<1> QED
  BY <1>1, <1>2, <1>3, <1>4, <1>5, ProcKinds, ForkStarts, SpawnStarts

\* A process that is alive was, or has just been started.
LEMMA AliveOrigin ==
    ASSUME TypeOK, [Next]_vars, NEW n \in Pids, Alive(n)'
    PROVE  \/ Alive(n) /\ proc'[n].session = proc[n].session /\ proc'[n].job = proc[n].job
           \/ \E s \in Sessions, j \in Jobs :
                 Fork(s, j) /\ proc'[n].session = s /\ proc'[n].job = j
           \/ \E m \in Pids : /\ Spawn(m) /\ proc[m].st = "live"
                              /\ proc'[n].session = proc[m].session
                              /\ proc'[n].job = proc[m].job
<1> DEFINE Was == /\ Alive(n) /\ proc'[n].session = proc[n].session
                  /\ proc'[n].job = proc[n].job
<1> USE DEF Alive
<1>1. CASE proc' = proc
  BY <1>1
<1>2. ASSUME NEW D, proc' = Doomed(D)
      PROVE  Was
  BY <1>2, DoomedDooms DEF Dooms, Same
<1>3. ASSUME NEW m \in Pids, Die(m)
      PROVE  Was
  BY <1>3, DieDooms DEF Same
<1>4. ASSUME NEW m \in Pids, Arm(m) \/ CheckParent(m) \/ Exec(m) \/ Exit(m)
      PROVE  Was
  BY <1>4, ShiftMoves DEF Moves, Same
<1>5. ASSUME NEW m \in Pids, Spawn(m)
      PROVE  \/ Was
             \/ /\ proc[m].st = "live" /\ proc'[n].session = proc[m].session
                /\ proc'[n].job = proc[m].job
  BY <1>5, SpawnStarts DEF Starts
<1>6. ASSUME NEW s \in Sessions, NEW j \in Jobs, Fork(s, j)
      PROVE  Was \/ (proc'[n].session = s /\ proc'[n].job = j)
  BY <1>6, ForkStarts DEF Starts
<1> QED
  BY <1>1, <1>2, <1>3, <1>4, <1>5, <1>6, ProcKinds

\* What is traced goes on running under its tracer, and is doomed with it
\* (--kill-on-exit).
LEMMA TracedStep ==
    ASSUME TypeOK, \A n \in Pids : Traced(n), [Next]_vars
    PROVE  \A n \in Pids : Traced(n)'
<1> SUFFICES ASSUME NEW n \in Pids PROVE Traced(n)'
  OBVIOUS
<1> DEFINE t == proc[n].tracer
<1>1. /\ Traced(n) /\ t \in 0..MaxPid
      /\ t # 0 => t \in Pids /\ Traced(t)
      /\ 0 \notin Pids
  BY MaxPidAssumption DEF TypeOK, Pids
<1>2. CASE proc' = proc
  BY <1>1, <1>2 DEF Traced
<1>3. ASSUME NEW D, proc' = Doomed(D)
      PROVE  Traced(n)'
  <2>1. Dooms(D)
    BY <1>3, DoomedDooms
  <2> QED
    BY <1>1, <2>1 DEF Traced, Dooms, Same, Alive, Starting
<1>4. ASSUME NEW m \in Pids, Die(m)
      PROVE  Traced(n)'
  <2>1. /\ proc[m].st = "doomed" /\ proc'[m].st = "gone"
        /\ \A i \in Pids :
              /\ Same(i)
              /\ i # m => proc'[i].st = IF proc[i].tracer = m /\ proc[i].st = "live"
                                        THEN "doomed" ELSE proc[i].st
    BY <1>4, DieDooms
  <2>2. CASE proc'[n].st = "live" /\ t # 0
    <3>1. n # m /\ proc[n].st = "live" /\ t # m
      BY <2>1, <2>2
    <3>2. proc[t].tracer = 0 /\ proc[t].st \in {"live", "doomed"}
      BY <1>1, <2>2, <3>1 DEF Traced
    <3>3. proc'[t].st = proc[t].st
      BY <1>1, <2>1, <2>2, <3>1, <3>2
    <3> QED
      BY <1>1, <2>1, <2>2, <3>1, <3>2, <3>3 DEF Traced, Same, Starting
  <2>3. CASE ~(proc'[n].st = "live" /\ t # 0)
    BY <1>1, <2>1, <2>3 DEF Traced, Same, Starting
  <2> QED
    BY <2>2, <2>3
<1>5. ASSUME NEW m \in Pids, Arm(m) \/ CheckParent(m)
      PROVE  Traced(n)'
  <2>1. /\ \A i \in Pids \ {m} : proc'[i] = proc[i]
        /\ Same(m) /\ proc[m].st \in Starting /\ proc'[m].st \in Starting \union {"gone"}
    BY <1>5, ShiftMoves DEF Moves, Starting
  <2>2. t # 0 /\ proc[n].st = "live" => t # m
    BY <1>1, <2>1 DEF Traced, Starting
  <2> QED
    BY <1>1, <2>1, <2>2 DEF Traced, Same, Starting
<1>6. ASSUME NEW m \in Pids, Exec(m)
      PROVE  Traced(n)'
  <2>1. Moves(m, "live") /\ proc'[m].marked /\ proc[m].st = "checked"
    BY <1>6, ShiftMoves
  <2>2. t # 0 /\ proc[n].st = "live" => t # m
    BY <1>1, <2>1 DEF Traced
  <2> QED
    BY <1>1, <2>1, <2>2 DEF Traced, Moves, Starting
<1>7. ASSUME NEW m \in Pids, Exit(m)
      PROVE  Traced(n)'
  <2>1. Moves(m, "gone") /\ Same(m) /\ proc[m].st = "live"
    BY <1>7, ShiftMoves
  <2>2. t # 0 /\ proc[n].st = "live" => t # m
    BY <1>1, <1>7 DEF Traced, Exit, IsTracer, Alive
  <2> QED
    BY <1>1, <2>1, <2>2 DEF Traced, Moves, Same, Starting
<1>8. ASSUME NEW s \in Sessions, NEW j \in Jobs, Fork(s, j)
      PROVE  Traced(n)'
  <2>1. /\ Starts(last + 1)
        /\ proc'[last + 1].st = "forked"
        /\ proc'[last + 1].session = s /\ proc'[last + 1].job = j
        /\ proc'[last + 1].tracer = 0 /\ ~proc'[last + 1].marked
    BY <1>8, ForkStarts
  <2>2. t # 0 /\ proc[n].st = "live" => t # last + 1
    BY <1>1, <2>1 DEF Traced, Starts
  <2> QED
    BY <1>1, <2>1, <2>2 DEF Traced, Starts, Starting
<1>9. ASSUME NEW p \in Pids, Spawn(p)
      PROVE  Traced(n)'
  <2> DEFINE m == last + 1
  <2>1. /\ Starts(m) /\ p < m /\ proc[p].st = "live" /\ proc'[m].st = "live"
        /\ proc'[m].session = proc[p].session /\ proc'[m].job = proc[p].job
        /\ proc'[m].tracer = IF proc[p].tracer = 0 THEN p ELSE proc[p].tracer
        /\ proc'[m].marked => proc[p].marked
    BY <1>9, SpawnStarts, SMTT(60)
  <2>2. CASE n # m
    <3>1. t # 0 /\ proc[n].st = "live" => t # m
      BY <1>1, <2>1 DEF Traced, Starts
    <3> QED
      BY <1>1, <2>1, <2>2, <3>1 DEF Traced, Starts, Starting
  <2>3. CASE n = m
    <3> DEFINE u == proc'[m].tracer
    <3>1. Traced(p) /\ proc[p].tracer \in 0..MaxPid
      BY DEF TypeOK
    <3>2. /\ u \in Pids /\ u # 0 /\ proc[u].st \in {"live", "doomed"} /\ proc[u].marked
          /\ proc[u].tracer = 0
          /\ proc[u].session = proc[p].session /\ proc[u].job = proc[p].job
      BY <2>1, <3>1, MaxPidAssumption DEF Traced, Pids
    <3>3. u # m /\ proc'[u] = proc[u]
      BY <2>1, <3>2 DEF Starts
    <3> QED
      BY <2>1, <2>3, <3>1, <3>2, <3>3 DEF Traced, Starting
  <2> QED
    BY <2>2, <2>3
<1> QED
  BY <1>2, <1>3, <1>4, <1>5, <1>6, <1>7, <1>8, <1>9, ProcKinds

\* When the tracer of a job is gone, nothing of the job runs.
LEMMA NothingRuns ==
    ASSUME TypeOK, \A n \in Pids : Traced(n), NEW s \in Sessions, NEW j \in Jobs,
           TracerGone(s, j), NEW n \in Of(s, j), Alive(n)
    PROVE  proc[n].st = "doomed" /\ proc[n].tracer # 0
<1>1. /\ n \in Pids /\ Traced(n) /\ proc[n].session = s /\ proc[n].job = j
      /\ proc[n].st \in Stages \ {"free", "gone"} /\ proc[n].tracer \in 0..MaxPid
  BY DEF Of, Alive, TypeOK
<1>2. proc[n].tracer # 0
  BY <1>1 DEF TracerGone, IsTracer
<1>3. proc[n].st # "live"
  <2>1. ASSUME proc[n].st = "live"
        PROVE  FALSE
    <3> DEFINE t == proc[n].tracer
    <3>1. t \in Pids /\ t \in Of(s, j) /\ IsTracer(t) /\ proc[t].st \in {"live", "doomed"}
      BY <1>1, <1>2, <2>1, MaxPidAssumption, SMTT(60) DEF Traced, Of, IsTracer, Pids
    <3> QED
      BY <3>1 DEF TracerGone
  <2> QED
    BY <2>1
<1> QED
  BY <1>1, <1>2, <1>3 DEF Traced, Starting, Stages

\* What a job left behind without a sweep was killed with its tracer.
LEMMA LooseStep ==
    ASSUME TypeOK, \A n \in Pids : Traced(n), LooseInv, [Next]_vars
    PROVE  LooseInv'
<1>1. ASSUME NEW n \in loose
      PROVE  proc'[n].st \in {"doomed", "gone"} /\ proc'[n].tracer # 0
  BY DoneStays DEF LooseInv, TypeOK, Same
<1>2. CASE loose' = loose
  BY <1>1, <1>2 DEF LooseInv
<1>3. ASSUME NEW s \in Sessions, NEW j \in Jobs, Reap(s, j)
      PROVE  LooseInv'
  <2>1. /\ TracerGone(s, j) /\ proc' = proc
        /\ loose' = loose \union {n \in Of(s, j) : Alive(n)}
    BY <1>3 DEF Reap
  <2> QED
    BY <1>1, <2>1, NothingRuns DEF LooseInv
<1>4. ASSUME NEW s \in Sessions, EndScan(s) \/ SweepTimesOut(s) \/ Visit(s)
      PROVE  loose' = loose
  BY <1>4, EndScanCases, TimeoutCases DEF Visit
<1> QED
  BY <1>2, <1>3, <1>4, ZenonT(60) DEF Next, Kernel, vars, Die, Arm, CheckParent, Exec, Spawn, Exit,
     Acquire, Build, Materialize, Crash, CloseFiles, EndThreads, Fork, Conclude,
     ForceStop, SweepOwner, KillGroup

-----------------------------------------------------------------------------
(* The scans.                                                              *)

\* The scan under way goes on being the one that is waited for.
LEMMA SweepStep ==
    ASSUME TypeOK, SweepInv, [Next]_vars
    PROVE  SweepInv'
<1>1. /\ marsh \in [Sessions -> {"off", "leased", "built", "sweeping", "open", "dying",
                                 "dead"}]
      /\ job \in [Sessions -> [Jobs -> {"idle", "running", "reaping", "killed", "sweeping",
                                        "kept"}]]
      /\ DOMAIN sweep = Sessions
      /\ \A s \in Sessions : sweep[s].of \in {"none", "all"} \union Jobs
      /\ NoSweep.of = "none" /\ NoSweep.at = FirstPid
      /\ "none" \notin Jobs /\ "all" \notin Jobs
      /\ \A x : [NoSweep EXCEPT !.of = x].of = x
  BY JobsAssumption DEF TypeOK, NoSweep
<1>2. sweep = [s \in Sessions |-> sweep[s]]
  BY DEF TypeOK
<1> DEFINE Good(s) ==
      /\ marsh[s] = "sweeping" <=> sweep[s].of = "all"
      /\ sweep[s].of = "none" => sweep[s].at = FirstPid
      /\ sweep[s].of \in Jobs => marsh[s] = "open" /\ job[s][sweep[s].of] = "sweeping"
<1>3. \A s \in Sessions : Good(s)
  BY DEF SweepInv
<1> SUFFICES ASSUME NEW r \in Sessions PROVE Good(r)'
  BY DEF SweepInv
<1> HIDE DEF NoSweep
<1>4. CASE UNCHANGED <<marsh, sweep, job>>
  BY <1>3, <1>4
<1>5. ASSUME NEW s \in Sessions, Acquire(s) \/ Build(s) \/ Materialize(s) \/ Crash(s)
      PROVE  Good(r)'
  <2>1. CASE Acquire(s)
    BY <1>1, <1>3, <2>1 DEF Acquire
  <2>2. CASE Build(s)
    BY <1>1, <1>3, <2>2 DEF Build
  <2>3. CASE Materialize(s)
    <3>1. sweep'[r] = IF r = s THEN [NoSweep EXCEPT !.of = "all"] ELSE sweep[r]
      BY <1>1, <2>3 DEF Materialize
    <3> QED
      BY <1>1, <1>3, <2>3, <3>1 DEF Materialize
  <2>4. CASE Crash(s)
    BY <1>1, <1>3, <2>4 DEF Crash
  <2> QED
    BY <1>5, <2>1, <2>2, <2>3, <2>4
<1>6. ASSUME NEW s \in Sessions, EndThreads(s)
      PROVE  Good(r)'
  BY <1>1, <1>2, <1>3, <1>6 DEF EndThreads
<1>7. ASSUME NEW s \in Sessions, NEW j \in Jobs,
             Fork(s, j) \/ Conclude(s, j) \/ ForceStop(s, j) \/ KillGroup(s, j)
                \/ Reap(s, j)
      PROVE  Good(r)'
  <2>1. /\ UNCHANGED <<marsh, sweep>> /\ job[s][j] # "sweeping"
        /\ \E x : job' = [job EXCEPT ![s][j] = x]
    BY <1>7 DEF Fork, Conclude, ForceStop, KillGroup, Reap
  <2> QED
    BY <1>1, <1>3, <2>1
<1>8. ASSUME NEW s \in Sessions, NEW j \in Jobs, SweepOwner(s, j)
      PROVE  Good(r)'
  <2>1. /\ UNCHANGED marsh /\ marsh[s] = "open" /\ sweep[s].of = "none"
        /\ job' = [job EXCEPT ![s][j] = "sweeping"]
        /\ sweep' = [sweep EXCEPT ![s] = [NoSweep EXCEPT !.of = j]]
    BY <1>8 DEF SweepOwner
  <2> QED
    BY <1>1, <1>2, <1>3, <2>1
<1>9. ASSUME NEW s \in Sessions, Visit(s)
      PROVE  Good(r)'
  <2>2. /\ UNCHANGED <<marsh, job>> /\ sweep[s].of # "none"
        /\ \A q \in Sessions \ {s} : sweep'[q] = sweep[q]
        /\ sweep'[s].of = sweep[s].of
    BY <1>9, VisitCases, VisitScans
  <2> QED
    BY <1>1, <1>3, <2>2
<1>10. ASSUME NEW s \in Sessions, EndScan(s)
       PROVE  Good(r)'
  <2>1. /\ \A q \in Sessions \ {s} : /\ sweep'[q] = sweep[q] /\ marsh'[q] = marsh[q]
                                     /\ job'[q] = job[q]
    BY <1>1, <1>2, <1>10, EndScanCases
  <2>2. CASE r = s
    <3>1. CASE sweep[s].hits # {}
      <4>1. sweep'[s] = [NoSweep EXCEPT !.of = sweep[s].of] /\ UNCHANGED <<marsh, job>>
        <5>1. /\ sweep' = [sweep EXCEPT ![s] = [NoSweep EXCEPT !.of = sweep[s].of]]
              /\ UNCHANGED <<marsh, job>>
          BY <1>10, <3>1, EndScanCases
        <5> QED
          BY <1>1, <5>1
      <4> QED
        BY <1>1, <1>3, <1>10, <2>2, <4>1, EndScanCases
    <3>2. CASE sweep[s].hits = {}
      <4>1. sweep'[s] = NoSweep
        <5>1. sweep' = [sweep EXCEPT ![s] = NoSweep]
          BY <1>10, <3>2, EndScanCases
        <5> QED
          BY <1>1, <5>1
      <4>2. marsh'[s] # "sweeping"
        BY <1>1, <1>3, <1>10, <3>2, EndScanCases
      <4> QED
        BY <1>1, <2>2, <4>1, <4>2
    <3> QED
      BY <3>1, <3>2
  <2> QED
    BY <1>3, <2>1, <2>2
<1>11. ASSUME NEW s \in Sessions, SweepTimesOut(s)
       PROVE  Good(r)'
  <2>1. /\ \A q \in Sessions \ {s} : /\ sweep'[q] = sweep[q] /\ marsh'[q] = marsh[q]
                                     /\ job'[q] = job[q]
    BY <1>1, <1>2, <1>11, TimeoutCases
  <2>2. CASE r = s
    BY <1>1, <1>2, <1>3, <1>11, <2>2, TimeoutCases, SMTT(60)
  <2> QED
    BY <1>3, <2>1, <2>2
<1> QED
  BY <1>4, <1>5, <1>6, <1>7, <1>8, <1>9, <1>10, <1>11, ZenonT(60) DEF Next, Kernel, vars, Die, Arm,
     CheckParent, Exec, Spawn, Exit, CloseFiles

Early(s) == marsh[s] \in {"off", "leased", "built", "sweeping"}

\* A session that is not open yet was not open before, and no job of its own
\* has moved.
LEMMA EarlyOrigin ==
    ASSUME TypeOK, SweepInv, [Next]_vars, NEW s \in Sessions, Early(s)'
    PROVE  Early(s) /\ job'[s] = job[s]
<1>1. ASSUME NEW r \in Sessions, Acquire(r) \/ Build(r) \/ Materialize(r) \/ Crash(r)
                \/ EndThreads(r)
      PROVE  Early(s) /\ job'[s] = job[s]
  BY <1>1 DEF Acquire, Build, Materialize, Crash, EndThreads, TypeOK, Early
<1>2. ASSUME NEW r \in Sessions, NEW j \in Jobs,
             Fork(r, j) \/ Conclude(r, j) \/ ForceStop(r, j) \/ KillGroup(r, j)
                \/ Reap(r, j) \/ SweepOwner(r, j)
      PROVE  Early(s) /\ job'[s] = job[s]
  <2>1. /\ UNCHANGED marsh /\ marsh[r] = "open"
        /\ \E x : job' = [job EXCEPT ![r][j] = x]
    BY <1>2 DEF Fork, Conclude, ForceStop, KillGroup, Reap, SweepOwner
  <2> QED
    BY <2>1 DEF TypeOK, Early
<1>3. ASSUME NEW r \in Sessions, EndScan(r) \/ SweepTimesOut(r)
      PROVE  Early(s) /\ job'[s] = job[s]
  <2>1. sweep[r].of \in {"none", "all"} \union Jobs
    BY DEF TypeOK
  <2>2. \/ UNCHANGED <<marsh, job>>
        \/ \E x \in {"open", "dead"} : marsh' = [marsh EXCEPT ![r] = x] /\ UNCHANGED job
        \/ /\ sweep[r].of \in Jobs /\ UNCHANGED marsh
           /\ \E x : job' = [job EXCEPT ![r][sweep[r].of] = x]
    BY <1>3, <2>1, EndScanCases, TimeoutCases
  <2>3. sweep[r].of \in Jobs => marsh[r] = "open"
    BY DEF SweepInv
  <2> QED
    BY <2>2, <2>3 DEF TypeOK, Early
<1>4. CASE UNCHANGED <<marsh, job>>
  BY <1>4 DEF Early
<1> QED
  BY <1>1, <1>2, <1>3, <1>4, ZenonT(60) DEF Next, Kernel, vars, Die, Arm, CheckParent, Exec, Spawn, Exit,
     CloseFiles, Visit

\* The numbers that are free belong to no session, and a process keeps its
\* session.
LEMMA SessionOrigin ==
    ASSUME TypeOK, [Next]_vars, NEW n \in Pids
    PROVE  \/ proc'[n].session = proc[n].session /\ proc'[n].job = proc[n].job
           \/ /\ proc[n].st = "free" /\ proc'[n].st \in {"forked", "live"}
              /\ n = last + 1 /\ last' = n
<1>1. CASE proc' = proc
  BY <1>1
<1>2. ASSUME NEW D, proc' = Doomed(D)
      PROVE  proc'[n].session = proc[n].session /\ proc'[n].job = proc[n].job
  BY <1>2, DoomedDooms DEF Dooms, Same
<1>3. ASSUME NEW m \in Pids, Die(m)
      PROVE  proc'[n].session = proc[n].session /\ proc'[n].job = proc[n].job
  BY <1>3, DieDooms DEF Same
<1>4. ASSUME NEW m \in Pids, Arm(m) \/ CheckParent(m) \/ Exec(m) \/ Exit(m)
      PROVE  proc'[n].session = proc[n].session /\ proc'[n].job = proc[n].job
  BY <1>4, ShiftMoves DEF Moves
<1>5. ASSUME NEW m, Starts(m), proc'[m].st \in {"forked", "live"}
      PROVE  \/ proc'[n].session = proc[n].session /\ proc'[n].job = proc[n].job
             \/ /\ proc[n].st = "free" /\ proc'[n].st \in {"forked", "live"}
                /\ n = last + 1 /\ last' = n
  BY <1>5 DEF Starts
<1> QED
  BY <1>1, <1>2, <1>3, <1>4, <1>5, ProcKinds, ForkStarts, SpawnStarts

\* Nothing of a session runs before it is open.
LEMMA NothingYetStep ==
    ASSUME TypeOK, SweepInv, NothingYet, \A n \in Pids : Traced(n), [Next]_vars
    PROVE  NothingYet'
<1> SUFFICES ASSUME NEW s \in Sessions, Early(s)'
             PROVE  /\ \A n \in Pids : proc'[n].session # s
                    /\ \A j \in Jobs : job'[s][j] = "idle"
  BY DEF NothingYet, Early
<1>1. Early(s) /\ job'[s] = job[s]
  BY EarlyOrigin
<1>2. /\ \A n \in Pids : proc[n].session # s
      /\ \A j \in Jobs : job[s][j] = "idle"
      /\ marsh[s] # "open"
  BY <1>1 DEF NothingYet, Early
<1>3. ASSUME NEW n \in Pids, proc'[n].session = s
      PROVE  FALSE
  <2>1. Alive(n)'
    BY <1>2, <1>3, SessionOrigin DEF Alive
  <2> QED
    BY <1>2, <1>3, <2>1, AliveOrigin DEF Fork
<1> QED
  BY <1>1, <1>2, <1>3

-----------------------------------------------------------------------------
(* A scan that finds nothing.                                              *)

\* A marked process was one before, has just executed, or was started by one
\* with a smaller number.
LEMMA FoundOrigin ==
    ASSUME TypeOK, \A m \in Pids : Traced(m), [Next]_vars, NEW n \in Pids, Found(n)'
    PROVE  \/ Found(n) /\ Same(n)
           \/ Exec(n) /\ proc'[n].session = proc[n].session /\ proc'[n].job = proc[n].job
           \/ \E p \in Pids : /\ Spawn(p) /\ p < n /\ Found(p)
                              /\ proc'[n].session = proc[p].session
                              /\ proc'[n].job = proc[p].job
<1> DEFINE Was == Found(n) /\ Same(n)
<1>1. Traced(n) /\ proc[n].st \in Stages
  BY DEF TypeOK
<1>2. CASE proc' = proc
  BY <1>2 DEF Same, Found
<1>3. ASSUME NEW D, proc' = Doomed(D)
      PROVE  Was
  BY <1>1, <1>3, DoomedDooms DEF Dooms, Same, Found, Alive, Traced, Starting, Stages
<1>4. ASSUME NEW m \in Pids, Die(m)
      PROVE  Was
  BY <1>4, DieDooms DEF Same, Found
<1>5. ASSUME NEW m \in Pids, Arm(m) \/ CheckParent(m) \/ Exit(m)
      PROVE  Was
  BY <1>5, ShiftMoves DEF Moves, Same, Found
<1>6. ASSUME NEW m \in Pids, Exec(m)
      PROVE  Was \/ (/\ Exec(n) /\ proc'[n].session = proc[n].session
                     /\ proc'[n].job = proc[n].job)
  BY <1>6, ShiftMoves DEF Moves, Same, Found
<1>7. ASSUME NEW p \in Pids, Spawn(p)
      PROVE  Was \/ (/\ p < n /\ Found(p)
                     /\ proc'[n].session = proc[p].session
                     /\ proc'[n].job = proc[p].job)
  BY <1>7, SpawnStarts, ZenonT(60) DEF Starts, Same, Found
<1>8. ASSUME NEW s \in Sessions, NEW j \in Jobs, Fork(s, j)
      PROVE  Was
  BY <1>8, ForkStarts DEF Starts, Same, Found
<1> QED
  BY <1>2, <1>3, <1>4, <1>5, <1>6, <1>7, <1>8, ProcKinds

\* A scan starts at the first process, goes on, or waits.
LEMMA ScanOrigin ==
    ASSUME TypeOK, [Next]_vars, NEW s \in Sessions
    PROVE  sweep'[s] = sweep[s] \/ sweep'[s].at = FirstPid \/ Visit(s)
<1>1. /\ DOMAIN sweep = Sessions /\ sweep = [q \in Sessions |-> sweep[q]]
      /\ NoSweep.at = FirstPid /\ \A x : [NoSweep EXCEPT !.of = x].at = FirstPid
  BY DEF TypeOK, NoSweep
<1> HIDE DEF NoSweep
<1>2. ASSUME NEW r \in Sessions, NEW x, x.at = FirstPid, sweep' = [sweep EXCEPT ![r] = x]
      PROVE  sweep'[s] = sweep[s] \/ sweep'[s].at = FirstPid
  <2>1. sweep'[s] = IF r = s THEN x ELSE sweep[s]
    BY <1>1, <1>2
  <2> QED
    BY <1>2, <2>1
<1>3. ASSUME NEW r \in Sessions, Materialize(r) \/ Crash(r) \/ EndScan(r) \/ SweepTimesOut(r)
                \/ \E j \in Jobs : SweepOwner(r, j)
      PROVE  \/ sweep' = [sweep EXCEPT ![r] = NoSweep]
             \/ \E x : sweep' = [sweep EXCEPT ![r] = [NoSweep EXCEPT !.of = x]]
  BY <1>3, EndScanCases, TimeoutCases DEF Materialize, Crash, SweepOwner
<1>4. ASSUME NEW r \in Sessions, Visit(r)
      PROVE  sweep'[s] = sweep[s] \/ Visit(s)
  BY <1>4, VisitScans
<1>5. ASSUME NEW r \in Sessions, Materialize(r) \/ Crash(r) \/ EndScan(r) \/ SweepTimesOut(r)
                \/ \E j \in Jobs : SweepOwner(r, j)
      PROVE  sweep'[s] = sweep[s] \/ sweep'[s].at = FirstPid
  <2>1. CASE sweep' = [sweep EXCEPT ![r] = NoSweep]
    BY <1>1, <1>2, <2>1
  <2>2. ASSUME NEW x, sweep' = [sweep EXCEPT ![r] = [NoSweep EXCEPT !.of = x]]
        PROVE  sweep'[s] = sweep[s] \/ sweep'[s].at = FirstPid
    <3>1. [NoSweep EXCEPT !.of = x].at = FirstPid
      BY <1>1, SMTT(60)
    <3> QED
      BY <1>2, <2>2, <3>1
  <2> QED
    BY <1>3, <1>5, <2>1, <2>2
<1>6. \/ \E r \in Sessions : \/ Materialize(r) \/ Crash(r) \/ EndScan(r) \/ SweepTimesOut(r)
                             \/ \E j \in Jobs : SweepOwner(r, j)
                             \/ Visit(r)
      \/ sweep' = sweep
  BY ZenonT(60) DEF Next, Kernel, vars, Die, Arm, CheckParent, Exec, Spawn, Exit, Acquire, Build,
         CloseFiles, EndThreads, Fork, Conclude, ForceStop, KillGroup, Reap
<1> QED
  BY <1>4, <1>5, <1>6

\* What a scan that has found nothing passed cannot start what it looks for
\* (terminate_marked).
LEMMA ScannedStep ==
    ASSUME TypeOK, LockInv, NothingYet, \A m \in Pids : Traced(m), SweepInv, Scanned,
           JobsInv, [Next]_vars
    PROVE  Scanned'
<1> SUFFICES ASSUME NEW s \in Sessions, NEW n \in Pids,
                    n < sweep'[s].at, sweep'[s].hits = {}, Found(n)'
             PROVE  /\ sweep'[s].of # "all"
                    /\ sweep'[s].of = proc'[n].job => proc'[n].session # s
  BY DEF Scanned
<1>1. sweep'[s].at # FirstPid
  BY DEF Pids, FirstPid
<1>2. CASE sweep'[s] = sweep[s]
  <2>1. CASE Found(n) /\ Same(n)
    BY <1>2, <2>1 DEF Scanned, Same
  <2>2. CASE /\ Exec(n) /\ proc'[n].session = proc[n].session
             /\ proc'[n].job = proc[n].job
    <3>1. Traced(n) /\ proc[n].st = "checked" /\ Alive(n)
      BY <2>2 DEF Exec, Alive
    <3>2. proc[n].session \in Sessions /\ Held(proc[n].session)
      BY <3>1 DEF Traced, Held
    <3>3. sweep[s].of # "all"
      <4>1. ASSUME marsh[s] = "sweeping" PROVE FALSE
        <5>1. Past(s) /\ files[s] /\ Held(s)
          BY <4>1 DEF Past, LockInv, Held
        <5>2. proc[n].session # s
          BY <4>1 DEF NothingYet
        <5> QED
          BY <3>2, <5>1, <5>2 DEF LockInv
      <4> QED
        BY <4>1 DEF SweepInv
    <3>4. ASSUME sweep[s].of = proc[n].job, proc[n].session = s PROVE FALSE
      <4>1. proc[n].job \in Jobs /\ n \in Of(s, proc[n].job)
        BY <3>1, <3>4 DEF Traced, Of
      <4>2. marsh[s] = "open" /\ job[s][proc[n].job] = "sweeping"
        BY <3>4, <4>1 DEF SweepInv
      <4> QED
        BY <3>1, <4>1, <4>2 DEF JobsInv
    <3> QED
      BY <1>2, <2>2, <3>3, <3>4
  <2>3. ASSUME NEW p \in Pids, p < n, Found(p), proc'[n].session = proc[p].session,
               proc'[n].job = proc[p].job
        PROVE  /\ sweep'[s].of # "all"
               /\ sweep'[s].of = proc'[n].job => proc'[n].session # s
    <3>1. p < sweep[s].at
      <4>1. sweep[s].at \in 1..(MaxPid + 1)
        BY DEF TypeOK
      <4> QED
        BY <1>2, <2>3, <4>1, MaxPidAssumption DEF Pids
    <3> QED
      BY <1>2, <2>3, <3>1 DEF Scanned
  <2> QED
    BY <2>1, <2>2, <2>3, FoundOrigin
<1>3. CASE Visit(s)
  <2> DEFINE k == sweep[s].at
  <2>1. /\ k \in Pids /\ sweep'[s].of = sweep[s].of /\ sweep'[s].at = k + 1
        /\ ~Belongs(s, k) /\ sweep[s].hits = {}
    BY <1>3, VisitCases, VisitScans, ZenonT(60)
  <2>2. proc' = proc
    BY <1>3, <2>1, VisitCases
  <2>3. n < k \/ n = k
    BY <2>1 DEF Pids
  <2>4. Found(n)
    BY <2>2 DEF Found
  <2>5. CASE n < k
    BY <2>1, <2>2, <2>4, <2>5 DEF Scanned
  <2>6. CASE n = k
    BY <2>1, <2>2, <2>4, <2>6 DEF Belongs, Found
  <2> QED
    BY <2>3, <2>5, <2>6, SMTT(60)
<1> QED
  BY <1>1, <1>2, <1>3, ScanOrigin

\* A session opens at the end of a scan of everything that found nothing.
LEMMA OpenOrigin ==
    ASSUME TypeOK, SweepInv, [Next]_vars, NEW s \in Sessions,
           marsh'[s] = "open", marsh[s] # "open"
    PROVE  /\ marsh[s] = "sweeping"
           /\ sweep[s].of = "all" /\ sweep[s].hits = {} /\ sweep[s].at > MaxPid
           /\ proc' = proc /\ job' = job
<1>1. marsh[s] = "sweeping" /\ sweep[s].of = "all"
  BY PastOrigin DEF Past, SweepInv
<1>2. ASSUME NEW r \in Sessions, Acquire(r) \/ Build(r) \/ Materialize(r) \/ Crash(r)
                \/ EndThreads(r) \/ SweepTimesOut(r)
      PROVE  FALSE
  BY <1>2, TimeoutCases, SMTT(60)
     DEF Acquire, Build, Materialize, Crash, EndThreads, TypeOK
<1>3. PICK r \in Sessions : EndScan(r)
  <2>1. marsh' # marsh
    OBVIOUS
  <2> QED
    BY <1>2, <2>1, ZenonT(60) DEF Next, Kernel, vars, Die, Arm, CheckParent, Exec, Spawn, Exit,
       CloseFiles, Visit, Fork, Conclude, ForceStop, SweepOwner, KillGroup, Reap
<1>4. /\ sweep[r].hits = {} /\ sweep[r].of = "all" /\ sweep[r].at > MaxPid
      /\ marsh' = [marsh EXCEPT ![r] = "open"] /\ job' = job /\ proc' = proc
  BY <1>3, EndScanCases
<1>5. r = s
  BY <1>4 DEF TypeOK
<1> QED
  BY <1>1, <1>4, <1>5

\* When a session opens, what is left of another one is dying and unmarked
\* (terminate_orphans).
LEMMA NoStragglersStep ==
    ASSUME TypeOK, LockInv, \A m \in Pids : Traced(m), SweepInv, Scanned,
           NoStragglers, [Next]_vars
    PROVE  NoStragglers'
<1> SUFFICES ASSUME NEW s \in Sessions, NEW n \in Pids,
                    marsh'[s] = "open", proc'[n].session # s, Alive(n)'
             PROVE  proc'[n].st = "doomed" /\ ~proc'[n].marked
  BY DEF NoStragglers
<1>1. CASE marsh[s] = "open"
  <2>1. Held(s)
    BY <1>1 DEF LockInv, Past, Held
  <2>2. CASE Alive(n) /\ proc'[n].session = proc[n].session
    <3>1. proc[n].st = "doomed" /\ ~proc[n].marked
      BY <1>1, <2>2 DEF NoStragglers
    <3> QED
      BY <3>1, DoneStays DEF Same, Alive
  <2>3. ASSUME NEW r \in Sessions, NEW j \in Jobs, Fork(r, j), proc'[n].session = r
        PROVE  FALSE
    <3>1. Held(r) /\ r # s
      BY <2>3 DEF Fork, LockInv, Past, Held
    <3> QED
      BY <2>1, <3>1 DEF LockInv
  <2>4. ASSUME NEW m \in Pids, proc[m].st = "live", proc'[n].session = proc[m].session
        PROVE  FALSE
    BY <1>1, <2>4 DEF NoStragglers, Alive
  <2> QED
    BY <2>2, <2>3, <2>4, AliveOrigin
<1>2. CASE marsh[s] # "open"
  <2>1. /\ marsh[s] = "sweeping" /\ proc' = proc
        /\ sweep[s].of = "all" /\ sweep[s].hits = {} /\ sweep[s].at > MaxPid
    BY <1>2, OpenOrigin
  <2>2. ASSUME NEW m \in Pids PROVE ~Found(m)
    <3>1. m < sweep[s].at
      <4>1. sweep[s].at \in 1..(MaxPid + 1)
        BY DEF TypeOK
      <4> QED
        BY <2>1, <4>1, MaxPidAssumption DEF Pids
    <3> QED
      BY <2>1, <3>1 DEF Scanned
  <2>3. /\ Traced(n) /\ Alive(n) /\ proc[n].session # s
        /\ proc[n].st \in Stages /\ proc[n].tracer \in 0..MaxPid
    BY <2>1 DEF Alive, TypeOK
  <2>4. proc[n].st \notin Starting
    <3>1. ASSUME proc[n].st \in Starting PROVE FALSE
      <4>1. proc[n].session \in Sessions /\ Held(proc[n].session)
        BY <2>3, <3>1 DEF Traced, Held, Starting
      <4>2. Held(s)
        BY <2>1 DEF LockInv, Past, Held
      <4> QED
        BY <2>3, <4>1, <4>2 DEF LockInv
    <3> QED
      BY <3>1
  <2>5. proc[n].st # "live"
    <3>1. ASSUME proc[n].st = "live" PROVE FALSE
      <4>1. proc[n].tracer # 0
        BY <2>2, <2>3, <3>1 DEF Traced, Found
      <4>2. proc[n].tracer \in Pids
        BY <2>3, <4>1, MaxPidAssumption DEF Pids
      <4> QED
        BY <2>2, <2>3, <3>1, <4>1, <4>2 DEF Traced, Found
    <3> QED
      BY <3>1
  <2>6. proc[n].st = "doomed"
    BY <2>3, <2>4, <2>5 DEF Alive, Stages, Starting
  <2> QED
    BY <2>1, <2>2, <2>6 DEF Found
<1> QED
  BY <1>1, <1>2

-----------------------------------------------------------------------------
(* The jobs.                                                               *)

\* The job of an open session goes from one command to the next.
LEMMA JobOrigin ==
    ASSUME TypeOK, SweepInv, [Next]_vars, NEW s \in Sessions, NEW j \in Jobs
    PROVE  \/ job'[s][j] = job[s][j]
           \/ Fork(s, j) /\ job[s][j] = "idle" /\ job'[s][j] = "running"
           \/ /\ Conclude(s, j) \/ Reap(s, j)
              /\ TracerGone(s, j) /\ proc' = proc /\ job'[s][j] = "idle"
           \/ /\ SweepOwner(s, j) /\ TracerGone(s, j) /\ proc' = proc
              /\ job'[s][j] = "sweeping"
           \/ /\ EndScan(s) /\ sweep[s].hits = {} /\ sweep[s].of = j
              /\ sweep[s].at > MaxPid /\ proc' = proc /\ job[s][j] = "sweeping"
           \/ job'[s][j] \in {"killed", "reaping", "kept"}
<1>1. job \in [Sessions -> [Jobs -> {"idle", "running", "reaping", "killed", "sweeping",
                                     "kept"}]]
  BY DEF TypeOK
<1>2. ASSUME NEW r \in Sessions, NEW i \in Jobs, NEW x, job' = [job EXCEPT ![r][i] = x]
      PROVE  job'[s][j] = IF r = s /\ i = j THEN x ELSE job[s][j]
  BY <1>1, <1>2
<1>3. ASSUME NEW r \in Sessions, NEW i \in Jobs, Fork(r, i)
      PROVE  \/ job'[s][j] = job[s][j]
             \/ Fork(s, j) /\ job[s][j] = "idle" /\ job'[s][j] = "running"
  BY <1>2, <1>3, ZenonT(60) DEF Fork
<1>4. ASSUME NEW r \in Sessions, NEW i \in Jobs, Conclude(r, i)
      PROVE  \/ job'[s][j] = job[s][j]
             \/ /\ Conclude(s, j) /\ TracerGone(s, j) /\ proc' = proc
                /\ job'[s][j] = "idle"
  BY <1>2, <1>4, ZenonT(60) DEF Conclude
<1>5. ASSUME NEW r \in Sessions, NEW i \in Jobs, Reap(r, i)
      PROVE  \/ job'[s][j] = job[s][j]
             \/ /\ Reap(s, j) /\ TracerGone(s, j) /\ proc' = proc
                /\ job'[s][j] = "idle"
  BY <1>2, <1>5, ZenonT(60) DEF Reap
<1>6. ASSUME NEW r \in Sessions, NEW i \in Jobs, SweepOwner(r, i)
      PROVE  \/ job'[s][j] = job[s][j]
             \/ /\ SweepOwner(s, j) /\ TracerGone(s, j) /\ proc' = proc
                /\ job'[s][j] = "sweeping"
  BY <1>2, <1>6, ZenonT(60) DEF SweepOwner
<1>7. ASSUME NEW r \in Sessions, NEW i \in Jobs, ForceStop(r, i) \/ KillGroup(r, i)
      PROVE  \/ job'[s][j] = job[s][j]
             \/ job'[s][j] \in {"killed", "reaping", "kept"}
  BY <1>2, <1>7 DEF ForceStop, KillGroup
<1>8. ASSUME NEW r \in Sessions, EndScan(r)
      PROVE  \/ job'[s][j] = job[s][j]
             \/ /\ EndScan(s) /\ sweep[s].hits = {} /\ sweep[s].of = j
                /\ sweep[s].at > MaxPid /\ proc' = proc /\ job[s][j] = "sweeping"
  <2>1. CASE job' = job
    BY <2>1
  <2>2. CASE job' # job
    <3>1. /\ sweep[r].of \in Jobs
          /\ sweep[r].hits = {} /\ sweep[r].at > MaxPid /\ proc' = proc
          /\ job' = [job EXCEPT ![r][sweep[r].of] = "idle"]
      <4>1. sweep[r].of \in {"none", "all"} \union Jobs
        BY DEF TypeOK
      <4> QED
        BY <1>8, <2>2, <4>1, EndScanCases
    <3>2. job[r][sweep[r].of] = "sweeping"
      BY <3>1 DEF SweepInv
    <3> QED
      BY <1>2, <1>8, <3>1, <3>2
  <2> QED
    BY <2>1, <2>2
<1>9. ASSUME NEW r \in Sessions, SweepTimesOut(r)
      PROVE  \/ job'[s][j] = job[s][j]
             \/ job'[s][j] \in {"killed", "reaping", "kept"}
  <2>1. \/ job' = job
        \/ sweep[r].of \in Jobs /\ job' = [job EXCEPT ![r][sweep[r].of] = "kept"]
    <3>1. sweep[r].of \in {"none", "all"} \union Jobs
      BY DEF TypeOK
    <3> QED
      BY <1>9, <3>1, TimeoutCases
  <2> QED
    BY <1>2, <2>1
<1> QED
  BY <1>3, <1>4, <1>5, <1>6, <1>7, <1>8, <1>9, ZenonT(60)
     DEF Next, Kernel, vars, Die, Arm, CheckParent, Exec, Spawn, Exit, Acquire, Build,
         Materialize, Crash, CloseFiles, EndThreads, Visit

\* A process is doomed because its session died, with its tracer, with its
\* group, or by a scan.
LEMMA DoomedOrigin ==
    ASSUME TypeOK, [Next]_vars, NEW n \in Pids, proc'[n].st = "doomed"
    PROVE  /\ Same(n)
           /\ \/ proc[n].st = "doomed"
              \/ \E r \in Sessions : EndThreads(r) /\ proc[n].session = r
              \/ \E t \in Pids : Die(t) /\ proc[n].tracer = t /\ proc[n].st = "live"
              \/ \E r \in Sessions, i \in Jobs :
                    (ForceStop(r, i) \/ KillGroup(r, i)) /\ n \in Of(r, i)
              \/ \E r \in Sessions : Visit(r) /\ n = sweep[r].at /\ Belongs(r, n)
<1> DEFINE Was == Same(n) /\ proc[n].st = "doomed"
<1>1. CASE proc' = proc
  BY <1>1 DEF Same
<1>2. ASSUME NEW r \in Sessions, EndThreads(r)
      PROVE  Same(n) /\ (Was \/ proc[n].session = r)
  <2> DEFINE D == {m \in Pids : proc[m].session = r /\ IsTracer(m)
                                /\ proc[m].st \in {"armed", "checked", "live"}}
  <2>1. proc' = Doomed(D)
    BY <1>2 DEF EndThreads
  <2>2. Dooms(D)
    BY <2>1, DoomedDooms
  <2> QED
    BY <2>2 DEF Dooms
<1>3. ASSUME NEW t \in Pids, Die(t)
      PROVE  Same(n) /\ (Was \/ (proc[n].tracer = t /\ proc[n].st = "live"))
  BY <1>3, DieDooms
<1>4. ASSUME NEW r \in Sessions, NEW i \in Jobs, ForceStop(r, i) \/ KillGroup(r, i)
      PROVE  Same(n) /\ (Was \/ n \in Of(r, i))
  <2>1. proc' = Doomed(Group(r, i))
    BY <1>4 DEF ForceStop, KillGroup
  <2>2. Dooms(Group(r, i))
    BY <2>1, DoomedDooms
  <2> QED
    BY <2>2 DEF Dooms, Group
<1>5. ASSUME NEW r \in Sessions, Visit(r)
      PROVE  Same(n) /\ (Was \/ (n = sweep[r].at /\ Belongs(r, n)))
  <2> DEFINE k == sweep[r].at
  <2>1. \/ Belongs(r, k) /\ proc' = Doomed({k})
        \/ proc' = proc
    BY <1>5, VisitCases
  <2>2. CASE Belongs(r, k) /\ proc' = Doomed({k})
    <3>1. Dooms({k})
      BY <2>2, DoomedDooms
    <3> QED
      BY <2>2, <3>1 DEF Dooms
  <2> QED
    BY <1>1, <2>1, <2>2 DEF Same
<1>6. ASSUME NEW m \in Pids, Arm(m) \/ CheckParent(m) \/ Exec(m) \/ Exit(m)
      PROVE  Was
  BY <1>6, ShiftMoves DEF Moves, Same
<1>7. ASSUME NEW m, Starts(m), proc'[m].st \in {"forked", "live"}
      PROVE  Was
  BY <1>7 DEF Starts, Same
<1>8. ASSUME NEW s \in Sessions, EndScan(s) \/ SweepTimesOut(s)
      PROVE  proc' = proc
  BY <1>8, EndScanCases, TimeoutCases
<1>9. ASSUME NEW s \in Sessions, NEW j \in Jobs, Fork(s, j)
      PROVE  Was
  BY <1>7, <1>9, ForkStarts
<1>10. ASSUME NEW m \in Pids, Spawn(m)
       PROVE  Was
  BY <1>7, <1>10, SpawnStarts
<1> QED
  BY <1>1, <1>2, <1>3, <1>4, <1>5, <1>6, <1>8, <1>9, <1>10
     DEF Next, Kernel, vars, Acquire, Build, Materialize, Crash, CloseFiles, Conclude,
         SweepOwner, Reap

\* A job that is over, or is being swept, has nothing left that runs
\* (conclude_cmd).
LEMMA QuietStep ==
    ASSUME TypeOK, \A m \in Pids : Traced(m), SweepInv, JobsInv, [Next]_vars,
           NEW s \in Sessions, NEW j \in Jobs, NEW n \in Pids,
           marsh[s] = "open", proc'[n].session = s, proc'[n].job = j,
           job'[s][j] \in {"idle", "sweeping"}, Alive(n)'
    PROVE  proc'[n].st = "doomed"
<1>1. CASE job'[s][j] = job[s][j]
  <2>1. CASE /\ Alive(n) /\ proc'[n].session = proc[n].session
             /\ proc'[n].job = proc[n].job
    <3>1. n \in Of(s, j)
      BY <2>1 DEF Of
    <3>2. proc[n].st = "doomed"
      BY <1>1, <2>1, <3>1 DEF JobsInv
    <3> QED
      BY <3>2, DoneStays DEF Alive
  <2>2. ASSUME NEW r \in Sessions, NEW i \in Jobs, Fork(r, i), proc'[n].session = r,
               proc'[n].job = i
        PROVE  FALSE
    <3>1. r = s /\ i = j
      BY <2>2
    <3>2. job'[s][j] = "running"
      BY <2>2, <3>1 DEF Fork, TypeOK
    <3> QED
      BY <3>2
  <2>3. ASSUME NEW m \in Pids, proc[m].st = "live", proc'[n].session = proc[m].session,
               proc'[n].job = proc[m].job
        PROVE  FALSE
    <3>1. m \in Of(s, j) /\ Alive(m)
      BY <2>3 DEF Of, Alive
    <3> QED
      BY <1>1, <2>3, <3>1 DEF JobsInv
  <2> QED
    BY <2>1, <2>2, <2>3, AliveOrigin
<1>2. CASE TracerGone(s, j) /\ proc' = proc
  <2>1. n \in Of(s, j) /\ Alive(n)
    BY <1>2 DEF Of, Alive
  <2> QED
    BY <1>2, <2>1, NothingRuns
<1>3. CASE proc' = proc /\ job[s][j] = "sweeping"
  <2>1. n \in Of(s, j) /\ Alive(n)
    BY <1>3 DEF Of, Alive
  <2> QED
    BY <1>3, <2>1 DEF JobsInv
<1> QED
  BY <1>1, <1>2, <1>3, JobOrigin

\* What was doomed while its job is between commands, or runs one, was not
\* marked: only a sweep, a stop or the end of the session dooms a marked one.
LEMMA UnmarkedStep ==
    ASSUME TypeOK, LockInv, \A m \in Pids : Traced(m), SweepInv, Scanned, JobsInv,
           LooseInv, [Next]_vars,
           NEW s \in Sessions, NEW j \in Jobs, NEW n \in Pids,
           marsh[s] = "open", marsh'[s] = "open",
           proc'[n].session = s, proc'[n].job = j,
           job'[s][j] \in {"idle", "running"}, n \notin loose', proc'[n].st = "doomed"
    PROVE  ~proc'[n].marked
<1>1. n \in Of(s, j) /\ Same(n) /\ Alive(n)'
  BY DoomedOrigin DEF Same, Of, Alive
<1>2. n \notin loose
  <2>1. \/ loose' = loose
        \/ \E r \in Sessions, i \in Jobs : Reap(r, i)
        \/ \E r \in Sessions : EndScan(r) \/ SweepTimesOut(r)
    BY ZenonT(60) DEF Next, Kernel, vars, Die, Arm, CheckParent, Exec, Spawn, Exit, Visit, Acquire,
       Build, Materialize, Crash, CloseFiles, EndThreads, Fork, Conclude, ForceStop,
       SweepOwner, KillGroup
  <2>2. ASSUME NEW r \in Sessions, NEW i \in Jobs, Reap(r, i)
        PROVE  loose \subseteq loose'
    BY <2>2 DEF Reap
  <2>3. ASSUME NEW r \in Sessions, EndScan(r) \/ SweepTimesOut(r)
        PROVE  loose' = loose
    BY <2>3, EndScanCases, TimeoutCases
  <2> QED
    BY <2>1, <2>2, <2>3, SMTT(60)
<1>3. job[s][j] \in {"idle", "running"} /\ proc[n].st = "doomed" => ~proc[n].marked
  BY <1>1, <1>2 DEF JobsInv
<1>4. CASE proc[n].st = "doomed"
  <2>1. CASE job'[s][j] = job[s][j] \/ (Fork(s, j) /\ job[s][j] = "idle") \/ Conclude(s, j)
    BY <1>1, <1>3, <1>4, <2>1 DEF Same, Conclude
  <2>2. CASE Reap(s, j)
    BY <1>1, <1>4, <2>2 DEF Reap, Alive
  <2>3. CASE /\ EndScan(s) /\ sweep[s].hits = {} /\ sweep[s].of = j
             /\ sweep[s].at > MaxPid /\ proc' = proc
    <3>1. n < sweep[s].at /\ proc[n].session = s /\ proc[n].job = j
      <4>1. sweep[s].at \in 1..(MaxPid + 1)
        BY DEF TypeOK
      <4> QED
        BY <1>1, <2>3, <4>1, MaxPidAssumption DEF Pids, Of
    <3> QED
      BY <1>4, <2>3, <3>1 DEF Scanned, Found
  <2> QED
    BY <2>1, <2>2, <2>3, JobOrigin
<1>5. CASE proc[n].st # "doomed"
  <2>1. ASSUME NEW r \in Sessions, EndThreads(r), proc[n].session = r
        PROVE  FALSE
    BY <1>1, <2>1 DEF EndThreads, Of
  <2>2. ASSUME NEW t \in Pids, Die(t), proc[n].tracer = t, proc[n].st = "live"
        PROVE  FALSE
    <3>1. /\ proc[t].st = "doomed" /\ proc[t].marked /\ proc[t].tracer = 0
          /\ proc[t].session = s /\ proc[t].job = j
      <4>1. Traced(n) /\ t # 0
        BY <2>2, MaxPidAssumption DEF Pids
      <4> QED
        BY <1>1, <2>2, <4>1 DEF Traced, Die, Of
    <3>2. t \in Of(s, j) /\ t \notin loose
      BY <3>1 DEF Of, LooseInv
    <3>3. job[s][j] \in {"idle", "running"}
      BY <2>2 DEF Die
    <3> QED
      BY <3>1, <3>2, <3>3 DEF JobsInv
  <2>3. ASSUME NEW r \in Sessions, NEW i \in Jobs, ForceStop(r, i) \/ KillGroup(r, i),
               n \in Of(r, i)
        PROVE  FALSE
    <3>1. r = s /\ i = j
      BY <1>1, <2>3 DEF Of
    <3>2. job'[s][j] \in {"killed", "reaping"}
      BY <2>3, <3>1 DEF ForceStop, KillGroup, TypeOK
    <3> QED
      BY <3>2
  <2>4. ASSUME NEW r \in Sessions, Visit(r), n = sweep[r].at, Belongs(r, n)
        PROVE  FALSE
    <3>1. sweep[r].of \in {"all"} \union Jobs /\ job' = job
      BY <2>4 DEF Visit, TypeOK
    <3>2. r = s
      <4>1. Past(r) /\ Past(s)
        BY <3>1 DEF SweepInv, Past
      <4>2. Held(r) /\ Held(s)
        BY <4>1 DEF LockInv, Held
      <4> QED
        BY <4>2 DEF LockInv
    <3>3. sweep[s].of \in Jobs /\ sweep[s].of = j
      BY <1>1, <2>4, <3>1, <3>2, JobsAssumption DEF SweepInv, Belongs, Of
    <3> QED
      BY <3>1, <3>3 DEF SweepInv
  <2> QED
    BY <1>5, <2>1, <2>2, <2>3, <2>4, DoomedOrigin
<1> QED
  BY <1>4, <1>5

\* Together: what a job leaves was killed, and is marked only under a stop, a
\* sweep or a deadline.
LEMMA JobsStep ==
    ASSUME TypeOK, LockInv, NothingYet, \A m \in Pids : Traced(m), SweepInv, Scanned,
           JobsInv, LooseInv, [Next]_vars
    PROVE  JobsInv'
<1> SUFFICES ASSUME NEW s \in Sessions, NEW j \in Jobs, marsh'[s] = "open",
                    NEW n \in Pids, proc'[n].session = s, proc'[n].job = j
             PROVE  /\ job'[s][j] \in {"idle", "sweeping"} /\ Alive(n)' =>
                          proc'[n].st = "doomed"
                    /\ job'[s][j] \in {"idle", "running"} /\ n \notin loose'
                          /\ proc'[n].st = "doomed" => ~proc'[n].marked
  BY DEF JobsInv, Of
<1>1. CASE marsh[s] = "open"
  BY <1>1, QuietStep, UnmarkedStep
<1>2. CASE marsh[s] # "open"
  <2>1. marsh[s] = "sweeping" /\ proc' = proc
    BY <1>2, OpenOrigin
  <2> QED
    BY <2>1 DEF NothingYet
<1> QED
  BY <1>1, <1>2

-----------------------------------------------------------------------------
(* The theorems.                                                           *)

\* The invariant holds when nothing has started.
LEMMA SessionStart ==
    ASSUME Init
    PROVE  SessionInv
<1>1. /\ \A n \in Pids : proc[n] = NoProc
      /\ \A s \in Sessions : sweep[s] = NoSweep /\ marsh[s] = "off" /\ files[s] = FALSE
      /\ \A s \in Sessions, j \in Jobs : job[s][j] = "idle"
      /\ last = 0 /\ loose = {}
  BY DEF Init
<1>2. /\ NoProc.st = "free" /\ NoProc.session = None /\ NoProc.marked = FALSE
      /\ NoSweep.of = "none" /\ NoSweep.at = FirstPid
  BY DEF NoProc, NoSweep
<1>3. TypeOK
  <2>1. NoProc \in Processes /\ NoSweep \in Scans
    BY MaxPidAssumption DEF NoProc, NoSweep, Processes, Scans, Stages, FirstPid
  <2>2. \A n \in Pids : n > 0
    BY DEF Pids
  <2> QED
    BY <1>1, <1>2, <2>1, <2>2, MaxPidAssumption DEF Init, TypeOK, Processes, Scans
<1> HIDE DEF NoProc, NoSweep
<1>4. LockInv
  BY <1>1, <1>2 DEF LockInv, Past, Held
<1>5. NothingYet
  BY <1>1, <1>2, NoneAssumption DEF NothingYet
<1>6. \A n \in Pids : Traced(n)
  BY <1>1, <1>2 DEF Traced, Starting
<1>7. SweepInv
  BY <1>1, <1>2, JobsAssumption DEF SweepInv
<1>8. Scanned
  BY <1>1, <1>2 DEF Scanned, Found
<1>9. NoStragglers
  BY <1>1 DEF NoStragglers
<1>10. JobsInv
  BY <1>1 DEF JobsInv
<1>11. LooseInv
  BY <1>1 DEF LooseInv
<1> QED
  BY <1>3, <1>4, <1>5, <1>6, <1>7, <1>8, <1>9, <1>10, <1>11 DEF SessionInv

\* Every step keeps the invariant.
LEMMA SessionStep ==
    ASSUME SessionInv, [Next]_vars
    PROVE  SessionInv'
<1>1. /\ TypeOK /\ LockInv /\ NothingYet /\ SweepInv /\ Scanned /\ NoStragglers
      /\ JobsInv /\ LooseInv
      /\ \A m \in Pids : Traced(m)
  BY DEF SessionInv
<1>2. TypeOK' /\ LockInv' /\ NothingYet' /\ SweepInv' /\ LooseInv'
  BY <1>1, SessionTyping, LockStep, NothingYetStep, SweepStep, LooseStep
<1>3. Scanned' /\ NoStragglers' /\ JobsInv'
  BY <1>1, ScannedStep, NoStragglersStep, JobsStep
<1>4. \A n \in Pids : Traced(n)'
  BY <1>1, TracedStep
<1> QED
  BY <1>2, <1>3, <1>4 DEF SessionInv

\* The invariant gives what the seed's sessions promise each other.
LEMMA SessionPromises ==
    ASSUME SessionInv
    PROVE  OneOwner /\ NoStragglers /\ QuietTree
<1>1. OneOwner
  <2> SUFFICES ASSUME NEW s \in Sessions, NEW r \in Sessions, s # r, Past(s)
               PROVE  /\ ~Past(r)
                      /\ \A n \in Pids : proc[n].session = r =>
                            proc[n].st \notin {"forked", "armed", "checked"}
    BY DEF OneOwner
  <2>1. Held(s) /\ ~Held(r)
    BY DEF SessionInv, LockInv, Held
  <2> QED
    BY <2>1 DEF SessionInv, LockInv, Held
<1>2. QuietTree
  BY DEF SessionInv, JobsInv, QuietTree, Of
<1> QED
  BY <1>1, <1>2 DEF SessionInv

\* A seed has one session at a time, children that have not executed yet
\* included (acquire); recovery begins only when nothing of an earlier session
\* runs (terminate_orphans); what is left of a job's command when its tree is
\* handed on has been killed (conclude_cmd, terminate_owner).
THEOREM SessionSafe == Spec => [](OneOwner /\ NoStragglers /\ QuietTree)
<1>1. Init => SessionInv
  BY SessionStart
<1>2. SessionInv /\ [Next]_vars => SessionInv'
  BY SessionStep
<1>3. SessionInv => OneOwner /\ NoStragglers /\ QuietTree
  BY SessionPromises
<1> QED
  BY <1>1, <1>2, <1>3, PTL DEF Spec

\* Stages, processes and scans are what they are declared to be (TypeOK).
THEOREM SessionTyped == Spec => []TypeOK
<1>1. Init => TypeOK
  BY SessionStart DEF SessionInv
<1>2. TypeOK /\ [Next]_vars => TypeOK'
  BY SessionTyping
<1> QED
  BY <1>1, <1>2, PTL DEF Spec

\* A seed has one session at a time, its children that have not executed yet
\* included (acquire).
THEOREM OneSessionAtATime == Spec => []OneOwner
BY SessionSafe, PTL

\* Recovery begins only when nothing an earlier session started still runs
\* (terminate_orphans).
THEOREM OrphansAreGone == Spec => []NoStragglers
BY SessionSafe, PTL

\* When a job's tree is handed on, whatever is left of its command has been sent
\* SIGKILL, after a timeout and an abandoned launch too; and but for these two,
\* it has been waited for unless it had dropped its markers (conclude_cmd,
\* terminate_owner).
THEOREM TreeIsQuiet == Spec => []QuietTree
BY SessionSafe, PTL

\* Where no launch is abandoned and no budget runs out, nothing that bears the
\* markers of a command is left when its tree is handed on (start_cmd).
THEOREM TreeIsDead ==
    ASSUME ~MayAbandon, ~MayTimeOut
    PROVE  Spec => []KnownDead
<1> DEFINE Inv == loose = {} /\ \A s \in Sessions, j \in Jobs : job[s][j] # "reaping"
<1>1. Init => Inv
  BY DEF Init
<1>2. ASSUME TypeOK, Inv, [Next]_vars PROVE Inv'
  <2>1. \A s \in Sessions, j \in Jobs : ~KillGroup(s, j) /\ ~Reap(s, j)
    BY <1>2 DEF KillGroup, Reap
  <2>2. ASSUME NEW r \in Sessions, EndScan(r) \/ SweepTimesOut(r) PROVE Inv'
    <3>1. loose' = loose /\ (job' = job \/ \E stage \in {"idle", "kept"} :
                                 job' = [job EXCEPT ![r][sweep[r].of] = stage])
      BY <2>2, EndScanCases, TimeoutCases
    <3> QED
      BY <1>2, <3>1 DEF TypeOK
  <2>3. ASSUME NEW r \in Sessions, NEW i \in Jobs,
               Fork(r, i) \/ Conclude(r, i) \/ ForceStop(r, i) \/ SweepOwner(r, i)
        PROVE  Inv'
    <3>1. loose' = loose /\ \E stage \in {"idle", "running", "killed", "sweeping"} :
                                 job' = [job EXCEPT ![r][i] = stage]
      BY <2>3 DEF Fork, Conclude, ForceStop, SweepOwner
    <3> QED
      BY <1>2, <3>1 DEF TypeOK
  <2>4. CASE UNCHANGED <<job, loose>>
    BY <1>2, <2>4
  <2>5. \/ UNCHANGED <<job, loose>>
        \/ \E r \in Sessions : EndScan(r) \/ SweepTimesOut(r)
        \/ \E r \in Sessions, i \in Jobs :
              Fork(r, i) \/ Conclude(r, i) \/ ForceStop(r, i) \/ SweepOwner(r, i)
    BY <1>2, <2>1, ZenonT(60) DEF Next, Kernel, vars, Die, Arm, CheckParent, Exec, Spawn, Exit,
       Visit, Acquire, Build, Materialize, Crash, CloseFiles, EndThreads
  <2> QED
    BY <2>2, <2>3, <2>4, <2>5
<1>3. QuietTree /\ Inv => KnownDead
  BY DEF QuietTree, KnownDead
<1> HIDE DEF Inv
<1>4. Init /\ [][Next]_vars /\ []TypeOK => []Inv
  BY <1>1, <1>2, PTL
<1> QED
  BY <1>3, <1>4, TreeIsQuiet, SessionTyped, PTL DEF Spec


\* A set of naturals that is not empty has a least element.
LEMMA LeastNatural ==
    ASSUME NEW S \in SUBSET Nat, S # {}
    PROVE  \E k \in S : \A l \in S : k <= l
<1> DEFINE before == {ss \in Nat \X Nat : ss[1] < ss[2]}
<1>1. IsWellFoundedOn(before, Nat)
  BY NatLessThanWellFounded DEF OpToRel
<1>2. PICK k \in S : \A l \in S : <<l, k>> \notin before
  <2> HIDE DEF before
  <2> QED
    BY <1>1, WFMin
<1>3. \A l \in S : k \in Nat /\ l \in Nat /\ ~(l < k)
  BY <1>2
<1> QED
  BY <1>3

\* The largest of a set of naturals is what it should be.
LEMMA LargestIs ==
    ASSUME NEW S \in SUBSET Nat, NEW m \in S, \A x \in S : x <= m
    PROVE  Max(S) = m
<1>1. \A x \in S : (\A y \in S : x >= y) => x = m
  OBVIOUS
<1>2. \A y \in S : m >= y
  OBVIOUS
<1> QED
  BY <1>1, <1>2 DEF Max

\* What holds of 0, and of each number up to n when it holds of the one before,
\* holds up to n.
LEMMA UpTo ==
    ASSUME NEW n \in Nat, NEW S, 0 \in S, \A k \in 1..n : k - 1 \in S => k \in S
    PROVE  \A k \in 0..n : k \in S
<1> DEFINE wrong == {k \in 0..n : k \notin S}
<1>1. SUFFICES ASSUME wrong # {} PROVE FALSE
  OBVIOUS
<1>2. wrong \in SUBSET Nat
  OBVIOUS
<1>3. PICK k \in wrong : \A l \in wrong : k <= l
  <2> HIDE DEF wrong
  <2> QED
    BY <1>1, <1>2, LeastNatural
<1>4. k \in 1..n
  OBVIOUS
<1>5. k - 1 \in 0..n /\ k - 1 \notin wrong
  <2>1. k - 1 \in 0..n /\ ~(k <= k - 1)
    BY <1>4
  <2> QED
    BY <1>3, <2>1
<1> QED
  BY <1>4, <1>5

\* f holds what is folded after each of the n elements of s.
Parsing(f, base, n, s) ==
    /\ DOMAIN f = 0..n /\ f[0] = base
    /\ \A k \in 1..n : f[k] = ParseLine(f[k - 1], s[k])
    /\ ParseAll(base, s) = f[n]

\* A log is decoded line by line.
LEMMA ParseFold ==
    ASSUME NEW base, NEW n \in Nat, NEW s, DOMAIN s = 1..n
    PROVE  \E f : Parsing(f, base, n, s)
<1> DEFINE IsFold(g, D) ==
        g = [t \in SUBSET D |->
                IF t = {} THEN base ELSE ParseLine(g[t \ {Max(t)}], s[Max(t)])]
           Folds(m) == \E g : IsFold(g, 1..m)
<1>1. Folds(0)
  <2>1. IsFold([t \in SUBSET (1..0) |-> base], 1..0)
    OBVIOUS
  <2> QED
    BY <2>1
<1>2. ASSUME NEW m \in Nat, Folds(m) PROVE Folds(m + 1)
  <2>1. PICK g : IsFold(g, 1..m)
    BY <1>2
  <2> DEFINE h == [t \in SUBSET (1..(m + 1)) |->
                      IF m + 1 \in t THEN ParseLine(g[t \ {m + 1}], s[m + 1]) ELSE g[t]]
  <2>2. ASSUME NEW t \in SUBSET (1..(m + 1))
        PROVE  h[t] = IF t = {} THEN base ELSE ParseLine(h[t \ {Max(t)}], s[Max(t)])
    <3>1. CASE m + 1 \in t
      <4>1. Max(t) = m + 1
        BY <3>1, LargestIs
      <4>2. t \ {m + 1} \in SUBSET (1..(m + 1)) /\ m + 1 \notin t \ {m + 1}
        OBVIOUS
      <4>3. t \ {m + 1} \in SUBSET (1..m)
        OBVIOUS
      <4>4. h[t] = ParseLine(g[t \ {m + 1}], s[m + 1]) /\ h[t \ {m + 1}] = g[t \ {m + 1}]
        BY <3>1, <4>2
      <4> HIDE DEF h
      <4> QED
        BY <3>1, <4>1, <4>4
    <3>2. CASE m + 1 \notin t
      <4>1. t \in SUBSET (1..m)
        BY <3>2
      <4>2. t \ {Max(t)} \in SUBSET (1..(m + 1)) /\ m + 1 \notin t \ {Max(t)}
        BY <3>2
      <4>3. h[t] = g[t] /\ h[t \ {Max(t)}] = g[t \ {Max(t)}]
        BY <3>2, <4>2
      <4>4. g[t] = IF t = {} THEN base ELSE ParseLine(g[t \ {Max(t)}], s[Max(t)])
        BY <2>1, <4>1
      <4> HIDE DEF h
      <4> QED
        BY <4>3, <4>4
    <3> QED
      BY <3>1, <3>2
  <2>3. IsFold(h, 1..(m + 1))
    <3>1. h = [t \in SUBSET (1..(m + 1)) |-> h[t]]
      OBVIOUS
    <3> HIDE DEF h
    <3> QED
      BY <2>2, <3>1
  <2> QED
    BY <2>3
<1>3. Folds(n)
  <2> DEFINE bad == {m \in Nat : ~Folds(m)}
  <2> HIDE DEF Folds
  <2>1. ASSUME bad # {} PROVE FALSE
    <3>1. bad \in SUBSET Nat
      OBVIOUS
    <3>2. PICK m \in bad : \A l \in bad : m <= l
      BY <2>1, <3>1, LeastNatural
    <3>3. m \in Nat /\ m # 0 /\ ~Folds(m)
      BY <1>1
    <3>4. m - 1 \in Nat /\ m - 1 \notin bad /\ (m - 1) + 1 = m
      BY <3>2, <3>3
    <3> QED
      BY <1>2, <3>3, <3>4
  <2> QED
    BY <2>1
<1> DEFINE iter == CHOOSE g : IsFold(g, DOMAIN s)
<1>4. ParseAll(base, s) = iter[DOMAIN s]
  BY DEF ParseAll, FoldLeft, MapThenFoldSet
<1>5. IsFold(iter, 1..n)
  <2> HIDE DEF IsFold
  <2> QED
    BY <1>3
<1> HIDE DEF iter
<1> DEFINE vals == [k \in 0..n |-> iter[1..k]]
<1>6. vals[0] = base
  <2>1. vals[0] = iter[{}]
    <3>1. 1..0 = {} /\ 0 \in 0..n
      OBVIOUS
    <3> QED
      BY <3>1
  <2> QED
    BY <1>5, <2>1
<1>7. ASSUME NEW k \in 1..n PROVE vals[k] = ParseLine(vals[k - 1], s[k])
  <2>1. Max(1..k) = k
    <3>1. k \in 1..k /\ 1..k \subseteq Nat /\ \A x \in 1..k : x <= k
      OBVIOUS
    <3> QED
      BY <3>1, LargestIs
  <2>2. 1..k # {} /\ (1..k) \ {k} = 1..(k - 1) /\ 1..k \in SUBSET (1..n)
    OBVIOUS
  <2>3. vals[k] = iter[1..k] /\ vals[k - 1] = iter[1..(k - 1)]
    OBVIOUS
  <2>4. iter[1..k] = ParseLine(iter[(1..k) \ {k}], s[k])
    BY <1>5, <2>1, <2>2
  <2> HIDE DEF vals
  <2> QED
    BY <2>2, <2>3, <2>4
<1>8. ParseAll(base, s) = vals[n] /\ DOMAIN vals = 0..n
  BY <1>4
<1> HIDE DEF vals
<1> QED
  BY <1>6, <1>7, <1>8 DEF Parsing

\* No line decodes to nothing more.
LEMMA ParseNone == ASSUME NEW base PROVE ParseAll(base, <<>>) = base
<1>1. DOMAIN <<>> = 1..0 /\ 0 \in Nat
  OBVIOUS
<1>2. PICK f : Parsing(f, base, 0, <<>>)
  BY <1>1, ParseFold
<1> QED
  BY <1>2 DEF Parsing

\* One more line is decoded after the others.
LEMMA ParseMore ==
    ASSUME NEW base, NEW X, NEW s \in Seq(X), NEW x \in X
    PROVE  ParseAll(base, Append(s, x)) = ParseLine(ParseAll(base, s), x)
<1> DEFINE n == Len(s)
           more == Append(s, x)
<1>1. /\ n \in Nat /\ DOMAIN s = 1..n
      /\ DOMAIN more = 1..(n + 1)
      /\ \A k \in 1..n : more[k] = s[k]
      /\ more[n + 1] = x
  OBVIOUS
<1> HIDE DEF n, more
<1>2. PICK f : Parsing(f, base, n, s)
  BY <1>1, ParseFold
<1>3. PICK g : Parsing(g, base, n + 1, more)
  <2>1. n + 1 \in Nat
    BY <1>1
  <2> QED
    BY <1>1, <2>1, ParseFold
<1> DEFINE S == {k \in 0..n : f[k] = g[k]}
<1>4. 0 \in S
  BY <1>1, <1>2, <1>3 DEF Parsing
<1>5. ASSUME NEW k \in 1..n, k - 1 \in S PROVE k \in S
  <2>1. k \in 1..(n + 1) /\ k \in 0..n
    BY <1>1
  <2>2. f[k] = ParseLine(f[k - 1], s[k]) /\ g[k] = ParseLine(g[k - 1], more[k])
    BY <1>2, <1>3, <2>1 DEF Parsing
  <2> QED
    BY <1>1, <1>5, <2>1, <2>2
<1>6. \A k \in 0..n : k \in S
  <2> HIDE DEF S
  <2> QED
    BY <1>1, <1>4, <1>5, UpTo
<1>7. f[n] = g[n]
  <2>1. n \in 0..n
    BY <1>1
  <2> QED
    BY <1>6, <2>1
<1>8. g[n + 1] = ParseLine(g[n], x)
  <2>1. n + 1 \in 1..(n + 1) /\ (n + 1) - 1 = n
    BY <1>1
  <2>2. g[n + 1] = ParseLine(g[(n + 1) - 1], more[n + 1])
    BY <1>3, <2>1 DEF Parsing
  <2> QED
    BY <1>1, <2>1, <2>2
<1>9. ParseAll(base, s) = f[n] /\ ParseAll(base, more) = g[n + 1]
  BY <1>2, <1>3 DEF Parsing
<1> QED
  BY <1>7, <1>8, <1>9 DEF more

-----------------------------------------------------------------------------
(* The state.                                                              *)

SysCalls ==
    [name : CallNames, file : Files, to : Files, git : BOOLEAN,
     dirfd : Dirs \union {Absent}, ret : {"ok", "error"},
     retPath : (Dirs \X Files) \union {NoPath}, child : Tids]
ExitCalls == [name : {"exited"}, status : {0, 1}]
TraceLines ==
    [tid : Tids, ts : Nat, kind : {"entry", "full", "unfinished", "resumed"},
     call : SysCalls]
    \union [tid : Tids, ts : Nat, kind : {"exited"}, call : ExitCalls]
    \union [tid : Tids, ts : Nat, kind : {"killed"}, call : {NoCall}]
SysLines == [tid : Tids, ts : Nat, kind : {"system"}, call : SysCalls \union ExitCalls]

ThreadStates ==
    [alive : BOOLEAN, cwd : Dirs, program : {"worker", "other", "git"},
     spans : Seq(Nat), call : SysCalls \union {NoCall}, last : Nat]

Begins == [k : {"b"}, id : Nat, ts : Nat, tid : Tids,
           builtin : {b.name : b \in Builtins}, path : {b.path : b \in Builtins}]
Ends == [k : {"e"}, id : Nat, ts : Nat, tid : Tids, exit : {0, 1}]

\* The log decoded as it would be were it cut here: the calls that have returned
\* and, pending, the ones in flight.
NoLog == [lines |-> <<>>, pending |-> <<>>]
Flight == ParseAll(NoLog, Cut(raw))
Returned == Range(Flight.lines)

InFlight(t) == thread[t].call # NoCall
Halved(t, s, c) == [tid |-> t, ts |-> s, kind |-> "unfinished", call |-> c]
Begun(t) == Halved(t, thread[t].last, thread[t].call)

\* A call that thread t entered at s, returned or in flight.
Entered(t, s, c) ==
    \/ \E x \in Returned : x.tid = t /\ x.ts = s /\ x.call = c
    \/ InFlight(t) /\ thread[t].call = c /\ thread[t].last = s

Clones(c, t) == c.name = "clone" /\ c.child = t

Typed ==
    /\ clock \in Nat
    /\ thread \in [Tids -> ThreadStates]
    /\ raw \in Seq(TraceLines)
    /\ records \in Seq(Begins \union Ends)
    /\ over \in BOOLEAN /\ dumped \in BOOLEAN

\* Nothing is traced before the worker starts, nothing runs after the tracer.
Bounded ==
    /\ raw = <<>> => /\ thread = [t \in Tids |-> Dead]
                     /\ records = <<>> /\ did = <<>> /\ ~over
    /\ raw # <<>> => raw[1].tid = Root
    /\ over => Live = {}
    /\ \A t \in Tids \ {Root} :
          t \notin Live => thread[t].call = NoCall /\ thread[t].spans = <<>>
    /\ \A i \in DOMAIN raw : raw[i].kind = "exited" /\ raw[i].tid = Root =>
          /\ Root \notin Live /\ thread[Root].call = NoCall
          /\ raw[i].call.status = 0 => dumped
          /\ \A j \in DOMAIN raw :
                raw[j].kind = "exited" /\ raw[j].tid = Root => i = j

\* The log holds each call once, and what is pending is what is in flight.
Logged ==
    /\ Range(Flight.pending) = {Begun(t) : t \in {u \in Tids : InFlight(u)}}
    /\ \A i, j \in DOMAIN Flight.pending :
          Flight.pending[i] = Flight.pending[j] => i = j
    /\ \A i, j \in DOMAIN Flight.lines :
          /\ Flight.lines[i].tid = Flight.lines[j].tid
          /\ Flight.lines[i].ts = Flight.lines[j].ts
          => i = j
    /\ \A t \in Tids, s \in Nat : \A c \in SysCalls \union ExitCalls :
          Entered(t, s, c) =>
             \E i \in DOMAIN raw : raw[i].tid = t /\ raw[i].ts = s /\ raw[i].call = c

\* Stamps of a thread grow, and a thread's are later than the clone that made it.
Stamped ==
    /\ \A t \in Tids : thread[t].last <= clock
    /\ \A x \in Returned : x.ts <= thread[x.tid].last
    /\ \A x \in Returned : InFlight(x.tid) => x.ts < thread[x.tid].last
    /\ \A i \in DOMAIN records : records[i].ts <= thread[records[i].tid].last
    /\ \A i \in DOMAIN records, j \in DOMAIN records :
          i < j => records[i].ts <= records[j].ts
    /\ \A i \in DOMAIN records : \A s \in Nat : \A c \in SysCalls \union ExitCalls :
          Entered(records[i].tid, s, c) => records[i].ts # s

\* The spans of a thread: begun by it, not ended, git's innermost.
IsGit(i) == records[i].k = "b" /\ IsGitBuiltin(records[i].builtin)
EndsOf(i) == EdgesOf(i, "e")

Numbered == \A i \in DOMAIN records : records[i].k = "b" => records[i].id = i
Paired == \A i \in DOMAIN records : records[i].k = "e" =>
    /\ records[i].id \in DOMAIN records /\ records[i].id < i
    /\ records[records[i].id].k = "b" /\ records[records[i].id].tid = records[i].tid
    /\ records[i].exit = 0 =>
          /\ records[records[i].id].builtin # "git"
          /\ records[records[i].id].builtin = "git add" =>
                SeedResource(records[records[i].id].path)
    /\ \A j \in EndsOf(records[i].id) : i = j
Nested == \A t \in Tids : \A n \in DOMAIN thread[t].spans :
    /\ thread[t].spans[n] \in DOMAIN records
    /\ records[thread[t].spans[n]].k = "b" /\ records[thread[t].spans[n]].tid = t
    /\ EndsOf(thread[t].spans[n]) = {}
    /\ \A m \in DOMAIN thread[t].spans : m < n =>
          thread[t].spans[m] < thread[t].spans[n] /\ ~IsGit(thread[t].spans[m])
    /\ n = Len(thread[t].spans) /\ IsGit(thread[t].spans[n]) =>
          \A i \in DOMAIN records :
             records[i].tid = t /\ records[i].k = "b" => i <= thread[t].spans[n]
Apart == \A i, j \in DOMAIN records :
    IsGit(i) /\ IsGit(j) /\ records[i].tid = records[j].tid /\ i < j =>
       \A e \in EndsOf(i) : e < j

Spanned == Numbered /\ Paired /\ Nested /\ Apart

\* A git process shows in the log.
GitShows ==
    /\ \A t \in Tids : thread[t].program = "git" =>
          \E x \in Returned : x.call.name = "execve" /\ x.call.ret = "ok" /\ x.call.git
    /\ \A x \in Returned :
          x.call.name = "execve" /\ x.call.ret = "ok" /\ x.call.git =>
             thread[x.tid].program = "git"
    /\ \A t \in Tids : InFlight(t) /\ thread[t].call.name = "execve" =>
          thread[t].program = "worker"

LogInv == Typed /\ Bounded /\ Logged /\ Stamped /\ Spanned /\ GitShows

-----------------------------------------------------------------------------
(* The log, decoded.                                                       *)

\* A set of numbers up to n that is not empty has a largest element.
LEMMA LargestBelow ==
    ASSUME NEW n \in Nat, NEW S \in SUBSET (0..n), S # {}
    PROVE  \E k \in S : \A l \in S : l <= k
<1> DEFINE above == {n - k : k \in S}
<1>1. above \in SUBSET Nat /\ above # {}
  <2>1. \A k \in S : n - k \in Nat
    OBVIOUS
  <2>2. above # {}
    OBVIOUS
  <2> QED
    BY <2>1, <2>2
<1>2. PICK k \in above : \A l \in above : k <= l
  <2> HIDE DEF above
  <2> QED
    BY <1>1, LeastNatural
<1>3. PICK m \in S : k = n - m
  BY <1>2
<1>4. ASSUME NEW l \in S PROVE l <= m
  <2>1. n - m <= n - l
    BY <1>2, <1>3
  <2> QED
    BY <2>1
<1> QED
  BY <1>4

\* An element taken out of a sequence: the others keep their order.
LEMMA RemoveAtIs ==
    ASSUME NEW X, NEW s \in Seq(X), NEW k \in DOMAIN s
    PROVE  /\ RemoveAt(s, k) \in Seq(X)
           /\ Len(RemoveAt(s, k)) = Len(s) - 1
           /\ \A i \in 1..(Len(s) - 1) :
                 RemoveAt(s, k)[i] = IF i < k THEN s[i] ELSE s[i + 1]
<1> DEFINE a == SubSeq(s, 1, k - 1)
           b == SubSeq(s, k + 1, Len(s))
<1>1. k \in 1..Len(s) /\ Len(s) \in Nat
  OBVIOUS
<1>2. /\ a \in Seq(X) /\ Len(a) = k - 1
      /\ \A i \in 1..(k - 1) : a[i] = s[i]
  BY <1>1
<1>3. /\ b \in Seq(X) /\ Len(b) = Len(s) - k
      /\ \A i \in 1..(Len(s) - k) : b[i] = s[i + k]
  BY <1>1
<1>4. RemoveAt(s, k) = a \o b
  BY DEF RemoveAt
<1> HIDE DEF a, b
<1>5. /\ a \o b \in Seq(X) /\ Len(a \o b) = Len(s) - 1
      /\ \A i \in 1..(Len(s) - 1) : (a \o b)[i] = IF i <= k - 1 THEN a[i] ELSE b[i - (k - 1)]
  <2>1. /\ a \o b \in Seq(X) /\ Len(a \o b) = Len(a) + Len(b)
        /\ \A i \in 1..(Len(a) + Len(b)) :
              (a \o b)[i] = IF i <= Len(a) THEN a[i] ELSE b[i - Len(a)]
    BY <1>2, <1>3, ConcatProperties
  <2>2. Len(a) + Len(b) = Len(s) - 1
    BY <1>1, <1>2, <1>3
  <2> QED
    BY <1>2, <2>1, <2>2
<1>6. ASSUME NEW i \in 1..(Len(s) - 1)
      PROVE  (a \o b)[i] = IF i < k THEN s[i] ELSE s[i + 1]
  <2>1. CASE i < k
    <3>1. i <= k - 1 /\ i \in 1..(k - 1)
      BY <1>1, <2>1
    <3> QED
      BY <1>2, <1>5, <2>1, <3>1
  <2>2. CASE ~(i < k)
    <3>1. ~(i <= k - 1) /\ i - (k - 1) \in 1..(Len(s) - k) /\ (i - (k - 1)) + k = i + 1
      BY <1>1, <2>2
    <3> QED
      BY <1>3, <1>5, <2>2, <3>1
  <2> QED
    BY <2>1, <2>2
<1> QED
  BY <1>4, <1>5, <1>6

\* The elements but the one taken out, each still once.
LEMMA RemoveAtRange ==
    ASSUME NEW X, NEW s \in Seq(X), NEW k \in DOMAIN s,
           \A i, j \in DOMAIN s : s[i] = s[j] => i = j
    PROVE  LET r == RemoveAt(s, k)
           IN  /\ Range(r) = Range(s) \ {s[k]}
               /\ \A i, j \in DOMAIN r : r[i] = r[j] => i = j
<1> DEFINE r == RemoveAt(s, k)
           at(i) == IF i < k THEN i ELSE i + 1
<1>1. k \in 1..Len(s) /\ Len(s) \in Nat /\ DOMAIN s = 1..Len(s)
  OBVIOUS
<1>2. /\ DOMAIN r = 1..(Len(s) - 1)
      /\ \A i \in DOMAIN r : r[i] = s[at(i)] /\ at(i) \in DOMAIN s /\ at(i) # k
  <2>1. /\ r \in Seq(X) /\ Len(r) = Len(s) - 1
        /\ \A i \in 1..(Len(s) - 1) : r[i] = IF i < k THEN s[i] ELSE s[i + 1]
    BY RemoveAtIs
  <2> HIDE DEF r
  <2>2. DOMAIN r = 1..(Len(s) - 1)
    BY <2>1
  <2> QED
    BY <1>1, <2>1, <2>2
<1>3. ASSUME NEW i \in DOMAIN s, i # k
      PROVE  \E j \in DOMAIN r : at(j) = i
  <2>1. CASE i < k
    <3>1. i \in 1..(Len(s) - 1)
      BY <1>1, <2>1
    <3> QED
      BY <1>2, <2>1, <3>1
  <2>2. CASE i > k
    <3>1. i - 1 \in 1..(Len(s) - 1) /\ ~(i - 1 < k) /\ (i - 1) + 1 = i
      BY <1>1, <2>2
    <3> QED
      BY <1>2, <3>1
  <2> QED
    BY <1>1, <1>3, <2>1, <2>2
<1>4. \A i, j \in DOMAIN r : at(i) = at(j) => i = j
  BY <1>1, <1>2
<1> HIDE DEF r, at
<1>5. Range(r) = Range(s) \ {s[k]}
  BY <1>1, <1>2, <1>3 DEF Range
<1>6. \A i, j \in DOMAIN r : r[i] = r[j] => i = j
  BY <1>2, <1>4
<1> QED
  BY <1>5, <1>6 DEF r

\* Cutting the log leaves its length and every call and stamp.
LEMMA CutIs ==
    ASSUME NEW log \in Seq(TraceLines)
    PROVE  /\ Cut(log) \in Seq(TraceLines)
           /\ Len(Cut(log)) = Len(log)
           /\ \A i \in 1..Len(log) :
                 /\ Cut(log)[i].tid = log[i].tid
                 /\ Cut(log)[i].ts = log[i].ts
                 /\ Cut(log)[i].call = log[i].call
                 /\ Cut(log)[i].kind = "exited" <=> log[i].kind = "exited"
                 /\ Cut(log)[i].kind = "exited" => Cut(log)[i] = log[i]
<1>1. CASE log # <<>> /\ Last(log).kind = "entry"
  <2> DEFINE n == Len(log)
             l == [log[n] EXCEPT !.kind = "unfinished"]
  <2>1. n \in DOMAIN log /\ log[n] \in TraceLines /\ log[n].kind = "entry"
        /\ n \in Nat /\ DOMAIN log = 1..n
    BY <1>1 DEF Last
  <2>2. Cut(log) = [log EXCEPT ![n] = l]
    BY <1>1, <2>1 DEF Cut
  <2>3. l \in TraceLines /\ l.tid = log[n].tid /\ l.ts = log[n].ts
        /\ l.call = log[n].call /\ l.kind = "unfinished"
    BY <2>1 DEF TraceLines
  <2> HIDE DEF l, n
  <2>4. /\ [log EXCEPT ![n] = l] \in Seq(TraceLines)
        /\ Len([log EXCEPT ![n] = l]) = Len(log)
        /\ \A i \in 1..Len(log) : [log EXCEPT ![n] = l][i] = IF i = n THEN l ELSE log[i]
    BY <2>1, <2>3 DEF n
  <2> QED
    BY <2>1, <2>2, <2>3, <2>4
<1>2. CASE ~(log # <<>> /\ Last(log).kind = "entry")
  <2>1. Cut(log) = log
    BY <1>2 DEF Cut
  <2> QED
    BY <2>1
<1> QED
  BY <1>1, <1>2

\* A log that is cut is not cut again.
LEMMA CutTwice ==
    ASSUME NEW log \in Seq(TraceLines)
    PROVE  Cut(Cut(log)) = Cut(log)
<1> DEFINE n == Len(log)
           l == [log[n] EXCEPT !.kind = "unfinished"]
           c == [log EXCEPT ![n] = l]
<1>1. CASE log # <<>> /\ Last(log).kind = "entry"
  <2>1. n \in 1..Len(log) /\ log[n] \in TraceLines /\ log[n].kind = "entry"
    BY <1>1 DEF Last
  <2>2. Cut(log) = c
    BY <1>1, <2>1 DEF Cut
  <2>3. l \in TraceLines /\ l.kind = "unfinished"
    BY <2>1 DEF TraceLines
  <2> HIDE DEF l
  <2>4. c \in Seq(TraceLines) /\ Len(c) = n /\ c[n] = l
    BY <2>1, <2>3, ExceptSeq
  <2> HIDE DEF c, n
  <2>5. Last(c).kind = "unfinished"
    BY <2>3, <2>4 DEF Last
  <2> QED
    BY <2>2, <2>5 DEF Cut
<1>2. CASE ~(log # <<>> /\ Last(log).kind = "entry")
  BY <1>2 DEF Cut
<1> QED
  BY <1>1, <1>2

\* A line printed after a log that is cut there, and cut again.
LEMMA CutPrinted ==
    ASSUME NEW log \in Seq(TraceLines), NEW l \in TraceLines
    PROVE  Cut(Append(log, l)) =
              IF l.kind = "entry" THEN Append(log, [l EXCEPT !.kind = "unfinished"])
              ELSE Append(log, l)
<1> DEFINE s == Append(log, l)
           u == [l EXCEPT !.kind = "unfinished"]
<1>1. /\ s \in Seq(TraceLines) /\ s # <<>> /\ Len(s) = Len(log) + 1
      /\ s[Len(s)] = l /\ Last(s) = l
      /\ DOMAIN s = 1..(Len(log) + 1)
      /\ \A i \in 1..Len(log) : s[i] = log[i]
  BY DEF Last
<1>2. CASE l.kind = "entry"
  <2>1. Cut(s) = [s EXCEPT ![Len(s)] = u]
    BY <1>1, <1>2 DEF Cut
  <2>2. u \in TraceLines
    BY <1>2 DEF TraceLines
  <2> DEFINE r == Append(log, u)
  <2>3. /\ r \in Seq(TraceLines) /\ DOMAIN r = 1..(Len(log) + 1)
        /\ r[Len(log) + 1] = u
        /\ \A i \in 1..Len(log) : r[i] = log[i]
    <3> HIDE DEF u
    <3> QED
      BY <2>2
  <2>4. [s EXCEPT ![Len(s)] = u] = r
    <3> HIDE DEF u, r, s
    <3>1. DOMAIN [s EXCEPT ![Len(s)] = u] = DOMAIN r
      BY <1>1, <2>3
    <3>2. \A i \in DOMAIN r : [s EXCEPT ![Len(s)] = u][i] = r[i]
      BY <1>1, <2>3
    <3>3. r = [i \in DOMAIN r |-> r[i]]
      BY <2>3
    <3> QED
      BY <3>1, <3>2, <3>3
  <2> QED
    BY <1>2, <2>1, <2>4
<1>3. CASE l.kind # "entry"
  BY <1>1, <1>3 DEF Cut
<1> QED
  BY <1>2, <1>3

\* Decoded or pending, a call is one of the calls there are.
LEMMA ParseTyped ==
    ASSUME NEW log \in Seq(TraceLines)
    PROVE  LET parsed == ParseAll(NoLog, log)
           IN  /\ parsed = [lines |-> parsed.lines, pending |-> parsed.pending]
               /\ parsed.lines \in Seq(SysLines)
               /\ parsed.pending \in Seq(TraceLines)
<1> DEFINE OK(parsed) == /\ parsed = [lines |-> parsed.lines, pending |-> parsed.pending]
                         /\ parsed.lines \in Seq(SysLines)
                         /\ parsed.pending \in Seq(TraceLines)
           n == Len(log)
<1>1. n \in Nat /\ DOMAIN log = 1..n
  OBVIOUS
<1>2. PICK f : Parsing(f, NoLog, n, log)
  <2> HIDE DEF n
  <2> QED
    BY <1>1, ParseFold
<1> DEFINE S == {k \in 0..n : OK(f[k])}
<1>a. \A ls \in Seq(SysLines), pe \in Seq(TraceLines) : OK([lines |-> ls, pending |-> pe])
  OBVIOUS
<1>3. 0 \in S
  <2>1. f[0] = NoLog
    BY <1>2 DEF Parsing
  <2>2. OK(NoLog)
    BY DEF NoLog
  <2> QED
    BY <1>1, <2>1, <2>2
<1>4. ASSUME NEW k \in 1..n, k - 1 \in S PROVE k \in S
  <2> DEFINE p == f[k - 1]
             l == log[k]
  <2>1. OK(p) /\ l \in TraceLines /\ f[k] = ParseLine(p, l) /\ k \in 0..n
    BY <1>1, <1>2, <1>4 DEF Parsing
  <2>2. CASE l.kind \in {"full", "exited"}
    <3> DEFINE x == Whole(l.tid, l.ts, l.call)
    <3>1. x \in SysLines
      BY <2>1, <2>2 DEF TraceLines, SysLines, Whole
    <3>2. f[k] = [p EXCEPT !.lines = Append(@, x)]
      BY <2>1, <2>2 DEF ParseLine
    <3> HIDE DEF x, p, l
    <3>3. f[k] = [lines |-> Append(p.lines, x), pending |-> p.pending]
      BY <2>1, <3>2
    <3>4. Append(p.lines, x) \in Seq(SysLines)
      BY <2>1, <3>1
    <3>5. p.lines \in Seq(SysLines) /\ p.pending \in Seq(TraceLines)
      BY <2>1
    <3> HIDE DEF OK
    <3>9. OK(f[k])
      BY <1>a, <3>3, <3>4, <3>5
    <3> QED
      BY <2>1, <3>9
  <2>3. CASE l.kind = "unfinished"
    <3>2. f[k] = [p EXCEPT !.pending = Append(@, l)]
      BY <2>1, <2>3 DEF ParseLine
    <3> HIDE DEF p, l
    <3>3. f[k] = [lines |-> p.lines, pending |-> Append(p.pending, l)]
      BY <2>1, <3>2
    <3>4. Append(p.pending, l) \in Seq(TraceLines)
      BY <2>1
    <3>5. p.lines \in Seq(SysLines) /\ p.pending \in Seq(TraceLines)
      BY <2>1
    <3> HIDE DEF OK
    <3>9. OK(f[k])
      BY <1>a, <3>3, <3>4, <3>5
    <3> QED
      BY <2>1, <3>9
  <2>4. CASE l.kind = "resumed"
    <3> DEFINE i == TakePending(p.pending, l)
               ts == IF i = 0 THEN l.ts ELSE p.pending[i].ts
               x == Whole(l.tid, ts, l.call)
               rest == IF i = 0 THEN p.pending ELSE RemoveAt(p.pending, i)
    <3>1. f[k] = [lines |-> Append(p.lines, x), pending |-> rest]
      BY <2>1, <2>4 DEF ParseLine
    <3>2. i = 0 \/ i \in DOMAIN p.pending
      <4> DEFINE mine == {j \in DOMAIN p.pending :
                    p.pending[j].tid = l.tid /\ p.pending[j].call.name = l.call.name}
      <4>1. i = IF mine = {} THEN 0 ELSE CHOOSE j \in mine : \A m \in mine : m <= j
        BY DEF TakePending
      <4>2. Len(p.pending) \in Nat /\ mine \in SUBSET (0..Len(p.pending))
        BY <2>1
      <4>3. mine # {} => \E j \in mine : \A m \in mine : m <= j
        <5> HIDE DEF mine
        <5> QED
          BY <4>2, LargestBelow
      <4> HIDE DEF mine, i
      <4>4. i = 0 \/ i \in mine
        BY <4>1, <4>3
      <4> QED
        BY <4>4 DEF mine
    <3> HIDE DEF i
    <3>3. rest \in Seq(TraceLines)
      BY <2>1, <3>2, RemoveAtIs
    <3>4. ts \in Nat
      <4>1. l.ts \in Nat
        BY <2>1 DEF TraceLines
      <4>2. i # 0 => p.pending[i] \in TraceLines
        BY <2>1, <3>2
      <4> QED
        BY <4>1, <4>2 DEF TraceLines
    <3>5. x \in SysLines
      <4> HIDE DEF ts
      <4> QED
        BY <2>1, <2>4, <3>4 DEF TraceLines, SysLines, Whole
    <3> HIDE DEF x, rest, p, l
    <3>6. Append(p.lines, x) \in Seq(SysLines)
      BY <2>1, <3>5
    <3> HIDE DEF OK
    <3>9. OK(f[k])
      BY <1>a, <2>1, <3>1, <3>3, <3>6
    <3> QED
      BY <2>1, <3>9
  <2>5. CASE l.kind \notin {"full", "exited", "unfinished", "resumed"}
    <3>1. f[k] = p
      BY <2>1, <2>5 DEF ParseLine
    <3> HIDE DEF p
    <3> QED
      BY <2>1, <3>1
  <2> QED
    BY <2>2, <2>3, <2>4, <2>5
<1>5. n \in S
  <2>1. n \in 0..n
    BY <1>1
  <2> HIDE DEF S, n
  <2> QED
    BY <1>1, <1>3, <1>4, <2>1, UpTo
<1>6. ParseAll(NoLog, log) = f[n]
  BY <1>2 DEF Parsing
<1> QED
  BY <1>5, <1>6

\* A line of another kind.
LEMMA Rekinded ==
    ASSUME NEW t, NEW q, NEW k, NEW c, NEW n
    PROVE  [[tid |-> t, ts |-> q, kind |-> k, call |-> c] EXCEPT !.kind = n]
              = [tid |-> t, ts |-> q, kind |-> n, call |-> c]
<1> DEFINE r == [tid |-> t, ts |-> q, kind |-> k, call |-> c]
           x == [r EXCEPT !.kind = n]
<1>1. /\ x = [tid |-> x.tid, ts |-> x.ts, kind |-> x.kind, call |-> x.call]
      /\ x.tid = t /\ x.ts = q /\ x.kind = n /\ x.call = c
  OBVIOUS
<1> HIDE DEF x
<1>2. x = [tid |-> t, ts |-> q, kind |-> n, call |-> c]
  BY <1>1
<1> QED
  BY <1>2 DEF x

\* Two lines of the log are one when they are the same in each field.
LEMMA LineIs ==
    ASSUME NEW l \in TraceLines
    PROVE  l = [tid |-> l.tid, ts |-> l.ts, kind |-> l.kind, call |-> l.call]
<1>1. CASE l.kind = "exited"
  BY <1>1 DEF TraceLines
<1>2. CASE l.kind = "killed"
  BY <1>2 DEF TraceLines
<1>3. CASE l.kind \notin {"exited", "killed"}
  BY <1>3 DEF TraceLines
<1> QED
  BY <1>1, <1>2, <1>3

\* What has been decoded is calls.
LEMMA FlightTyped ==
    ASSUME Typed
    PROVE  /\ Flight = [lines |-> Flight.lines, pending |-> Flight.pending]
           /\ Flight.lines \in Seq(SysLines)
           /\ Flight.pending \in Seq(TraceLines)
<1>1. Cut(raw) \in Seq(TraceLines)
  BY CutIs DEF Typed
<1> QED
  BY <1>1, ParseTyped DEF Flight

\* A call entered is pending.
LEMMA FlightEntered ==
    ASSUME Typed, NEW l \in TraceLines, l.kind = "entry", raw' = Append(Cut(raw), l)
    PROVE  Flight' = [lines |-> Flight.lines,
                      pending |-> Append(Flight.pending, Halved(l.tid, l.ts, l.call))]
<1> DEFINE u == [l EXCEPT !.kind = "unfinished"]
<1>1. Cut(raw) \in Seq(TraceLines)
  BY CutIs DEF Typed
<1>2. Cut(raw') = Append(Cut(raw), u)
  <2>1. Cut(Cut(raw)) = Cut(raw)
    BY CutTwice DEF Typed
  <2> QED
    BY <1>1, CutPrinted
<1>3. u \in TraceLines /\ u.kind = "unfinished"
  BY DEF TraceLines
<1> HIDE DEF u
<1>4. ParseAll(NoLog, Append(Cut(raw), u)) = ParseLine(ParseAll(NoLog, Cut(raw)), u)
  BY <1>1, <1>3, ParseMore
<1>5. Flight' = ParseLine(Flight, u)
  BY <1>2, <1>4 DEF Flight
<1>6. Flight' = [Flight EXCEPT !.pending = Append(@, u)]
  BY <1>3, <1>5 DEF ParseLine
<1>7. Flight = [lines |-> Flight.lines, pending |-> Flight.pending]
  BY FlightTyped
<1>8. u = Halved(l.tid, l.ts, l.call)
  BY LineIs, Rekinded DEF u, Halved
<1> QED
  BY <1>6, <1>7, <1>8

\* A line that is whole is decoded at once.
LEMMA FlightPrinted ==
    ASSUME Typed, NEW l \in TraceLines, l.kind \in {"full", "exited"},
           raw' = Append(Cut(raw), l)
    PROVE  Flight' = [lines |-> Append(Flight.lines, Whole(l.tid, l.ts, l.call)),
                      pending |-> Flight.pending]
<1> DEFINE x == Whole(l.tid, l.ts, l.call)
<1>1. Cut(raw) \in Seq(TraceLines)
  BY CutIs DEF Typed
<1>2. Cut(raw') = Append(Cut(raw), l)
  BY <1>1, CutPrinted
<1>4. ParseAll(NoLog, Append(Cut(raw), l)) = ParseLine(ParseAll(NoLog, Cut(raw)), l)
  BY <1>1, ParseMore
<1>5. Flight' = ParseLine(Flight, l)
  BY <1>2, <1>4 DEF Flight
<1>6. Flight' = [Flight EXCEPT !.lines = Append(@, x)]
  BY <1>5 DEF ParseLine
<1>7. Flight = [lines |-> Flight.lines, pending |-> Flight.pending]
  BY FlightTyped
<1> HIDE DEF x
<1> QED
  BY <1>6, <1>7 DEF x

\* The record of a kill is not a call.
LEMMA FlightKilled ==
    ASSUME Typed, NEW l \in TraceLines, l.kind = "killed", raw' = Append(Cut(raw), l)
    PROVE  Flight' = Flight
<1>1. Cut(raw) \in Seq(TraceLines)
  BY CutIs DEF Typed
<1>2. Cut(raw') = Append(Cut(raw), l)
  BY <1>1, CutPrinted
<1>4. ParseAll(NoLog, Append(Cut(raw), l)) = ParseLine(ParseAll(NoLog, Cut(raw)), l)
  BY <1>1, ParseMore
<1>5. Flight' = ParseLine(Flight, l)
  BY <1>2, <1>4 DEF Flight
<1> QED
  BY <1>5 DEF ParseLine

\* A call that returns is decoded with the stamp of its entry, whether its line
\* was cut or not, and is pending no longer.
LEMMA FlightReturned ==
    ASSUME Typed, Bounded, Logged, NEW t \in Tids, InFlight(t),
           raw' = IF Last(raw).kind = "entry" /\ Last(raw).tid = t
                    THEN [raw EXCEPT ![Len(raw)].kind = "full"]
                    ELSE Append(Cut(raw), [tid |-> t, ts |-> clock, kind |-> "resumed",
                                           call |-> thread[t].call])
    PROVE  \E k \in DOMAIN Flight.pending :
              /\ Flight.pending[k] = Begun(t)
              /\ Flight' = [lines |-> Append(Flight.lines, Whole(t, thread[t].last, thread[t].call)),
                            pending |-> RemoveAt(Flight.pending, k)]
<1> DEFINE lines == Flight.lines
           pending == Flight.pending
           b == Begun(t)
           n == Len(raw)
           l == raw[n]
           rest == SubSeq(raw, 1, n - 1)
           c == thread[t].call
<1>1. /\ Flight = [lines |-> lines, pending |-> pending]
      /\ lines \in Seq(SysLines) /\ pending \in Seq(TraceLines)
  BY FlightTyped
<1>2. raw # <<>>
  <2>1. SUFFICES ASSUME raw = <<>> PROVE FALSE
    OBVIOUS
  <2>2. thread[t] = Dead
    BY <2>1 DEF Bounded
  <2> QED
    BY <2>2 DEF InFlight, Dead
<1>3. c \in SysCalls /\ thread[t].last \in Nat /\ clock \in Nat
  <2>1. thread[t] \in ThreadStates
    BY DEF Typed
  <2> QED
    BY <2>1 DEF ThreadStates, InFlight, Typed
<1>4. /\ n \in Nat /\ n > 0 /\ DOMAIN raw = 1..n /\ l \in TraceLines
      /\ Last(raw) = l
  BY <1>2 DEF Typed, Last
<1>5. PICK k \in DOMAIN pending : pending[k] = b
  <2>1. b \in Range(pending)
    BY DEF Logged
  <2> QED
    BY <2>1 DEF Range
<1>6. \A i \in DOMAIN pending : pending[i].tid = t => i = k
  <2> TAKE i \in DOMAIN pending
  <2> HAVE pending[i].tid = t
  <2>1. pending[i] \in Range(pending)
    BY DEF Range
  <2>2. PICK u \in Tids : pending[i] = Begun(u)
    BY <2>1 DEF Logged
  <2>3. u = t
    BY <2>2 DEF Begun, Halved
  <2> QED
    BY <1>5, <2>2, <2>3 DEF Logged
<1>7. CASE l.kind = "entry" /\ l.tid = t
  <2> DEFINE u == [l EXCEPT !.kind = "unfinished"]
             w == [l EXCEPT !.kind = "full"]
             p == ParseAll(NoLog, rest)
  <2>1. /\ rest \in Seq(TraceLines) /\ Len(rest) = n - 1
        /\ \A i \in 1..(n - 1) : rest[i] = raw[i]
    <3>1. \A i \in 1..(n - 1) : raw[i] \in TraceLines
      BY <1>4 DEF Typed
    <3>2. 1 \in Int /\ n - 1 \in Int /\ (n - 1) - 1 + 1 = n - 1
      BY <1>4
    <3>3. /\ rest \in Seq(TraceLines)
          /\ Len(rest) = IF 1 <= n - 1 THEN (n - 1) - 1 + 1 ELSE 0
          /\ \A i \in 1..((n - 1) - 1 + 1) : rest[i] = raw[1 + i - 1]
      <4> HIDE DEF n
      <4> QED
        BY <3>1, <3>2, SubSeqProperties
    <3>4. (n - 1) - 1 + 1 = n - 1 /\ \A i \in 1..(n - 1) : 1 + i - 1 = i
      BY <1>4
    <3> HIDE DEF rest, n
    <3>5. Len(rest) = n - 1
      BY <1>4, <3>3, <3>4
    <3>6. \A i \in 1..(n - 1) : rest[i] = raw[i]
      BY <3>3, <3>4
    <3> QED
      BY <3>3, <3>5, <3>6
  <2>2. u \in TraceLines /\ w \in TraceLines
        /\ u.kind = "unfinished" /\ w.kind = "full" /\ u.tid = t
    BY <1>4, <1>7 DEF TraceLines
  <2>3. raw = Append(rest, l)
    <3> HIDE DEF rest, l
    <3>1. /\ Append(rest, l) \in Seq(TraceLines)
          /\ Len(Append(rest, l)) = n
          /\ \A i \in 1..n : Append(rest, l)[i] = IF i = n THEN l ELSE rest[i]
      <4> HIDE DEF n
      <4>1. /\ Append(rest, l) \in Seq(TraceLines)
            /\ Len(Append(rest, l)) = Len(rest) + 1
            /\ \A i \in 1..Len(rest) : Append(rest, l)[i] = rest[i]
            /\ Append(rest, l)[Len(rest) + 1] = l
        BY <1>4, <2>1, AppendProperties
      <4>2. Len(rest) = n - 1 /\ (n - 1) + 1 = n /\ \A i \in 1..n : i = n \/ i \in 1..(n - 1)
        BY <1>4, <2>1
      <4> QED
        BY <4>1, <4>2
    <3>2. \A i \in 1..n : Append(rest, l)[i] = raw[i]
      BY <1>4, <2>1, <3>1 DEF l
    <3> QED
      BY <3>1, <3>2, SeqEqual DEF Typed
  <2>4. raw' = Append(rest, w)
    <3>1. raw' = [raw EXCEPT ![n] = w]
      BY <1>4, <1>7
    <3> DEFINE new == [raw EXCEPT ![n] = w]
    <3> HIDE DEF rest, w, l
    <3>2. /\ Append(rest, w) \in Seq(TraceLines)
          /\ Len(Append(rest, w)) = n
          /\ \A i \in 1..n : Append(rest, w)[i] = IF i = n THEN w ELSE rest[i]
      <4> HIDE DEF n
      <4>1. /\ Append(rest, w) \in Seq(TraceLines)
            /\ Len(Append(rest, w)) = Len(rest) + 1
            /\ \A i \in 1..Len(rest) : Append(rest, w)[i] = rest[i]
            /\ Append(rest, w)[Len(rest) + 1] = w
        BY <2>1, <2>2, AppendProperties
      <4>2. Len(rest) = n - 1 /\ (n - 1) + 1 = n /\ \A i \in 1..n : i = n \/ i \in 1..(n - 1)
        BY <1>4, <2>1
      <4> QED
        BY <4>1, <4>2
    <3>3. /\ new \in Seq(TraceLines) /\ Len(new) = n
          /\ \A i \in 1..n : new[i] = IF i = n THEN w ELSE raw[i]
      BY <1>4, <2>2, ExceptSeq DEF Typed
    <3> HIDE DEF n, new
    <3>4. \A i \in 1..n : Append(rest, w)[i] = new[i]
      BY <1>4, <2>1, <3>2, <3>3
    <3>5. new = Append(rest, w)
      BY <3>2, <3>3, <3>4, SeqEqual
    <3> QED
      BY <3>1, <3>5 DEF new
  <2>5. Cut(raw) = Append(rest, u) /\ Cut(raw') = Append(rest, w)
    <3> HIDE DEF rest, l
    <3> QED
      BY <1>4, <1>7, <2>1, <2>2, <2>3, <2>4, CutPrinted
  <2>6. Flight = ParseLine(p, u) /\ Flight' = ParseLine(p, w)
    <3> HIDE DEF rest, u, w
    <3>1. /\ ParseAll(NoLog, Append(rest, u)) = ParseLine(p, u)
          /\ ParseAll(NoLog, Append(rest, w)) = ParseLine(p, w)
      BY <2>1, <2>2, ParseMore
    <3>2. Flight = ParseAll(NoLog, Append(rest, u))
      BY <2>5 DEF Flight
    <3>3. Flight' = ParseAll(NoLog, Append(rest, w))
      BY <2>5 DEF Flight
    <3> QED
      BY <3>1, <3>2, <3>3
  <2>7. p = [lines |-> p.lines, pending |-> p.pending]
        /\ p.lines \in Seq(SysLines) /\ p.pending \in Seq(TraceLines)
    <3> HIDE DEF rest
    <3> QED
      BY <2>1, ParseTyped
  <2> HIDE DEF p, rest
  <2>8. Flight = [lines |-> p.lines, pending |-> Append(p.pending, u)]
    <3>1. Flight = [p EXCEPT !.pending = Append(@, u)]
      <4> HIDE DEF u, w
      <4> QED
        BY <2>2, <2>6 DEF ParseLine
    <3> HIDE DEF u, w
    <3> QED
      BY <2>7, <3>1
  <2>9. Flight' = [lines |-> Append(p.lines, Whole(w.tid, w.ts, w.call)),
                   pending |-> p.pending]
    <3> DEFINE x == Whole(w.tid, w.ts, w.call)
    <3>1. Flight' = [p EXCEPT !.lines = Append(@, x)]
      <4> HIDE DEF u, w
      <4> QED
        BY <2>2, <2>6 DEF ParseLine
    <3> HIDE DEF u, w, x
    <3> QED
      BY <2>7, <3>1 DEF x
  <2>10. /\ lines = p.lines /\ pending = Append(p.pending, u)
    BY <2>8
  <2>11. /\ DOMAIN pending = 1..(Len(p.pending) + 1) /\ Len(p.pending) \in Nat
         /\ Len(pending) = Len(p.pending) + 1
         /\ pending[Len(p.pending) + 1] = u
         /\ \A i \in 1..Len(p.pending) : pending[i] = p.pending[i]
    <3> HIDE DEF u, pending
    <3> QED
      BY <2>2, <2>7, <2>10
  <2>12. k = Len(p.pending) + 1 /\ u = b
    <3> HIDE DEF u, pending
    <3>1. Len(p.pending) + 1 \in DOMAIN pending
      BY <2>11
    <3> QED
      BY <1>5, <1>6, <2>2, <2>11, <3>1
  <2>13. RemoveAt(pending, k) = p.pending
    <3> HIDE DEF u, pending
    <3>1. /\ RemoveAt(pending, k) \in Seq(TraceLines)
          /\ Len(RemoveAt(pending, k)) = Len(pending) - 1
          /\ \A i \in 1..(Len(pending) - 1) :
                 RemoveAt(pending, k)[i] = IF i < k THEN pending[i] ELSE pending[i + 1]
      BY <1>1, <1>5, RemoveAtIs DEF pending
    <3>2. Len(RemoveAt(pending, k)) = Len(p.pending)
      BY <2>11, <3>1
    <3>3. \A i \in 1..Len(p.pending) : RemoveAt(pending, k)[i] = p.pending[i]
      BY <2>11, <2>12, <3>1
    <3> QED
      BY <2>7, <3>1, <3>2, <3>3, SeqEqual
  <2>14. w.tid = t /\ w.ts = thread[t].last /\ w.call = thread[t].call
    <3>1. l = [tid |-> l.tid, ts |-> l.ts, kind |-> l.kind, call |-> l.call]
      BY <1>4, LineIs
    <3>2. b.tid = t /\ b.ts = thread[t].last /\ b.call = thread[t].call
      BY DEF Begun, Halved
    <3> HIDE DEF l
    <3>3. u.tid = l.tid /\ u.ts = l.ts /\ u.call = l.call
      BY <3>1
    <3>4. w.tid = l.tid /\ w.ts = l.ts /\ w.call = l.call
      BY <3>1
    <3> QED
      BY <2>12, <3>2, <3>3, <3>4
  <2> QED
    BY <1>5, <2>9, <2>10, <2>13, <2>14
<1>8. CASE ~(l.kind = "entry" /\ l.tid = t)
  <2> DEFINE r == [tid |-> t, ts |-> clock, kind |-> "resumed", call |-> c]
  <2>1. r \in TraceLines
    <3> HIDE DEF c
    <3> QED
      BY <1>3 DEF TraceLines
  <2>2. raw' = Append(Cut(raw), r)
    BY <1>4, <1>8
  <2>3. Cut(raw) \in Seq(TraceLines)
    BY CutIs DEF Typed
  <2>4. Flight' = ParseLine(Flight, r)
    <3>1. r.kind = "resumed"
      OBVIOUS
    <3> HIDE DEF r
    <3>2. Cut(raw') = Append(Cut(raw), r)
      BY <2>1, <2>2, <2>3, <3>1, CutPrinted
    <3>3. ParseAll(NoLog, Append(Cut(raw), r)) = ParseLine(ParseAll(NoLog, Cut(raw)), r)
      BY <2>1, <2>3, ParseMore
    <3> QED
      BY <3>2, <3>3 DEF Flight
  <2>5. TakePending(pending, r) = k
    <3> DEFINE mine == {i \in DOMAIN pending :
                  pending[i].tid = r.tid /\ pending[i].call.name = r.call.name}
    <3>1. mine = {k}
      <4>1. pending[k].tid = t /\ pending[k].call = c
        BY <1>5 DEF Begun, Halved
      <4> HIDE DEF pending, c
      <4> QED
        BY <1>5, <1>6, <4>1
    <3>2. TakePending(pending, r) =
             IF mine = {} THEN 0 ELSE CHOOSE i \in mine : \A j \in mine : j <= i
      BY DEF TakePending
    <3>3. k \in Nat
      BY <1>1, <1>5
    <3> HIDE DEF mine, r
    <3>4. (CHOOSE i \in mine : \A j \in mine : j <= i) = k
      BY <3>1, <3>3
    <3> QED
      BY <3>1, <3>2, <3>4
  <2>6. k # 0
    BY <1>1, <1>5
  <2>7. Flight' = [lines |-> Append(lines, Whole(t, pending[k].ts, c)),
                   pending |-> RemoveAt(pending, k)]
    <3> DEFINE i == TakePending(pending, r)
    <3>1. Flight' = [lines |-> Append(lines,
                        Whole(r.tid, IF i = 0 THEN r.ts ELSE pending[i].ts, r.call)),
                     pending |-> IF i = 0 THEN pending ELSE RemoveAt(pending, i)]
      BY <2>4 DEF ParseLine
    <3> HIDE DEF i
    <3>2. i = k
      BY <2>5 DEF i
    <3>3. r.tid = t /\ r.call = c
      OBVIOUS
    <3> HIDE DEF r
    <3> QED
      BY <2>6, <3>1, <3>2, <3>3
  <2>8. pending[k].ts = thread[t].last
    BY <1>5 DEF Begun, Halved
  <2> QED
    BY <1>5, <2>7, <2>8, ZenonT(60)
<1> QED
  BY <1>7, <1>8

-----------------------------------------------------------------------------
(* What a step does to the log, as sets of calls.                          *)

\* What is printed leaves what the log says of the calls before.
LEMMA PrintedKeeps ==
    ASSUME Typed, NEW l \in TraceLines, raw' = Append(Cut(raw), l)
    PROVE  /\ raw' \in Seq(TraceLines) /\ raw' # <<>>
           /\ DOMAIN raw' = 1..(Len(raw) + 1) /\ Len(raw) \in Nat /\ DOMAIN raw = 1..Len(raw)
           /\ raw'[Len(raw) + 1] = l
           /\ \A i \in DOMAIN raw :
                 /\ i \in DOMAIN raw'
                 /\ raw'[i].tid = raw[i].tid
                 /\ raw'[i].ts = raw[i].ts
                 /\ raw'[i].call = raw[i].call
                 /\ raw'[i].kind = "exited" <=> raw[i].kind = "exited"
<1> DEFINE cut == Cut(raw)
<1>1. /\ cut \in Seq(TraceLines) /\ Len(cut) = Len(raw)
      /\ \A i \in 1..Len(raw) :
            /\ cut[i].tid = raw[i].tid
            /\ cut[i].ts = raw[i].ts
            /\ cut[i].call = raw[i].call
            /\ cut[i].kind = "exited" <=> raw[i].kind = "exited"
  BY CutIs DEF Typed
<1>2. Len(raw) \in Nat /\ DOMAIN raw = 1..Len(raw)
  BY DEF Typed
<1> HIDE DEF cut
<1>3. /\ Append(cut, l) \in Seq(TraceLines) /\ Append(cut, l) # <<>>
      /\ Len(Append(cut, l)) = Len(cut) + 1
      /\ \A i \in 1..Len(cut) : Append(cut, l)[i] = cut[i]
      /\ Append(cut, l)[Len(cut) + 1] = l
  BY <1>1, AppendProperties
<1>4. raw' = Append(cut, l)
  BY DEF cut
<1>5. DOMAIN raw' = 1..(Len(raw) + 1)
  BY <1>1, <1>3, <1>4
<1>6. \A i \in DOMAIN raw : i \in DOMAIN raw' /\ raw'[i] = cut[i]
  BY <1>1, <1>2, <1>3, <1>4, <1>5
<1> QED
  BY <1>1, <1>2, <1>3, <1>4, <1>5, <1>6

\* A sequence and one more element.
LEMMA AppendRange ==
    ASSUME NEW X, NEW s \in Seq(X), NEW x \in X
    PROVE  Range(Append(s, x)) = Range(s) \union {x}
<1> DEFINE more == Append(s, x)
           n == Len(s)
<1>1. /\ n \in Nat /\ DOMAIN s = 1..n /\ DOMAIN more = 1..(n + 1)
      /\ \A i \in 1..n : more[i] = s[i]
      /\ more[n + 1] = x
  OBVIOUS
<1> HIDE DEF more, n
<1>2. \A i \in DOMAIN more : i \in DOMAIN s \/ i = n + 1
  BY <1>1
<1>3. Range(more) \subseteq Range(s) \union {x}
  BY <1>1, <1>2 DEF Range
<1>4. Range(s) \union {x} \subseteq Range(more)
  <2>1. n + 1 \in DOMAIN more /\ \A i \in DOMAIN s : i \in DOMAIN more
    BY <1>1
  <2> QED
    BY <1>1, <2>1 DEF Range
<1> QED
  BY <1>3, <1>4 DEF more

\* A call that has returned is typed, and was entered.
LEMMA ReturnedTyped ==
    ASSUME Typed
    PROVE  /\ Returned \subseteq SysLines
           /\ \A x \in Returned : /\ x = Whole(x.tid, x.ts, x.call)
                                  /\ x.tid \in Tids /\ x.ts \in Nat
                                  /\ x.call \in SysCalls \union ExitCalls
                                  /\ Entered(x.tid, x.ts, x.call)
<1>1. Flight.lines \in Seq(SysLines)
  BY FlightTyped
<1>2. Returned \subseteq SysLines
  <2> DEFINE s == Flight.lines
  <2>1. DOMAIN s = 1..Len(s) /\ \A i \in 1..Len(s) : s[i] \in SysLines
    BY <1>1
  <2> QED
    BY <2>1 DEF Returned, Range
<1>3. ASSUME NEW x \in SysLines
      PROVE  /\ x = Whole(x.tid, x.ts, x.call)
             /\ x.tid \in Tids /\ x.ts \in Nat
             /\ x.call \in SysCalls \union ExitCalls
  BY DEF SysLines, Whole
<1> QED
  BY <1>2, <1>3 DEF Entered

\* The parts of Logged.
PendingExact ==
    /\ Range(Flight.pending) = {Begun(t) : t \in {u \in Tids : InFlight(u)}}
    /\ \A i, j \in DOMAIN Flight.pending :
          Flight.pending[i] = Flight.pending[j] => i = j
LinesOnce ==
    \A i, j \in DOMAIN Flight.lines :
       /\ Flight.lines[i].tid = Flight.lines[j].tid
       /\ Flight.lines[i].ts = Flight.lines[j].ts
       => i = j
InLog ==
    \A t \in Tids, s \in Nat : \A c \in SysCalls \union ExitCalls :
       Entered(t, s, c) =>
          \E i \in DOMAIN raw : raw[i].tid = t /\ raw[i].ts = s /\ raw[i].call = c

LEMMA LoggedIs == Logged <=> PendingExact /\ LinesOnce /\ InLog
BY DEF Logged, PendingExact, LinesOnce, InLog

\* A step that prints nothing and neither starts nor ends a call.
LEMMA SilentLog ==
    ASSUME Typed, Logged, raw' = raw, thread' \in [Tids -> ThreadStates],
           \A t \in Tids : /\ thread'[t].call = thread[t].call
                           /\ InFlight(t) => thread'[t].last = thread[t].last
    PROVE  /\ Flight' = Flight /\ Returned' = Returned
           /\ \A t \in Tids : InFlight(t)' <=> InFlight(t)
           /\ \A t \in Tids : \A s, c : Entered(t, s, c)' <=> Entered(t, s, c)
           /\ Logged'
<1>1. Flight' = Flight /\ Returned' = Returned
  BY DEF Flight, Returned
<1>2. \A t \in Tids : (InFlight(t)' <=> InFlight(t))
  BY DEF InFlight
<1>3. \A t \in Tids : \A s, c : Entered(t, s, c)' <=> Entered(t, s, c)
  BY <1>1, <1>2 DEF Entered, InFlight
<1>4. \A t \in Tids : InFlight(t) => Begun(t)' = Begun(t)
  BY DEF Begun
<1>5. PendingExact'
  <2>1. {Begun(t)' : t \in {u \in Tids : InFlight(u)'}} = {Begun(t) : t \in {u \in Tids : InFlight(u)}}
    BY <1>2, <1>4
  <2> QED
    BY <1>1, <2>1, LoggedIs DEF PendingExact
<1>6. LinesOnce'
  BY <1>1, LoggedIs DEF LinesOnce
<1>7. InLog'
  BY <1>3, LoggedIs DEF InLog
<1> QED
  BY <1>1, <1>2, <1>3, <1>5, <1>6, <1>7, LoggedIs DEF Logged, PendingExact, LinesOnce, InLog

\* The record of a kill.
LEMMA KilledLog ==
    ASSUME Typed, Logged, NEW l \in TraceLines, l.kind = "killed",
           raw' = Append(Cut(raw), l), thread' \in [Tids -> ThreadStates],
           \A t \in Tids : /\ thread'[t].call = thread[t].call
                           /\ InFlight(t) => thread'[t].last = thread[t].last
    PROVE  /\ Returned' = Returned
           /\ \A t \in Tids : InFlight(t)' <=> InFlight(t)
           /\ \A t \in Tids : \A s, c : Entered(t, s, c)' <=> Entered(t, s, c)
           /\ Logged'
<1>1. Flight' = Flight /\ Returned' = Returned
  <2>1. Flight' = Flight
    BY FlightKilled
  <2> QED
    BY <2>1 DEF Returned
<1>2. \A t \in Tids : (InFlight(t)' <=> InFlight(t))
  BY DEF InFlight
<1>3. \A t \in Tids : \A s, c : Entered(t, s, c)' <=> Entered(t, s, c)
  BY <1>1, <1>2 DEF Entered, InFlight
<1>4. \A t \in Tids : InFlight(t) => Begun(t)' = Begun(t)
  BY DEF Begun
<1>5. PendingExact'
  <2>1. {Begun(t)' : t \in {u \in Tids : InFlight(u)'}} = {Begun(t) : t \in {u \in Tids : InFlight(u)}}
    BY <1>2, <1>4
  <2> QED
    BY <1>1, <2>1, LoggedIs DEF PendingExact
<1>6. LinesOnce'
  BY <1>1, LoggedIs DEF LinesOnce
<1>7. InLog'
  <2>1. \A i \in DOMAIN raw : /\ i \in DOMAIN raw'
                              /\ raw'[i].tid = raw[i].tid
                              /\ raw'[i].ts = raw[i].ts
                              /\ raw'[i].call = raw[i].call
    BY PrintedKeeps
  <2> QED
    BY <1>3, <2>1, LoggedIs, SMTT(60) DEF InLog
<1> QED
  BY <1>1, <1>2, <1>3, <1>5, <1>6, <1>7 DEF Logged, PendingExact, LinesOnce, InLog

\* A call of thread t is entered.
LEMMA EnteredLog ==
    ASSUME Typed, Logged, NEW t \in Tids, NEW c \in SysCalls, clock' \in Nat, ~InFlight(t),
           raw' = Append(Cut(raw), [tid |-> t, ts |-> clock', kind |-> "entry", call |-> c]),
           thread' \in [Tids -> ThreadStates],
           thread'[t].call = c, thread'[t].last = clock',
           \A u \in Tids \ {t} : /\ thread'[u].call = thread[u].call
                                 /\ InFlight(u) => thread'[u].last = thread[u].last
    PROVE  /\ Returned' = Returned
           /\ \A u \in Tids : InFlight(u)' <=> InFlight(u) \/ u = t
           /\ \A u \in Tids : \A s, d : Entered(u, s, d)' <=>
                 Entered(u, s, d) \/ (u = t /\ s = clock' /\ d = c)
           /\ Logged'
<1> DEFINE l == [tid |-> t, ts |-> clock', kind |-> "entry", call |-> c]
           h == Halved(t, clock', c)
<1>1. l \in TraceLines /\ l.kind = "entry" /\ l.tid = t /\ l.ts = clock' /\ l.call = c
  BY DEF TraceLines
<1>2. c # NoCall
  BY DEF SysCalls, NoCall
<1>3. Flight' = [lines |-> Flight.lines, pending |-> Append(Flight.pending, h)]
  <2> HIDE DEF l
  <2>1. raw' = Append(Cut(raw), l)
    BY DEF l
  <2> QED
    BY <1>1, <2>1, FlightEntered
<1>4. /\ Flight.lines \in Seq(SysLines) /\ Flight.pending \in Seq(TraceLines)
      /\ h \in TraceLines
  BY FlightTyped DEF Halved, TraceLines
<1> HIDE DEF h
<1>5. Flight'.lines = Flight.lines /\ Flight'.pending = Append(Flight.pending, h)
  BY <1>3
<1>6. Returned' = Returned
  BY <1>5 DEF Returned
<1>7. \A u \in Tids : InFlight(u)' <=> InFlight(u) \/ u = t
  BY <1>2 DEF InFlight
<1>8. \A u \in Tids : \A s, d : Entered(u, s, d)' <=>
         Entered(u, s, d) \/ (u = t /\ s = clock' /\ d = c)
  BY <1>2, <1>6, <1>7 DEF Entered, InFlight
<1>9. Begun(t)' = h /\ \A u \in Tids \ {t} : InFlight(u) => Begun(u)' = Begun(u)
  BY DEF Begun, h
<1>10. PendingExact'
  <2>1. Range(Flight'.pending) = Range(Flight.pending) \union {h}
    <3> DEFINE p == Flight.pending
    <3> HIDE DEF p
    <3>1. p \in Seq(TraceLines)
      BY <1>4 DEF p
    <3>2. Range(Append(p, h)) = Range(p) \union {h}
      BY <1>4, <3>1, AppendRange
    <3> QED
      BY <1>5, <3>2 DEF p
  <2>2. Range(Flight.pending) = {Begun(u) : u \in {v \in Tids : InFlight(v)}}
    BY LoggedIs DEF PendingExact
  <2>3. {Begun(u)' : u \in {v \in Tids : InFlight(v)'}}
           = {Begun(u) : u \in {v \in Tids : InFlight(v)}} \union {h}
    BY <1>7, <1>9
  <2>4. h \notin Range(Flight.pending)
    BY <2>2 DEF Begun, Halved, h
  <2>5. ASSUME NEW i \in DOMAIN Flight'.pending, NEW j \in DOMAIN Flight'.pending,
               Flight'.pending[i] = Flight'.pending[j]
        PROVE  i = j
    <3> DEFINE p == Flight.pending
               n == Len(p)
    <3>1. /\ n \in Nat /\ DOMAIN p = 1..n /\ DOMAIN Append(p, h) = 1..(n + 1)
          /\ \A m \in 1..n : Append(p, h)[m] = p[m]
          /\ Append(p, h)[n + 1] = h
      BY <1>4
    <3>2. \A m \in 1..n : p[m] # h
      BY <2>4, <3>1 DEF Range
    <3>3. \A x, y \in DOMAIN p : p[x] = p[y] => x = y
      BY LoggedIs DEF PendingExact
    <3> HIDE DEF p, n
    <3>4. /\ i \in 1..(n + 1) /\ j \in 1..(n + 1)
          /\ Append(p, h)[i] = Append(p, h)[j]
      BY <1>5, <2>5, <3>1 DEF p
    <3>5. (i \in 1..n \/ i = n + 1) /\ (j \in 1..n \/ j = n + 1)
      BY <3>1, <3>4
    <3> QED
      BY <3>1, <3>2, <3>3, <3>4, <3>5
  <2> QED
    BY <2>1, <2>2, <2>3, <2>5 DEF PendingExact
<1>11. LinesOnce'
  BY <1>5, LoggedIs DEF LinesOnce
<1>12. InLog'
  <2>1. /\ raw'[Len(raw) + 1] = l /\ Len(raw) + 1 \in DOMAIN raw'
        /\ \A i \in DOMAIN raw : /\ i \in DOMAIN raw'
                              /\ raw'[i].tid = raw[i].tid
                              /\ raw'[i].ts = raw[i].ts
                              /\ raw'[i].call = raw[i].call
    <3> HIDE DEF l
    <3>1. raw' = Append(Cut(raw), l)
      BY DEF l
    <3> QED
      BY <1>1, <3>1, PrintedKeeps
  <2> HIDE DEF l
  <2>2. \A u \in Tids, s \in Nat : \A d \in SysCalls \union ExitCalls :
           Entered(u, s, d) =>
              \E i \in DOMAIN raw' : raw'[i].tid = u /\ raw'[i].ts = s /\ raw'[i].call = d
    <3> TAKE u \in Tids, s \in Nat
    <3> TAKE d \in SysCalls \union ExitCalls
    <3> HAVE Entered(u, s, d)
    <3>1. PICK i \in DOMAIN raw : raw[i].tid = u /\ raw[i].ts = s /\ raw[i].call = d
      BY LoggedIs DEF InLog
    <3> QED
      BY <2>1, <3>1
  <2>3. \E i \in DOMAIN raw' : raw'[i].tid = t /\ raw'[i].ts = clock' /\ raw'[i].call = c
    BY <1>1, <2>1
  <2>4. \A u \in Tids, s \in Nat : \A d \in SysCalls \union ExitCalls :
           Entered(u, s, d)' =>
              \E i \in DOMAIN raw' : raw'[i].tid = u /\ raw'[i].ts = s /\ raw'[i].call = d
    BY <1>8, <2>2, <2>3
  <2> QED
    BY <2>4 DEF InLog
<1> QED
  BY <1>6, <1>7, <1>8, <1>10, <1>11, <1>12 DEF Logged, PendingExact, LinesOnce, InLog

\* A whole line of thread t is printed.
LEMMA PrintedLog ==
    ASSUME Typed, Logged, NEW t \in Tids, NEW l \in TraceLines, l.kind \in {"full", "exited"},
           l.tid = t, raw' = Append(Cut(raw), l),
           \A x \in Returned : x.tid = t => x.ts < l.ts,
           thread' \in [Tids -> ThreadStates],
           \A u \in Tids : /\ thread'[u].call = thread[u].call
                           /\ InFlight(u) => thread'[u].last = thread[u].last
    PROVE  /\ Returned' = Returned \union {Whole(t, l.ts, l.call)}
           /\ \A u \in Tids : InFlight(u)' <=> InFlight(u)
           /\ \A u \in Tids : \A s, d : Entered(u, s, d)' <=>
                 Entered(u, s, d) \/ (u = t /\ s = l.ts /\ d = l.call)
           /\ Logged'
<1> DEFINE x == Whole(t, l.ts, l.call)
<1>1. Flight' = [lines |-> Append(Flight.lines, x), pending |-> Flight.pending]
  BY FlightPrinted
<1>2. /\ Flight.lines \in Seq(SysLines) /\ Flight.pending \in Seq(TraceLines)
      /\ x \in SysLines /\ l.ts \in Nat
  BY FlightTyped DEF Whole, TraceLines, SysLines
<1>x. x.tid = t /\ x.ts = l.ts /\ x.call = l.call
  BY DEF Whole
<1> HIDE DEF x
<1>3. Flight'.lines = Append(Flight.lines, x) /\ Flight'.pending = Flight.pending
  BY <1>1
<1>4. Returned' = Returned \union {x}
  <2> DEFINE p == Flight.lines
  <2> HIDE DEF p
  <2>1. p \in Seq(SysLines)
    BY <1>2 DEF p
  <2>2. Range(Append(p, x)) = Range(p) \union {x}
    BY <1>2, <2>1, AppendRange
  <2> QED
    BY <1>3, <2>2 DEF p, Returned
<1>5. \A u \in Tids : InFlight(u)' <=> InFlight(u)
  BY DEF InFlight
<1>6. \A u \in Tids : \A s, d : Entered(u, s, d)' <=>
         Entered(u, s, d) \/ (u = t /\ s = l.ts /\ d = l.call)
  BY <1>4, <1>5, <1>x DEF Entered, InFlight
<1>7. \A u \in Tids : InFlight(u) => Begun(u)' = Begun(u)
  BY DEF Begun
<1>8. PendingExact'
  <2>1. {Begun(u)' : u \in {v \in Tids : InFlight(v)'}} = {Begun(u) : u \in {v \in Tids : InFlight(v)}}
    BY <1>5, <1>7
  <2> QED
    BY <1>3, <2>1, LoggedIs DEF PendingExact
<1>9. LinesOnce'
  <2> DEFINE p == Flight.lines
             n == Len(p)
  <2>1. /\ n \in Nat /\ DOMAIN p = 1..n /\ DOMAIN Append(p, x) = 1..(n + 1)
        /\ \A m \in 1..n : Append(p, x)[m] = p[m]
        /\ Append(p, x)[n + 1] = x
    BY <1>2
  <2>2. \A m \in 1..n : p[m].tid = t => p[m].ts # l.ts
    <3> TAKE m \in 1..n
    <3> HAVE p[m].tid = t
    <3>1. p[m] \in Returned
      BY <2>1 DEF Returned, Range
    <3>2. p[m].ts < l.ts /\ p[m].ts \in Nat
      BY <3>1, ReturnedTyped
    <3> HIDE DEF p
    <3> QED
      BY <1>2, <3>2
  <2>3. \A i, j \in DOMAIN p : p[i].tid = p[j].tid /\ p[i].ts = p[j].ts => i = j
    BY LoggedIs DEF LinesOnce
  <2>4. Flight'.lines = Append(p, x)
    BY <1>3
  <2> HIDE DEF p, n
  <2>5. \A i \in 1..(n + 1) : i \in 1..n \/ i = n + 1
    BY <2>1
  <2> DEFINE q == Append(p, x)
  <2> HIDE DEF q
  <2>6. \A i, j \in DOMAIN q : q[i].tid = q[j].tid /\ q[i].ts = q[j].ts => i = j
    BY <1>x, <2>1, <2>2, <2>3, <2>5 DEF q
  <2> QED
    BY <2>4, <2>6 DEF LinesOnce, q
<1>10. InLog'
  <2>1. /\ raw'[Len(raw) + 1] = l /\ Len(raw) + 1 \in DOMAIN raw'
        /\ \A i \in DOMAIN raw : /\ i \in DOMAIN raw'
                              /\ raw'[i].tid = raw[i].tid
                              /\ raw'[i].ts = raw[i].ts
                              /\ raw'[i].call = raw[i].call
    BY PrintedKeeps
  <2> QED
    BY <1>6, <2>1, LoggedIs, SMTT(60) DEF InLog
<1> QED
  BY <1>4, <1>5, <1>6, <1>8, <1>9, <1>10 DEF Logged, PendingExact, LinesOnce, InLog, x

\* The call in flight of thread t returns.
LEMMA ReturnedLog ==
    ASSUME Typed, Bounded, Logged, NEW t \in Tids, InFlight(t),
           \A x \in Returned : x.tid = t => x.ts < thread[t].last,
           raw' = IF Last(raw).kind = "entry" /\ Last(raw).tid = t
                    THEN [raw EXCEPT ![Len(raw)].kind = "full"]
                    ELSE Append(Cut(raw), [tid |-> t, ts |-> clock, kind |-> "resumed",
                                           call |-> thread[t].call]),
           thread' \in [Tids -> ThreadStates], thread'[t].call = NoCall,
           \A u \in Tids \ {t} : thread'[u].call = thread[u].call,
           \A u \in Tids : thread'[u].last = thread[u].last
    PROVE  /\ Returned' = Returned \union {Whole(t, thread[t].last, thread[t].call)}
           /\ \A u \in Tids : InFlight(u)' <=> InFlight(u) /\ u # t
           /\ \A u \in Tids : \A s, d : Entered(u, s, d)' <=> Entered(u, s, d)
           /\ Logged'
           /\ raw' \in Seq(TraceLines) /\ raw' # <<>>
           /\ \A i \in DOMAIN raw : /\ i \in DOMAIN raw'
                                    /\ raw'[i].tid = raw[i].tid
                                    /\ raw'[i].ts = raw[i].ts
                                    /\ raw'[i].call = raw[i].call
           /\ \A i \in DOMAIN raw' :
                 \/ /\ i \in DOMAIN raw
                    /\ raw'[i].tid = raw[i].tid
                    /\ raw'[i].kind = "exited" <=> raw[i].kind = "exited"
                 \/ raw'[i].tid = t /\ raw'[i].kind # "exited"
<1> DEFINE lines == Flight.lines
           pending == Flight.pending
           x == Whole(t, thread[t].last, thread[t].call)
           r == [tid |-> t, ts |-> clock, kind |-> "resumed", call |-> thread[t].call]
           n == Len(raw)
<1>1. PICK k \in DOMAIN pending :
         /\ pending[k] = Begun(t)
         /\ Flight' = [lines |-> Append(lines, x), pending |-> RemoveAt(pending, k)]
  BY FlightReturned
<1>2. thread[t].call \in SysCalls /\ thread[t].last \in Nat /\ clock \in Nat
  <2>1. thread[t] \in ThreadStates
    BY DEF Typed
  <2> QED
    BY <2>1 DEF ThreadStates, InFlight, Typed
<1>3. lines \in Seq(SysLines) /\ pending \in Seq(TraceLines) /\ x \in SysLines
  BY <1>2, FlightTyped DEF Whole, SysLines
<1>4. x.tid = t /\ x.ts = thread[t].last /\ x.call = thread[t].call
  BY DEF Whole
<1>5. Flight'.lines = Append(lines, x) /\ Flight'.pending = RemoveAt(pending, k)
  BY <1>1
<1>6. Returned' = Returned \union {x}
  <2> HIDE DEF x
  <2>1. Range(Append(lines, x)) = Range(lines) \union {x}
    <3> HIDE DEF lines
    <3> QED
      BY <1>3, AppendRange
  <2> QED
    BY <1>5, <2>1 DEF Returned
<1>7. \A u \in Tids : InFlight(u)' <=> InFlight(u) /\ u # t
  BY DEF InFlight
<1>8. \A u \in Tids : \A s, d : Entered(u, s, d)' <=> Entered(u, s, d)
  <2> HIDE DEF x
  <2>1. \A s, d : Entered(t, s, d)' <=> Entered(t, s, d)
    BY <1>4, <1>6, <1>7 DEF Entered
  <2>2. \A u \in Tids \ {t} : \A s, d : Entered(u, s, d)' <=> Entered(u, s, d)
    BY <1>4, <1>6, <1>7 DEF Entered
  <2> QED
    BY <2>1, <2>2
<1>9. \A u \in Tids : InFlight(u) /\ u # t => Begun(u)' = Begun(u)
  BY DEF Begun
<1>10. PendingExact'
  <2>1. \A i, j \in DOMAIN pending : pending[i] = pending[j] => i = j
    BY LoggedIs DEF PendingExact
  <2>2. /\ Range(RemoveAt(pending, k)) = Range(pending) \ {pending[k]}
        /\ \A i, j \in DOMAIN RemoveAt(pending, k) :
              RemoveAt(pending, k)[i] = RemoveAt(pending, k)[j] => i = j
    <3> HIDE DEF pending
    <3> QED
      BY <1>3, <2>1, RemoveAtRange
  <2>3. Range(pending) = {Begun(u) : u \in {v \in Tids : InFlight(v)}}
    BY LoggedIs DEF PendingExact
  <2>4. \A u \in Tids : Begun(u) = Begun(t) => u = t
    BY DEF Begun, Halved
  <2>5. {Begun(u)' : u \in {v \in Tids : InFlight(v)'}} = Range(pending) \ {Begun(t)}
    <3> DEFINE new == {Begun(u)' : u \in {v \in Tids : InFlight(v)'}}
               old == Range(pending) \ {Begun(t)}
    <3>1. \A y : y \in new <=> \E u \in Tids : InFlight(u) /\ u # t /\ y = Begun(u)
      BY <1>7, <1>9
    <3>2. \A y : y \in old <=> \E u \in Tids : InFlight(u) /\ u # t /\ y = Begun(u)
      <4> HIDE DEF pending
      <4> QED
        BY <2>3, <2>4
    <3> HIDE DEF new, old
    <3>3. new = old
      BY <3>1, <3>2
    <3> QED
      BY <3>3 DEF new, old
  <2> HIDE DEF pending
  <2> QED
    BY <1>1, <1>5, <2>2, <2>5 DEF PendingExact
<1>11. LinesOnce'
  <2> DEFINE p == Flight.lines
             m == Len(p)
  <2>1. /\ m \in Nat /\ DOMAIN p = 1..m /\ DOMAIN Append(p, x) = 1..(m + 1)
        /\ \A i \in 1..m : Append(p, x)[i] = p[i]
        /\ Append(p, x)[m + 1] = x
    <3> HIDE DEF x
    <3> QED
      BY <1>3
  <2>2. \A i \in 1..m : p[i].tid = t => p[i].ts # thread[t].last
    <3> TAKE i \in 1..m
    <3> HAVE p[i].tid = t
    <3>1. p[i] \in Returned
      BY <2>1 DEF Returned, Range
    <3>2. p[i].ts < thread[t].last /\ p[i].ts \in Nat
      BY <3>1, ReturnedTyped
    <3> HIDE DEF p
    <3> QED
      BY <1>2, <3>2
  <2>3. \A i, j \in DOMAIN p : p[i].tid = p[j].tid /\ p[i].ts = p[j].ts => i = j
    BY LoggedIs DEF LinesOnce
  <2>4. Flight'.lines = Append(p, x)
    BY <1>5
  <2> HIDE DEF p, m, x
  <2>5. \A i \in 1..(m + 1) : i \in 1..m \/ i = m + 1
    BY <2>1
  <2> DEFINE q == Append(p, x)
  <2> HIDE DEF q
  <2>6. \A i, j \in DOMAIN q : q[i].tid = q[j].tid /\ q[i].ts = q[j].ts => i = j
    BY <1>4, <2>1, <2>2, <2>3, <2>5 DEF q
  <2> QED
    BY <2>4, <2>6 DEF LinesOnce, q
<1>12. /\ raw' \in Seq(TraceLines) /\ raw' # <<>>
       /\ \A i \in DOMAIN raw : /\ i \in DOMAIN raw'
                                /\ raw'[i].tid = raw[i].tid
                                /\ raw'[i].ts = raw[i].ts
                                /\ raw'[i].call = raw[i].call
       /\ \A i \in DOMAIN raw' :
             \/ /\ i \in DOMAIN raw
                /\ raw'[i].tid = raw[i].tid
                /\ raw'[i].kind = "exited" <=> raw[i].kind = "exited"
             \/ raw'[i].tid = t /\ raw'[i].kind # "exited"
  <2>1. raw # <<>>
    <3>1. raw = <<>> => thread[t] = Dead
      BY DEF Bounded
    <3> QED
      BY <3>1 DEF InFlight, Dead
  <2>2. n \in Nat /\ n > 0 /\ DOMAIN raw = 1..n /\ Last(raw) = raw[n] /\ raw[n] \in TraceLines
    BY <2>1 DEF Typed, Last
  <2>3. CASE Last(raw).kind = "entry" /\ Last(raw).tid = t
    <3> DEFINE w == [raw[n] EXCEPT !.kind = "full"]
    <3>1. raw' = [raw EXCEPT ![n] = w]
      BY <2>3
    <3>2. w \in TraceLines /\ w.kind = "full" /\ w.tid = raw[n].tid /\ w.ts = raw[n].ts
          /\ w.call = raw[n].call
      BY <2>2, <2>3 DEF TraceLines
    <3> HIDE DEF w
    <3> DEFINE new == [raw EXCEPT ![n] = w]
    <3>3. /\ new \in Seq(TraceLines) /\ Len(new) = Len(raw)
          /\ \A j \in 1..Len(raw) : new[j] = IF j = n THEN w ELSE raw[j]
      <4>1. raw \in Seq(TraceLines) /\ n \in 1..Len(raw)
        BY <2>2 DEF Typed
      <4> QED
        BY <3>2, <4>1, ExceptSeq
    <3>5. raw' = new
      BY <3>1
    <3> HIDE DEF new
    <3>4. DOMAIN new = DOMAIN raw /\ new # <<>>
      <4>1. DOMAIN new = 1..Len(new) /\ (new = <<>> => Len(new) = 0)
        BY <3>3, LenProperties, EmptySeq
      <4>2. Len(new) = n
        BY <3>3, SMTT(60)
      <4> HIDE DEF n
      <4> QED
        BY <2>2, <4>1, <4>2
    <3> QED
      BY <2>2, <2>3, <3>2, <3>3, <3>4, <3>5
  <2>4. CASE ~(Last(raw).kind = "entry" /\ Last(raw).tid = t)
    <3>1. r \in TraceLines /\ r.tid = t /\ r.kind = "resumed"
      BY <1>2 DEF TraceLines
    <3>2. raw' = Append(Cut(raw), r)
      BY <2>4
    <3> HIDE DEF r
    <3>3. /\ raw' \in Seq(TraceLines) /\ raw' # <<>>
           /\ DOMAIN raw' = 1..(Len(raw) + 1) /\ Len(raw) \in Nat /\ DOMAIN raw = 1..Len(raw)
           /\ raw'[Len(raw) + 1] = r
           /\ \A i \in DOMAIN raw :
                 /\ i \in DOMAIN raw'
                 /\ raw'[i].tid = raw[i].tid
                 /\ raw'[i].ts = raw[i].ts
                 /\ raw'[i].call = raw[i].call
                 /\ raw'[i].kind = "exited" <=> raw[i].kind = "exited"
      BY <3>1, <3>2, PrintedKeeps
    <3>4. \A i \in DOMAIN raw' : i \in DOMAIN raw \/ i = Len(raw) + 1
      <4>1. \A i \in 1..(n + 1) : i \in 1..n \/ i = n + 1
        BY <2>2
      <4> QED
        BY <3>3, <4>1, ZenonT(60)
    <3> QED
      BY <3>1, <3>3, <3>4, ZenonT(60)
  <2> QED
    BY <2>3, <2>4
<1>13. InLog'
  BY <1>8, <1>12, LoggedIs, SMTT(60) DEF InLog
<1> QED
  BY <1>6, <1>7, <1>8, <1>10, <1>11, <1>12, <1>13 DEF Logged, PendingExact, LinesOnce, InLog

-----------------------------------------------------------------------------
(* What each step does to the threads and to the log.                      *)

LEMMA ResolveTyped ==
    ASSUME NEW base \in Dirs, NEW step
    PROVE  Resolve(base, step) \in Dirs
BY DEF Resolve, Dirs

\* The thread of a state, and what a call line says of it.
LEMMA ThreadTyped ==
    ASSUME Typed, NEW t \in Tids
    PROVE  /\ thread[t] \in ThreadStates
           /\ thread[t].alive \in BOOLEAN /\ thread[t].cwd \in Dirs
           /\ thread[t].program \in {"worker", "other", "git"}
           /\ thread[t].spans \in Seq(Nat) /\ thread[t].last \in Nat
           /\ thread[t].call \in SysCalls \union {NoCall}
           /\ InFlight(t) => thread[t].call \in SysCalls
           /\ t \in Live <=> thread[t].alive
<1>1. thread[t] \in ThreadStates
  BY DEF Typed
<1> QED
  BY <1>1 DEF ThreadStates, InFlight, Live

\* A thread whose spans and stamp change is still a thread.
LEMMA Respanned ==
    ASSUME Typed, NEW t \in Tids, NEW spans \in Seq(Nat), NEW n \in Nat,
           thread' = [thread EXCEPT ![t].spans = spans, ![t].last = n]
    PROVE  thread' \in [Tids -> ThreadStates]
<1>1. [thread[t] EXCEPT !.spans = spans, !.last = n] \in ThreadStates
  BY ThreadTyped DEF ThreadStates
<1> QED
  BY <1>1 DEF Typed

\* A call as the tracer prints it, of a child or none.
Says(call, dir, c, ok) ==
    /\ call.name = c.name /\ call.file = c.file /\ call.to = c.to /\ call.git = c.git
    /\ call.dirfd = IF c.name = "fchdir" THEN Resolve(dir, c.to)
                    ELSE IF c.name \in {"open-r", "open-w"} THEN dir ELSE Absent
    /\ call.ret = IF ok THEN "ok" ELSE "error"
    /\ call.retPath = IF ok /\ c.name \in {"open-r", "open-w"}
                        THEN Path(dir, c.file) ELSE NoPath

LEMMA CallIs ==
    ASSUME Typed, NEW t \in Tids, NEW c \in Calls, NEW ok \in BOOLEAN
    PROVE  /\ CallLine(t, c, ok) \in SysCalls
           /\ Says(CallLine(t, c, ok), thread[t].cwd, c, ok)
           /\ \A child \in Tids : LET made == [CallLine(t, c, ok) EXCEPT !.child = child] IN
                 made \in SysCalls /\ Says(made, thread[t].cwd, c, ok) /\ made.child = child
<1> DEFINE dir == thread[t].cwd
           fd == IF c.name = "fchdir" THEN Resolve(dir, c.to)
                 ELSE IF c.name \in {"open-r", "open-w"} THEN dir ELSE Absent
           ret == IF ok THEN "ok" ELSE "error"
           path == IF ok /\ c.name \in {"open-r", "open-w"} THEN Path(dir, c.file) ELSE NoPath
           call == [name |-> c.name, file |-> c.file, to |-> c.to, git |-> c.git,
                    dirfd |-> fd, ret |-> ret, retPath |-> path, child |-> Root]
<1>1. /\ c.name \in CallNames /\ c.file \in Files /\ c.to \in Files /\ c.git \in BOOLEAN
  BY CallsAreKnown
<1>2. dir \in Dirs
  BY ThreadTyped
<1>3. fd \in Dirs \union {Absent}
  BY <1>2, ResolveTyped
<1>4. path \in (Dirs \X Files) \union {NoPath}
  BY <1>1, <1>2 DEF Path
<1>5. ret \in {"ok", "error"}
  OBVIOUS
<1>6. CallLine(t, c, ok) = call
  BY DEF CallLine
<1>7. Root \in Tids
  BY RootIsAThread
<1>8. Says(call, dir, c, ok)
  BY DEF Says
<1>9. call \in SysCalls
  <2> HIDE DEF fd, ret, path
  <2> QED
    BY <1>1, <1>3, <1>4, <1>5, <1>7 DEF SysCalls
<1>10. ASSUME NEW child \in Tids
       PROVE  LET made == [call EXCEPT !.child = child] IN
                 made \in SysCalls /\ Says(made, dir, c, ok) /\ made.child = child
  <2> DEFINE made == [call EXCEPT !.child = child]
  <2>1. Says(made, dir, c, ok) /\ made.child = child
    BY DEF Says
  <2>2. made \in SysCalls
    <3> HIDE DEF call
    <3> QED
      BY <1>9 DEF SysCalls
  <2> QED
    BY <2>1, <2>2
<1> HIDE DEF call
<1> QED
  BY <1>6, <1>8, <1>9, <1>10

\* Time goes on.
LEMMA TickTyped ==
    ASSUME Typed, Tick
    PROVE  clock' \in Nat /\ clock <= clock' /\ ~over
BY DEF Typed, Tick

\* The worker starts.
FirstCall ==
    [name |-> "execve", file |-> Absent, to |-> Absent, git |-> FALSE, dirfd |-> Absent,
     ret |-> "ok", retPath |-> NoPath, child |-> Root]

LEMMA StartStep ==
    ASSUME LogInv, Start
    PROVE  /\ raw = <<>> /\ clock' \in Nat /\ clock <= clock' /\ clock' > 0
           /\ FirstCall \in SysCalls
           /\ thread' \in [Tids -> ThreadStates]
           /\ thread = [t \in Tids |-> Dead]
           /\ thread'[Root] = [Dead EXCEPT !.alive = TRUE, !.last = clock']
           /\ \A u \in Tids \ {Root} : thread'[u] = Dead
           /\ raw' = <<[tid |-> Root, ts |-> clock', kind |-> "full", call |-> FirstCall]>>
           /\ raw' \in Seq(TraceLines)
           /\ Returned = {} /\ Returned' = {Whole(Root, clock', FirstCall)}
           /\ \A u \in Tids : ~InFlight(u) /\ ~InFlight(u)'
           /\ \A u \in Tids : \A s, d : ~Entered(u, s, d)
           /\ \A u \in Tids : \A s, d :
                 Entered(u, s, d)' <=> u = Root /\ s = clock' /\ d = FirstCall
           /\ Logged'
<1> DEFINE l == [tid |-> Root, ts |-> clock', kind |-> "full", call |-> FirstCall]
<1>1. raw = <<>> /\ Tick /\ clock' > thread[Root].last
  BY DEF Start, Stamp
<1>2. thread = [t \in Tids |-> Dead]
  BY <1>1 DEF LogInv, Bounded
<1>3. clock' \in Nat /\ clock <= clock' /\ clock' > 0
  BY <1>1, <1>2, TickTyped, RootIsAThread DEF LogInv, Dead
<1>4. FirstCall \in SysCalls
  BY RootIsAThread DEF FirstCall, SysCalls, CallNames, Files
<1>5. l \in TraceLines /\ l.kind = "full" /\ l.tid = Root /\ l.ts = clock' /\ l.call = FirstCall
  BY <1>3, <1>4, RootIsAThread DEF TraceLines
<1>6. /\ thread' \in [Tids -> ThreadStates]
      /\ thread'[Root] = [Dead EXCEPT !.alive = TRUE, !.last = clock']
      /\ \A u \in Tids \ {Root} : thread'[u] = Dead
  <2>1. thread' = [thread EXCEPT ![Root] = [Dead EXCEPT !.alive = TRUE, !.last = clock']]
    BY DEF Start
  <2>2. Dead \in ThreadStates
    BY DEF Dead, ThreadStates, Dirs, NoCall
  <2>3. [Dead EXCEPT !.alive = TRUE, !.last = clock'] \in ThreadStates
    BY <1>3, <2>2 DEF ThreadStates
  <2> QED
    BY <1>2, <2>1, <2>2, <2>3, RootIsAThread
<1>7. thread'[Root].call = NoCall /\ thread'[Root].last = clock' /\ Dead.call = NoCall
  BY <1>6 DEF Dead
<1>8. \A u \in Tids : ~InFlight(u) /\ ~InFlight(u)'
  BY <1>2, <1>6, <1>7 DEF InFlight
<1>9. Cut(raw) = <<>>
  BY <1>1 DEF Cut
<1>10. raw' = Append(Cut(raw), l)
  BY DEF Start, Printed, Line, FirstCall
<1>11. raw' = <<l>>
  BY <1>9, <1>10
<1>12. Returned = {}
  <2>1. Flight = NoLog
    BY <1>9, ParseNone DEF Flight
  <2> QED
    BY <2>1 DEF Returned, NoLog, Range
<1> HIDE DEF l
<1>13. /\ Returned' = Returned \union {Whole(Root, l.ts, l.call)}
       /\ \A u \in Tids : InFlight(u)' <=> InFlight(u)
       /\ \A u \in Tids : \A s, d : Entered(u, s, d)' <=>
             Entered(u, s, d) \/ (u = Root /\ s = l.ts /\ d = l.call)
       /\ Logged'
  <2>1. \A u \in Tids : /\ thread'[u].call = thread[u].call
                        /\ InFlight(u) => thread'[u].last = thread[u].last
    BY <1>2, <1>6, <1>7, <1>8
  <2>2. \A x \in Returned : x.tid = Root => x.ts < l.ts
    BY <1>12
  <2> QED
    BY <1>5, <1>6, <1>10, <2>1, <2>2, PrintedLog, RootIsAThread DEF LogInv
<1>14. \A u \in Tids : \A s, d : ~Entered(u, s, d)
  BY <1>8, <1>12 DEF Entered
<1>15. raw' \in Seq(TraceLines)
  BY <1>5, <1>11
<1> QED
  BY <1>1, <1>2, <1>3, <1>4, <1>5, <1>6, <1>8, <1>11, <1>12, <1>13, <1>14, <1>15 DEF l

\* A call is entered.
LEMMA EnterStep ==
    ASSUME LogInv, NEW t \in Tids, Enter(t)
    PROVE  \E c \in Calls, ok \in BOOLEAN, call \in SysCalls :
              /\ thread[t].alive /\ ~InFlight(t) /\ MayCall(t, c)
              /\ Says(call, thread[t].cwd, c, ok)
              /\ clock' \in Nat /\ clock <= clock' /\ thread[t].last < clock'
              /\ UNCHANGED <<records, did, dumped, over, timedOut>>
              /\ raw' = Append(Cut(raw),
                           [tid |-> t, ts |-> clock', kind |-> "entry", call |-> call])
              /\ \/ /\ c.name # "clone"
                    /\ thread' = [thread EXCEPT ![t].call = call, ![t].last = clock']
                 \/ /\ c.name = "clone" /\ ok /\ call.child \in Tids \ {Root, t}
                    /\ ~thread[call.child].alive
                    /\ \A i \in DOMAIN raw : raw[i].tid # call.child
                    /\ thread' = [thread EXCEPT
                          ![t].call = call, ![t].last = clock',
                          ![call.child] = [Dead EXCEPT !.alive = TRUE, !.cwd = thread[t].cwd,
                                       !.program = thread[t].program, !.last = clock']]
<1>1. PICK c \in Calls, ok \in BOOLEAN :
         /\ t \in Live /\ thread[t].call = NoCall /\ MayCall(t, c)
         /\ ok \/ c.name \in MayFail
         /\ Stamp(t)
         /\ \/ /\ c.name # "clone"
               /\ LET call == CallLine(t, c, ok) IN
                  /\ thread' = [thread EXCEPT ![t].call = call, ![t].last = clock']
                  /\ raw' = Printed(Line(t, "entry", call))
            \/ \E child \in Tids \ (Live \cup {Root}) :
               /\ c.name = "clone" /\ ok
               /\ ~ \E i \in DOMAIN raw : raw[i].tid = child
               /\ LET call == [CallLine(t, c, ok) EXCEPT !.child = child] IN
                  /\ thread' = [thread EXCEPT
                         ![t].call = call, ![t].last = clock',
                         ![child] = [Dead EXCEPT !.alive = TRUE, !.cwd = thread[t].cwd,
                                         !.program = thread[t].program, !.last = clock']]
                  /\ raw' = Printed(Line(t, "entry", call))
         /\ UNCHANGED <<records, did, dumped, over, timedOut>>
  BY DEF Enter
<1>2. thread[t].alive /\ ~InFlight(t) /\ thread[t].last < clock'
  <2>1. t \in Live /\ thread[t].call = NoCall /\ clock' > thread[t].last
    BY <1>1 DEF Stamp
  <2>2. thread[t].last \in Nat /\ clock' \in Nat
    BY <1>1, TickTyped, ThreadTyped DEF LogInv, Stamp
  <2> QED
    BY <2>1, <2>2 DEF Live, InFlight
<1>3. clock' \in Nat /\ clock <= clock'
  BY <1>1, TickTyped DEF LogInv, Stamp
<1>4. CASE c.name # "clone"
  <2> DEFINE call == CallLine(t, c, ok)
  <2>1. /\ thread' = [thread EXCEPT ![t].call = call, ![t].last = clock']
        /\ raw' = Printed(Line(t, "entry", call))
    BY <1>1, <1>4
  <2>2. call \in SysCalls /\ Says(call, thread[t].cwd, c, ok)
    BY CallIs DEF LogInv
  <2>3. raw' = Append(Cut(raw), [tid |-> t, ts |-> clock', kind |-> "entry", call |-> call])
    BY <2>1 DEF Printed, Line
  <2> HIDE DEF call
  <2> QED
    BY <1>1, <1>2, <1>3, <1>4, <2>1, <2>2, <2>3, ZenonT(60)
<1>5. CASE c.name = "clone"
  <2>1. PICK child \in Tids \ (Live \cup {Root}) :
               /\ c.name = "clone" /\ ok
               /\ ~ \E i \in DOMAIN raw : raw[i].tid = child
               /\ LET call == [CallLine(t, c, ok) EXCEPT !.child = child] IN
                  /\ thread' = [thread EXCEPT
                         ![t].call = call, ![t].last = clock',
                         ![child] = [Dead EXCEPT !.alive = TRUE, !.cwd = thread[t].cwd,
                                         !.program = thread[t].program, !.last = clock']]
                  /\ raw' = Printed(Line(t, "entry", call))
    BY <1>1, <1>5
  <2> DEFINE call == [CallLine(t, c, ok) EXCEPT !.child = child]
  <2>2. call \in SysCalls /\ Says(call, thread[t].cwd, c, ok) /\ call.child = child
    BY CallIs DEF LogInv
  <2>3. /\ thread' = [thread EXCEPT
                         ![t].call = call, ![t].last = clock',
                         ![child] = [Dead EXCEPT !.alive = TRUE, !.cwd = thread[t].cwd,
                                         !.program = thread[t].program, !.last = clock']]
        /\ raw' = Printed(Line(t, "entry", call))
    BY <2>1
  <2>4. raw' = Append(Cut(raw), [tid |-> t, ts |-> clock', kind |-> "entry", call |-> call])
    BY <2>3 DEF Printed, Line
  <2>5. child # t /\ child # Root /\ ~thread[child].alive /\ child \in Tids
    BY <1>1, <2>1 DEF Live
  <2>6. ok /\ \A i \in DOMAIN raw : raw[i].tid # child
    BY <2>1
  <2> HIDE DEF call
  <2> QED
    BY <1>1, <1>2, <1>3, <1>5, <2>2, <2>3, <2>4, <2>5, <2>6, ZenonT(60)
<1> QED
  BY <1>4, <1>5

LEMMA EnterPlain ==
    ASSUME LogInv, NEW t \in Tids, NEW call \in SysCalls,
           ~InFlight(t), clock' \in Nat,
           thread' = [thread EXCEPT ![t].call = call, ![t].last = clock'],
           raw' = Append(Cut(raw), [tid |-> t, ts |-> clock', kind |-> "entry", call |-> call])
    PROVE  /\ thread' \in [Tids -> ThreadStates]
           /\ thread'[t].call = call /\ thread'[t].last = clock'
           /\ thread'[t].alive = thread[t].alive /\ thread'[t].cwd = thread[t].cwd
           /\ thread'[t].program = thread[t].program /\ thread'[t].spans = thread[t].spans
           /\ \A u \in Tids \ {t} : thread'[u] = thread[u]
           /\ Returned' = Returned
           /\ \A u \in Tids : InFlight(u)' <=> InFlight(u) \/ u = t
           /\ \A u \in Tids : \A s, d : Entered(u, s, d)' <=>
                 Entered(u, s, d) \/ (u = t /\ s = clock' /\ d = call)
           /\ Logged'
<1>1. Typed /\ Logged
  BY DEF LogInv
<1>2. /\ thread' \in [Tids -> ThreadStates]
      /\ thread'[t].call = call /\ thread'[t].last = clock'
      /\ thread'[t].alive = thread[t].alive /\ thread'[t].cwd = thread[t].cwd
      /\ thread'[t].program = thread[t].program /\ thread'[t].spans = thread[t].spans
      /\ \A u \in Tids \ {t} : thread'[u] = thread[u]
  BY <1>1 DEF Typed, ThreadStates
<1> QED
  BY <1>1, <1>2, EnteredLog

LEMMA EnterClone ==
    ASSUME LogInv, NEW t \in Tids, NEW call \in SysCalls,
           ~InFlight(t), clock' \in Nat, call.child \in Tids \ {Root, t},
           ~thread[call.child].alive,
           thread' = [thread EXCEPT
               ![t].call = call, ![t].last = clock',
               ![call.child] = [Dead EXCEPT !.alive = TRUE, !.cwd = thread[t].cwd,
                            !.program = thread[t].program, !.last = clock']],
           raw' = Append(Cut(raw), [tid |-> t, ts |-> clock', kind |-> "entry", call |-> call])
    PROVE  /\ thread' \in [Tids -> ThreadStates]
           /\ thread'[t].call = call /\ thread'[t].last = clock'
           /\ thread'[t].alive = thread[t].alive /\ thread'[t].cwd = thread[t].cwd
           /\ thread'[t].program = thread[t].program /\ thread'[t].spans = thread[t].spans
           /\ thread'[call.child].call = NoCall /\ thread'[call.child].last = clock'
           /\ thread'[call.child].alive /\ thread'[call.child].cwd = thread[t].cwd
           /\ thread'[call.child].program = thread[t].program
           /\ thread'[call.child].spans = <<>>
           /\ \A u \in Tids \ {t, call.child} : thread'[u] = thread[u]
           /\ thread[call.child].call = NoCall
           /\ Returned' = Returned
           /\ \A u \in Tids : InFlight(u)' <=> InFlight(u) \/ u = t
           /\ \A u \in Tids : \A s, d : Entered(u, s, d)' <=>
                 Entered(u, s, d) \/ (u = t /\ s = clock' /\ d = call)
           /\ Logged'
<1> DEFINE child == call.child
           born == [Dead EXCEPT !.alive = TRUE, !.cwd = thread[t].cwd,
                            !.program = thread[t].program, !.last = clock']
<1>1. Typed /\ Logged
  BY DEF LogInv
<1>2. thread[t] \in ThreadStates /\ thread[t].cwd \in Dirs
      /\ thread[t].program \in {"worker", "other", "git"}
  BY <1>1, ThreadTyped
<1>3. /\ born \in ThreadStates
      /\ born.call = NoCall /\ born.last = clock' /\ born.alive /\ born.cwd = thread[t].cwd
      /\ born.program = thread[t].program /\ born.spans = <<>>
  <2> DEFINE dir == thread[t].cwd
             program == thread[t].program
             b == [Dead EXCEPT !.alive = TRUE, !.cwd = dir, !.program = program, !.last = clock']
  <2> HIDE DEF dir, program
  <2>1. dir \in Dirs /\ program \in {"worker", "other", "git"}
    BY <1>2 DEF dir, program
  <2>2. Dead \in ThreadStates
    BY DEF Dead, ThreadStates, Dirs
  <2>3. Dead.call = NoCall /\ Dead.spans = <<>>
    BY DEF Dead
  <2>4. /\ b \in ThreadStates
        /\ b.call = NoCall /\ b.last = clock' /\ b.alive /\ b.cwd = dir
        /\ b.program = program /\ b.spans = <<>>
    BY <2>1, <2>2, <2>3 DEF ThreadStates
  <2> QED
    BY <2>4 DEF dir, program
<1> HIDE DEF born, child
<1>4. child \in Tids /\ child # t /\ child # Root
  BY DEF child
<1>5. thread' = [thread EXCEPT ![t].call = call, ![t].last = clock', ![child] = born]
  BY DEF born, child
<1>6. /\ thread' \in [Tids -> ThreadStates]
      /\ thread'[t].call = call /\ thread'[t].last = clock'
      /\ thread'[t].alive = thread[t].alive /\ thread'[t].cwd = thread[t].cwd
      /\ thread'[t].program = thread[t].program /\ thread'[t].spans = thread[t].spans
      /\ thread'[child] = born
      /\ \A u \in Tids \ {t, child} : thread'[u] = thread[u]
  <2> DEFINE one == [thread EXCEPT ![t].call = call, ![t].last = clock']
  <2>1. /\ one \in [Tids -> ThreadStates]
        /\ one[t].call = call /\ one[t].last = clock'
        /\ one[t].alive = thread[t].alive /\ one[t].cwd = thread[t].cwd
        /\ one[t].program = thread[t].program /\ one[t].spans = thread[t].spans
        /\ \A u \in Tids \ {t} : one[u] = thread[u]
    BY <1>1, ZenonT(60) DEF Typed, ThreadStates
  <2>2. thread' = [one EXCEPT ![child] = born]
    BY <1>5
  <2> HIDE DEF one
  <2>3. born \in ThreadStates
    BY <1>3
  <2>4. /\ thread' \in [Tids -> ThreadStates] /\ thread'[child] = born
        /\ \A u \in Tids \ {child} : thread'[u] = one[u]
    BY <1>4, <2>1, <2>2, <2>3
  <2>5. thread'[t] = one[t]
    BY <1>4, <2>4
  <2>6. \A u \in Tids \ {t, child} : thread'[u] = thread[u]
    BY <2>1, <2>4
  <2> QED
    BY <2>1, <2>4, <2>5, <2>6
<1>7. thread[child].call = NoCall
  <2>1. child \notin Live
    BY DEF Live, child
  <2> QED
    BY <1>4, <2>1 DEF LogInv, Bounded
<1>8. \A u \in Tids \ {t} : /\ thread'[u].call = thread[u].call
                            /\ InFlight(u) => thread'[u].last = thread[u].last
  <2>1. \A u \in Tids \ {t, child} : thread'[u] = thread[u]
    BY <1>6
  <2>2. thread'[child].call = thread[child].call /\ ~InFlight(child)
    BY <1>3, <1>6, <1>7 DEF InFlight
  <2> QED
    BY <2>1, <2>2
<1>9. /\ Returned' = Returned
      /\ \A u \in Tids : InFlight(u)' <=> InFlight(u) \/ u = t
      /\ \A u \in Tids : \A s, d : Entered(u, s, d)' <=>
            Entered(u, s, d) \/ (u = t /\ s = clock' /\ d = call)
      /\ Logged'
  BY <1>1, <1>6, <1>8, EnteredLog
<1> QED
  BY <1>3, <1>6, <1>7, <1>9 DEF child

\* A call returns.
LEMMA ReturnStep ==
    ASSUME LogInv, NEW t \in Tids, Return(t)
    PROVE  LET call == thread[t].call
               done == call.ret = "ok"
           IN
           /\ thread[t].alive /\ InFlight(t) /\ call \in SysCalls /\ ~over
           /\ UNCHANGED <<clock, records, dumped, over, timedOut>>
           /\ did' = IF done THEN did \o Effects(t, call) ELSE did
           /\ thread' \in [Tids -> ThreadStates]
           /\ thread'[t].call = NoCall /\ thread'[t].last = thread[t].last
           /\ thread'[t].alive /\ thread'[t].spans = thread[t].spans
           /\ thread'[t].cwd = IF done /\ call.name \in {"chdir", "fchdir"}
                                 THEN Resolve(thread[t].cwd, call.to) ELSE thread[t].cwd
           /\ thread'[t].program = IF done /\ call.name = "execve"
                                     THEN (IF call.git THEN "git" ELSE "other")
                                     ELSE thread[t].program
           /\ \A u \in Tids \ {t} : thread'[u] = thread[u]
           /\ Returned' = Returned \union {Whole(t, thread[t].last, call)}
           /\ \A x \in Returned : x.tid = t => x.ts < thread[t].last
           /\ \A u \in Tids : InFlight(u)' <=> InFlight(u) /\ u # t
           /\ \A u \in Tids : \A s, d : Entered(u, s, d)' <=> Entered(u, s, d)
           /\ Logged'
           /\ raw' \in Seq(TraceLines) /\ raw' # <<>> /\ raw # <<>>
           /\ \A i \in DOMAIN raw : /\ i \in DOMAIN raw'
                                    /\ raw'[i].tid = raw[i].tid
                                    /\ raw'[i].ts = raw[i].ts
                                    /\ raw'[i].call = raw[i].call
           /\ \A i \in DOMAIN raw' :
                 \/ /\ i \in DOMAIN raw
                    /\ raw'[i].tid = raw[i].tid
                    /\ raw'[i].call = raw[i].call
                    /\ raw'[i].kind = "exited" <=> raw[i].kind = "exited"
                 \/ raw'[i].tid = t /\ raw'[i].kind # "exited"
<1> DEFINE call == thread[t].call
           done == call.ret = "ok"
           cwd == IF done /\ call.name \in {"chdir", "fchdir"}
                    THEN Resolve(thread[t].cwd, call.to) ELSE thread[t].cwd
           program == IF done /\ call.name = "execve"
                        THEN (IF call.git THEN "git" ELSE "other") ELSE thread[t].program
<1>1. Typed /\ Bounded /\ Logged
  BY DEF LogInv
<1>2. thread[t].alive /\ InFlight(t)
  BY DEF Return, Live, InFlight
<1>3. thread[t] \in ThreadStates /\ call \in SysCalls /\ thread[t].cwd \in Dirs
      /\ thread[t].program \in {"worker", "other", "git"}
  BY <1>1, <1>2, ThreadTyped
<1>4. ~over /\ raw # <<>>
  <2>1. ~over
    BY <1>1, <1>2 DEF Bounded, Live
  <2>2. raw = <<>> => thread[t] = Dead
    BY <1>1 DEF Bounded
  <2> QED
    BY <1>2, <2>1, <2>2 DEF Dead, InFlight
<1>5. /\ UNCHANGED <<clock, records, dumped, over, timedOut>>
      /\ did' = IF done THEN did \o Effects(t, call) ELSE did
      /\ raw' = IF Last(raw).kind = "entry" /\ Last(raw).tid = t
                THEN [raw EXCEPT ![Len(raw)].kind = "full"]
                ELSE Append(Cut(raw), [tid |-> t, ts |-> clock, kind |-> "resumed", call |-> call])
  BY DEF Return
<1>6. cwd \in Dirs /\ program \in {"worker", "other", "git"}
  BY <1>3, ResolveTyped
<1>7. thread' = [thread EXCEPT ![t].call = NoCall,
         ![t].cwd = IF done /\ call.name \in {"chdir", "fchdir"} THEN Resolve(@, call.to) ELSE @,
         ![t].program = IF done /\ call.name = "execve"
                          THEN (IF call.git THEN "git" ELSE "other") ELSE @]
  BY DEF Return
<1>8. /\ thread'[t].call = NoCall /\ thread'[t].last = thread[t].last
      /\ thread'[t].alive = thread[t].alive /\ thread'[t].spans = thread[t].spans
      /\ thread'[t].cwd = cwd /\ thread'[t].program = program
      /\ \A u \in Tids \ {t} : thread'[u] = thread[u]
  BY <1>1, <1>7 DEF Typed, ThreadStates
<1>9. thread' \in [Tids -> ThreadStates]
  <2> HIDE DEF cwd, program, call, done
  <2>1. thread' = [thread EXCEPT ![t].call = NoCall, ![t].cwd = cwd, ![t].program = program]
    BY <1>1, <1>7 DEF Typed, ThreadStates, cwd, program
  <2> QED
    BY <1>1, <1>3, <1>6, <2>1 DEF Typed, ThreadStates
<1>10. \A x \in Returned : x.tid = t => x.ts < thread[t].last
  BY <1>2 DEF LogInv, Stamped
<1>11. /\ \A u \in Tids \ {t} : thread'[u].call = thread[u].call
       /\ \A u \in Tids : thread'[u].last = thread[u].last
  BY <1>8
<1> HIDE DEF cwd, program, done
<1>12. /\ Returned' = Returned \union {Whole(t, thread[t].last, call)}
       /\ \A u \in Tids : InFlight(u)' <=> InFlight(u) /\ u # t
       /\ \A u \in Tids : \A s, d : Entered(u, s, d)' <=> Entered(u, s, d)
       /\ Logged'
       /\ raw' \in Seq(TraceLines) /\ raw' # <<>>
       /\ \A i \in DOMAIN raw : /\ i \in DOMAIN raw'
                                /\ raw'[i].tid = raw[i].tid
                                /\ raw'[i].ts = raw[i].ts
                                /\ raw'[i].call = raw[i].call
       /\ \A i \in DOMAIN raw' :
             \/ /\ i \in DOMAIN raw
                /\ raw'[i].tid = raw[i].tid
                /\ raw'[i].kind = "exited" <=> raw[i].kind = "exited"
             \/ raw'[i].tid = t /\ raw'[i].kind # "exited"
  BY <1>1, <1>2, <1>5, <1>8, <1>9, <1>10, <1>11, ReturnedLog, SMTT(60)
<1> QED
  BY <1>2, <1>3, <1>4, <1>5, <1>8, <1>9, <1>10, <1>12 DEF cwd, program, done

\* A sequence without its last element.
LEMMA FrontIs ==
    ASSUME NEW X, NEW s \in Seq(X), s # <<>>
    PROVE  /\ Front(s) \in Seq(X) /\ Len(Front(s)) = Len(s) - 1
           /\ \A i \in 1..(Len(s) - 1) : Front(s)[i] = s[i]
           /\ DOMAIN Front(s) = 1..(Len(s) - 1)
<1> DEFINE n == Len(s)
           r == SubSeq(s, 1, n - 1)
<1>1. n \in Nat \ {0} /\ \A i \in 1..n : s[i] \in X
  BY EmptySeq, ElementOfSeq
<1>2. \A i \in 1..(n - 1) : s[i] \in X
  BY <1>1
<1>3. /\ r \in Seq(X)
      /\ Len(r) = IF 1 <= n - 1 THEN (n - 1) - 1 + 1 ELSE 0
      /\ \A i \in 1..((n - 1) - 1 + 1) : r[i] = s[1 + i - 1]
  <2>1. 1 \in Int /\ n - 1 \in Int
    BY <1>1
  <2> HIDE DEF n
  <2> QED
    BY <1>2, <2>1, SubSeqProperties
<1>4. (n - 1) - 1 + 1 = n - 1 /\ \A i \in 1..(n - 1) : 1 + i - 1 = i
  BY <1>1
<1>5. Front(s) = r
  BY DEF Front
<1> HIDE DEF r, n
<1>6. Len(r) = n - 1
  BY <1>1, <1>3, <1>4
<1>7. DOMAIN r = 1..(n - 1)
  BY <1>3, <1>6, LenProperties
<1> QED
  BY <1>3, <1>4, <1>5, <1>6, <1>7, ZenonT(60) DEF n

\* A begin edge is found by its number.
LEMMA BeginIs ==
    ASSUME Typed, Spanned, NEW b \in DOMAIN records, records[b].k = "b"
    PROVE  BeginOf(b) = records[b]
<1>1. records[b] \in Range(records) /\ records[b].id = b
  BY DEF Spanned, Numbered, Range
<1>2. ASSUME NEW r \in Range(records), r.k = "b", r.id = b PROVE r = records[b]
  <2>1. PICK i \in DOMAIN records : r = records[i]
    BY DEF Range
  <2>2. i = b
    BY <1>2, <2>1 DEF Spanned, Numbered
  <2> QED
    BY <2>1, <2>2
<1> DEFINE P(r) == r \in Range(records) /\ r.k = "b" /\ r.id = b
<1>3. \A r : P(r) <=> r = records[b]
  BY <1>1, <1>2
<1>4. (CHOOSE r \in Range(records) : r.k = "b" /\ r.id = b) = records[b]
  <2>1. \A r \in Range(records) : (r.k = "b" /\ r.id = b) <=> r = records[b]
    BY <1>3
  <2> QED
    BY <1>1, <2>1
<1> QED
  BY <1>4 DEF BeginOf

\* The innermost span of a thread.
LEMMA InGitIs ==
    ASSUME Typed, Spanned, NEW t \in Tids
    PROVE  LET spans == thread[t].spans IN
           /\ spans # <<>> =>
                /\ Last(spans) = spans[Len(spans)] /\ Len(spans) \in DOMAIN spans
                /\ Last(spans) \in DOMAIN records
                /\ records[Last(spans)].k = "b" /\ records[Last(spans)].tid = t
                /\ records[Last(spans)].id = Last(spans)
                /\ BeginOf(Last(spans)) = records[Last(spans)]
           /\ InGit(t) <=> spans # <<>> /\ IsGit(Last(spans))
<1> DEFINE spans == thread[t].spans
<1>1. spans \in Seq(Nat)
  BY ThreadTyped
<1>2. ASSUME spans # <<>>
      PROVE  /\ Last(spans) = spans[Len(spans)] /\ Len(spans) \in DOMAIN spans
             /\ Last(spans) \in DOMAIN records
             /\ records[Last(spans)].k = "b" /\ records[Last(spans)].tid = t
             /\ records[Last(spans)].id = Last(spans)
             /\ BeginOf(Last(spans)) = records[Last(spans)]
  <2>1. Last(spans) = spans[Len(spans)] /\ Len(spans) \in DOMAIN spans
    <3> HIDE DEF spans
    <3>1. Len(spans) \in Nat \ {0} /\ DOMAIN spans = 1..Len(spans)
      BY <1>1, <1>2, EmptySeq, LenProperties
    <3> QED
      BY <3>1 DEF Last
  <2> DEFINE b == Last(spans)
  <2>2. b \in DOMAIN records /\ records[b].k = "b" /\ records[b].tid = t
    <3>1. \A n \in DOMAIN spans :
             /\ spans[n] \in DOMAIN records
             /\ records[spans[n]].k = "b" /\ records[spans[n]].tid = t
      BY DEF Spanned, Nested
    <3> HIDE DEF spans
    <3> QED
      BY <2>1, <3>1
  <2>3. records[b].id = b
    BY <2>2 DEF Spanned, Numbered
  <2> QED
    BY <2>1, <2>2, <2>3, BeginIs
<1>3. InGit(t) <=> spans # <<>> /\ IsGit(Last(spans))
  BY <1>2 DEF InGit, IsGit
<1> QED
  BY <1>2, <1>3

\* The edge of a builtin has a stamp none of its thread's calls has.
LEMMA HookStampIs ==
    ASSUME LogInv, NEW t \in Tids, HookStamp(t)
    PROVE  /\ clock' \in Nat /\ clock <= clock' /\ thread[t].last <= clock' /\ ~over
           /\ \A s \in Nat : \A c \in SysCalls \union ExitCalls :
                 Entered(t, s, c) => s # clock'
           /\ \A u \in Tids, s \in Nat : \A c \in SysCalls :
                 Entered(u, s, c) /\ Clones(c, t) => s # clock'
<1>1. clock' \in Nat /\ clock <= clock' /\ ~over /\ thread[t].last <= clock'
  <2>1. Tick /\ clock' >= thread[t].last
    BY DEF HookStamp
  <2>2. clock' \in Nat /\ clock <= clock' /\ ~over /\ thread[t].last \in Nat
    BY <2>1, TickTyped, ThreadTyped DEF LogInv
  <2> QED
    BY <2>1, <2>2
<1>2. \A i \in DOMAIN raw : ~(Concerns(raw[i], t) /\ raw[i].ts = clock')
  BY DEF HookStamp
<1>3. ASSUME NEW s \in Nat, NEW c \in SysCalls \union ExitCalls, Entered(t, s, c)
      PROVE  s # clock'
  <2>1. PICK i \in DOMAIN raw : raw[i].tid = t /\ raw[i].ts = s /\ raw[i].call = c
    BY <1>3 DEF LogInv, Logged
  <2> QED
    BY <1>2, <2>1 DEF Concerns
<1>4. ASSUME NEW u \in Tids, NEW s \in Nat, NEW c \in SysCalls, Entered(u, s, c), Clones(c, t)
      PROVE  s # clock'
  <2>1. PICK i \in DOMAIN raw : raw[i].tid = u /\ raw[i].ts = s /\ raw[i].call = c
    BY <1>4 DEF LogInv, Logged
  <2> QED
    BY <1>2, <1>4, <2>1 DEF Concerns, Clones
<1> QED
  BY <1>1, <1>3, <1>4

\* Nothing is done to the log, and no call starts or ends.
Unlogged ==
    /\ raw' = raw /\ thread' \in [Tids -> ThreadStates]
    /\ Returned' = Returned
    /\ \A t \in Tids : thread'[t].call = thread[t].call
    /\ \A t \in Tids : InFlight(t)' <=> InFlight(t)
    /\ \A t \in Tids : \A s, d : Entered(t, s, d)' <=> Entered(t, s, d)
    /\ Logged'

LEMMA BeginStep ==
    ASSUME LogInv, NEW t \in Tids, Begin(t)
    PROVE  \E b \in Builtins :
           LET id == Len(records) + 1
               B == [k |-> "b", id |-> id, ts |-> clock', tid |-> t,
                     builtin |-> b.name, path |-> b.path]
           IN
           /\ thread[t].alive /\ ~InFlight(t) /\ ~InGit(t) /\ thread[t].program = "worker"
           /\ HookStamp(t) /\ B \in Begins
           /\ UNCHANGED <<did, dumped, over, timedOut>>
           /\ records' = Append(records, B)
           /\ thread'[t] = [thread[t] EXCEPT !.spans = Append(@, id), !.last = clock']
           /\ thread'[t].last = clock' /\ thread'[t].spans = Append(thread[t].spans, id)
           /\ thread'[t].alive = thread[t].alive /\ thread'[t].cwd = thread[t].cwd
           /\ thread'[t].program = thread[t].program
           /\ \A u \in Tids \ {t} : thread'[u] = thread[u]
           /\ Unlogged
<1>1. PICK b \in Builtins :
        LET id == Len(records) + 1 IN
        /\ t \in Live /\ thread[t].call = NoCall /\ ~InGit(t)
        /\ thread[t].program = "worker"
        /\ HookStamp(t)
        /\ records' = Append(records, [k |-> "b", id |-> id, ts |-> clock', tid |-> t,
                                      builtin |-> b.name, path |-> b.path])
        /\ thread' = [thread EXCEPT ![t].spans = Append(@, id), ![t].last = clock']
        /\ UNCHANGED <<raw, did, dumped, over, timedOut>>
  BY DEF Begin
<1> DEFINE id == Len(records) + 1
           B == [k |-> "b", id |-> id, ts |-> clock', tid |-> t,
                 builtin |-> b.name, path |-> b.path]
<1>2. Typed /\ Logged /\ clock' \in Nat
  BY <1>1, HookStampIs DEF LogInv
<1>3. id \in Nat /\ B \in Begins
  <2>1. id \in Nat
    BY <1>2 DEF Typed
  <2> HIDE DEF id
  <2> QED
    BY <1>2, <2>1 DEF Begins
<1> HIDE DEF id
<1>4. /\ thread'[t] = [thread[t] EXCEPT !.spans = Append(@, id), !.last = clock']
      /\ thread'[t].last = clock' /\ thread'[t].spans = Append(thread[t].spans, id)
      /\ thread'[t].alive = thread[t].alive /\ thread'[t].cwd = thread[t].cwd
      /\ thread'[t].program = thread[t].program /\ thread'[t].call = thread[t].call
      /\ \A u \in Tids \ {t} : thread'[u] = thread[u]
  BY <1>1, <1>2 DEF Typed, ThreadStates, id
<1>5. thread' \in [Tids -> ThreadStates]
  <2>1. Append(thread[t].spans, id) \in Seq(Nat)
    BY <1>2, <1>3, ThreadTyped
  <2> DEFINE more == Append(thread[t].spans, id)
  <2> HIDE DEF more
  <2>2. thread' = [thread EXCEPT ![t].spans = more, ![t].last = clock']
    BY <1>1, <1>2 DEF id, more, Typed, ThreadStates
  <2>3. more \in Seq(Nat)
    BY <2>1 DEF more
  <2> QED
    BY <1>2, <2>2, <2>3, Respanned
<1>6. ~InFlight(t) /\ thread[t].alive
  BY <1>1 DEF InFlight, Live
<1>7. Unlogged
  <2>1. \A u \in Tids : /\ thread'[u].call = thread[u].call
                        /\ InFlight(u) => thread'[u].last = thread[u].last
    BY <1>4, <1>6
  <2>2. raw' = raw
    BY <1>1
  <2> QED
    BY <1>2, <1>5, <2>1, <2>2, SilentLog DEF Unlogged
<1> QED
  BY <1>1, <1>3, <1>4, <1>6, <1>7 DEF id

LEMMA EndStep ==
    ASSUME LogInv, NEW t \in Tids, End(t)
    PROVE  \E exit \in {0, 1} :
           LET b == Last(thread[t].spans)
               E == [k |-> "e", id |-> b, ts |-> clock', tid |-> t, exit |-> exit]
           IN
           /\ thread[t].alive /\ ~InFlight(t) /\ thread[t].spans # <<>>
           /\ HookStamp(t) /\ E \in Ends
           /\ b \in DOMAIN records /\ b = thread[t].spans[Len(thread[t].spans)]
           /\ records[b].builtin = "git" => exit # 0
           /\ records[b].builtin = "git add" /\ ~SeedResource(records[b].path) => exit # 0
           /\ UNCHANGED <<dumped, over, timedOut>>
           /\ did' = IF records[b].builtin = "git add" /\ exit = 0
                       THEN Append(did, [event |-> Event("Stage", records[b].path), tid |-> t,
                                         by |-> "record"])
                       ELSE did
           /\ records' = Append(records, E)
           /\ thread'[t].last = clock' /\ thread'[t].spans = Front(thread[t].spans)
           /\ thread'[t].alive = thread[t].alive /\ thread'[t].cwd = thread[t].cwd
           /\ thread'[t].program = thread[t].program
           /\ \A u \in Tids \ {t} : thread'[u] = thread[u]
           /\ Unlogged
<1> DEFINE b == Last(thread[t].spans)
<1>1. PICK exit \in {0, 1} :
        /\ t \in Live /\ thread[t].call = NoCall /\ thread[t].spans # <<>>
        /\ LET begun == BeginOf(b) IN
           /\ begun.builtin = "git" => exit # 0
           /\ begun.builtin = "git add" /\ ~SeedResource(begun.path) => exit # 0
           /\ HookStamp(t)
           /\ records' = Append(records, [k |-> "e", id |-> begun.id, ts |-> clock', tid |-> t,
                                          exit |-> exit])
           /\ did' = IF begun.builtin = "git add" /\ exit = 0
                       THEN Append(did, [event |-> Event("Stage", begun.path), tid |-> t,
                                         by |-> "record"])
                       ELSE did
           /\ thread' = [thread EXCEPT ![t].spans = Front(@), ![t].last = clock']
        /\ UNCHANGED <<raw, dumped, over, timedOut>>
  BY DEF End
<1>2. Typed /\ Logged /\ Spanned /\ clock' \in Nat
  BY <1>1, HookStampIs DEF LogInv
<1>3. /\ b = thread[t].spans[Len(thread[t].spans)] /\ b \in DOMAIN records
      /\ records[b].id = b /\ BeginOf(b) = records[b]
      /\ thread[t].spans \in Seq(Nat)
  BY <1>1, <1>2, InGitIs, ThreadTyped
<1> DEFINE E == [k |-> "e", id |-> b, ts |-> clock', tid |-> t, exit |-> exit]
<1>4. E \in Ends
  <2>1. b \in Nat
    BY <1>2, <1>3 DEF Typed
  <2> HIDE DEF b
  <2> QED
    BY <1>2, <2>1 DEF Ends
<1>5. /\ thread'[t].last = clock' /\ thread'[t].spans = Front(thread[t].spans)
      /\ thread'[t].alive = thread[t].alive /\ thread'[t].cwd = thread[t].cwd
      /\ thread'[t].program = thread[t].program /\ thread'[t].call = thread[t].call
      /\ \A u \in Tids \ {t} : thread'[u] = thread[u]
  BY <1>1, <1>2 DEF Typed, ThreadStates
<1>6. thread' \in [Tids -> ThreadStates]
  <2> DEFINE less == Front(thread[t].spans)
  <2>1. less \in Seq(Nat)
    BY <1>1, <1>3, FrontIs
  <2> HIDE DEF less
  <2>2. thread' = [thread EXCEPT ![t].spans = less, ![t].last = clock']
    BY <1>1, <1>2 DEF less, Typed, ThreadStates
  <2> QED
    BY <1>2, <2>1, <2>2, Respanned
<1>7. ~InFlight(t) /\ thread[t].alive
  BY <1>1 DEF InFlight, Live
<1>8. Unlogged
  <2>1. \A u \in Tids : /\ thread'[u].call = thread[u].call
                        /\ InFlight(u) => thread'[u].last = thread[u].last
    BY <1>5, <1>7
  <2>2. raw' = raw
    BY <1>1
  <2> QED
    BY <1>2, <1>6, <2>1, <2>2, SilentLog DEF Unlogged
<1> QED
  <2> HIDE DEF b
  <2>1. /\ records[b].builtin = "git" => exit # 0
        /\ records[b].builtin = "git add" /\ ~SeedResource(records[b].path) => exit # 0
        /\ did' = IF records[b].builtin = "git add" /\ exit = 0
                       THEN Append(did, [event |-> Event("Stage", records[b].path), tid |-> t,
                                         by |-> "record"])
                       ELSE did
        /\ records' = Append(records, E)
        /\ HookStamp(t)
    BY <1>1, <1>3
  <2>2. thread[t].spans # <<>> /\ UNCHANGED <<dumped, over, timedOut>>
    BY <1>1
  <2> HIDE DEF E
  <2>3. exit \in {0, 1}
    OBVIOUS
  <2> QED
    BY <1>3, <1>4, <1>5, <1>7, <1>8, <2>1, <2>2, <2>3 DEF b, E

LEMMA PanicStep ==
    ASSUME LogInv, NEW t \in Tids, Panic(t)
    PROVE  /\ thread[t].alive /\ ~InFlight(t)
           /\ UNCHANGED <<clock, records, did, dumped, over, timedOut>>
           /\ thread'[t].last = thread[t].last /\ thread'[t].spans = <<>>
           /\ thread'[t].alive = thread[t].alive /\ thread'[t].cwd = thread[t].cwd
           /\ thread'[t].program = thread[t].program
           /\ \A u \in Tids \ {t} : thread'[u] = thread[u]
           /\ Unlogged
<1>1. /\ t \in Live /\ thread[t].call = NoCall
      /\ thread' = [thread EXCEPT ![t].spans = <<>>]
      /\ UNCHANGED <<clock, raw, records, did, dumped, over, timedOut>>
  BY DEF Panic
<1>2. Typed /\ Logged
  BY DEF LogInv
<1>3. /\ thread'[t].last = thread[t].last /\ thread'[t].spans = <<>>
      /\ thread'[t].alive = thread[t].alive /\ thread'[t].cwd = thread[t].cwd
      /\ thread'[t].program = thread[t].program /\ thread'[t].call = thread[t].call
      /\ \A u \in Tids \ {t} : thread'[u] = thread[u]
      /\ thread' \in [Tids -> ThreadStates]
  <2>1. <<>> \in Seq(Nat)
    OBVIOUS
  <2>2. thread[t].last \in Nat /\ thread' = [thread EXCEPT ![t].spans = <<>>,
                                                         ![t].last = thread[t].last]
    BY <1>1, <1>2, ThreadTyped DEF Typed, ThreadStates, Live
  <2>3. thread' \in [Tids -> ThreadStates]
    BY <1>1, <1>2, <2>1, <2>2, Respanned DEF Live
  <2>4. /\ thread'[t].last = thread[t].last /\ thread'[t].spans = <<>>
        /\ thread'[t].alive = thread[t].alive /\ thread'[t].cwd = thread[t].cwd
        /\ thread'[t].program = thread[t].program /\ thread'[t].call = thread[t].call
    BY <1>1, <1>2 DEF Typed, ThreadStates
  <2>5. \A u \in Tids \ {t} : thread'[u] = thread[u]
    BY <1>1, <1>2 DEF Typed
  <2> QED
    BY <1>1, <2>3, <2>4, <2>5 DEF Live
<1>4. ~InFlight(t) /\ thread[t].alive
  BY <1>1 DEF InFlight, Live
<1>5. Unlogged
  <2>1. \A u \in Tids : /\ thread'[u].call = thread[u].call
                        /\ InFlight(u) => thread'[u].last = thread[u].last
    BY <1>3, <1>4
  <2>2. raw' = raw
    BY <1>1
  <2> QED
    BY <1>2, <1>3, <2>1, <2>2, SilentLog DEF Unlogged
<1> QED
  BY <1>1, <1>3, <1>4, <1>5

\* Thread t exits: the last of its lines is its exit record.
Exited(t, exit) ==
    LET call == [name |-> "exited", status |-> exit]
        l == [tid |-> t, ts |-> clock', kind |-> "exited", call |-> call]
    IN
    /\ thread[t].alive /\ ~InFlight(t) /\ thread[t].spans = <<>>
    /\ clock' \in Nat /\ clock <= clock' /\ thread[t].last < clock' /\ ~over
    /\ UNCHANGED <<records, did, over, timedOut>>
    /\ call \in ExitCalls /\ l \in TraceLines
    /\ raw' = Append(Cut(raw), l)
    /\ thread' \in [Tids -> ThreadStates]
    /\ thread'[t].last = clock' /\ thread'[t].spans = <<>> /\ thread'[t].call = NoCall
    /\ ~thread'[t].alive /\ thread'[t].cwd = thread[t].cwd
    /\ thread'[t].program = thread[t].program
    /\ \A u \in Tids \ {t} : thread'[u] = thread[u]
    /\ Returned' = Returned \union {Whole(t, clock', call)}
    /\ \A u \in Tids : InFlight(u)' <=> InFlight(u)
    /\ \A u \in Tids : \A s, d : Entered(u, s, d)' <=>
          Entered(u, s, d) \/ (u = t /\ s = clock' /\ d = call)
    /\ Logged'

LEMMA ExitedIs ==
    ASSUME LogInv, NEW t \in Tids, NEW exit \in {0, 1},
           t \in Live, thread[t].call = NoCall, thread[t].spans = <<>>, Stamp(t),
           raw' = Printed(ExitLine(t, exit)),
           thread' = [thread EXCEPT ![t].alive = FALSE, ![t].last = clock'],
           UNCHANGED <<records, did, over, timedOut>>
    PROVE  Exited(t, exit)
<1> DEFINE call == [name |-> "exited", status |-> exit]
           l == [tid |-> t, ts |-> clock', kind |-> "exited", call |-> call]
<1>1. Typed /\ Logged
  BY DEF LogInv
<1>2. clock' \in Nat /\ clock <= clock' /\ thread[t].last < clock' /\ ~over
      /\ thread[t].last \in Nat
  <2>1. Tick /\ clock' > thread[t].last /\ thread[t].last \in Nat
    BY <1>1, ThreadTyped DEF Stamp
  <2>2. clock' \in Nat /\ clock <= clock' /\ ~over
    BY <1>1, <2>1, TickTyped
  <2> QED
    BY <2>1, <2>2
<1>3. call \in ExitCalls
  BY DEF ExitCalls
<1>4. l \in TraceLines /\ l.kind = "exited" /\ l.tid = t /\ l.ts = clock' /\ l.call = call
  <2> HIDE DEF call
  <2> QED
    BY <1>2, <1>3 DEF TraceLines
<1>5. /\ thread' \in [Tids -> ThreadStates]
      /\ thread'[t].last = clock' /\ thread'[t].spans = <<>> /\ thread'[t].call = NoCall
      /\ thread'[t].alive = FALSE /\ thread'[t].cwd = thread[t].cwd
      /\ thread'[t].program = thread[t].program
      /\ \A u \in Tids \ {t} : thread'[u] = thread[u]
  <2>1. thread' \in [Tids -> ThreadStates]
    BY <1>1, <1>2, SMTT(60) DEF Typed, ThreadStates
  <2>2. /\ thread'[t].last = clock' /\ thread'[t].spans = thread[t].spans
        /\ thread'[t].call = thread[t].call
        /\ thread'[t].alive = FALSE /\ thread'[t].cwd = thread[t].cwd
        /\ thread'[t].program = thread[t].program
    BY <1>1, <1>2 DEF Typed, ThreadStates
  <2>3. \A u \in Tids \ {t} : thread'[u] = thread[u]
    BY <1>1 DEF Typed
  <2> QED
    BY <2>1, <2>2, <2>3
<1>6. raw' = Append(Cut(raw), l)
  BY DEF Printed, ExitLine
<1>7. ~InFlight(t) /\ thread[t].alive
  BY DEF InFlight, Live
<1> HIDE DEF l
<1>8. /\ Returned' = Returned \union {Whole(t, l.ts, l.call)}
      /\ \A u \in Tids : InFlight(u)' <=> InFlight(u)
      /\ \A u \in Tids : \A s, d : Entered(u, s, d)' <=>
            Entered(u, s, d) \/ (u = t /\ s = l.ts /\ d = l.call)
      /\ Logged'
  <2>1. \A u \in Tids : /\ thread'[u].call = thread[u].call
                        /\ InFlight(u) => thread'[u].last = thread[u].last
    BY <1>5, <1>7
  <2>2. \A x \in Returned : x.tid = t => x.ts < l.ts
    <3> TAKE x \in Returned
    <3> HAVE x.tid = t
    <3>1. x.ts <= thread[t].last /\ x.ts \in Nat
      BY <1>1, ReturnedTyped DEF LogInv, Stamped
    <3> QED
      BY <1>2, <1>4, <3>1
  <2> QED
    BY <1>1, <1>4, <1>5, <1>6, <2>1, <2>2, PrintedLog
<1> HIDE DEF call
<1>9. /\ Returned' = Returned \union {Whole(t, clock', call)}
      /\ \A u \in Tids : \A s, d : Entered(u, s, d)' <=>
            Entered(u, s, d) \/ (u = t /\ s = clock' /\ d = call)
  BY <1>4, <1>8
<1> QED
  BY <1>2, <1>3, <1>4, <1>5, <1>6, <1>7, <1>8, <1>9 DEF Exited, call, l

LEMMA ExitStep ==
    ASSUME LogInv, NEW t \in Tids, ExitThread(t)
    PROVE  Exited(t, 0) /\ t # Root /\ dumped' = dumped
<1>1. /\ t \in Live \ {Root} /\ thread[t].call = NoCall /\ thread[t].spans = <<>>
      /\ Stamp(t)
      /\ raw' = Printed(ExitLine(t, 0))
      /\ thread' = [thread EXCEPT ![t].alive = FALSE, ![t].last = clock']
      /\ UNCHANGED <<records, did, dumped, over, timedOut>>
  BY DEF ExitThread
<1> QED
  BY <1>1, ExitedIs

LEMMA FinishStep ==
    ASSUME LogInv, Finish
    PROVE  \E exit \in {0, 1} :
              /\ Exited(Root, exit) /\ dumped' \in BOOLEAN /\ (exit = 0 => dumped')
<1>1. PICK exit \in {0, 1}, written \in BOOLEAN :
        /\ written \/ exit # 0
        /\ Root \in Live /\ thread[Root].call = NoCall /\ thread[Root].spans = <<>> /\ Alone
        /\ Stamp(Root)
        /\ raw' = Printed(ExitLine(Root, exit))
        /\ thread' = [thread EXCEPT ![Root].alive = FALSE, ![Root].last = clock']
        /\ dumped' = written
        /\ UNCHANGED <<records, did, over, timedOut>>
  BY DEF Finish
<1>2. Exited(Root, exit)
  BY <1>1, ExitedIs, RootIsAThread
<1> QED
  BY <1>1, <1>2

LEMMA KillStep ==
    ASSUME LogInv, Kill
    PROVE  LET l == [tid |-> Root, ts |-> clock', kind |-> "killed", call |-> NoCall] IN
           /\ thread[Root].alive /\ clock' \in Nat /\ clock <= clock' /\ ~over
           /\ UNCHANGED <<records, did, dumped, over, timedOut>>
           /\ l \in TraceLines /\ raw' = Append(Cut(raw), l)
           /\ thread' \in [Tids -> ThreadStates] /\ ~thread'[Root].alive
           /\ thread'[Root] = [thread[Root] EXCEPT !.alive = FALSE]
           /\ \A u \in Tids : /\ thread'[u].call = thread[u].call
                              /\ thread'[u].last = thread[u].last
                              /\ thread'[u].spans = thread[u].spans
                              /\ thread'[u].cwd = thread[u].cwd
                              /\ thread'[u].program = thread[u].program
           /\ \A u \in Tids \ {Root} : thread'[u] = thread[u]
           /\ Returned' = Returned
           /\ \A u \in Tids : InFlight(u)' <=> InFlight(u)
           /\ \A u \in Tids : \A s, d : Entered(u, s, d)' <=> Entered(u, s, d)
           /\ Logged'
<1> DEFINE l == [tid |-> Root, ts |-> clock', kind |-> "killed", call |-> NoCall]
<1>1. /\ Root \in Live /\ Stamp(Root)
      /\ raw' = Printed(l)
      /\ thread' = [thread EXCEPT ![Root].alive = FALSE]
      /\ UNCHANGED <<records, did, dumped, over, timedOut>>
  BY DEF Kill
<1>2. Typed /\ Logged
  BY DEF LogInv
<1>3. clock' \in Nat /\ clock <= clock' /\ ~over /\ thread[Root].alive
  BY <1>1, <1>2, TickTyped DEF Stamp, Live
<1>4. l \in TraceLines /\ l.kind = "killed"
  BY <1>3, RootIsAThread DEF TraceLines
<1>5. /\ thread' \in [Tids -> ThreadStates] /\ ~thread'[Root].alive
      /\ thread'[Root] = [thread[Root] EXCEPT !.alive = FALSE]
      /\ \A u \in Tids \ {Root} : thread'[u] = thread[u]
      /\ \A u \in Tids : /\ thread'[u].call = thread[u].call
                         /\ thread'[u].last = thread[u].last
                         /\ thread'[u].spans = thread[u].spans
                         /\ thread'[u].cwd = thread[u].cwd
                         /\ thread'[u].program = thread[u].program
  BY <1>1, <1>2, RootIsAThread, ZenonT(60) DEF Typed, ThreadStates
<1>6. raw' = Append(Cut(raw), l)
  BY <1>1 DEF Printed
<1> HIDE DEF l
<1>7. /\ Returned' = Returned
      /\ \A u \in Tids : InFlight(u)' <=> InFlight(u)
      /\ \A u \in Tids : \A s, d : Entered(u, s, d)' <=> Entered(u, s, d)
      /\ Logged'
  BY <1>2, <1>4, <1>5, <1>6, KilledLog
<1> QED
  BY <1>1, <1>3, <1>4, <1>5, <1>6, <1>7 DEF l

LEMMA DetachStep ==
    ASSUME LogInv, Detach
    PROVE  /\ raw # <<>> /\ Live = {} /\ over'
           /\ UNCHANGED <<clock, thread, records, did, dumped, timedOut>>
           /\ Unlogged
<1>1. Typed /\ Logged
  BY DEF LogInv
<1>2. /\ raw # <<>> /\ Live = {} /\ over' = TRUE
      /\ UNCHANGED <<clock, thread, raw, records, did, dumped, timedOut>>
  BY DEF Detach
<1>3. Unlogged
  BY <1>1, <1>2, SilentLog DEF Unlogged, Typed
<1> QED
  BY <1>2, <1>3

-----------------------------------------------------------------------------
(* The invariant is inductive: what its parts need of a step.              *)

LEMMA SpansKept ==
    ASSUME Spanned, records' = records,
           \A t \in Tids : thread'[t].spans \in {thread[t].spans, <<>>}
    PROVE  Spanned'
<1>1. Numbered'
  BY DEF Spanned, Numbered
<1>2. Paired'
  <2>1. \A x : EndsOf(x)' = EndsOf(x)
    BY DEF EndsOf, EdgesOf
  <2> QED
    BY <2>1 DEF Spanned, Paired
<1>3. Apart'
  BY DEF Spanned, Apart, EndsOf, EdgesOf, IsGit
<1>4. Nested'
  <2>1. SUFFICES ASSUME NEW t \in Tids, NEW n \in DOMAIN thread'[t].spans
                 PROVE  /\ thread'[t].spans = thread[t].spans
                        /\ n \in DOMAIN thread[t].spans
    BY DEF Spanned, Nested, EndsOf, EdgesOf, IsGit
  <2>2. thread'[t].spans # <<>>
    BY <2>1, EmptySeq
  <2> QED
    BY <2>1, <2>2
<1> QED
  BY <1>1, <1>2, <1>3, <1>4 DEF Spanned

\* A thread passes a traced stop; a child it makes starts at that stop.
LEMMA StopStamped ==
    ASSUME Typed, Typed', Stamped, NEW t \in Tids,
           records' = records, clock <= clock',
           thread[t].last < clock', thread'[t].last = clock',
           \A u \in Tids : thread[u].last <= thread'[u].last /\ thread'[u].last <= clock',
           \A u \in Tids \ {t} : InFlight(u)' => InFlight(u) /\ thread'[u].last = thread[u].last,
           \A x \in Returned' : x \in Returned \/ (x.tid = t /\ x.ts = clock' /\ ~InFlight(t)'),
           \A u \in Tids : \A s, d : Entered(u, s, d)' => Entered(u, s, d) \/ (u = t /\ s = clock')
    PROVE  Stamped'
<1>0. /\ clock \in Nat /\ clock' \in Nat
      /\ \A u \in Tids : thread[u].last \in Nat /\ thread'[u].last \in Nat
      /\ \A i \in DOMAIN records : records[i].ts \in Nat /\ records[i].tid \in Tids
  BY SMTT(60) DEF Typed, ThreadStates, Begins, Ends
<1>1. \A x \in Returned : x.tid \in Tids /\ x.ts \in Nat
  BY ReturnedTyped
<1>2. \A x \in Returned' : x.ts <= thread'[x.tid].last
  BY <1>0, <1>1 DEF Stamped
<1>3. \A x \in Returned' : InFlight(x.tid)' => x.ts < thread'[x.tid].last
  <2> TAKE x \in Returned'
  <2> HAVE InFlight(x.tid)'
  <2>1. x \in Returned /\ x.tid \in Tids /\ x.ts \in Nat
    BY <1>1
  <2>2. CASE x.tid = t
    BY <1>0, <2>1, <2>2 DEF Stamped
  <2>3. CASE x.tid # t
    BY <2>1, <2>3 DEF Stamped
  <2> QED
    BY <2>2, <2>3
<1>4. \A i \in DOMAIN records : records[i].ts <= thread'[records[i].tid].last
  BY <1>0 DEF Stamped
<1>5. \A i \in DOMAIN records : \A s \in Nat : \A c \in SysCalls \union ExitCalls :
         Entered(records[i].tid, s, c)' => records[i].ts # s
  <2> TAKE i \in DOMAIN records
  <2> TAKE s \in Nat
  <2> TAKE c \in SysCalls \union ExitCalls
  <2> HAVE Entered(records[i].tid, s, c)'
  <2>1. records[i].tid \in Tids /\ records[i].ts \in Nat
        /\ records[i].ts <= thread[records[i].tid].last
    BY <1>0 DEF Stamped
  <2>2. CASE Entered(records[i].tid, s, c)
    BY <2>2 DEF Stamped
  <2>3. CASE records[i].tid = t /\ s = clock'
    BY <1>0, <2>1, <2>3
  <2> QED
    BY <2>1, <2>2, <2>3
<1>6. \A i \in DOMAIN records, j \in DOMAIN records : i < j => records[i].ts <= records[j].ts
  BY DEF Stamped
<1>7. \A u \in Tids : thread'[u].last <= clock'
  OBVIOUS
<1> QED
  BY <1>2, <1>3, <1>4, <1>5, <1>6, <1>7 DEF Stamped

\* A step without a stamp.
LEMMA StillStamped ==
    ASSUME Typed, Typed', Stamped, records' = records, clock <= clock',
           \A u \in Tids : thread'[u].last = thread[u].last,
           \A u \in Tids : InFlight(u)' => InFlight(u),
           \A x \in Returned' : \/ x \in Returned
                                \/ /\ x.tid \in Tids /\ x.ts <= thread[x.tid].last
                                   /\ ~InFlight(x.tid)',
           \A u \in Tids : \A s, d : Entered(u, s, d)' => Entered(u, s, d)
    PROVE  Stamped'
<1>0. /\ clock \in Nat /\ clock' \in Nat
      /\ \A u \in Tids : thread[u].last \in Nat
      /\ \A i \in DOMAIN records : records[i].ts \in Nat /\ records[i].tid \in Tids
  BY DEF Typed, ThreadStates, Begins, Ends
<1>1. \A x \in Returned : x.tid \in Tids /\ x.ts \in Nat
  BY ReturnedTyped
<1>2. \A x \in Returned' : x.ts <= thread'[x.tid].last
  BY <1>0, <1>1 DEF Stamped
<1>3. \A x \in Returned' : InFlight(x.tid)' => x.ts < thread'[x.tid].last
  BY <1>0, <1>1 DEF Stamped
<1>4. \A i \in DOMAIN records : records[i].ts <= thread'[records[i].tid].last
  BY <1>0 DEF Stamped
<1>5. \A i \in DOMAIN records : \A s \in Nat : \A c \in SysCalls \union ExitCalls :
         Entered(records[i].tid, s, c)' => records[i].ts # s
  BY <1>0 DEF Stamped
<1>6. \A i \in DOMAIN records, j \in DOMAIN records : i < j => records[i].ts <= records[j].ts
  BY DEF Stamped
<1>7. \A u \in Tids : thread'[u].last <= clock'
  <2> TAKE u \in Tids
  <2>1. thread[u].last <= clock /\ thread[u].last \in Nat
    BY <1>0 DEF Stamped
  <2> QED
    BY <1>0, <2>1
<1> QED
  BY <1>2, <1>3, <1>4, <1>5, <1>6, <1>7 DEF Stamped

\* Programs are what they were, and no execve came or went.
LEMMA TraceKept ==
    ASSUME GitShows,
           \A u \in Tids : thread'[u].program = thread[u].program,
           \A u \in Tids : InFlight(u)' => \/ InFlight(u) /\ thread'[u].call = thread[u].call
                                           \/ thread'[u].call.name = "execve" =>
                                                 thread[u].program = "worker",
           Returned \subseteq Returned',
           \A x \in Returned' : x \in Returned \/ x.call.name # "execve" \/ x.call.ret # "ok"
                                  \/ ~x.call.git,
           \A x \in Returned : x.tid \in Tids
    PROVE  GitShows'
<1>1. \A t \in Tids : thread'[t].program = "git" =>
         \E x \in Returned' : x.call.name = "execve" /\ x.call.ret = "ok" /\ x.call.git
  BY DEF GitShows
<1>2. \A x \in Returned' : x.call.name = "execve" /\ x.call.ret = "ok" /\ x.call.git =>
         thread'[x.tid].program = "git"
  BY DEF GitShows
<1>3. \A t \in Tids : InFlight(t)' /\ thread'[t].call.name = "execve" =>
         thread'[t].program = "worker"
  BY DEF GitShows
<1> QED
  BY <1>1, <1>2, <1>3 DEF GitShows

LEMMA StartKeeps ==
    ASSUME LogInv, Start
    PROVE  LogInv'
<1>1. /\ raw = <<>> /\ clock' \in Nat /\ clock <= clock' /\ clock' > 0
      /\ thread' \in [Tids -> ThreadStates]
      /\ thread = [t \in Tids |-> Dead]
      /\ thread'[Root] = [Dead EXCEPT !.alive = TRUE, !.last = clock']
      /\ \A u \in Tids \ {Root} : thread'[u] = Dead
      /\ raw' = <<[tid |-> Root, ts |-> clock', kind |-> "full", call |-> FirstCall]>>
      /\ raw' \in Seq(TraceLines)
      /\ Returned = {} /\ Returned' = {Whole(Root, clock', FirstCall)}
      /\ \A u \in Tids : ~InFlight(u) /\ ~InFlight(u)'
      /\ \A u \in Tids : \A s, d : ~Entered(u, s, d)
      /\ \A u \in Tids : \A s, d :
            Entered(u, s, d)' <=> u = Root /\ s = clock' /\ d = FirstCall
      /\ Logged'
  BY StartStep
<1>2. UNCHANGED <<records, did, dumped, over, timedOut>>
  BY DEF Start
<1>3. Typed /\ Bounded /\ Stamped /\ Spanned /\ GitShows
  BY DEF LogInv
<1>4. records = <<>> /\ ~over
  BY <1>1, <1>3 DEF Bounded
<1>5. /\ thread'[Root].last = clock' /\ thread'[Root].spans = <<>>
      /\ thread'[Root].program = "worker" /\ thread'[Root].call = NoCall
      /\ \A u \in Tids \ {Root} :
            /\ ~thread'[u].alive /\ thread'[u].last = 0 /\ thread'[u].spans = <<>>
            /\ thread'[u].program = "worker" /\ thread'[u].call = NoCall
      /\ \A u \in Tids : thread[u].last = 0 /\ thread[u].spans = <<>>
  BY <1>1, RootIsAThread DEF Dead
<1>6. Typed'
  BY <1>1, <1>2, <1>3 DEF Typed
<1>7. Bounded'
  <2>1. raw' # <<>> /\ raw'[1].tid = Root /\ DOMAIN raw' = {1} /\ raw'[1].kind = "full"
    BY <1>1
  <2> QED
    BY <1>2, <1>4, <1>5, <2>1 DEF Bounded
<1>8. Stamped'
  <2>1. \A x \in Returned' : x.tid = Root /\ x.ts = clock'
    BY <1>1 DEF Whole
  <2>2. \A u \in Tids : thread[u].last <= thread'[u].last /\ thread'[u].last <= clock'
    <3> TAKE u \in Tids
    <3>1. thread[u].last = 0 /\ thread'[u].last \in {0, clock'}
      BY <1>5
    <3> QED
      BY <1>1, <3>1
  <2>3. thread[Root].last < clock' /\ records' = records
    BY <1>1, <1>2, <1>5, RootIsAThread
  <2>4. \A u \in Tids : \A s, d : Entered(u, s, d)' => u = Root /\ s = clock'
    BY <1>1
  <2>5. \A u \in Tids : ~InFlight(u)'
    BY <1>1
  <2> QED
    BY <1>1, <1>3, <1>5, <1>6, <2>1, <2>2, <2>3, <2>4, <2>5, StopStamped, RootIsAThread, ZenonT(60)
<1>9. Spanned'
  BY <1>2, <1>3, <1>5, SpansKept
<1>10. GitShows'
  <2>1. \A x \in Returned' : ~x.call.git
    BY <1>1 DEF Whole, FirstCall
  <2> QED
    BY <1>1, <1>5, <2>1, RootIsAThread DEF GitShows
<1> QED
  BY <1>1, <1>6, <1>7, <1>8, <1>9, <1>10 DEF LogInv

\* A thread's exit keeps everything but what is said of the worker's own exit.
LEMMA ExitedKeeps ==
    ASSUME LogInv, NEW t \in Tids, NEW exit \in {0, 1}, Exited(t, exit),
           dumped' \in BOOLEAN, t = Root /\ exit = 0 => dumped', t # Root => dumped' = dumped
    PROVE  LogInv'
<1> DEFINE call == [name |-> "exited", status |-> exit]
           l == [tid |-> t, ts |-> clock', kind |-> "exited", call |-> call]
<1>1. /\ thread[t].alive /\ ~InFlight(t) /\ thread[t].spans = <<>>
      /\ clock' \in Nat /\ clock <= clock' /\ thread[t].last < clock' /\ ~over
      /\ UNCHANGED <<records, did, over, timedOut>>
      /\ call \in ExitCalls /\ l \in TraceLines
      /\ raw' = Append(Cut(raw), l)
      /\ thread' \in [Tids -> ThreadStates]
      /\ thread'[t].last = clock' /\ thread'[t].spans = <<>> /\ thread'[t].call = NoCall
      /\ ~thread'[t].alive /\ thread'[t].cwd = thread[t].cwd
      /\ thread'[t].program = thread[t].program
      /\ \A u \in Tids \ {t} : thread'[u] = thread[u]
      /\ Returned' = Returned \union {Whole(t, clock', call)}
      /\ \A u \in Tids : InFlight(u)' <=> InFlight(u)
      /\ \A u \in Tids : \A s, d : Entered(u, s, d)' <=>
            Entered(u, s, d) \/ (u = t /\ s = clock' /\ d = call)
      /\ Logged'
  BY DEF Exited
<1>2. call.name = "exited" /\ call.status = exit
  OBVIOUS
<1>3. l.kind = "exited" /\ l.tid = t /\ l.call.status = exit
  OBVIOUS
<1>w. \A x \in {Whole(t, clock', call)} :
         x.tid = t /\ x.ts = clock' /\ x.call.name = "exited"
  BY DEF Whole
<1> HIDE DEF call, l
<1>4. Typed /\ Bounded /\ Stamped /\ Spanned /\ GitShows
  BY DEF LogInv
<1>5. /\ raw' \in Seq(TraceLines) /\ raw' # <<>>
      /\ DOMAIN raw' = 1..(Len(raw) + 1) /\ Len(raw) \in Nat /\ DOMAIN raw = 1..Len(raw)
      /\ raw'[Len(raw) + 1] = l
      /\ \A i \in DOMAIN raw :
            /\ i \in DOMAIN raw'
            /\ raw'[i].tid = raw[i].tid
            /\ raw'[i].ts = raw[i].ts
            /\ raw'[i].call = raw[i].call
            /\ raw'[i].kind = "exited" <=> raw[i].kind = "exited"
  BY <1>1, <1>4, PrintedKeeps
<1>6. Typed'
  BY <1>1, <1>4, <1>5 DEF Typed
<1>7. raw # <<>>
  BY <1>1, <1>4 DEF Bounded, Dead
<1>8. Bounded'
  <2>1. raw'[1].tid = Root
    <3>1. 1 \in DOMAIN raw
      BY <1>4, <1>7, LenProperties DEF Typed
    <3> QED
      BY <1>4, <1>5, <1>7, <3>1 DEF Bounded
  <2>2. ~over'
    BY <1>1
  <2>3. \A u \in Tids \ {Root} :
           u \notin Live' => thread'[u].call = NoCall /\ thread'[u].spans = <<>>
    <3> TAKE u \in Tids \ {Root}
    <3> HAVE u \notin Live'
    <3>1. CASE u = t
      BY <1>1, <3>1
    <3>2. CASE u # t
      BY <1>1, <1>4, <3>2 DEF Bounded, Live
    <3> QED
      BY <3>1, <3>2
  <2>4. \A i \in DOMAIN raw' : raw'[i].kind = "exited" /\ raw'[i].tid = Root =>
          /\ Root \notin Live' /\ thread'[Root].call = NoCall
          /\ raw'[i].call.status = 0 => dumped'
          /\ \A j \in DOMAIN raw' :
                raw'[j].kind = "exited" /\ raw'[j].tid = Root => i = j
    <3>1. CASE t = Root
      <4>1. \A i \in DOMAIN raw : ~(raw[i].kind = "exited" /\ raw[i].tid = Root)
        BY <1>1, <1>4, <3>1 DEF Bounded, Live
      <4>2. \A i \in DOMAIN raw' : raw'[i].kind = "exited" /\ raw'[i].tid = Root =>
                i = Len(raw) + 1
        BY <1>5, <4>1
      <4>3. Root \notin Live' /\ thread'[Root].call = NoCall
        BY <1>1, <3>1 DEF Live
      <4> QED
        BY <1>3, <1>5, <3>1, <4>2, <4>3
    <3>2. CASE t # Root
      <4>1. \A i \in DOMAIN raw' : raw'[i].kind = "exited" /\ raw'[i].tid = Root =>
                i \in DOMAIN raw /\ raw[i].kind = "exited" /\ raw[i].tid = Root
        BY <1>3, <1>5, <3>2
      <4>2. thread'[Root] = thread[Root] /\ dumped' = dumped
        BY <1>1, <3>2, RootIsAThread
      <4>3. Root \in Live' <=> Root \in Live
        BY <4>2 DEF Live
      <4> QED
        BY <1>4, <1>5, <4>1, <4>2, <4>3 DEF Bounded
    <3> QED
      BY <3>1, <3>2
  <2> QED
    BY <1>5, <2>1, <2>2, <2>3, <2>4 DEF Bounded
<1>9. Stamped'
  <2>1. \A x \in Returned' : x \in Returned \/ (x.tid = t /\ x.ts = clock' /\ ~InFlight(t)')
    BY <1>1, <1>w
  <2>2. \A u \in Tids : thread[u].last <= thread'[u].last /\ thread'[u].last <= clock'
    <3> TAKE u \in Tids
    <3>1. thread[u].last \in Nat /\ thread[u].last <= clock /\ clock \in Nat
      BY <1>4, ThreadTyped DEF Stamped, Typed
    <3>2. CASE u = t
      BY <1>1, <3>1, <3>2
    <3>3. CASE u # t
      BY <1>1, <3>1, <3>3
    <3> QED
      BY <3>2, <3>3
  <2>3. \A u \in Tids \ {t} : InFlight(u)' => InFlight(u) /\ thread'[u].last = thread[u].last
    BY <1>1
  <2> QED
    BY <1>1, <1>4, <1>6, <2>1, <2>2, <2>3, StopStamped
<1>10. Spanned'
  BY <1>1, <1>4, SpansKept
<1>11. GitShows'
  <2>1. \A u \in Tids : thread'[u].program = thread[u].program /\ thread'[u].call = thread[u].call
    BY <1>1 DEF InFlight
  <2>2. \A x \in Returned' : x \in Returned \/ x.call.name # "execve"
    BY <1>1, <1>w
  <2>3. \A x \in Returned : x.tid \in Tids
    BY <1>4, ReturnedTyped
  <2> QED
    BY <1>1, <1>4, <2>1, <2>2, <2>3, TraceKept
<1> QED
  BY <1>1, <1>6, <1>8, <1>9, <1>10, <1>11 DEF LogInv

LEMMA ExitThreadKeeps ==
    ASSUME LogInv, NEW t \in Tids, ExitThread(t)
    PROVE  LogInv'
<1>1. Exited(t, 0) /\ t # Root /\ dumped' = dumped
  BY ExitStep
<1>2. dumped' \in BOOLEAN
  BY <1>1 DEF LogInv, Typed
<1> QED
  BY <1>1, <1>2, ExitedKeeps

LEMMA FinishKeeps ==
    ASSUME LogInv, Finish
    PROVE  LogInv'
<1>1. PICK exit \in {0, 1} :
         /\ Exited(Root, exit) /\ dumped' \in BOOLEAN /\ (exit = 0 => dumped')
  BY FinishStep
<1> QED
  BY <1>1, ExitedKeeps, RootIsAThread

LEMMA KillKeeps ==
    ASSUME LogInv, Kill
    PROVE  LogInv'
<1> DEFINE l == [tid |-> Root, ts |-> clock', kind |-> "killed", call |-> NoCall]
<1>1. /\ thread[Root].alive /\ clock' \in Nat /\ clock <= clock' /\ ~over
      /\ UNCHANGED <<records, did, dumped, over, timedOut>>
      /\ l \in TraceLines /\ raw' = Append(Cut(raw), l)
      /\ thread' \in [Tids -> ThreadStates] /\ ~thread'[Root].alive
      /\ \A u \in Tids : /\ thread'[u].call = thread[u].call
                         /\ thread'[u].last = thread[u].last
                         /\ thread'[u].spans = thread[u].spans
                         /\ thread'[u].cwd = thread[u].cwd
                         /\ thread'[u].program = thread[u].program
      /\ \A u \in Tids \ {Root} : thread'[u] = thread[u]
      /\ Returned' = Returned
      /\ \A u \in Tids : InFlight(u)' <=> InFlight(u)
      /\ \A u \in Tids : \A s, d : Entered(u, s, d)' <=> Entered(u, s, d)
      /\ Logged'
  BY KillStep
<1>2. l.kind = "killed"
  OBVIOUS
<1> HIDE DEF l
<1>3. Typed /\ Bounded /\ Stamped /\ Spanned /\ GitShows
  BY DEF LogInv
<1>4. /\ raw' \in Seq(TraceLines) /\ raw' # <<>>
      /\ DOMAIN raw' = 1..(Len(raw) + 1) /\ Len(raw) \in Nat /\ DOMAIN raw = 1..Len(raw)
      /\ raw'[Len(raw) + 1] = l
      /\ \A i \in DOMAIN raw :
            /\ i \in DOMAIN raw'
            /\ raw'[i].tid = raw[i].tid
            /\ raw'[i].ts = raw[i].ts
            /\ raw'[i].call = raw[i].call
            /\ raw'[i].kind = "exited" <=> raw[i].kind = "exited"
  BY <1>1, <1>3, PrintedKeeps
<1>5. Typed'
  BY <1>1, <1>3, <1>4 DEF Typed
<1>6. raw # <<>>
  BY <1>1, <1>3, RootIsAThread DEF Bounded, Dead
<1>7. Bounded'
  <2>1. raw'[1].tid = Root
    <3>1. 1 \in DOMAIN raw
      BY <1>3, <1>6, LenProperties DEF Typed
    <3> QED
      BY <1>3, <1>4, <1>6, <3>1 DEF Bounded
  <2>2. \A u \in Tids \ {Root} :
           u \notin Live' => thread'[u].call = NoCall /\ thread'[u].spans = <<>>
    BY <1>1, <1>3 DEF Bounded, Live
  <2>3. \A i \in DOMAIN raw : ~(raw[i].kind = "exited" /\ raw[i].tid = Root)
    BY <1>1, <1>3, RootIsAThread DEF Bounded, Live
  <2>4. \A i \in DOMAIN raw' : ~(raw'[i].kind = "exited" /\ raw'[i].tid = Root)
    BY <1>2, <1>4, <2>3
  <2> QED
    BY <1>1, <1>4, <2>1, <2>2, <2>4 DEF Bounded
<1>8. Stamped'
  BY <1>1, <1>3, <1>5, StillStamped
<1>9. Spanned'
  BY <1>1, <1>3, SpansKept
<1>10. GitShows'
  <2>1. \A x \in Returned : x.tid \in Tids
    BY <1>3, ReturnedTyped
  <2> QED
    BY <1>1, <1>3, <2>1, TraceKept
<1> QED
  BY <1>1, <1>5, <1>7, <1>8, <1>9, <1>10 DEF LogInv

\* A step that leaves the log, the records, the programs and the stamps alone.
LEMMA UnloggedKeeps ==
    ASSUME LogInv, Unlogged, UNCHANGED <<clock, records, did, dumped>>,
           \A u \in Tids : /\ thread'[u].last = thread[u].last
                           /\ thread'[u].alive = thread[u].alive
                           /\ thread'[u].program = thread[u].program
                           /\ thread'[u].spans \in {thread[u].spans, <<>>},
           raw # <<>>, over' \in BOOLEAN, over' => Live = {}
    PROVE  LogInv'
<1>1. /\ raw' = raw /\ thread' \in [Tids -> ThreadStates]
      /\ Returned' = Returned
      /\ \A t \in Tids : thread'[t].call = thread[t].call
      /\ \A t \in Tids : InFlight(t)' <=> InFlight(t)
      /\ \A t \in Tids : \A s, d : Entered(t, s, d)' <=> Entered(t, s, d)
      /\ Logged'
  BY DEF Unlogged
<1>2. Typed /\ Bounded /\ Stamped /\ Spanned /\ GitShows
  BY DEF LogInv
<1>3. Typed'
  BY <1>1, <1>2 DEF Typed
<1>4. Live' = Live
  BY DEF Live
<1>5. Bounded'
  <2>1. \A u \in Tids \ {Root} :
           u \notin Live' => thread'[u].call = NoCall /\ thread'[u].spans = <<>>
    BY <1>1, <1>2, <1>4 DEF Bounded
  <2>2. \A i \in DOMAIN raw' : raw'[i].kind = "exited" /\ raw'[i].tid = Root =>
          /\ Root \notin Live' /\ thread'[Root].call = NoCall
          /\ raw'[i].call.status = 0 => dumped'
          /\ \A j \in DOMAIN raw' :
                raw'[j].kind = "exited" /\ raw'[j].tid = Root => i = j
    BY <1>1, <1>2, <1>4, RootIsAThread DEF Bounded
  <2> QED
    BY <1>1, <1>2, <1>4, <2>1, <2>2 DEF Bounded
<1>6. Stamped'
  <2>1. clock <= clock'
    BY <1>2 DEF Typed
  <2> QED
    BY <1>1, <1>2, <1>3, <2>1, StillStamped
<1>7. Spanned'
  BY <1>2, SpansKept
<1>8. GitShows'
  <2>1. \A x \in Returned : x.tid \in Tids
    BY <1>2, ReturnedTyped
  <2> QED
    BY <1>1, <1>2, <2>1, TraceKept
<1> QED
  BY <1>1, <1>3, <1>5, <1>6, <1>7, <1>8 DEF LogInv

LEMMA PanicKeeps ==
    ASSUME LogInv, NEW t \in Tids, Panic(t)
    PROVE  LogInv'
<1>1. /\ thread[t].alive /\ ~InFlight(t)
      /\ UNCHANGED <<clock, records, did, dumped, over, timedOut>>
      /\ thread'[t].last = thread[t].last /\ thread'[t].spans = <<>>
      /\ thread'[t].alive = thread[t].alive /\ thread'[t].cwd = thread[t].cwd
      /\ thread'[t].program = thread[t].program
      /\ \A u \in Tids \ {t} : thread'[u] = thread[u]
      /\ Unlogged
  BY PanicStep
<1>2. raw # <<>> /\ over' \in BOOLEAN /\ (over' => Live = {})
  BY <1>1 DEF LogInv, Bounded, Typed, Dead
<1> QED
  BY <1>1, <1>2, UnloggedKeeps

LEMMA DetachKeeps ==
    ASSUME LogInv, Detach
    PROVE  LogInv'
<1>1. /\ raw # <<>> /\ Live = {} /\ over'
      /\ UNCHANGED <<clock, thread, records, did, dumped, timedOut>>
      /\ Unlogged
  BY DetachStep
<1>2. over' \in BOOLEAN
  BY DEF Detach
<1> QED
  BY <1>1, <1>2, UnloggedKeeps

LEMMA EnterKeeps ==
    ASSUME LogInv, NEW t \in Tids, Enter(t)
    PROVE  LogInv'
<1>1. PICK c \in Calls, ok \in BOOLEAN, call \in SysCalls :
              /\ thread[t].alive /\ ~InFlight(t) /\ MayCall(t, c)
              /\ Says(call, thread[t].cwd, c, ok)
              /\ clock' \in Nat /\ clock <= clock' /\ thread[t].last < clock'
              /\ UNCHANGED <<records, did, dumped, over, timedOut>>
              /\ raw' = Append(Cut(raw),
                           [tid |-> t, ts |-> clock', kind |-> "entry", call |-> call])
              /\ \/ /\ c.name # "clone"
                    /\ thread' = [thread EXCEPT ![t].call = call, ![t].last = clock']
                 \/ /\ c.name = "clone" /\ ok /\ call.child \in Tids \ {Root, t}
                    /\ ~thread[call.child].alive
                    /\ \A i \in DOMAIN raw : raw[i].tid # call.child
                    /\ thread' = [thread EXCEPT
                          ![t].call = call, ![t].last = clock',
                          ![call.child] = [Dead EXCEPT !.alive = TRUE, !.cwd = thread[t].cwd,
                                       !.program = thread[t].program, !.last = clock']]
  BY EnterStep
<1> DEFINE l == [tid |-> t, ts |-> clock', kind |-> "entry", call |-> call]
<1>2. Typed /\ Bounded /\ Stamped /\ Spanned /\ GitShows
  BY DEF LogInv
<1>3. l \in TraceLines /\ l.kind = "entry"
  BY <1>1 DEF TraceLines
<1>4. raw' = Append(Cut(raw), l)
  BY <1>1
<1> HIDE DEF l
<1>5. /\ raw' \in Seq(TraceLines) /\ raw' # <<>>
      /\ DOMAIN raw' = 1..(Len(raw) + 1) /\ Len(raw) \in Nat /\ DOMAIN raw = 1..Len(raw)
      /\ raw'[Len(raw) + 1] = l
      /\ \A i \in DOMAIN raw :
            /\ i \in DOMAIN raw'
            /\ raw'[i].tid = raw[i].tid
            /\ raw'[i].ts = raw[i].ts
            /\ raw'[i].call = raw[i].call
            /\ raw'[i].kind = "exited" <=> raw[i].kind = "exited"
  BY <1>2, <1>3, <1>4, PrintedKeeps
<1>6. raw # <<>>
  BY <1>1, <1>2 DEF Bounded, Dead
\* The threads afterwards: the caller's call is in flight, and a child is what its parent was.
<1>7. \E made \in SUBSET (Tids \ {Root, t}) :
        /\ thread' \in [Tids -> ThreadStates]
        /\ thread'[t].call = call /\ thread'[t].last = clock'
        /\ thread'[t].alive = thread[t].alive
        /\ thread'[t].program = thread[t].program /\ thread'[t].spans = thread[t].spans
        /\ \A u \in made : /\ ~thread[u].alive /\ thread'[u].call = NoCall
                           /\ thread'[u].last = clock' /\ thread'[u].alive
                           /\ thread'[u].program = thread[t].program
                           /\ thread'[u].spans = <<>> /\ thread[u].call = NoCall
                           /\ \A i \in DOMAIN raw : raw[i].tid # u
        /\ \A u \in Tids \ ({t} \union made) : thread'[u] = thread[u]
        /\ Returned' = Returned
        /\ \A u \in Tids : InFlight(u)' <=> InFlight(u) \/ u = t
        /\ \A u \in Tids : \A s, d : Entered(u, s, d)' <=>
              Entered(u, s, d) \/ (u = t /\ s = clock' /\ d = call)
        /\ Logged'
        /\ made # {} => c.name = "clone"
  <2>1. CASE thread' = [thread EXCEPT ![t].call = call, ![t].last = clock']
    <3>1. {} \in SUBSET (Tids \ {Root, t})
      OBVIOUS
    <3>2. /\ thread' \in [Tids -> ThreadStates]
          /\ thread'[t].call = call /\ thread'[t].last = clock'
          /\ thread'[t].alive = thread[t].alive /\ thread'[t].cwd = thread[t].cwd
          /\ thread'[t].program = thread[t].program /\ thread'[t].spans = thread[t].spans
          /\ \A u \in Tids \ {t} : thread'[u] = thread[u]
          /\ Returned' = Returned
          /\ \A u \in Tids : InFlight(u)' <=> InFlight(u) \/ u = t
          /\ \A u \in Tids : \A s, d : Entered(u, s, d)' <=>
                Entered(u, s, d) \/ (u = t /\ s = clock' /\ d = call)
          /\ Logged'
      BY <1>1, <2>1, EnterPlain
    <3> QED
      BY <3>1, <3>2
  <2>2. CASE /\ c.name = "clone" /\ call.child \in Tids \ {Root, t} /\ ~thread[call.child].alive
             /\ \A i \in DOMAIN raw : raw[i].tid # call.child
             /\ thread' = [thread EXCEPT
                          ![t].call = call, ![t].last = clock',
                          ![call.child] = [Dead EXCEPT !.alive = TRUE, !.cwd = thread[t].cwd,
                                       !.program = thread[t].program, !.last = clock']]
    <3>1. {call.child} \in SUBSET (Tids \ {Root, t})
      BY <2>2
    <3>2. /\ thread' \in [Tids -> ThreadStates]
          /\ thread'[t].call = call /\ thread'[t].last = clock'
          /\ thread'[t].alive = thread[t].alive /\ thread'[t].cwd = thread[t].cwd
          /\ thread'[t].program = thread[t].program /\ thread'[t].spans = thread[t].spans
          /\ thread'[call.child].call = NoCall /\ thread'[call.child].last = clock'
          /\ thread'[call.child].alive /\ thread'[call.child].cwd = thread[t].cwd
          /\ thread'[call.child].program = thread[t].program
          /\ thread'[call.child].spans = <<>>
          /\ \A u \in Tids \ {t, call.child} : thread'[u] = thread[u]
          /\ thread[call.child].call = NoCall
          /\ Returned' = Returned
          /\ \A u \in Tids : InFlight(u)' <=> InFlight(u) \/ u = t
          /\ \A u \in Tids : \A s, d : Entered(u, s, d)' <=>
                Entered(u, s, d) \/ (u = t /\ s = clock' /\ d = call)
          /\ Logged'
      BY <1>1, <2>2, EnterClone
    <3>3. \A u \in Tids \ ({t} \union {call.child}) : thread'[u] = thread[u]
      BY <3>2
    <3>4. \A u \in {call.child} :
             /\ ~thread[u].alive /\ thread'[u].call = NoCall
             /\ thread'[u].last = clock' /\ thread'[u].alive
             /\ thread'[u].program = thread[t].program
             /\ thread'[u].spans = <<>> /\ thread[u].call = NoCall
             /\ \A i \in DOMAIN raw : raw[i].tid # u
      BY <2>2, <3>2
    <3> QED
      BY <2>2, <3>1, <3>2, <3>3, <3>4
  <2> QED
    BY <1>1, <2>1, <2>2
<1>8. PICK made \in SUBSET (Tids \ {Root, t}) :
        /\ thread' \in [Tids -> ThreadStates]
        /\ thread'[t].call = call /\ thread'[t].last = clock'
        /\ thread'[t].alive = thread[t].alive
        /\ thread'[t].program = thread[t].program /\ thread'[t].spans = thread[t].spans
        /\ \A u \in made : /\ ~thread[u].alive /\ thread'[u].call = NoCall
                           /\ thread'[u].last = clock' /\ thread'[u].alive
                           /\ thread'[u].program = thread[t].program
                           /\ thread'[u].spans = <<>> /\ thread[u].call = NoCall
                           /\ \A i \in DOMAIN raw : raw[i].tid # u
        /\ \A u \in Tids \ ({t} \union made) : thread'[u] = thread[u]
        /\ Returned' = Returned
        /\ \A u \in Tids : InFlight(u)' <=> InFlight(u) \/ u = t
        /\ \A u \in Tids : \A s, d : Entered(u, s, d)' <=>
              Entered(u, s, d) \/ (u = t /\ s = clock' /\ d = call)
        /\ Logged'
        /\ made # {} => c.name = "clone"
  BY <1>7
<1>9. Typed'
  BY <1>1, <1>2, <1>5, <1>8 DEF Typed
<1>10. ~over
  BY <1>1, <1>2 DEF Bounded, Live
<1>11. Bounded'
  <2>1. raw'[1].tid = Root
    <3>1. 1 \in DOMAIN raw
      BY <1>2, <1>6, LenProperties DEF Typed
    <3> QED
      BY <1>2, <1>5, <1>6, <3>1 DEF Bounded
  <2>2. \A u \in Tids \ {Root} :
           u \notin Live' => thread'[u].call = NoCall /\ thread'[u].spans = <<>>
    <3> TAKE u \in Tids \ {Root}
    <3> HAVE u \notin Live'
    <3>1. u # t /\ u \notin made
      BY <1>1, <1>8 DEF Live
    <3>2. thread'[u] = thread[u]
      BY <1>8, <3>1
    <3> QED
      BY <1>2, <3>2 DEF Bounded, Live
  <2>3. \A i \in DOMAIN raw' : raw'[i].kind = "exited" /\ raw'[i].tid = Root =>
           i \in DOMAIN raw /\ raw[i].kind = "exited" /\ raw[i].tid = Root
    BY <1>3, <1>5
  <2>4. \A i \in DOMAIN raw : raw[i].kind = "exited" /\ raw[i].tid = Root =>
           thread'[Root] = thread[Root]
    <3>1. \A i \in DOMAIN raw : raw[i].kind = "exited" /\ raw[i].tid = Root => Root # t
      BY <1>1, <1>2 DEF Bounded, Live
    <3>2. Root \notin made
      BY <1>8
    <3> QED
      BY <1>8, <3>1, <3>2, RootIsAThread
  <2>5. \A i \in DOMAIN raw' : raw'[i].kind = "exited" /\ raw'[i].tid = Root =>
          /\ Root \notin Live' /\ thread'[Root].call = NoCall
          /\ raw'[i].call.status = 0 => dumped'
          /\ \A j \in DOMAIN raw' :
                raw'[j].kind = "exited" /\ raw'[j].tid = Root => i = j
    <3> SUFFICES ASSUME NEW i \in DOMAIN raw', raw'[i].kind = "exited" /\ raw'[i].tid = Root
                 PROVE  /\ Root \notin Live' /\ thread'[Root].call = NoCall
                        /\ raw'[i].call.status = 0 => dumped'
                        /\ \A j \in DOMAIN raw' :
                              raw'[j].kind = "exited" /\ raw'[j].tid = Root => i = j
      OBVIOUS
    <3>1. i \in DOMAIN raw /\ raw[i].kind = "exited" /\ raw[i].tid = Root
          /\ raw'[i].call = raw[i].call
      BY <1>5, <2>3
    <3>2. /\ Root \notin Live /\ thread[Root].call = NoCall
          /\ raw[i].call.status = 0 => dumped
          /\ \A j \in DOMAIN raw : raw[j].kind = "exited" /\ raw[j].tid = Root => i = j
      BY <1>2, <3>1 DEF Bounded
    <3>3. Root \notin Live' /\ thread'[Root].call = NoCall
      BY <2>4, <3>1, <3>2 DEF Live
    <3> QED
      BY <1>1, <2>3, <3>1, <3>2, <3>3
  <2> QED
    BY <1>1, <1>5, <1>10, <2>1, <2>2, <2>5 DEF Bounded
<1>12. Stamped'
  <2>1. \A u \in Tids : thread[u].last <= thread'[u].last /\ thread'[u].last <= clock'
    <3> TAKE u \in Tids
    <3>1. thread[u].last \in Nat /\ thread[u].last <= clock /\ clock \in Nat
      BY <1>2, ThreadTyped DEF Stamped, Typed
    <3>2. CASE u \in {t} \union made
      <4>1. thread'[u].last = clock'
        BY <1>8, <3>2
      <4> QED
        BY <1>1, <3>1, <4>1
    <3>3. CASE u \notin {t} \union made
      <4>1. thread'[u].last = thread[u].last
        BY <1>8, <3>3
      <4> QED
        BY <1>1, <3>1, <4>1
    <3> QED
      BY <3>2, <3>3
  <2>2. \A u \in Tids \ {t} : InFlight(u)' => InFlight(u) /\ thread'[u].last = thread[u].last
    <3> TAKE u \in Tids \ {t}
    <3> HAVE InFlight(u)'
    <3>1. InFlight(u)
      BY <1>8
    <3>2. u \notin made
      BY <1>8, <3>1 DEF InFlight
    <3> QED
      BY <1>8, <3>1, <3>2
  <2> QED
    BY <1>1, <1>2, <1>8, <1>9, <2>1, <2>2, StopStamped
<1>13. Spanned'
  <2>1. \A u \in Tids : thread'[u].spans \in {thread[u].spans, <<>>}
    BY <1>8
  <2> QED
    BY <1>1, <1>2, <2>1, SpansKept
<1>14. GitShows'
  <2>1. \A u \in Tids : thread'[u].program = "git" =>
           \E x \in Returned : x.call.name = "execve" /\ x.call.ret = "ok" /\ x.call.git
    BY <1>2, <1>8 DEF GitShows
  <2>2. \A x \in Returned : x.call.name = "execve" /\ x.call.ret = "ok" /\ x.call.git =>
           thread'[x.tid].program = "git"
    <3> TAKE x \in Returned
    <3> HAVE x.call.name = "execve" /\ x.call.ret = "ok" /\ x.call.git
    <3>1. x.tid \in Tids /\ Entered(x.tid, x.ts, x.call)
          /\ x.ts \in Nat /\ x.call \in SysCalls \union ExitCalls
      BY <1>2, ReturnedTyped
    <3>2. thread[x.tid].program = "git"
      BY <1>2 DEF GitShows
    <3>3. x.tid \notin made
      <4>1. \E i \in DOMAIN raw : raw[i].tid = x.tid
        BY <3>1 DEF LogInv, Logged
      <4>2. \A u \in made : \A i \in DOMAIN raw : raw[i].tid # u
        BY <1>8
      <4> QED
        BY <4>1, <4>2
    <3> QED
      BY <1>8, <3>1, <3>2, <3>3
  <2>3. \A u \in Tids : InFlight(u)' /\ thread'[u].call.name = "execve" =>
           thread'[u].program = "worker"
    <3> TAKE u \in Tids
    <3> HAVE InFlight(u)' /\ thread'[u].call.name = "execve"
    <3>1. CASE u = t
      <4>1. c.name = "execve"
        BY <1>1, <1>8, <3>1 DEF Says
      <4> QED
        BY <1>1, <1>8, <3>1, <4>1 DEF MayCall
    <3>2. CASE u # t
      <4>1. InFlight(u)
        BY <1>8, <3>2
      <4>2. u \notin made
        BY <1>8, <4>1 DEF InFlight
      <4>3. thread'[u] = thread[u]
        BY <1>8, <3>2, <4>2
      <4> QED
        BY <1>2, <4>1, <4>3 DEF GitShows
    <3> QED
      BY <3>1, <3>2
  <2> QED
    BY <1>8, <2>1, <2>2, <2>3 DEF GitShows
<1> QED
  BY <1>8, <1>9, <1>11, <1>12, <1>13, <1>14 DEF LogInv

LEMMA ReturnKeeps ==
    ASSUME LogInv, NEW t \in Tids, Return(t)
    PROVE  LogInv'
<1> DEFINE call == thread[t].call
           done == call.ret = "ok"
<1>1. /\ thread[t].alive /\ InFlight(t) /\ call \in SysCalls /\ ~over
      /\ UNCHANGED <<clock, records, dumped, over, timedOut>>
      /\ thread' \in [Tids -> ThreadStates]
      /\ thread'[t].call = NoCall /\ thread'[t].last = thread[t].last
      /\ thread'[t].alive /\ thread'[t].spans = thread[t].spans
      /\ thread'[t].program = IF done /\ call.name = "execve"
                                THEN (IF call.git THEN "git" ELSE "other")
                                ELSE thread[t].program
      /\ \A u \in Tids \ {t} : thread'[u] = thread[u]
      /\ Returned' = Returned \union {Whole(t, thread[t].last, call)}
      /\ \A x \in Returned : x.tid = t => x.ts < thread[t].last
      /\ \A u \in Tids : InFlight(u)' <=> InFlight(u) /\ u # t
      /\ \A u \in Tids : \A s, d : Entered(u, s, d)' <=> Entered(u, s, d)
      /\ Logged'
      /\ raw' \in Seq(TraceLines) /\ raw' # <<>> /\ raw # <<>>
      /\ \A i \in DOMAIN raw : /\ i \in DOMAIN raw'
                               /\ raw'[i].tid = raw[i].tid
                               /\ raw'[i].ts = raw[i].ts
                               /\ raw'[i].call = raw[i].call
      /\ \A i \in DOMAIN raw' :
            \/ /\ i \in DOMAIN raw
               /\ raw'[i].tid = raw[i].tid
               /\ raw'[i].call = raw[i].call
               /\ raw'[i].kind = "exited" <=> raw[i].kind = "exited"
            \/ raw'[i].tid = t /\ raw'[i].kind # "exited"
  BY ReturnStep
<1>w. \A x \in {Whole(t, thread[t].last, call)} :
         x.tid = t /\ x.ts = thread[t].last /\ x.call = call
  BY DEF Whole
<1>2. Typed /\ Bounded /\ Stamped /\ Spanned /\ GitShows
  BY DEF LogInv
<1>3. Typed'
  BY <1>1, <1>2 DEF Typed
<1>4. Live' = Live
  BY <1>1 DEF Live
<1>5. Bounded'
  <2>1. raw'[1].tid = Root
    <3>1. 1 \in DOMAIN raw
      BY <1>1, <1>2, LenProperties DEF Typed
    <3> QED
      BY <1>1, <1>2, <3>1 DEF Bounded
  <2>2. \A u \in Tids \ {Root} :
           u \notin Live' => thread'[u].call = NoCall /\ thread'[u].spans = <<>>
    <3> TAKE u \in Tids \ {Root}
    <3> HAVE u \notin Live'
    <3>1. u # t
      BY <1>1, <1>4 DEF Live
    <3> QED
      BY <1>1, <1>2, <1>4, <3>1 DEF Bounded
  <2>3. \A i \in DOMAIN raw : raw[i].kind = "exited" /\ raw[i].tid = Root => Root # t
    BY <1>1, <1>2 DEF Bounded, Live
  <2>4. \A i \in DOMAIN raw' : raw'[i].kind = "exited" /\ raw'[i].tid = Root =>
          /\ i \in DOMAIN raw /\ raw[i].kind = "exited" /\ raw[i].tid = Root
          /\ raw'[i].call = raw[i].call /\ thread'[Root] = thread[Root]
    BY <1>1, <2>3, RootIsAThread
  <2>5. \A i \in DOMAIN raw' : raw'[i].kind = "exited" /\ raw'[i].tid = Root =>
          /\ Root \notin Live' /\ thread'[Root].call = NoCall
          /\ raw'[i].call.status = 0 => dumped'
          /\ \A j \in DOMAIN raw' :
                raw'[j].kind = "exited" /\ raw'[j].tid = Root => i = j
    BY <1>1, <1>2, <1>4, <2>4 DEF Bounded
  <2> QED
    BY <1>1, <2>1, <2>2, <2>5 DEF Bounded
<1>6. Stamped'
  <2>1. \A u \in Tids : thread'[u].last = thread[u].last
    BY <1>1
  <2>2. \A x \in Returned' : \/ x \in Returned
                             \/ /\ x.tid \in Tids /\ x.ts <= thread[x.tid].last
                                /\ ~InFlight(x.tid)'
    <3>1. thread[t].last <= thread[t].last
      BY <1>2, ThreadTyped
    <3> QED
      BY <1>1, <1>w, <3>1
  <2>3. clock <= clock'
    BY <1>1, <1>2 DEF Typed
  <2> QED
    BY <1>1, <1>2, <1>3, <2>1, <2>2, <2>3, StillStamped
<1>7. Spanned'
  <2>1. \A u \in Tids : thread'[u].spans = thread[u].spans
    BY <1>1
  <2> QED
    BY <1>1, <1>2, <2>1, SpansKept
<1>8. GitShows'
  <2>1. call.name = "execve" => thread[t].program = "worker"
    BY <1>1, <1>2 DEF GitShows
  <2>2. \A u \in Tids : thread'[u].program = "git" =>
           \E x \in Returned' : x.call.name = "execve" /\ x.call.ret = "ok" /\ x.call.git
    <3> TAKE u \in Tids
    <3> HAVE thread'[u].program = "git"
    <3>1. CASE thread[u].program = "git"
      BY <1>1, <1>2, <3>1 DEF GitShows
    <3>2. CASE thread[u].program # "git"
      <4>1. u = t /\ done /\ call.name = "execve" /\ call.git
        BY <1>1, <3>2
      <4> QED
        BY <1>1, <1>w, <4>1
    <3> QED
      BY <3>1, <3>2
  <2>3. \A x \in Returned' : x.call.name = "execve" /\ x.call.ret = "ok" /\ x.call.git =>
           thread'[x.tid].program = "git"
    <3> TAKE x \in Returned'
    <3> HAVE x.call.name = "execve" /\ x.call.ret = "ok" /\ x.call.git
    <3>1. CASE x \in Returned
      <4>1. thread[x.tid].program = "git" /\ x.tid \in Tids
        BY <1>2, <3>1, ReturnedTyped DEF GitShows
      <4> QED
        BY <1>1, <2>1, <4>1
    <3>2. CASE x \notin Returned
      BY <1>1, <1>w, <3>2
    <3> QED
      BY <3>1, <3>2
  <2>4. \A u \in Tids : InFlight(u)' /\ thread'[u].call.name = "execve" =>
           thread'[u].program = "worker"
    BY <1>1, <1>2 DEF GitShows
  <2> QED
    BY <2>2, <2>3, <2>4 DEF GitShows
<1> QED
  BY <1>1, <1>3, <1>5, <1>6, <1>7, <1>8 DEF LogInv

\* What an edge of a builtin keeps, but for the spans.
LEMMA HookKeeps ==
    ASSUME LogInv, NEW t \in Tids, NEW r \in Begins \union Ends, HookStamp(t),
           r.tid = t, r.ts = clock', records' = Append(records, r),
           thread[t].alive, ~InFlight(t), Unlogged, UNCHANGED <<dumped, over>>,
           thread'[t].last = clock', thread'[t].alive = thread[t].alive,
           thread'[t].program = thread[t].program,
           \A u \in Tids \ {t} : thread'[u] = thread[u]
    PROVE  Typed' /\ Bounded' /\ Logged' /\ Stamped' /\ GitShows'
<1>1. /\ raw' = raw /\ thread' \in [Tids -> ThreadStates]
      /\ Returned' = Returned
      /\ \A u \in Tids : thread'[u].call = thread[u].call
      /\ \A u \in Tids : InFlight(u)' <=> InFlight(u)
      /\ \A u \in Tids : \A s, d : Entered(u, s, d)' <=> Entered(u, s, d)
      /\ Logged'
  BY DEF Unlogged
<1>2. Typed /\ Bounded /\ Stamped /\ GitShows
  BY DEF LogInv
<1>3. /\ clock' \in Nat /\ clock <= clock' /\ thread[t].last <= clock' /\ ~over
      /\ \A s \in Nat : \A c \in SysCalls \union ExitCalls : Entered(t, s, c) => s # clock'
  BY HookStampIs
<1>4. /\ records' \in Seq(Begins \union Ends)
      /\ DOMAIN records = 1..Len(records) /\ DOMAIN records' = 1..(Len(records) + 1)
      /\ Len(records) \in Nat
      /\ \A i \in DOMAIN records : records'[i] = records[i] /\ records[i] \in Begins \union Ends
      /\ records'[Len(records) + 1] = r
  <2>1. records \in Seq(Begins \union Ends)
    BY <1>2 DEF Typed
  <2>2. /\ records' \in Seq(Begins \union Ends) /\ Len(records') = Len(records) + 1
        /\ \A i \in 1..Len(records) : records'[i] = records[i]
        /\ records'[Len(records) + 1] = r
    BY <2>1, AppendProperties
  <2>3. DOMAIN records = 1..Len(records) /\ DOMAIN records' = 1..Len(records')
        /\ Len(records) \in Nat /\ \A i \in DOMAIN records : records[i] \in Begins \union Ends
    BY <2>1, <2>2, LenProperties, ElementOfSeq
  <2> QED
    BY <2>2, <2>3
<1>5. Typed'
  BY <1>1, <1>2, <1>3, <1>4 DEF Typed
<1>6. raw # <<>>
  BY <1>2 DEF Bounded, Dead
<1>7. Live' = Live
  BY DEF Live
<1>8. Bounded'
  <2>1. \A u \in Tids \ {Root} :
           u \notin Live' => thread'[u].call = NoCall /\ thread'[u].spans = <<>>
    <3> TAKE u \in Tids \ {Root}
    <3> HAVE u \notin Live'
    <3>1. u # t
      BY <1>7 DEF Live
    <3> QED
      BY <1>2, <1>7, <3>1 DEF Bounded
  <2>2. \A i \in DOMAIN raw' : raw'[i].kind = "exited" /\ raw'[i].tid = Root =>
          /\ Root \notin Live' /\ thread'[Root].call = NoCall
          /\ raw'[i].call.status = 0 => dumped'
          /\ \A j \in DOMAIN raw' :
                raw'[j].kind = "exited" /\ raw'[j].tid = Root => i = j
    BY <1>1, <1>2, <1>7, RootIsAThread DEF Bounded
  <2> QED
    BY <1>1, <1>2, <1>3, <1>6, <2>1, <2>2 DEF Bounded
<1>9. Stamped'
  <2>0. /\ clock \in Nat /\ \A u \in Tids : thread[u].last \in Nat
        /\ \A i \in DOMAIN records : records[i].ts \in Nat /\ records[i].tid \in Tids
    BY <1>2, SMTT(60) DEF Typed, ThreadStates, Begins, Ends
  <2>1. \A u \in Tids : thread'[u].last <= clock' /\ thread[u].last <= thread'[u].last
    <3> TAKE u \in Tids
    <3>1. thread[u].last <= clock
      BY <1>2 DEF Stamped
    <3>2. CASE u = t
      BY <1>3, <3>2
    <3>3. CASE u # t
      BY <1>3, <2>0, <3>1, <3>3
    <3> QED
      BY <3>2, <3>3
  <2>2. \A x \in Returned' : x.ts <= thread'[x.tid].last
    <3> TAKE x \in Returned'
    <3>1. x.tid \in Tids /\ x.ts \in Nat /\ x.ts <= thread[x.tid].last
      BY <1>1, <1>2, ReturnedTyped DEF Stamped
    <3>2. thread[x.tid].last <= thread'[x.tid].last /\ thread[x.tid].last \in Nat
          /\ thread'[x.tid].last \in Nat
      BY <1>3, <2>0, <2>1, <3>1
    <3> QED
      BY <3>1, <3>2
  <2>3. \A x \in Returned' : InFlight(x.tid)' => x.ts < thread'[x.tid].last
    <3> TAKE x \in Returned'
    <3> HAVE InFlight(x.tid)'
    <3>1. x.tid \in Tids /\ x \in Returned
      BY <1>1, <1>2, ReturnedTyped
    <3>2. InFlight(x.tid) /\ x.tid # t
      BY <1>1, <3>1
    <3> QED
      BY <1>2, <3>1, <3>2 DEF Stamped
  <2>4. \A i \in DOMAIN records' : records'[i].ts <= thread'[records'[i].tid].last
    <3> TAKE i \in DOMAIN records'
    <3>1. CASE i = Len(records) + 1
      BY <1>3, <1>4, <3>1
    <3>2. CASE i # Len(records) + 1
      <4>1. i \in DOMAIN records
        BY <1>4, <3>2
      <4>2. records[i].ts <= thread[records[i].tid].last /\ records[i].ts \in Nat
            /\ records[i].tid \in Tids
        BY <1>2, <2>0, <4>1 DEF Stamped
      <4>3. thread[records[i].tid].last <= thread'[records[i].tid].last
            /\ thread[records[i].tid].last \in Nat /\ thread'[records[i].tid].last \in Nat
        BY <1>3, <2>0, <2>1, <4>2
      <4> QED
        BY <1>4, <4>1, <4>2, <4>3
    <3> QED
      BY <3>1, <3>2
  <2>5. \A i \in DOMAIN records', j \in DOMAIN records' :
           i < j => records'[i].ts <= records'[j].ts
    <3> TAKE i \in DOMAIN records', j \in DOMAIN records'
    <3> HAVE i < j
    <3>1. i \in DOMAIN records /\ records'[i] = records[i]
      BY <1>4
    <3>2. CASE j = Len(records) + 1
      <4>1. records[i].ts <= thread[records[i].tid].last /\ records[i].ts \in Nat
            /\ records[i].tid \in Tids
        BY <1>2, <2>0, <3>1 DEF Stamped
      <4>2. thread[records[i].tid].last <= clock /\ thread[records[i].tid].last \in Nat
        BY <1>2, <2>0, <4>1 DEF Stamped
      <4>3. records'[j].ts = clock'
        BY <1>4, <3>2
      <4> QED
        BY <1>3, <2>0, <3>1, <4>1, <4>2, <4>3
    <3>3. CASE j # Len(records) + 1
      <4>1. j \in DOMAIN records /\ records'[j] = records[j]
        BY <1>4, <3>3
      <4> QED
        BY <1>2, <3>1, <4>1 DEF Stamped
    <3> QED
      BY <3>2, <3>3
  <2>6. \A i \in DOMAIN records' : \A s \in Nat : \A c \in SysCalls \union ExitCalls :
           Entered(records[i].tid, s, c)' => records'[i].ts # s
    <3> TAKE i \in DOMAIN records'
    <3> TAKE s \in Nat
    <3> TAKE c \in SysCalls \union ExitCalls
    <3> HAVE Entered(records[i].tid, s, c)'
    <3>1. CASE i = Len(records) + 1
      <4>1. records'[i].tid = t /\ records'[i].ts = clock'
        BY <1>4, <3>1
      <4>2. Entered(t, s, c)'
        BY <4>1
      <4> QED
        BY <1>1, <1>3, <4>1, <4>2
    <3>2. CASE i # Len(records) + 1
      <4>1. i \in DOMAIN records /\ records'[i] = records[i] /\ records[i].tid \in Tids
        BY <1>4, <2>0, <3>2
      <4> QED
        BY <1>1, <1>2, <4>1 DEF Stamped
    <3> QED
      BY <3>1, <3>2
  <2> QED
    BY <2>1, <2>2, <2>3, <2>4, <2>5, <2>6 DEF Stamped
<1>10. GitShows'
  <2>1. \A x \in Returned : x.tid \in Tids
    BY <1>2, ReturnedTyped
  <2>2. \A u \in Tids : thread'[u].program = thread[u].program
    OBVIOUS
  <2> QED
    BY <1>1, <1>2, <2>1, <2>2, TraceKept
<1> QED
  BY <1>1, <1>5, <1>8, <1>9, <1>10

LEMMA BeginKeeps ==
    ASSUME LogInv, NEW t \in Tids, Begin(t)
    PROVE  LogInv'
<1> DEFINE id == Len(records) + 1
           B(b) == [k |-> "b", id |-> id, ts |-> clock', tid |-> t,
                    builtin |-> b.name, path |-> b.path]
<1>1. PICK b \in Builtins :
           /\ thread[t].alive /\ ~InFlight(t) /\ ~InGit(t) /\ thread[t].program = "worker"
           /\ HookStamp(t) /\ B(b) \in Begins
           /\ UNCHANGED <<did, dumped, over, timedOut>>
           /\ records' = Append(records, B(b))
           /\ thread'[t].last = clock' /\ thread'[t].spans = Append(thread[t].spans, id)
           /\ thread'[t].alive = thread[t].alive
           /\ thread'[t].program = thread[t].program
           /\ \A u \in Tids \ {t} : thread'[u] = thread[u]
           /\ Unlogged
  BY BeginStep
<1> DEFINE r == B(b)
<1>2. r.k = "b" /\ r.id = id /\ r.tid = t /\ r.ts = clock' /\ r \in Begins
  BY <1>1
<1>3. records' = Append(records, r)
  BY <1>1
<1> HIDE DEF r, B
<1>4. Typed' /\ Bounded' /\ Logged' /\ Stamped' /\ GitShows'
  BY <1>1, <1>2, <1>3, HookKeeps
<1>5. Typed /\ Spanned
  BY DEF LogInv
<1>6. /\ DOMAIN records = 1..Len(records) /\ DOMAIN records' = 1..(Len(records) + 1)
      /\ Len(records) \in Nat /\ id = Len(records) + 1
      /\ \A i \in DOMAIN records : records'[i] = records[i]
      /\ records'[id] = r
      /\ \A i \in DOMAIN records' : i \in DOMAIN records \/ i = id
      /\ id \in DOMAIN records' /\ id \notin DOMAIN records
      /\ \A i \in DOMAIN records : i \in Nat /\ i < id /\ i \in DOMAIN records'
  <2>1. records \in Seq(Begins \union Ends) /\ r \in Begins \union Ends
    BY <1>2, <1>5 DEF Typed
  <2>2. /\ records' \in Seq(Begins \union Ends) /\ Len(records') = Len(records) + 1
        /\ \A i \in 1..Len(records) : records'[i] = records[i]
        /\ records'[Len(records) + 1] = r
    BY <1>3, <2>1, AppendProperties
  <2>3. DOMAIN records = 1..Len(records) /\ DOMAIN records' = 1..Len(records')
        /\ Len(records) \in Nat
    BY <2>1, <2>2, LenProperties
  <2> QED
    BY <2>2, <2>3
<1> HIDE DEF id
<1>7. \A x : EndsOf(x)' = EndsOf(x)
  BY <1>2, <1>6 DEF EndsOf, EdgesOf
<1>8. Numbered'
  BY <1>2, <1>5, <1>6 DEF Spanned, Numbered
<1>9. Paired'
  <2> SUFFICES ASSUME NEW i \in DOMAIN records', records'[i].k = "e"
               PROVE  /\ records'[i].id \in DOMAIN records' /\ records'[i].id < i
                      /\ records'[records'[i].id].k = "b"
                      /\ records'[records'[i].id].tid = records'[i].tid
                      /\ records'[i].exit = 0 =>
                            /\ records'[records'[i].id].builtin # "git"
                            /\ records'[records'[i].id].builtin = "git add" =>
                                  SeedResource(records'[records'[i].id].path)
                      /\ \A j \in EndsOf(records'[i].id) : i = j
    BY <1>7 DEF Paired
  <2>1. i \in DOMAIN records /\ records'[i] = records[i]
    BY <1>2, <1>6
  <2>2. records[i].id \in DOMAIN records /\ records'[records[i].id] = records[records[i].id]
    BY <1>5, <1>6, <2>1 DEF Spanned, Paired
  <2>3. /\ records[i].id \in DOMAIN records /\ records[i].id < i
        /\ records[records[i].id].k = "b"
        /\ records[records[i].id].tid = records[i].tid
        /\ records[i].exit = 0 =>
              /\ records[records[i].id].builtin # "git"
              /\ records[records[i].id].builtin = "git add" =>
                    SeedResource(records[records[i].id].path)
        /\ \A j \in EndsOf(records[i].id) : i = j
    BY <1>5, <2>1 DEF Spanned, Paired
  <2>4. records[i].id \in DOMAIN records'
    BY <1>6, <2>2
  <2> QED
    BY <2>1, <2>2, <2>3, <2>4
<1>10. Apart'
  <2> SUFFICES ASSUME NEW i \in DOMAIN records', NEW j \in DOMAIN records',
                      IsGit(i)', IsGit(j)', records'[i].tid = records'[j].tid, i < j,
                      NEW e \in EndsOf(i)
               PROVE  e < j
    BY <1>7 DEF Apart
  <2>1. e \in DOMAIN records
    BY DEF EndsOf, EdgesOf
  <2>2. CASE j = id
    BY <1>6, <2>1, <2>2
  <2>3. CASE j # id
    <3>1. j \in DOMAIN records /\ i \in DOMAIN records
      BY <1>6, <2>3
    <3> QED
      BY <1>5, <1>6, <3>1 DEF Spanned, Apart, IsGit
  <2> QED
    BY <2>2, <2>3
<1>11. Nested'
  <2> DEFINE E(x) == {j \in DOMAIN records' : records'[j].id = x /\ records'[j].k = "e"}
             G(x) == records'[x].k = "b" /\ IsGitBuiltin(records'[x].builtin)
  <2> SUFFICES ASSUME NEW u \in Tids, NEW n \in DOMAIN thread'[u].spans
               PROVE  /\ thread'[u].spans[n] \in DOMAIN records'
                      /\ records'[thread'[u].spans[n]].k = "b"
                      /\ records'[thread'[u].spans[n]].tid = u
                      /\ E(thread'[u].spans[n]) = {}
                      /\ \A m \in DOMAIN thread'[u].spans : m < n =>
                            thread'[u].spans[m] < thread'[u].spans[n] /\ ~G(thread'[u].spans[m])
                      /\ n = Len(thread'[u].spans) /\ G(thread'[u].spans[n]) =>
                            \A i \in DOMAIN records' :
                               records'[i].tid = u /\ records'[i].k = "b"
                                  => i <= thread'[u].spans[n]
    BY DEF Nested, EndsOf, EdgesOf, IsGit
  <2>0. /\ \A x \in DOMAIN records : G(x) <=> IsGit(x)
        /\ \A x : E(x) = EndsOf(x)
    BY <1>2, <1>6 DEF IsGit, EndsOf, EdgesOf
  <2> HIDE DEF E, G
  <2>1. CASE u # t
    <3>1. thread'[u].spans = thread[u].spans
      BY <1>1, <2>1
    <3> DEFINE spans == thread[u].spans
    <3>2. /\ n \in DOMAIN spans /\ spans[n] \in DOMAIN records
          /\ records[spans[n]].k = "b" /\ records[spans[n]].tid = u
          /\ EndsOf(spans[n]) = {}
          /\ \A m \in DOMAIN spans : spans[m] \in DOMAIN records
          /\ \A m \in DOMAIN spans : m < n => spans[m] < spans[n] /\ ~IsGit(spans[m])
          /\ n = Len(spans) /\ IsGit(spans[n]) =>
                \A i \in DOMAIN records :
                   records[i].tid = u /\ records[i].k = "b" => i <= spans[n]
      BY <1>5, <3>1, ZenonT(60) DEF Spanned, Nested
    <3>3. /\ spans[n] \in DOMAIN records'
          /\ records'[spans[n]].k = "b" /\ records'[spans[n]].tid = u
      BY <1>6, <3>2
    <3>4. n = Len(spans) /\ G(spans[n]) =>
                \A i \in DOMAIN records' :
                   records'[i].tid = u /\ records'[i].k = "b" => i <= spans[n]
      BY <1>2, <1>6, <2>0, <2>1, <3>2
    <3> QED
      BY <2>0, <3>1, <3>2, <3>3, <3>4
  <2>2. CASE u = t
    <3> DEFINE old == thread[t].spans
    <3>0. old \in Seq(Nat) /\ id \in Nat
      BY <1>5, <1>6, ThreadTyped
    <3>1. /\ thread'[u].spans = Append(old, id) /\ Len(old) \in Nat
          /\ DOMAIN old = 1..Len(old) /\ DOMAIN Append(old, id) = 1..(Len(old) + 1)
          /\ Len(Append(old, id)) = Len(old) + 1
          /\ \A m \in DOMAIN old : Append(old, id)[m] = old[m]
          /\ Append(old, id)[Len(old) + 1] = id
      <4>1. thread'[u].spans = Append(old, id)
        BY <1>1, <2>2 DEF id
      <4>2. /\ Append(old, id) \in Seq(Nat) /\ Len(Append(old, id)) = Len(old) + 1
            /\ \A m \in 1..Len(old) : Append(old, id)[m] = old[m]
            /\ Append(old, id)[Len(old) + 1] = id
        BY <3>0, AppendProperties
      <4>3. DOMAIN old = 1..Len(old) /\ Len(old) \in Nat
            /\ DOMAIN Append(old, id) = 1..Len(Append(old, id))
        BY <3>0, <4>2, LenProperties
      <4> QED
        BY <4>1, <4>2, <4>3
    <3>2. \A m \in DOMAIN old : /\ old[m] \in DOMAIN records
                                /\ records[old[m]].k = "b" /\ records[old[m]].tid = t
                                /\ EndsOf(old[m]) = {}
                                /\ \A l \in DOMAIN old : l < m => old[l] < old[m]
      BY <1>5 DEF Spanned, Nested
    <3>3. \A m \in DOMAIN old : ~IsGit(old[m])
      <4>1. ~(old # <<>> /\ IsGit(Last(old))) /\ (old # <<>> => Last(old) = old[Len(old)])
        BY <1>1, <1>5, InGitIs
      <4>2. \A m \in DOMAIN old : m < Len(old) => ~IsGit(old[m])
        <5> TAKE m \in DOMAIN old
        <5> HAVE m < Len(old)
        <5>1. Len(old) \in DOMAIN old
          BY <3>1
        <5> QED
          BY <1>5, <5>1 DEF Spanned, Nested
      <4>3. \A m \in DOMAIN old : m < Len(old) \/ m = Len(old)
        BY <3>1
      <4>4. \A m \in DOMAIN old : old # <<>>
        BY <3>0, EmptySeq
      <4> QED
        BY <4>1, <4>2, <4>3, <4>4
    <3> DEFINE spans == thread'[u].spans
    <3>4. CASE n = Len(old) + 1
      <4>1. spans[n] = id
        BY <3>1, <3>4
      <4>2. records'[id].k = "b" /\ records'[id].tid = u /\ id \in DOMAIN records'
        BY <1>2, <1>6, <2>2
      <4>3. EndsOf(id) = {}
        <5>1. \A i \in DOMAIN records : records[i].k = "e" => records[i].id \in DOMAIN records
          BY <1>5 DEF Spanned, Paired
        <5> QED
          BY <1>6, <5>1 DEF EndsOf, EdgesOf
      <4>4. \A m \in DOMAIN spans : m < n =>
               spans[m] < spans[n] /\ ~G(spans[m])
        <5> TAKE m \in DOMAIN spans
        <5> HAVE m < n
        <5>1. m \in DOMAIN old /\ spans[m] = old[m]
          BY <3>1, <3>4
        <5>2. old[m] \in DOMAIN records
          BY <3>2, <5>1
        <5> HIDE DEF spans, old
        <5> QED
          BY <1>6, <2>0, <3>3, <4>1, <5>1, <5>2
      <4>5. \A i \in DOMAIN records' : i <= spans[n]
        BY <1>6, <4>1
      <4> QED
        BY <2>0, <4>1, <4>2, <4>3, <4>4, <4>5
    <3>5. CASE n # Len(old) + 1
      <4>1. n \in DOMAIN old /\ spans[n] = old[n] /\ n # Len(spans)
        BY <3>1, <3>5
      <4>2. old[n] \in DOMAIN records'
            /\ records'[old[n]].k = "b" /\ records'[old[n]].tid = u /\ EndsOf(old[n]) = {}
        BY <1>6, <2>2, <3>2, <4>1
      <4>3. \A m \in DOMAIN spans : m < n =>
               spans[m] < spans[n] /\ ~G(spans[m])
        <5> TAKE m \in DOMAIN spans
        <5> HAVE m < n
        <5>1. m \in DOMAIN old /\ spans[m] = old[m]
          BY <3>1, <4>1
        <5>2. old[m] \in DOMAIN records
          BY <3>2, <5>1
        <5> HIDE DEF spans, old
        <5> QED
          BY <2>0, <3>2, <3>3, <4>1, <5>1, <5>2
      <4> QED
        BY <2>0, <4>1, <4>2, <4>3
    <3> QED
      BY <3>4, <3>5
  <2> QED
    BY <2>1, <2>2
<1> QED
  BY <1>4, <1>8, <1>9, <1>10, <1>11 DEF LogInv, Spanned

LEMMA EndKeeps ==
    ASSUME LogInv, NEW t \in Tids, End(t)
    PROVE  LogInv'
<1> DEFINE b == Last(thread[t].spans)
           old == thread[t].spans
           next == Len(records) + 1
           R(exit) == [k |-> "e", id |-> b, ts |-> clock', tid |-> t, exit |-> exit]
<1>1. PICK exit \in {0, 1} :
           /\ thread[t].alive /\ ~InFlight(t) /\ old # <<>>
           /\ HookStamp(t) /\ R(exit) \in Ends
           /\ b \in DOMAIN records /\ b = old[Len(old)]
           /\ records[b].builtin = "git" => exit # 0
           /\ records[b].builtin = "git add" /\ ~SeedResource(records[b].path) => exit # 0
           /\ UNCHANGED <<dumped, over, timedOut>>
           /\ records' = Append(records, R(exit))
           /\ thread'[t].last = clock' /\ thread'[t].spans = Front(old)
           /\ thread'[t].alive = thread[t].alive
           /\ thread'[t].program = thread[t].program
           /\ \A u \in Tids \ {t} : thread'[u] = thread[u]
           /\ Unlogged
  BY EndStep
<1> DEFINE r == R(exit)
<1>2. r.k = "e" /\ r.id = b /\ r.tid = t /\ r.ts = clock' /\ r.exit = exit /\ r \in Ends
  BY <1>1
<1>3. records' = Append(records, r)
  BY <1>1
<1> HIDE DEF r, R
<1>4. Typed' /\ Bounded' /\ Logged' /\ Stamped' /\ GitShows'
  BY <1>1, <1>2, <1>3, HookKeeps
<1>5. Typed /\ Spanned
  BY DEF LogInv
<1>6. /\ DOMAIN records = 1..Len(records) /\ DOMAIN records' = 1..next
      /\ Len(records) \in Nat /\ next = Len(records) + 1
      /\ \A i \in DOMAIN records : records'[i] = records[i]
      /\ records'[next] = r
      /\ \A i \in DOMAIN records' : i \in DOMAIN records \/ i = next
      /\ next \in DOMAIN records' /\ next \notin DOMAIN records
      /\ \A i \in DOMAIN records : i \in Nat /\ i < next /\ i \in DOMAIN records'
  <2>1. records \in Seq(Begins \union Ends) /\ r \in Begins \union Ends
    BY <1>2, <1>5 DEF Typed
  <2>2. /\ records' \in Seq(Begins \union Ends) /\ Len(records') = Len(records) + 1
        /\ \A i \in 1..Len(records) : records'[i] = records[i]
        /\ records'[Len(records) + 1] = r
    BY <1>3, <2>1, AppendProperties
  <2>3. DOMAIN records = 1..Len(records) /\ DOMAIN records' = 1..Len(records')
        /\ Len(records) \in Nat
    BY <2>1, <2>2, LenProperties
  <2> QED
    BY <2>2, <2>3
<1>7. /\ old \in Seq(Nat) /\ Len(old) \in Nat /\ Len(old) >= 1
      /\ DOMAIN old = 1..Len(old) /\ DOMAIN Front(old) = 1..(Len(old) - 1)
      /\ Len(Front(old)) = Len(old) - 1
      /\ \A n \in DOMAIN Front(old) : /\ n \in DOMAIN old /\ n < Len(old)
                                      /\ Front(old)[n] = old[n]
      /\ Len(old) \in DOMAIN old
  <2>1. old \in Seq(Nat)
    BY <1>5, ThreadTyped
  <2>2. Len(old) \in Nat /\ DOMAIN old = 1..Len(old)
    BY <2>1, LenProperties
  <2>3. Len(old) >= 1
    <3>1. Len(old) # 0
      BY <1>1, <2>1, EmptySeq
    <3> QED
      BY <2>2, <3>1
  <2>4. /\ Len(Front(old)) = Len(old) - 1
        /\ \A n \in 1..(Len(old) - 1) : Front(old)[n] = old[n]
        /\ DOMAIN Front(old) = 1..(Len(old) - 1)
    BY <1>1, <2>1, FrontIs
  <2> HIDE DEF old
  <2> QED
    BY <2>1, <2>2, <2>3, <2>4
<1>8. /\ records[b].k = "b" /\ records[b].tid = t /\ EndsOf(b) = {}
      /\ IsGit(b) => \A i \in DOMAIN records : records[i].tid = t /\ records[i].k = "b" => i <= b
  <2>1. Nested /\ Len(old) \in DOMAIN old /\ b = old[Len(old)]
    BY <1>1, <1>5, <1>7 DEF Spanned
  <2> DEFINE n == Len(old)
  <2>2. /\ records[old[n]].k = "b" /\ records[old[n]].tid = t /\ EndsOf(old[n]) = {}
        /\ n = Len(old) /\ IsGit(old[n]) =>
              \A i \in DOMAIN records : records[i].tid = t /\ records[i].k = "b" => i <= old[n]
    BY <2>1 DEF Nested
  <2> QED
    BY <2>1, <2>2
<1> HIDE DEF next, old, b
<1> DEFINE E(x) == {j \in DOMAIN records' : records'[j].id = x /\ records'[j].k = "e"}
           G(x) == records'[x].k = "b" /\ IsGitBuiltin(records'[x].builtin)
<1>9. /\ \A x \in DOMAIN records : G(x) <=> IsGit(x)
      /\ ~G(next)
      /\ \A x : x # b => E(x) = EndsOf(x)
      /\ E(b) = {next}
  <2>1. \A x : \A j : j \in E(x) <=> j \in EndsOf(x) \/ (j = next /\ x = b)
    BY <1>2, <1>6 DEF EndsOf, EdgesOf
  <2>2. /\ \A x \in DOMAIN records : G(x) <=> IsGit(x)
        /\ ~G(next)
    BY <1>2, <1>6 DEF IsGit
  <2> HIDE DEF E
  <2>3. \A x : x # b => E(x) = EndsOf(x)
    <3> TAKE x
    <3> HAVE x # b
    <3>1. \A j : j \in E(x) <=> j \in EndsOf(x)
      BY <2>1
    <3>2. E(x) \subseteq EndsOf(x) /\ EndsOf(x) \subseteq E(x)
      BY <3>1
    <3> QED
      BY <3>2
  <2>4. E(b) = {next}
    BY <1>8, <2>1 DEF E
  <2> QED
    BY <2>2, <2>3, <2>4
<1>10. Numbered'
  BY <1>2, <1>5, <1>6 DEF Spanned, Numbered
<1>11. Paired'
  <2> SUFFICES ASSUME NEW i \in DOMAIN records', records'[i].k = "e"
               PROVE  /\ records'[i].id \in DOMAIN records' /\ records'[i].id < i
                      /\ records'[records'[i].id].k = "b"
                      /\ records'[records'[i].id].tid = records'[i].tid
                      /\ records'[i].exit = 0 =>
                            /\ records'[records'[i].id].builtin # "git"
                            /\ records'[records'[i].id].builtin = "git add" =>
                                  SeedResource(records'[records'[i].id].path)
                      /\ \A j \in E(records'[i].id) : i = j
    BY DEF Paired, EndsOf, EdgesOf
  <2> HIDE DEF E, G
  <2>1. CASE i = next
    <3>1. records'[i] = r /\ records'[b] = records[b] /\ b \in DOMAIN records' /\ b < i
      BY <1>1, <1>6, <2>1
    <3> QED
      <4>1. records'[i].id = b /\ records'[i].tid = t /\ records'[i].exit = exit
        BY <1>2, <3>1
      <4>2. \A j \in E(b) : i = j
        BY <1>9, <2>1
      <4>3. records'[b].k = "b" /\ records'[b].tid = t
        BY <1>8, <3>1
      <4>4. exit = 0 => /\ records'[b].builtin # "git"
                        /\ records'[b].builtin = "git add" => SeedResource(records'[b].path)
        BY <1>1, <3>1
      <4> QED
        BY <3>1, <4>1, <4>2, <4>3, <4>4
  <2>2. CASE i # next
    <3>1. i \in DOMAIN records /\ records'[i] = records[i]
      BY <1>6, <2>2
    <3>2. records[i].id \in DOMAIN records /\ records'[records[i].id] = records[records[i].id]
      BY <1>5, <1>6, <3>1 DEF Spanned, Paired
    <3>3. records[i].id # b
      BY <1>8, <3>1 DEF EndsOf, EdgesOf
    <3>4. E(records[i].id) = EndsOf(records[i].id)
      BY <1>9, <3>3
    <3>5. /\ records[i].id < i
          /\ records[records[i].id].k = "b" /\ records[records[i].id].tid = records[i].tid
          /\ records[i].exit = 0 =>
                /\ records[records[i].id].builtin # "git"
                /\ records[records[i].id].builtin = "git add" =>
                      SeedResource(records[records[i].id].path)
          /\ \A j \in EndsOf(records[i].id) : i = j
      BY <1>5, <3>1 DEF Spanned, Paired
    <3> QED
      BY <1>6, <3>1, <3>2, <3>4, <3>5
  <2> QED
    BY <2>1, <2>2
<1>12. Apart'
  <2> SUFFICES ASSUME NEW i \in DOMAIN records', NEW j \in DOMAIN records',
                      G(i), G(j), records'[i].tid = records'[j].tid, i < j,
                      NEW e \in E(i)
               PROVE  e < j
    BY DEF Apart, EndsOf, EdgesOf, IsGit
  <2> HIDE DEF E, G
  <2>1. i \in DOMAIN records /\ j \in DOMAIN records /\ IsGit(i) /\ IsGit(j)
        /\ records[i].tid = records[j].tid
    BY <1>6, <1>9
  <2>2. CASE i = b
    <3>1. records[j].tid = t /\ records[j].k = "b" /\ IsGit(b)
      BY <1>8, <2>1, <2>2 DEF IsGit
    <3>2. j <= b
      BY <1>8, <2>1, <3>1
    <3> QED
      BY <1>6, <2>1, <2>2, <3>2
  <2>3. CASE i # b
    BY <1>5, <1>9, <2>1, <2>3 DEF Spanned, Apart
  <2> QED
    BY <2>2, <2>3
<1>13. Nested'
  <2> SUFFICES ASSUME NEW u \in Tids, NEW n \in DOMAIN thread'[u].spans
               PROVE  /\ thread'[u].spans[n] \in DOMAIN records'
                      /\ records'[thread'[u].spans[n]].k = "b"
                      /\ records'[thread'[u].spans[n]].tid = u
                      /\ E(thread'[u].spans[n]) = {}
                      /\ \A m \in DOMAIN thread'[u].spans : m < n =>
                            thread'[u].spans[m] < thread'[u].spans[n] /\ ~G(thread'[u].spans[m])
                      /\ n = Len(thread'[u].spans) /\ G(thread'[u].spans[n]) =>
                            \A i \in DOMAIN records' :
                               records'[i].tid = u /\ records'[i].k = "b"
                                  => i <= thread'[u].spans[n]
    BY DEF Nested, EndsOf, EdgesOf, IsGit
  <2> HIDE DEF E, G
  <2> DEFINE was == thread[u].spans
             spans == thread'[u].spans
  \* A thread keeps all its spans, but for the one that ends.
  <2>1. /\ n \in DOMAIN was /\ spans[n] = was[n] /\ was[n] # b
        /\ \A m \in DOMAIN spans : m \in DOMAIN was /\ spans[m] = was[m]
        /\ u = t => n < Len(was)
        /\ u # t => Len(spans) = Len(was)
    <3>1. CASE u = t
      <4>1. spans = Front(old) /\ was = old
        BY <1>1, <3>1 DEF old
      <4>2. n \in DOMAIN old /\ n < Len(old) /\ Front(old)[n] = old[n]
        BY <1>7, <4>1
      <4>3. old[n] < old[Len(old)] /\ old[n] \in Nat /\ old[Len(old)] \in Nat
        <5>1. Len(old) \in DOMAIN old
          BY <1>7
        <5>2. old[n] < old[Len(old)]
          BY <1>5, <4>2, <5>1 DEF Spanned, Nested, old
        <5> QED
          BY <1>7, <4>2, <5>1, <5>2, ElementOfSeq
      <4>4. old[n] # b
        <5>1. b = old[Len(old)]
          BY <1>1
        <5> QED
          BY <4>3, <5>1
      <4> QED
        BY <1>7, <3>1, <4>1, <4>2, <4>4
    <3>2. CASE u # t
      <4>1. spans = was
        BY <1>1, <3>2
      <4>2. was[n] \in DOMAIN records /\ records[was[n]].tid = u
        BY <1>5, <4>1 DEF Spanned, Nested
      <4> QED
        BY <1>8, <3>2, <4>1, <4>2
    <3> QED
      BY <3>1, <3>2
  <2>2. /\ was[n] \in DOMAIN records
        /\ records[was[n]].k = "b" /\ records[was[n]].tid = u
        /\ EndsOf(was[n]) = {}
        /\ \A m \in DOMAIN was : was[m] \in DOMAIN records
        /\ \A m \in DOMAIN was : m < n => was[m] < was[n] /\ ~IsGit(was[m])
        /\ n = Len(was) /\ IsGit(was[n]) =>
              \A i \in DOMAIN records :
                 records[i].tid = u /\ records[i].k = "b" => i <= was[n]
    BY <1>5, <2>1 DEF Spanned, Nested
  <2>3. u = t => ~IsGit(was[n])
    <3> HAVE u = t
    <3>1. Len(was) \in DOMAIN was /\ n < Len(was)
      BY <1>7, <2>1 DEF old
    <3> QED
      BY <1>5, <2>1, <3>1 DEF Spanned, Nested
  <2> HIDE DEF was, spans
  <2>4. /\ spans[n] \in DOMAIN records'
        /\ records'[spans[n]].k = "b" /\ records'[spans[n]].tid = u
        /\ E(spans[n]) = {}
    BY <1>6, <1>9, <2>1, <2>2
  <2>5. \A m \in DOMAIN spans : m < n => spans[m] < spans[n] /\ ~G(spans[m])
    BY <1>9, <2>1, <2>2
  <2>6. n = Len(spans) /\ G(spans[n]) =>
           \A i \in DOMAIN records' : records'[i].tid = u /\ records'[i].k = "b" => i <= spans[n]
    <3> HAVE n = Len(spans) /\ G(spans[n])
    <3>1. IsGit(was[n]) /\ u # t /\ n = Len(was)
      BY <1>9, <2>1, <2>2, <2>3
    <3>2. \A i \in DOMAIN records : records[i].tid = u /\ records[i].k = "b" => i <= was[n]
      BY <2>2, <3>1
    <3> QED
      BY <1>2, <1>6, <2>1, <3>1, <3>2
  <2> QED
    BY <2>4, <2>5, <2>6 DEF spans
<1> QED
  BY <1>4, <1>10, <1>11, <1>12, <1>13 DEF LogInv, Spanned

-----------------------------------------------------------------------------
(* Of every execution that keeps to its budget.                            *)

LEMMA LogInit == TraceInit => LogInv
<1> SUFFICES ASSUME TraceInit PROVE LogInv
  OBVIOUS
<1>1. /\ clock = 0 /\ thread = [t \in Tids |-> Dead] /\ raw = <<>> /\ records = <<>>
      /\ did = <<>> /\ dumped = FALSE /\ over = FALSE /\ timedOut = FALSE
  BY DEF TraceInit
<1>2. Dead \in ThreadStates
  BY DEF Dead, ThreadStates, Dirs
<1>3. Typed
  BY <1>1, <1>2, EmptySeq DEF Typed
<1>4. Bounded
  BY <1>1 DEF Bounded, Live, Dead
<1>5. Flight = NoLog
  BY <1>1, ParseNone DEF Flight, Cut
<1>6. Returned = {}
  BY <1>5 DEF Returned, NoLog, Range
<1>7. \A t \in Tids : thread[t].call = NoCall /\ thread[t].last = 0 /\ thread[t].spans = <<>>
                       /\ thread[t].program = "worker"
  BY <1>1 DEF Dead
<1>8. \A t \in Tids : ~InFlight(t)
  BY <1>7 DEF InFlight
<1>9. \A t \in Tids : \A s, c : ~Entered(t, s, c)
  BY <1>6, <1>8 DEF Entered
<1>10. Logged
  <2>1. Flight.lines = <<>> /\ Flight.pending = <<>>
    BY <1>5 DEF NoLog
  <2>2. {Begun(t) : t \in {u \in Tids : InFlight(u)}} = {}
    BY <1>8
  <2> QED
    BY <1>9, <2>1, <2>2 DEF Logged, Range
<1>11. Stamped
  BY <1>1, <1>6, <1>7 DEF Stamped
<1>12. Spanned
  BY <1>1, <1>7 DEF Spanned, Numbered, Paired, Nested, Apart
<1>13. GitShows
  BY <1>6, <1>7, <1>8 DEF GitShows
<1> QED
  BY <1>3, <1>4, <1>10, <1>11, <1>12, <1>13 DEF LogInv

LEMMA LogStep ==
    ASSUME LogInv, TraceNext, ~timedOut'
    PROVE  LogInv'
<1>1. CASE Start
  BY <1>1, StartKeeps
<1>2. CASE Finish
  BY <1>2, FinishKeeps
<1>3. CASE Kill
  BY <1>3, KillKeeps
<1>4. CASE Detach
  BY <1>4, DetachKeeps
<1>5. CASE Timeout
  BY <1>5 DEF Timeout
<1>6. ASSUME NEW t \in Tids, Enter(t) PROVE LogInv'
  BY <1>6, EnterKeeps
<1>7. ASSUME NEW t \in Tids, Return(t) PROVE LogInv'
  BY <1>7, ReturnKeeps
<1>8. ASSUME NEW t \in Tids, Begin(t) PROVE LogInv'
  BY <1>8, BeginKeeps
<1>9. ASSUME NEW t \in Tids, End(t) PROVE LogInv'
  BY <1>9, EndKeeps
<1>10. ASSUME NEW t \in Tids, Panic(t) PROVE LogInv'
  BY <1>10, PanicKeeps
<1>11. ASSUME NEW t \in Tids, ExitThread(t) PROVE LogInv'
  BY <1>11, ExitThreadKeeps
<1> QED
  BY <1>1, <1>2, <1>3, <1>4, <1>5, <1>6, <1>7, <1>8, <1>9, <1>10, <1>11 DEF TraceNext

\* The budget does not come back.
LEMMA BudgetStep == TraceNext /\ timedOut => timedOut'
<1> SUFFICES ASSUME TraceNext, timedOut PROVE timedOut'
  OBVIOUS
<1>1. ASSUME NEW t \in Tids,
             Enter(t) \/ Return(t) \/ Begin(t) \/ End(t) \/ Panic(t) \/ ExitThread(t)
      PROVE  timedOut'
  BY <1>1 DEF Enter, Return, Begin, End, Panic, ExitThread
<1>2. CASE Start \/ Finish \/ Kill \/ Detach \/ Timeout
  BY <1>2 DEF Start, Finish, Kill, Detach, Timeout
<1> QED
  BY <1>1, <1>2 DEF TraceNext

LEMMA LogStutter == LogInv /\ UNCHANGED traceVars => LogInv'
<1> SUFFICES ASSUME LogInv, UNCHANGED traceVars PROVE LogInv'
  OBVIOUS
<1>1. UNCHANGED <<clock, thread, raw, records, did, dumped, over, timedOut>>
  BY DEF traceVars
<1>2. Typed /\ Bounded /\ Logged /\ Stamped /\ Spanned /\ GitShows
  BY DEF LogInv
<1>3. Typed'
  BY <1>1, <1>2 DEF Typed
<1>4. Live' = Live
  BY <1>1 DEF Live
<1>5. Bounded'
  BY <1>1, <1>2, <1>4 DEF Bounded
<1>6. /\ Returned' = Returned
      /\ \A t \in Tids : InFlight(t)' <=> InFlight(t)
      /\ \A t \in Tids : \A s, c : Entered(t, s, c)' <=> Entered(t, s, c)
      /\ Logged'
  BY <1>1, <1>2, SilentLog DEF Typed
<1>7. Stamped'
  <2>1. clock <= clock'
    BY <1>1, <1>2 DEF Typed
  <2> QED
    BY <1>1, <1>2, <1>3, <1>6, <2>1, StillStamped
<1>8. Spanned'
  BY <1>1, <1>2, SpansKept
<1>9. GitShows'
  <2>1. \A x \in Returned : x.tid \in Tids
    BY <1>2, ReturnedTyped
  <2> QED
    BY <1>1, <1>2, <1>6, <2>1, TraceKept
<1> QED
  BY <1>3, <1>5, <1>6, <1>7, <1>8, <1>9 DEF LogInv

\* The invariant of the log.
THEOREM LogHolds == TraceSpec => [](timedOut \/ LogInv)
<1>1. TraceInit => timedOut \/ LogInv
  BY LogInit
<1>2. (timedOut \/ LogInv) /\ [TraceNext]_traceVars => (timedOut \/ LogInv)'
  <2> SUFFICES ASSUME timedOut \/ LogInv, [TraceNext]_traceVars
               PROVE  timedOut' \/ LogInv'
    OBVIOUS
  <2>1. CASE UNCHANGED traceVars
    BY <2>1, LogStutter DEF traceVars
  <2>2. CASE TraceNext
    BY <2>2, LogStep, BudgetStep
  <2> QED
    BY <2>1, <2>2
<1> QED
  BY <1>1, <1>2, PTL DEF TraceSpec
=============================================================================
