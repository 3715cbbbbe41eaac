-------------------------- MODULE CommitLogProofs --------------------------
(***************************************************************************)
(* Proofs about publication and recovery, for every set of paths, contents *)
(* and transactions and any number of crashes.                             *)
(*                                                                         *)
(* Under every fault the history is backed by whole intents.  Where the    *)
(* only fault is that the process dies, at most one durable intent is not  *)
(* in the history, it is the last frame of the log, and the disk differs   *)
(* from its target only where its operations still have to be carried out. *)
(***************************************************************************)
EXTENDS CommitLog, TLAPS, FiniteSetTheorems, SequenceTheorems

\* A history record is backed by a frame of the log, and so is what is about to
\* be recorded.
Backed(log, id) == \E k \in DOMAIN log : log[k].id = id /\ Complete(log[k])

\* Of the numbers of the history there is a greatest one.
Numbered ==
    \E m \in {0} \union {hist[i].seq : i \in DOMAIN hist} :
        \A i \in DOMAIN hist : hist[i].seq <= m

RecordsBacked == \A i \in DOMAIN hist : Backed(wal, hist[i].id)

WorkBacked ==
    \A i \in DOMAIN todo : /\ todo[i].whole => Backed(wal, todo[i].id)
                           /\ todo[i].finished => todo[i].whole

Planned == Len(todo) = 1 /\ todo[1].whole /\ ~todo[1].finished

BackedInv ==
    /\ TypeOK
    /\ RecordsBacked
    /\ mode \in {"publishing", "recovering"} => WorkBacked
    /\ mode = "logging" => Planned
    /\ Numbered

-----------------------------------------------------------------------------
(* What crashes leave.                                                     *)

\* The frames: numbers ascend, every intent has a frame of its own, and a
\* durable one is finished and recorded before the next begins.
FramesInv ==
    /\ \A k \in DOMAIN wal :
          /\ asked[wal[k].id] # Gone
          /\ wal[k].finished => Complete(wal[k])
          /\ wal[k].torn => k = Len(wal) /\ ~Complete(wal[k])
          /\ wal[k].seq = 1 \/ \E i \in DOMAIN hist : wal[k].seq <= hist[i].seq + 1
    /\ \A k, l \in DOMAIN wal : k < l =>
          /\ wal[k].id # wal[l].id
          /\ wal[k].seq <= wal[l].seq
          /\ Complete(wal[k]) => /\ wal[k].seq < wal[l].seq
                                 /\ wal[k].finished
                                 /\ Remembered(wal[k].seq)

\* The history records finished transactions in the order of their numbers.
HistInv ==
    /\ \A i, j \in DOMAIN hist : i < j => hist[i].seq < hist[j].seq
    /\ \A i \in DOMAIN hist : \E k \in DOMAIN wal :
          /\ wal[k].id = hist[i].id /\ wal[k].seq = hist[i].seq
          /\ Complete(wal[k]) /\ wal[k].finished

\* The version last recorded, and the one a durable intent that is not recorded
\* is to make.
Base == asked[IF hist = <<>> THEN 0 ELSE Last(hist).id]
Outstanding == wal # <<>> /\ Complete(Last(wal)) /\ ~Remembered(Last(wal).seq)
Target == asked[Last(wal).id]

\* The seed is the last recorded version, or on its way to the one of the
\* intent that is durable and not recorded.
SeedInv ==
    /\ asked[0] \in Tree
    /\ ~Outstanding => seed = Base
    /\ Outstanding => /\ Last(wal).ops \in Diff(Base, Target)
                      /\ \A x \in Paths : Base[x] = Target[x] => seed[x] = Target[x]
                      /\ Last(wal).finished => seed = Target

DiskInv == FramesInv /\ HistInv /\ SeedInv

\* What an intent in memory says of its frame and of history h.
Reads(e, f, h) ==
    /\ e.id = f.id /\ e.seq = f.seq
    /\ e.whole <=> Complete(f)
    /\ Complete(f) => e.ops = f.ops
    /\ e.finished <=> f.finished
    /\ e.remembered <=> \E i \in DOMAIN h : h[i].seq = f.seq

\* An intent about to be logged.
Ready ==
    /\ Len(todo) = 1 /\ step = 1
    /\ todo[1].seq = seq + 1
    /\ todo[1].whole /\ ~todo[1].finished /\ ~todo[1].remembered
    /\ asked[todo[1].id] # Gone /\ todo[1].ops \in Diff(seed, asked[todo[1].id])
    /\ \A k \in DOMAIN wal : wal[k].id # todo[1].id

\* What is left to do is the end of the log.
AtWork ==
    /\ Len(todo) <= Len(wal)
    /\ \A i \in DOMAIN todo : Reads(todo[i], wal[Len(wal) - Len(todo) + i], hist)
    /\ todo = <<>> => ~Outstanding

\* The number of the last record.
Number == IF hist = <<>> THEN 0 ELSE Last(hist).seq

\* What a session holds in memory is what the disk says.
SessionInv ==
    /\ \A t \in Transactions : snap[t] \in {asked[t], Gone}
    /\ mode \in {"closed", "refused", "open"} => todo = <<>>
    /\ mode # "closed" => \A k \in DOMAIN wal : ~wal[k].torn
    /\ mode \in {"open", "logging"} => ~Outstanding /\ seq = Number
    /\ mode = "logging" => Ready
    /\ mode = "publishing" => Len(todo) = 1 /\ todo[1].whole /\ ~todo[1].remembered
    /\ mode \in {"publishing", "recovering"} => AtWork

\* The operations before the next one have been carried out.
StepInv ==
    mode \in {"publishing", "recovering"} /\ todo # <<>> /\ todo[1].whole /\ ~todo[1].finished =>
        \A i \in DOMAIN todo[1].ops : i < step =>
            seed[todo[1].ops[i].path] = todo[1].ops[i].to

CrashInv == DiskInv /\ SessionInv /\ StepInv

-----------------------------------------------------------------------------
(* The log.                                                                *)

\* Two states of one frame.
Alike(f, g) == f.id = g.id /\ f.seq = g.seq /\ f.ops = g.ops /\ f.lines = g.lines

\* Frames as records.
LEMMA FrameFields ==
    ASSUME NEW f \in FrameOf
    PROVE  /\ f.id \in Transactions /\ f.seq \in Nat \ {0} /\ f.ops \in Seq(Operation)
           /\ f.lines \in Nat /\ f.lines <= Len(f.ops) + 1 /\ f.torn \in BOOLEAN /\ f.finished \in BOOLEAN
           /\ [f EXCEPT !.torn = FALSE] \in FrameOf
           /\ Alike([f EXCEPT !.torn = FALSE], f)
           /\ [f EXCEPT !.torn = FALSE].torn = FALSE
           /\ [f EXCEPT !.torn = FALSE].finished = f.finished
           /\ [f EXCEPT !.finished = TRUE] \in FrameOf
           /\ Alike([f EXCEPT !.finished = TRUE], f)
           /\ [f EXCEPT !.finished = TRUE].torn = f.torn
           /\ [f EXCEPT !.finished = TRUE].finished = TRUE
  BY DEF FrameOf, Alike, Lines

\* What a start makes of the log keeps every frame but a torn Begin, and of a
\* frame everything but the mark that half a line follows (JsonLog::read).
LEMMA TruncatedLog ==
    ASSUME NEW log \in Seq(FrameOf)
    PROVE  /\ Truncated(log) \in Seq(FrameOf)
           /\ Len(Truncated(log)) <= Len(log)
           /\ \A k \in DOMAIN log : Complete(log[k]) => k \in DOMAIN Truncated(log)
           /\ \A k \in DOMAIN Truncated(log) :
                 /\ k \in DOMAIN log
                 /\ Alike(Truncated(log)[k], log[k])
                 /\ Truncated(log)[k].finished = log[k].finished
                 /\ Truncated(log)[k].torn => log[k].torn /\ k # Len(log)
<1> DEFINE n == Len(log)
<1>1. n \in Nat /\ DOMAIN log = 1..n /\ Last(log) = log[n]
  BY DEF Last
<1>2. \A k \in 1..n : log[k] \in FrameOf
  OBVIOUS
<1>3. \A f : Alike(f, f)
  BY DEF Alike
<1>4. CASE log = <<>> \/ ~Last(log).torn
  <2>1. Truncated(log) = log
    BY <1>4 DEF Truncated
  <2>2. \A k \in 1..n : log[k].torn => k # n
    <3> SUFFICES ASSUME NEW k \in 1..n, k = n PROVE ~log[k].torn
      OBVIOUS
    <3>1. log # <<>>
      BY <1>1
    <3> QED
      BY <1>1, <1>4, <3>1, Zenon
  <2> HIDE DEF n
  <2> QED
    BY <1>1, <1>3, <2>1, <2>2
<1>5. CASE log # <<>> /\ Last(log).torn /\ Last(log).lines = 0
  <2>1. Truncated(log) = SubSeq(log, 1, n - 1) /\ n - 1 \in Nat
    BY <1>1, <1>5 DEF Truncated, Front
  <2>2. /\ SubSeq(log, 1, n - 1) \in Seq(FrameOf)
        /\ Len(SubSeq(log, 1, n - 1)) = n - 1
        /\ \A k \in 1..n - 1 : SubSeq(log, 1, n - 1)[k] = log[k]
    <3>1. \A k \in 1..(n - 1) : log[k] \in FrameOf
      BY <1>1, <1>2
    <3> QED
      BY <1>1, <2>1, <3>1, SubSeqProperties
  <2>3. ~Complete(log[n])
    <3>1. n \in 1..n
      BY <1>1, <1>5, EmptySeq
    <3>2. Len(log[n].ops) \in Nat
      BY <1>2, <3>1, FrameFields
    <3> QED
      BY <1>1, <1>5, <3>2 DEF Complete, Lines
  <2>4. \A k \in 1..n : Complete(log[k]) => k \in 1..n - 1
    BY <1>1, <2>3
  <2>0. n \in Nat
    BY <1>1
  <2>5. \A k \in 1..n - 1 : k \in 1..n /\ k # n
    <3> HIDE DEF n
    <3> QED
      BY <2>0
  <2>6. DOMAIN SubSeq(log, 1, n - 1) = 1..n - 1
    BY <2>2
  <2> HIDE DEF n
  <2> QED
    BY <1>1, <1>3, <2>1, <2>2, <2>4, <2>5, <2>6
<1>6. CASE log # <<>> /\ Last(log).torn /\ Last(log).lines # 0
  <2> DEFINE f == [log[n] EXCEPT !.torn = FALSE]
  <2>1. Truncated(log) = [log EXCEPT ![n] = f]
    BY <1>6 DEF Truncated
  <2>2. n \in 1..n
    BY <1>1, <1>6, EmptySeq
  <2>3. f \in FrameOf /\ Alike(f, log[n]) /\ f.torn = FALSE /\ f.finished = log[n].finished
    BY <1>2, <2>2, FrameFields
  <2> HIDE DEF f, n
  <2>4. /\ Truncated(log) \in Seq(FrameOf)
        /\ Len(Truncated(log)) = n
        /\ \A k \in 1..n : Truncated(log)[k] = IF k = n THEN f ELSE log[k]
    BY <1>1, <2>1, <2>2, <2>3 DEF n
  <2> QED
    BY <1>1, <1>3, <2>3, <2>4
<1> QED
  BY <1>4, <1>5, <1>6

\* An End marks one frame finished, or none (the reverse search of recover).
LEMMA WithEndLog ==
    ASSUME NEW log \in Seq(FrameOf), NEW s
    PROVE  /\ WithEnd(log, s) \in Seq(FrameOf)
           /\ Len(WithEnd(log, s)) = Len(log)
           /\ \A k \in DOMAIN log :
                 /\ Alike(WithEnd(log, s)[k], log[k])
                 /\ WithEnd(log, s)[k].torn = log[k].torn
                 /\ WithEnd(log, s)[k].finished
                       <=> log[k].finished \/ k = Max({j \in DOMAIN log : log[j].seq = s})
<1> DEFINE i == Max({j \in DOMAIN log : log[j].seq = s})
           f == [log[i] EXCEPT !.finished = TRUE]
<1>1. WithEnd(log, s) = [log EXCEPT ![i] = f]
  BY DEF WithEnd
<1>2. \A k \in DOMAIN log : log[k] \in FrameOf
  OBVIOUS
<1>3. i \in DOMAIN log =>
         /\ f \in FrameOf /\ Alike(f, log[i]) /\ f.torn = log[i].torn /\ f.finished
  BY <1>2, FrameFields
<1> HIDE DEF i, f
<1>4. /\ WithEnd(log, s) \in Seq(FrameOf)
      /\ Len(WithEnd(log, s)) = Len(log)
      /\ \A k \in DOMAIN log : WithEnd(log, s)[k] = IF k = i THEN f ELSE log[k]
  <2>1. CASE i \in DOMAIN log
    BY <1>1, <1>3, <2>1, ExceptSeq
  <2>2. CASE i \notin DOMAIN log
    <3>1. WithEnd(log, s) = log
      BY <1>1, <2>2
    <3> QED
      BY <2>2, <3>1
  <2> QED
    BY <2>1, <2>2
<1>5. \A k \in DOMAIN log : log[k].finished \in BOOLEAN
  BY <1>2, FrameFields
<1>6. \A k \in DOMAIN log : Alike(log[k], log[k])
  BY DEF Alike
<1>7. \A k \in DOMAIN log :
         /\ Alike(WithEnd(log, s)[k], log[k])
         /\ WithEnd(log, s)[k].torn = log[k].torn
         /\ WithEnd(log, s)[k].finished <=> log[k].finished \/ k = i
  BY <1>3, <1>4, <1>5, <1>6
<1> QED
  BY <1>4, <1>7 DEF i

\* A frame read back.
LEMMA ReadBack ==
    ASSUME NEW frame \in FrameOf
    PROVE  /\ Read(frame) \in Intent
           /\ Complete(frame) => Read(frame).ops = frame.ops
           /\ Read(frame).id = frame.id /\ Read(frame).seq = frame.seq
           /\ Read(frame).whole <=> Complete(frame)
           /\ Read(frame).finished <=> frame.finished
           /\ Read(frame).remembered <=> Remembered(frame.seq)
<1> DEFINE ops == frame.ops
<1>0. /\ ops \in Seq(Operation) /\ frame.lines \in Nat
      /\ frame.lines <= Len(ops) + 1
      /\ \A i \in 1..frame.lines - 1 : ops[i] \in Operation
  <2>1. /\ ops \in Seq(Operation) /\ frame.lines \in Nat
        /\ frame.lines <= Len(ops) + 1
    BY FrameFields
  <2> HIDE DEF ops
  <2>2. \A i \in 1..frame.lines - 1 : i \in 1..Len(ops)
    BY <2>1
  <2> QED
    BY <2>1, <2>2
<1>1. SubSeq(ops, 1, frame.lines - 1) \in Seq(Operation)
  <2> DEFINE m == frame.lines - 1
  <2>1. m \in Int
    BY <1>0
  <2> HIDE DEF m
  <2>2. \A i \in 1..m : ops[i] \in Operation
    BY <1>0 DEF m
  <2>3. SubSeq(ops, 1, m) \in Seq(Operation)
    BY <2>1, <2>2, SubSeqProperties
  <2> QED
    BY <2>3 DEF m
<1>2. Complete(frame) \in BOOLEAN /\ Remembered(frame.seq) \in BOOLEAN
  BY DEF Complete, Remembered
<1>3. Complete(frame) => SubSeq(ops, 1, frame.lines - 1) = ops
  <2>1. Complete(frame) => frame.lines - 1 = Len(ops)
    BY <1>0 DEF Complete, Lines
  <2>2. SubSeq(ops, 1, Len(ops)) = ops
    BY <1>0, SubSeqFull
  <2> QED
    BY <2>1, <2>2
<1> QED
  BY <1>1, <1>2, <1>3, FrameFields DEF Read, Intent

\* What diff_trees returns: an operation for each path that differs, none for
\* any other, removals before writes.
LEMMA DiffOps ==
    ASSUME NEW from \in [Paths -> Entry], NEW to \in [Paths -> Entry],
           NEW ops \in Diff(from, to)
    PROVE  /\ ops \in Seq(Operation)
           /\ \A i \in DOMAIN ops : /\ ops[i].to = to[ops[i].path]
                                    /\ from[ops[i].path] # to[ops[i].path]
           /\ \A x \in Paths : from[x] # to[x] => \E i \in DOMAIN ops : ops[i].path = x
           /\ \A i, j \in DOMAIN ops : i < j /\ Removes(ops[j]) => Removes(ops[i])
<1> DEFINE changes == {Op(x, to[x]) : x \in {y \in Paths : from[y] # to[y]}}
<1>1. IsFiniteSet(changes)
  <2> DEFINE differ == {y \in Paths : from[y] # to[y]}
  <2>1. IsFiniteSet(differ)
    BY PathsAssumption, FS_Subset
  <2> DEFINE f == [x \in differ |-> Op(x, to[x])]
  <2>2. f \in Surjection(differ, changes)
    BY DEF Surjection
  <2> HIDE DEF f, differ, changes
  <2> QED
    BY <2>1, <2>2, FS_Surjection
<1>2. Cardinality(changes) \in Nat
  BY <1>1, FS_CardinalityType
<1>3. /\ ops \in [1..Cardinality(changes) -> changes]
      /\ \A o \in changes : \E i \in DOMAIN ops : ops[i] = o
      /\ \A i, j \in DOMAIN ops : i < j => Precedes(ops[i], ops[j])
  BY DEF Diff
<1>4. \A o \in changes : /\ o \in Operation /\ o.to = to[o.path]
                         /\ from[o.path] # to[o.path]
  BY DEF Op, Operation
<1>5. \A x \in Paths : from[x] # to[x] => Op(x, to[x]) \in changes /\ Op(x, to[x]).path = x
  BY DEF Op
<1> HIDE DEF changes
<1>6. ops \in Seq(Operation)
  BY <1>2, <1>3, <1>4
<1>7. \A i, j \in DOMAIN ops : i < j /\ Removes(ops[j]) => Removes(ops[i])
  BY <1>3 DEF Precedes
<1> QED
  BY <1>3, <1>4, <1>5, <1>6, <1>7

\* An intent as recover and the publisher hold it.
LEMMA IntentFields ==
    ASSUME NEW f \in Intent
    PROVE  /\ f.id \in Transactions /\ f.seq \in Nat \ {0} /\ f.ops \in Seq(Operation)
           /\ f.whole \in BOOLEAN /\ f.finished \in BOOLEAN /\ f.remembered \in BOOLEAN
           /\ [f EXCEPT !.finished = TRUE] \in Intent
           /\ [f EXCEPT !.finished = TRUE].id = f.id
           /\ [f EXCEPT !.finished = TRUE].seq = f.seq
           /\ [f EXCEPT !.finished = TRUE].ops = f.ops
           /\ [f EXCEPT !.finished = TRUE].whole = f.whole
           /\ [f EXCEPT !.finished = TRUE].remembered = f.remembered
           /\ [f EXCEPT !.finished = TRUE].finished = TRUE
  BY DEF Intent

\* What an append leaves in the log is a frame (Wal::append).
LEMMA FrameIsOne ==
    ASSUME NEW tx \in Intent, NEW k \in Nat, k <= Lines(tx.ops), NEW half \in BOOLEAN
    PROVE  /\ Frame(tx, k, half) \in FrameOf
           /\ Frame(tx, k, half).id = tx.id /\ Frame(tx, k, half).seq = tx.seq
           /\ Frame(tx, k, half).ops = tx.ops /\ Frame(tx, k, half).lines = k
           /\ Frame(tx, k, half).torn <=> half
           /\ ~Frame(tx, k, half).finished
           /\ Complete(Frame(tx, k, half)) <=> k = Lines(tx.ops)
  BY IntentFields DEF Frame, FrameOf, Complete

\* recover reads every frame of the log.
LEMMA TranscriptRead ==
    ASSUME NEW log \in Seq(FrameOf)
    PROVE  /\ Transcript(log) \in Seq(Intent)
           /\ Len(Transcript(log)) = Len(log)
           /\ \A k \in DOMAIN log : Transcript(log)[k] = Read(log[k])
<1>1. \A k \in 1..Len(log) : Read(log[k]) \in Intent
  <2> TAKE k \in 1..Len(log)
  <2>1. log[k] \in FrameOf
    OBVIOUS
  <2> QED
    BY <2>1, ReadBack
<1>2. Transcript(log) = [k \in 1..Len(log) |-> Read(log[k])]
  BY DEF Transcript
<1>3. Transcript(log) \in [1..Len(log) -> Intent]
  BY <1>1, <1>2
<1> QED
  BY <1>2, <1>3

\* A record applied to a tree leaves a tree, and what it removed were contents
\* (apply_write, apply_remove).
LEMMA AppliedType ==
    ASSUME TypeOK, NEW t \in Transactions, NEW o \in Operation
    PROVE  /\ Applied(t, o) \in [Paths -> Entry]
           /\ Unsynced(o) \subseteq Paths \X Contents
<1>1. o.path \in Paths /\ o.to \in Entry
  BY DEF Operation
<1>2. \A x \in Paths : SourceOf(t, x) \in Entry
  <2>1. snap[t] = Gone \/ snap[t] \in [Paths -> Entry]
    BY DEF TypeOK, Tree
  <2>2. Absent \in Entry
    BY DEF Entry
  <2> QED
    BY <2>1, <2>2 DEF SourceOf
<1>0. seed \in [Paths -> Entry]
  BY DEF TypeOK
<1>3. \A x \in Paths : Without(seed, x) \in [Paths -> Entry]
  BY <1>0 DEF Without, Entry
<1>4. Applied(t, o) \in [Paths -> Entry]
  <2>1. Without(seed, o.path) \in [Paths -> Entry] /\ SourceOf(t, o.path) \in Entry
    BY <1>1, <1>2, <1>3
  <2>2. [Without(seed, o.path) EXCEPT ![o.path] = SourceOf(t, o.path)] \in [Paths -> Entry]
    BY <2>1
  <2> QED
    BY <1>0, <2>1, <2>2 DEF Applied
<1>5. Beneath(o.path) \subseteq Paths
  BY <1>1, PathsAssumption DEF Beneath
<1>6. \A x \in Paths : seed[x] # Absent => seed[x] \in Contents
  BY DEF TypeOK, Entry
<1>7. Unsynced(o) \subseteq Paths \X Contents
  <2>1. removed \subseteq Paths \X Contents
    BY DEF TypeOK
  <2>2. \A x \in {y \in Beneath(o.path) : seed[y] # Absent} :
           <<x, seed[x]>> \in Paths \X Contents
    BY <1>5, <1>6
  <2>3. {<<x, seed[x]>> : x \in {y \in Beneath(o.path) : seed[y] # Absent}}
           \subseteq Paths \X Contents
    BY <2>2
  <2>4. {r \in removed : ~SameDirectory(r[1], o.path)} \subseteq removed
    OBVIOUS
  <2> QED
    BY <2>1, <2>3, <2>4 DEF Unsynced
<1> QED
  BY <1>4, <1>7

-----------------------------------------------------------------------------
(* Types, and a history that is backed, under every fault.                 *)

\* The head of the work at hand.
LEMMA HeadIntent ==
    ASSUME TypeOK, todo # <<>>
    PROVE  /\ Head(todo) \in Intent /\ Head(todo) = todo[1] /\ 1 \in DOMAIN todo
           /\ Len(todo) \in Nat \ {0}
           /\ Tail(todo) \in Seq(Intent) /\ Len(Tail(todo)) = Len(todo) - 1
           /\ DOMAIN Tail(todo) = 1..Len(todo) - 1
           /\ \A i \in DOMAIN Tail(todo) : i + 1 \in DOMAIN todo /\ Tail(todo)[i] = todo[i + 1]
<1>1. todo \in Seq(Intent) /\ Len(todo) \in Nat /\ Len(todo) # 0 /\ DOMAIN todo = 1..Len(todo)
  BY EmptySeq DEF TypeOK
<1>2. Head(todo) = todo[1] /\ Head(todo) \in Intent
  BY <1>1
<1>3. Tail(todo) \in Seq(Intent) /\ Len(Tail(todo)) = Len(todo) - 1
      /\ \A i \in 1..Len(Tail(todo)) : Tail(todo)[i] = todo[i + 1]
  BY <1>1, HeadTailProperties
<1>4. DOMAIN Tail(todo) = 1..Len(todo) - 1
  BY <1>3
<1> QED
  BY <1>1, <1>2, <1>3, <1>4

\* The log after an append that did not return.
LEMMA TornAppendType ==
    ASSUME TypeOK, mode = "logging", TornAppend
    PROVE  /\ wal' \in Seq(FrameOf)
           /\ \A k \in DOMAIN wal : k \in DOMAIN wal' /\ wal'[k] = wal[k]
<1>1. wal \in Seq(FrameOf) /\ todo # <<>>
  BY DEF TypeOK
<1>2. CASE UNCHANGED wal
  BY <1>1, <1>2
<1>3. CASE ~UNCHANGED wal
  <2>1. PICK k \in 0..Lines(todo[1].ops), half \in BOOLEAN :
            wal' = Append(wal, Frame(todo[1], k, half))
    BY <1>3 DEF TornAppend
  <2>2. Frame(todo[1], k, half) \in FrameOf
    <3>1. todo[1] \in Intent
      BY <1>1, HeadIntent
    <3>2. Lines(todo[1].ops) \in Nat
      BY <3>1, IntentFields DEF Lines
    <3>3. k \in Nat /\ k <= Lines(todo[1].ops)
      BY <3>2
    <3> QED
      BY <3>1, <3>3, FrameIsOne
  <2> QED
    BY <1>1, <2>1, <2>2, AppendProperties
<1> QED
  BY <1>2, <1>3

\* The greatest number of the history (next_seq).
LEMMA GreatestNumber ==
    ASSUME TypeOK, Numbered
    PROVE  Max({0} \union {hist[i].seq : i \in DOMAIN hist}) \in Nat
<1> DEFINE N == {0} \union {hist[i].seq : i \in DOMAIN hist}
<1>0. \A i \in DOMAIN hist : hist[i].seq \in Nat
  <2> DEFINE R == [id : Transactions, seq : Nat \ {0}]
  <2>1. hist \in Seq(R)
    BY DEF TypeOK
  <2> HIDE DEF R
  <2>2. \A i \in DOMAIN hist : hist[i] \in R
    BY <2>1
  <2> USE DEF R
  <2> QED
    BY <2>2
<1>1. \A n \in N : n \in Nat
  BY <1>0
<1>2. PICK m \in N : \A i \in DOMAIN hist : hist[i].seq <= m
  BY DEF Numbered
<1>3. \A n \in N : m >= n
  BY <1>1, <1>2
<1> HIDE DEF N
<1>4. Max(N) \in N
  BY <1>3 DEF Max
<1> QED
  BY <1>1, <1>4 DEF N

\* A record appended to the history.
LEMMA Recorded ==
    ASSUME TypeOK, NEW tx \in Intent,
           hist' = Append(hist, [id |-> tx.id, seq |-> tx.seq])
    PROVE  /\ hist' \in Seq([id : Transactions, seq : Nat \ {0}])
           /\ Len(hist') = Len(hist) + 1 /\ Len(hist) \in Nat
           /\ \A i \in DOMAIN hist : i \in DOMAIN hist' /\ hist'[i] = hist[i]
           /\ hist'[Len(hist) + 1].id = tx.id /\ hist'[Len(hist) + 1].seq = tx.seq
           /\ \A i \in DOMAIN hist' : i \in DOMAIN hist \/ i = Len(hist) + 1
           /\ Len(hist) + 1 \in DOMAIN hist' /\ DOMAIN hist = 1..Len(hist)
<1> DEFINE r == [id |-> tx.id, seq |-> tx.seq]
           R == [id : Transactions, seq : Nat \ {0}]
<1>1. r \in R /\ r.id = tx.id /\ r.seq = tx.seq
  BY IntentFields
<1>2. hist \in Seq(R) /\ hist' = Append(hist, r)
  BY DEF TypeOK
<1> HIDE DEF r, R
<1>3. hist' \in Seq(R) /\ Len(hist') = Len(hist) + 1 /\ Len(hist) \in Nat
      /\ \A i \in 1..Len(hist) : hist'[i] = hist[i]
      /\ hist'[Len(hist) + 1] = r /\ DOMAIN hist = 1..Len(hist)
      /\ DOMAIN hist' = 1..Len(hist) + 1
  <2>1. hist' \in Seq(R) /\ Len(hist') = Len(hist) + 1
        /\ \A i \in 1..Len(hist) : hist'[i] = hist[i]
        /\ hist'[Len(hist) + 1] = r
    BY <1>1, <1>2, AppendProperties
  <2>2. Len(hist) \in Nat /\ DOMAIN hist = 1..Len(hist)
    BY <1>2
  <2> QED
    BY <2>1, <2>2
<1> QED
  BY <1>1, <1>3 DEF R

\* Every step of a publication, of a fault and of a recovery keeps the types
\* (commit::apply, recover, ShellMux::new).
LEMMA TypeStep ==
    ASSUME TypeOK, Numbered, [Next]_vars
    PROVE  TypeOK'
<1>0. /\ seed \in [Paths -> Entry] /\ wal \in Seq(FrameOf)
      /\ snap \in [Transactions -> Tree \union {Gone}]
      /\ removed \subseteq Paths \X Contents /\ todo \in Seq(Intent)
      /\ step \in Nat \ {0} /\ seq \in Nat /\ crashes \in 0..MaxCrashes
      /\ asked \in [Transactions \union {0} -> Tree \union {Gone}]
  BY DEF TypeOK
<1>1. ASSUME NEW t \in Transactions, NEW result \in CommandTrees, Grant(t, result)
      PROVE  TypeOK'
  <2>1. result \in Tree /\ result \in [Paths -> Entry]
    BY TreesAssumption DEF Tree
  <2>2. PICK ops \in Diff(seed, result) :
           todo' = <<[id |-> t, seq |-> seq + 1, ops |-> ops, whole |-> TRUE,
                      finished |-> FALSE, remembered |-> FALSE]>>
    BY <1>1 DEF Grant
  <2>3. ops \in Seq(Operation)
    BY <1>0, <2>1, DiffOps
  <2> DEFINE tx == [id |-> t, seq |-> seq + 1, ops |-> ops, whole |-> TRUE,
                    finished |-> FALSE, remembered |-> FALSE]
  <2>4. tx \in Intent
    BY <1>0, <2>3 DEF Intent
  <2> HIDE DEF tx
  <2>5. todo' \in Seq(Intent) /\ todo' # <<>>
    BY <2>2, <2>4 DEF tx
  <2>6. asked' \in [Transactions \union {0} -> Tree \union {Gone}]
        /\ snap' \in [Transactions -> Tree \union {Gone}]
    BY <1>0, <1>1, <2>1 DEF Grant
  <2> QED
    BY <1>1, <2>5, <2>6 DEF Grant, TypeOK
<1>2. ASSUME NEW t \in Transactions, Reclaim(t)
      PROVE  TypeOK'
  <2>1. snap' \in [Transactions -> Tree \union {Gone}]
    BY <1>0, <1>2 DEF Reclaim
  <2> QED
    BY <1>2, <2>1 DEF Reclaim, TypeOK, session, ghosts
<1>3. CASE LogIntent
  <2>1. todo # <<>>
    BY <1>3 DEF LogIntent, TypeOK
  <2>2. todo[1] \in Intent
    BY <2>1, HeadIntent
  <2>3. Lines(todo[1].ops) \in Nat
    BY <2>2, IntentFields DEF Lines
  <2>4. Frame(todo[1], Lines(todo[1].ops), FALSE) \in FrameOf
    <3> DEFINE n == Lines(todo[1].ops)
    <3>1. n \in Nat /\ n <= Lines(todo[1].ops) /\ FALSE \in BOOLEAN
      BY <2>3
    <3> HIDE DEF n
    <3>2. Frame(todo[1], n, FALSE) \in FrameOf
      BY <2>2, <3>1, FrameIsOne
    <3> QED
      BY <3>2 DEF n
  <2>5. wal' \in Seq(FrameOf)
    BY <1>0, <1>3, <2>4, AppendProperties DEF LogIntent
  <2> QED
    BY <1>3, <2>1, <2>5 DEF LogIntent, TypeOK, ghosts
<1>4. CASE RecordHistory
  <2>1. todo # <<>>
    BY <1>4 DEF RecordHistory, TypeOK
  <2>2. Head(todo) \in Intent
    BY <2>1, HeadIntent
  <2>3. hist' \in Seq([id : Transactions, seq : Nat \ {0}]) /\ seq' \in Nat
    BY <1>4, <2>2, Recorded, IntentFields DEF RecordHistory
  <2> QED
    BY <1>4, <2>3 DEF RecordHistory, TypeOK, ghosts
<1>5. CASE Start
  <2>1. wal' \in Seq(FrameOf)
    BY <1>0, <1>5, TruncatedLog DEF Start
  <2>2. todo' \in Seq(Intent)
    BY <1>0, <1>5, TruncatedLog, TranscriptRead DEF Start
  <2>3. mode' \in {"refused", "recovering"}
    BY <1>5 DEF Start
  <2> QED
    BY <1>5, <2>1, <2>2, <2>3 DEF Start, TypeOK, ghosts, SnapshotsAtStart
<1>6. CASE Refuse
  BY <1>6 DEF Refuse, TypeOK, disk, ghosts
<1>7. CASE Abandon
  <2>1. todo' \in Seq(Intent)
    BY <1>7, HeadIntent DEF Abandon
  <2> QED
    BY <1>7, <2>1 DEF Abandon, TypeOK, disk, ghosts
<1>8. CASE RestoreHistory
  <2>1. todo' \in Seq(Intent) /\ Head(todo) \in Intent
    BY <1>8, HeadIntent DEF RestoreHistory, Working
  <2>2. hist' \in Seq([id : Transactions, seq : Nat \ {0}])
    <3>1. CASE hist' = hist
      BY <3>1 DEF TypeOK
    <3>2. CASE hist' = Append(hist, [id |-> Head(todo).id, seq |-> Head(todo).seq])
      BY <2>1, <3>2, Recorded
    <3> QED
      BY <1>8, <3>1, <3>2 DEF RestoreHistory
  <2> QED
    BY <1>8, <2>1, <2>2 DEF RestoreHistory, TypeOK, ghosts
<1>9. CASE Open
  <2>1. seq' \in Nat
    BY <1>9, GreatestNumber DEF Open
  <2>2. snap' \in [Transactions -> Tree \union {Gone}]
    BY <1>9 DEF Open
  <2> QED
    BY <1>9, <2>1, <2>2 DEF Open, TypeOK, ghosts
<1>10. CASE ApplyOp
  <2>1. Head(todo) \in Intent
    BY <1>10, HeadIntent DEF ApplyOp, Working
  <2> DEFINE t == Head(todo).id
             o == Head(todo).ops[step]
  <2>2. t \in Transactions /\ o \in Operation
    <3>1. Head(todo).ops \in Seq(Operation) /\ step <= Len(Head(todo).ops)
      BY <1>10, <2>1, IntentFields DEF ApplyOp
    <3>2. step \in 1..Len(Head(todo).ops)
      BY <1>0, <3>1
    <3>3. Head(todo).ops[step] \in Operation
      BY <3>1, <3>2, ElementOfSeq
    <3> QED
      BY <2>1, <3>3, IntentFields
  <2>3. seed' = Applied(t, o) /\ removed' = Unsynced(o)
    BY <1>10 DEF ApplyOp
  <2>4. seed' \in [Paths -> Entry] /\ removed' \subseteq Paths \X Contents
    BY <2>2, <2>3, AppliedType
  <2>5. step' \in Nat \ {0}
    BY <1>0, <1>10 DEF ApplyOp
  <2> QED
    BY <1>10, <2>4, <2>5 DEF ApplyOp, TypeOK, ghosts
<1>11. CASE LogEnd
  <2>1. wal' \in Seq(FrameOf)
    BY <1>0, <1>11, WithEndLog DEF LogEnd
  <2>2. /\ todo' \in Seq(Intent) /\ todo' # <<>>
    <3>1. todo # <<>>
      BY <1>11 DEF LogEnd, Working
    <3>2. todo[1] \in Intent /\ 1 \in 1..Len(todo)
      BY <1>0, <3>1, HeadIntent
    <3> DEFINE f == [todo[1] EXCEPT !.finished = TRUE]
    <3>3. f \in Intent
      BY <3>2, IntentFields
    <3>4. todo' = [todo EXCEPT ![1] = f]
      BY <1>11 DEF LogEnd
    <3> HIDE DEF f
    <3>5. todo' \in Seq(Intent) /\ Len(todo') = Len(todo)
      BY <1>0, <3>2, <3>3, <3>4, ExceptSeq
    <3> QED
      BY <1>0, <3>2, <3>5
  <2> QED
    BY <1>11, <2>1, <2>2 DEF LogEnd, TypeOK, ghosts
<1>12. ASSUME Stop
       PROVE  /\ wal' \in Seq(FrameOf) /\ mode' = "closed" /\ todo' = <<>> /\ step' = 1
              /\ seq' = 0 /\ crashes' \in 0..MaxCrashes
              /\ hist' = hist /\ snap' = snap /\ asked' = asked
  <2>1. wal' \in Seq(FrameOf)
    BY <1>0, <1>12, TornAppendType DEF Stop
  <2>2. crashes' \in 0..MaxCrashes
    BY <1>0, <1>12, BoundsAssumption DEF Stop
  <2> QED
    BY <1>12, <2>1, <2>2 DEF Stop
<1>13. CASE Crash
  BY <1>12, <1>13 DEF Crash, TypeOK
<1>14. CASE PowerLoss
  <2>1. seed' \in [Paths -> Entry]
    <3>1. PICK back \in SUBSET removed :
             seed' = [x \in Paths |->
                         IF \E r \in back : r[1] = x
                         THEN (CHOOSE r \in back : r[1] = x)[2] ELSE seed[x]]
      BY <1>14 DEF PowerLoss
    <3>2. \A x \in Paths : (\E r \in back : r[1] = x) =>
             (CHOOSE r \in back : r[1] = x) \in back
      OBVIOUS
    <3>3. \A r \in back : r[2] \in Entry
      BY <1>0 DEF Entry
    <3> QED
      BY <1>0, <3>1, <3>2, <3>3
  <2>2. removed' \subseteq Paths \X Contents
    BY <1>14 DEF PowerLoss
  <2>3. Stop
    BY <1>14 DEF PowerLoss
  <2> QED
    BY <1>12, <2>1, <2>2, <2>3 DEF TypeOK
<1>15. CASE IoError
  <2>1. wal' \in Seq(FrameOf)
    BY <1>0, <1>15, TornAppendType DEF IoError
  <2>2. /\ mode' = "open" /\ todo' = <<>> /\ step' = 1
        /\ UNCHANGED <<seed, hist, snap, removed, seq, asked, crashes>>
    BY <1>15 DEF IoError, ghosts
  <2> QED
    BY <2>1, <2>2 DEF TypeOK
<1>16. CASE UNCHANGED vars
  BY <1>16 DEF vars, disk, session, ghosts, TypeOK
<1> QED
  BY <1>1, <1>2, <1>3, <1>4, <1>5, <1>6, <1>7, <1>8, <1>9, <1>10, <1>11,
     <1>13, <1>14, <1>15, <1>16 DEF Next, Recovery

\* A durable intent stays in the log.
LEMMA StaysBacked ==
    ASSUME \A k \in DOMAIN wal : Complete(wal[k]) =>
               k \in DOMAIN wal' /\ Alike(wal'[k], wal[k])
    PROVE  \A id : Backed(wal, id) => Backed(wal', id)
  BY DEF Backed, Alike, Complete

\* A greatest number there is after one more record, too.
LEMMA NumberedRecord ==
    ASSUME TypeOK, Numbered, NEW tx \in Intent,
           hist' = Append(hist, [id |-> tx.id, seq |-> tx.seq])
    PROVE  Numbered'
<1> DEFINE Nums == {hist[i].seq : i \in DOMAIN hist}
<1>1. /\ tx.seq \in Nat
      /\ \A i \in DOMAIN hist : hist[i].seq \in Nat
  <2> DEFINE R == [id : Transactions, seq : Nat \ {0}]
  <2>1. hist \in Seq(R)
    BY DEF TypeOK
  <2> HIDE DEF R
  <2>2. \A i \in DOMAIN hist : hist[i] \in R
    BY <2>1
  <2> USE DEF R
  <2> QED
    BY <2>2, IntentFields
<1>2. PICK m \in {0} \union Nums : \A i \in DOMAIN hist : hist[i].seq <= m
  BY DEF Numbered
<1>3. m \in Nat
  BY <1>1, <1>2
<1>4. /\ \A i \in DOMAIN hist : i \in DOMAIN hist' /\ hist'[i] = hist[i]
      /\ hist'[Len(hist) + 1].seq = tx.seq
      /\ \A i \in DOMAIN hist' : i \in DOMAIN hist \/ i = Len(hist) + 1
      /\ Len(hist) + 1 \in DOMAIN hist'
  BY Recorded
<1> HIDE DEF Nums
<1>5. CASE tx.seq <= m
  <2>1. m \in {0} \union {hist'[i].seq : i \in DOMAIN hist'}
    BY <1>2, <1>4 DEF Nums
  <2>2. \A i \in DOMAIN hist' : hist'[i].seq <= m
    BY <1>2, <1>4, <1>5
  <2> QED
    BY <2>1, <2>2 DEF Numbered
<1>6. CASE ~(tx.seq <= m)
  <2>1. tx.seq \in {hist'[i].seq : i \in DOMAIN hist'}
    BY <1>4
  <2>2. \A i \in DOMAIN hist' : hist'[i].seq <= tx.seq
    BY <1>1, <1>2, <1>3, <1>4, <1>6
  <2> QED
    BY <2>1, <2>2 DEF Numbered
<1> QED
  BY <1>5, <1>6

\* No step gives the history a record, or a publisher or a recovery a whole
\* intent, that the log does not back.
LEMMA BackedStep ==
    ASSUME BackedInv, [Next]_vars
    PROVE  BackedInv'
<1>0. /\ TypeOK /\ Numbered /\ TypeOK' /\ RecordsBacked
      /\ mode \in {"publishing", "recovering"} => WorkBacked
      /\ mode = "logging" => Planned
  BY TypeStep DEF BackedInv
<1>a. wal \in Seq(FrameOf) /\ todo \in Seq(Intent)
  BY <1>0 DEF TypeOK
<1>b. \A f : Alike(f, f)
  BY DEF Alike
<1>1. ASSUME NEW t \in Transactions, NEW result \in CommandTrees, Grant(t, result)
      PROVE  BackedInv'
  <2>1. PICK ops \in Diff(seed, result) :
           todo' = <<[id |-> t, seq |-> seq + 1, ops |-> ops, whole |-> TRUE,
                      finished |-> FALSE, remembered |-> FALSE]>>
    BY <1>1 DEF Grant
  <2>2. Len(todo') = 1 /\ todo'[1].whole /\ ~todo'[1].finished
    BY <2>1
  <2>3. mode' = "logging" /\ UNCHANGED <<hist, wal>>
    BY <1>1 DEF Grant
  <2> QED
    BY <1>0, <2>2, <2>3 DEF BackedInv, Planned, RecordsBacked, Backed, Numbered
<1>2. ASSUME NEW t \in Transactions, Reclaim(t)
      PROVE  BackedInv'
  <2>1. mode = "open" /\ UNCHANGED <<mode, hist, wal>>
    BY <1>2 DEF Reclaim, session
  <2> QED
    BY <1>0, <2>1 DEF BackedInv, RecordsBacked, WorkBacked, Backed, Numbered
<1>3. CASE LogIntent
  <2> DEFINE n == Lines(todo[1].ops)
             f == Frame(todo[1], n, FALSE)
  <2>1. /\ mode = "logging" /\ mode' = "publishing" /\ wal' = Append(wal, f)
        /\ UNCHANGED <<hist, todo>>
    BY <1>3 DEF LogIntent
  <2>2. todo[1] \in Intent /\ todo[1].whole /\ ~todo[1].finished
        /\ DOMAIN todo = {1}
    <3>1. todo # <<>>
      BY <1>0, <2>1 DEF TypeOK
    <3> QED
      BY <1>0, <1>a, <2>1, <3>1, HeadIntent DEF Planned
  <2>3. n \in Nat
    BY <2>2, IntentFields DEF Lines
  <2>4. f \in FrameOf /\ f.id = todo[1].id /\ Complete(f)
    <3>1. n <= Lines(todo[1].ops) /\ FALSE \in BOOLEAN
      BY <2>3
    <3>2. n = Lines(todo[1].ops)
      OBVIOUS
    <3> HIDE DEF n
    <3> QED
      BY <2>2, <2>3, <3>1, <3>2, FrameIsOne
  <2> HIDE DEF f, n
  <2>5. /\ \A k \in DOMAIN wal : k \in DOMAIN wal' /\ wal'[k] = wal[k]
        /\ Len(wal) + 1 \in DOMAIN wal' /\ wal'[Len(wal) + 1] = f
    BY <1>a, <2>1, <2>4, AppendProperties
  <2>6. \A id : Backed(wal, id) => Backed(wal', id)
    BY <1>b, <2>5, StaysBacked
  <2>7. Backed(wal', todo'[1].id)
    BY <2>1, <2>4, <2>5 DEF Backed
  <2>8. WorkBacked'
    BY <2>1, <2>2, <2>7 DEF WorkBacked
  <2>9. RecordsBacked'
    BY <1>0, <2>1, <2>6 DEF RecordsBacked
  <2> QED
    BY <1>0, <2>1, <2>8, <2>9 DEF BackedInv, Numbered
<1>4. CASE RecordHistory
  <2>1. /\ mode = "publishing" /\ Head(todo).finished /\ mode' = "open" /\ UNCHANGED wal
        /\ hist' = Append(hist, [id |-> Head(todo).id, seq |-> Head(todo).seq])
    BY <1>4 DEF RecordHistory
  <2>2. todo # <<>>
    BY <1>0, <2>1 DEF TypeOK
  <2>3. Head(todo) \in Intent /\ Head(todo) = todo[1] /\ 1 \in DOMAIN todo
    BY <1>0, <2>2, HeadIntent
  <2>4. Backed(wal, Head(todo).id)
    BY <1>0, <2>1, <2>3 DEF WorkBacked
  <2>5. RecordsBacked'
    BY <1>0, <2>1, <2>3, <2>4, Recorded DEF RecordsBacked, Backed
  <2>6. Numbered'
    BY <1>0, <2>1, <2>3, NumberedRecord
  <2> QED
    BY <1>0, <2>1, <2>5, <2>6 DEF BackedInv
<1>5. CASE Start
  <2> DEFINE log == Truncated(wal)
  <2>1. /\ wal' = log /\ UNCHANGED hist
        /\ \/ mode' = "refused"
           \/ mode' = "recovering" /\ todo' = Transcript(log) /\ ~Corrupt(log)
    BY <1>5 DEF Start
  <2>2. /\ log \in Seq(FrameOf)
        /\ \A k \in DOMAIN wal : Complete(wal[k]) => k \in DOMAIN log
        /\ \A k \in DOMAIN log : Alike(log[k], wal[k])
    BY <1>a, TruncatedLog
  <2> HIDE DEF log
  <2>3. \A id : Backed(wal, id) => Backed(wal', id)
    BY <2>1, <2>2, StaysBacked
  <2>9. RecordsBacked'
    BY <1>0, <2>1, <2>3 DEF RecordsBacked
  <2>4. CASE mode' = "refused"
    BY <1>0, <2>1, <2>9, <2>4 DEF BackedInv, Numbered
  <2>5. CASE mode' = "recovering" /\ todo' = Transcript(log) /\ ~Corrupt(log)
    <3>1. /\ DOMAIN todo' = DOMAIN log
          /\ \A k \in DOMAIN log : todo'[k] = Read(log[k])
      BY <2>2, <2>5, TranscriptRead
    <3>2. \A k \in DOMAIN log : log[k].finished => Complete(log[k])
      BY <2>5 DEF Corrupt
    <3>4. ASSUME NEW k \in DOMAIN log
          PROVE  /\ todo'[k].whole => Backed(wal', todo'[k].id)
                 /\ todo'[k].finished => todo'[k].whole
      <4>1. todo'[k] = Read(log[k]) /\ wal'[k] = log[k] /\ k \in DOMAIN wal'
        BY <2>1, <3>1
      <4>2. /\ Read(log[k]).id = log[k].id
            /\ Read(log[k]).whole <=> Complete(log[k])
            /\ Read(log[k]).finished <=> log[k].finished
        BY <2>2, ReadBack
      <4>3. Complete(log[k]) => Backed(wal', log[k].id)
        BY <4>1, Zenon DEF Backed
      <4> QED
        BY <3>2, <4>1, <4>2, <4>3, Zenon
    <3>6. WorkBacked'
      BY <3>1, <3>4, Zenon DEF WorkBacked
    <3> QED
      BY <1>0, <2>1, <2>9, <2>5, <3>6 DEF BackedInv, Numbered
  <2> QED
    BY <2>1, <2>4, <2>5
<1>6. CASE Refuse
  <2>1. mode' = "refused" /\ UNCHANGED <<hist, wal>>
    BY <1>6 DEF Refuse, disk
  <2> QED
    BY <1>0, <2>1 DEF BackedInv, RecordsBacked, WorkBacked, Backed, Numbered
<1>7. CASE Abandon
  <2>1. mode = "recovering" /\ todo # <<>> /\ todo' = Tail(todo) /\ UNCHANGED <<mode, hist, wal>>
    BY <1>7 DEF Abandon, disk
  <2>2. \A i \in DOMAIN todo' : i + 1 \in DOMAIN todo /\ todo'[i] = todo[i + 1]
    BY <1>0, <2>1, HeadIntent
  <2>3. WorkBacked'
    BY <1>0, <2>1, <2>2 DEF WorkBacked, Backed
  <2> QED
    BY <1>0, <2>1, <2>3 DEF BackedInv, RecordsBacked, Backed, Numbered
<1>8. CASE RestoreHistory
  <2>1. /\ mode = "recovering" /\ todo # <<>> /\ todo' = Tail(todo) /\ UNCHANGED <<mode, wal>>
        /\ Head(todo).whole
        /\ \/ hist' = hist
           \/ hist' = Append(hist, [id |-> Head(todo).id, seq |-> Head(todo).seq])
    BY <1>8 DEF RestoreHistory, Working
  <2>2. /\ Head(todo) \in Intent /\ Head(todo) = todo[1] /\ 1 \in DOMAIN todo
        /\ \A i \in DOMAIN todo' : i + 1 \in DOMAIN todo /\ todo'[i] = todo[i + 1]
    BY <1>0, <2>1, HeadIntent
  <2>3. Backed(wal, Head(todo).id)
    BY <1>0, <2>1, <2>2 DEF WorkBacked
  <2>4. RecordsBacked' /\ Numbered'
    <3>1. CASE hist' = hist
      BY <1>0, <2>1, <3>1 DEF Numbered, RecordsBacked, Backed
    <3>2. CASE hist' = Append(hist, [id |-> Head(todo).id, seq |-> Head(todo).seq])
      <4>1. \A id : Backed(wal', id) <=> Backed(wal, id)
        BY <2>1 DEF Backed
      <4>2. /\ \A i \in DOMAIN hist : hist'[i] = hist[i]
            /\ hist'[Len(hist) + 1].id = Head(todo).id
            /\ \A i \in DOMAIN hist' : i \in DOMAIN hist \/ i = Len(hist) + 1
        BY <1>0, <2>2, <3>2, Recorded
      <4>3. RecordsBacked'
        BY <1>0, <2>3, <4>1, <4>2, Zenon DEF RecordsBacked
      <4> QED
        BY <1>0, <2>2, <3>2, <4>3, NumberedRecord
    <3> QED
      BY <2>1, <3>1, <3>2
  <2>5. WorkBacked'
    BY <1>0, <2>1, <2>2 DEF WorkBacked, Backed
  <2> QED
    BY <1>0, <2>1, <2>4, <2>5 DEF BackedInv
<1>9. CASE Open
  <2>1. mode' = "open" /\ UNCHANGED <<hist, wal>>
    BY <1>9 DEF Open
  <2> QED
    BY <1>0, <2>1 DEF BackedInv, RecordsBacked, WorkBacked, Backed, Numbered
<1>10. CASE ApplyOp
  <2>1. mode \in {"publishing", "recovering"} /\ UNCHANGED <<mode, todo, hist, wal>>
    BY <1>10 DEF ApplyOp, Working
  <2> QED
    BY <1>0, <2>1 DEF BackedInv, RecordsBacked, WorkBacked, Backed, Numbered
<1>11. CASE LogEnd
  <2>1. /\ mode \in {"publishing", "recovering"} /\ todo # <<>> /\ Head(todo).whole
        /\ wal' = WithEnd(wal, Head(todo).seq)
        /\ UNCHANGED <<mode, hist>>
    BY <1>11 DEF LogEnd, Working
  <2>2. /\ DOMAIN wal' = DOMAIN wal
        /\ \A k \in DOMAIN wal : Alike(wal'[k], wal[k])
    <3>1. /\ wal' \in Seq(FrameOf) /\ Len(wal') = Len(wal)
          /\ \A k \in DOMAIN wal : Alike(wal'[k], wal[k])
      BY <1>a, <2>1, WithEndLog
    <3> QED
      BY <1>a, <3>1
  <2>3. \A id : Backed(wal, id) => Backed(wal', id)
    BY <2>2, StaysBacked
  <2>4. Head(todo) = todo[1] /\ 1 \in DOMAIN todo /\ todo[1] \in Intent
    BY <1>0, <2>1, HeadIntent
  <2>5. /\ DOMAIN todo' = DOMAIN todo
        /\ todo'[1].id = todo[1].id /\ todo'[1].whole = todo[1].whole
        /\ \A i \in DOMAIN todo : i # 1 => todo'[i] = todo[i]
    <3> DEFINE f == [todo[1] EXCEPT !.finished = TRUE]
    <3>1. f \in Intent /\ f.id = todo[1].id /\ f.whole = todo[1].whole
      BY <2>4, IntentFields
    <3>2. todo' = [todo EXCEPT ![1] = f]
      BY <1>11 DEF LogEnd
    <3> HIDE DEF f
    <3>3. /\ Len(todo') = Len(todo) /\ todo' \in Seq(Intent)
          /\ \A i \in 1..Len(todo) : todo'[i] = IF i = 1 THEN f ELSE todo[i]
      BY <1>a, <2>4, <3>1, <3>2, ExceptSeq
    <3> QED
      BY <1>a, <2>4, <3>1, <3>3
  <2>6. WorkBacked'
    <3> SUFFICES ASSUME NEW i \in DOMAIN todo
                 PROVE  /\ todo'[i].whole => Backed(wal', todo'[i].id)
                        /\ todo'[i].finished => todo'[i].whole
      BY <2>5, Zenon DEF WorkBacked
    <3>1. CASE i = 1
      BY <1>0, <2>1, <2>3, <2>4, <2>5, <3>1, Zenon DEF WorkBacked
    <3>2. CASE i # 1
      BY <1>0, <2>1, <2>3, <2>5, <3>2, Zenon DEF WorkBacked
    <3> QED
      BY <3>1, <3>2
  <2>7. RecordsBacked'
    BY <1>0, <2>1, <2>3 DEF RecordsBacked
  <2> QED
    BY <1>0, <2>1, <2>6, <2>7 DEF BackedInv, Numbered
<1>12. CASE Crash \/ PowerLoss \/ IoError
  <2>1. /\ mode' \in {"closed", "open"} /\ UNCHANGED hist
        /\ wal' = wal \/ (mode = "logging" /\ TornAppend)
    BY <1>12 DEF Crash, PowerLoss, Stop, IoError
  <2>2. \A k \in DOMAIN wal : k \in DOMAIN wal' /\ wal'[k] = wal[k]
    BY <1>0, <2>1, TornAppendType
  <2>3. \A id : Backed(wal, id) => Backed(wal', id)
    BY <1>b, <2>2, StaysBacked
  <2>4. RecordsBacked'
    BY <1>0, <2>1, <2>3 DEF RecordsBacked
  <2> QED
    BY <1>0, <2>1, <2>4 DEF BackedInv, Numbered
<1>13. CASE UNCHANGED vars
  <2>1. UNCHANGED <<mode, todo, hist, wal>>
    BY <1>13 DEF vars, disk, session
  <2> QED
    BY <1>0, <2>1 DEF BackedInv, RecordsBacked, WorkBacked, Planned, Backed, Numbered
<1> QED
  BY <1>1, <1>2, <1>3, <1>4, <1>5, <1>6, <1>7, <1>8, <1>9, <1>10, <1>11,
     <1>12, <1>13 DEF Next, Recovery

\* A new session with an empty log.
LEMMA BackedInit ==
    ASSUME Init
    PROVE  BackedInv
<1>1. seed \in Tree /\ seed \in [Paths -> Entry]
  BY TreesAssumption DEF Init, Tree
<1>2. asked \in [Transactions \union {0} -> Tree \union {Gone}]
  BY <1>1 DEF Init
<1>3. snap \in [Transactions -> Tree \union {Gone}]
  BY DEF Init
<1>4. TypeOK
  BY <1>1, <1>2, <1>3, BoundsAssumption DEF Init, TypeOK
<1> QED
  BY <1>4 DEF Init, BackedInv, RecordsBacked, Numbered

-----------------------------------------------------------------------------
(* The theorems that hold under every fault.                               *)

\* The log, the history, the session and the tree have their types whatever
\* fails (commit.rs, wal.rs, history.rs).
THEOREM CommitLogTyped == Spec => []TypeOK
<1>1. BackedInv /\ [Next]_vars => BackedInv'
  BY BackedStep
<1>2. BackedInv => TypeOK
  BY DEF BackedInv
<1> QED
  BY <1>1, <1>2, BackedInit, PTL DEF Spec

\* Whatever fails, the history, which the policy inherits, names only commands
\* whose intent is durable as a whole: recover abandons a prefix.
THEOREM HistoryIsBacked == Spec => []HistoryBacked
<1>1. BackedInv /\ [Next]_vars => BackedInv'
  BY BackedStep
<1>2. BackedInv => HistoryBacked
  BY DEF BackedInv, RecordsBacked, Backed, Complete, HistoryBacked
<1> QED
  BY <1>1, <1>2, BackedInit, PTL DEF Spec

-----------------------------------------------------------------------------
(* What crashes leave on disk.                                             *)

\* The log and the history as sequences of records.
LEMMA LogFacts ==
    ASSUME TypeOK
    PROVE  /\ wal \in Seq(FrameOf) /\ Len(wal) \in Nat /\ DOMAIN wal = 1..Len(wal)
           /\ \A k \in DOMAIN wal :
                 /\ wal[k] \in FrameOf /\ wal[k].id \in Transactions
                 /\ wal[k].seq \in Nat \ {0} /\ wal[k].finished \in BOOLEAN
           /\ wal # <<>> => Len(wal) \in DOMAIN wal /\ Last(wal) = wal[Len(wal)]
           /\ Len(hist) \in Nat /\ DOMAIN hist = 1..Len(hist)
           /\ \A i \in DOMAIN hist : hist[i].id \in Transactions /\ hist[i].seq \in Nat \ {0}
           /\ hist # <<>> => Len(hist) \in DOMAIN hist /\ Last(hist) = hist[Len(hist)]
           /\ 0 \notin Transactions
<1> DEFINE R == [id : Transactions, seq : Nat \ {0}]
<1>1. wal \in Seq(FrameOf) /\ hist \in Seq(R)
  BY DEF TypeOK
<1>2. \A r \in R : r.id \in Transactions /\ r.seq \in Nat \ {0}
  OBVIOUS
<1> HIDE DEF R
<1>3. /\ Len(wal) \in Nat /\ DOMAIN wal = 1..Len(wal)
      /\ \A k \in DOMAIN wal : wal[k] \in FrameOf
      /\ wal # <<>> => Len(wal) \in DOMAIN wal /\ Last(wal) = wal[Len(wal)]
  BY <1>1, EmptySeq DEF Last
<1>4. /\ Len(hist) \in Nat /\ DOMAIN hist = 1..Len(hist)
      /\ \A i \in DOMAIN hist : hist[i] \in R
      /\ hist # <<>> => Len(hist) \in DOMAIN hist /\ Last(hist) = hist[Len(hist)]
  BY <1>1, EmptySeq DEF Last
<1>5. 0 \notin Transactions
  BY BoundsAssumption
<1> QED
  BY <1>1, <1>2, <1>3, <1>4, <1>5, FrameFields

\* A durable intent is the last of the log or finished and recorded, and the
\* history names it if and only if it has its number.
LEMMA DurableFrames ==
    ASSUME TypeOK, FramesInv, HistInv, NEW k \in DOMAIN wal, Complete(wal[k])
    PROVE  /\ k = Len(wal) \/ (wal[k].finished /\ Remembered(wal[k].seq))
           /\ Remembered(wal[k].seq) => wal[k].finished
           /\ Remembered(wal[k].seq) <=> \E i \in DOMAIN hist : hist[i].id = wal[k].id
           /\ \A l \in DOMAIN wal : wal[l].seq = wal[k].seq => l <= k
<1>1. \A j, l \in DOMAIN wal : j < l \/ l < j \/ j = l
  BY LogFacts
<1>2. k = Len(wal) \/ (wal[k].finished /\ Remembered(wal[k].seq))
  BY LogFacts DEF FramesInv
<1>3. \A j, l \in DOMAIN wal : /\ wal[j].id = wal[l].id => j = l
                               /\ Complete(wal[j]) /\ j < l => wal[j].seq < wal[l].seq
  BY <1>1 DEF FramesInv
<1>4. \A l \in DOMAIN wal : wal[l].seq \in Nat
  BY LogFacts
<1>5. \A l \in DOMAIN wal : Complete(wal[l]) /\ wal[l].seq = wal[k].seq => l = k
  BY <1>1, <1>3, <1>4
<1>6. \A l \in DOMAIN wal : wal[l].seq = wal[k].seq => l <= k
  BY <1>1, <1>3, <1>4, LogFacts
<1>7. ASSUME Remembered(wal[k].seq)
      PROVE  wal[k].finished /\ \E i \in DOMAIN hist : hist[i].id = wal[k].id
  <2>1. PICK i \in DOMAIN hist : hist[i].seq = wal[k].seq
    BY <1>7 DEF Remembered
  <2>2. PICK l \in DOMAIN wal : /\ wal[l].id = hist[i].id /\ wal[l].seq = hist[i].seq
                                /\ Complete(wal[l]) /\ wal[l].finished
    BY DEF HistInv
  <2>3. l = k
    BY <1>5, <2>1, <2>2
  <2> QED
    BY <2>2, <2>3
<1>8. ASSUME NEW i \in DOMAIN hist, hist[i].id = wal[k].id
      PROVE  Remembered(wal[k].seq)
  <2>1. PICK l \in DOMAIN wal : wal[l].id = hist[i].id /\ wal[l].seq = hist[i].seq
    BY DEF HistInv
  <2>2. l = k
    BY <1>3, <1>8, <2>1
  <2> QED
    BY <2>1, <2>2 DEF Remembered
<1> QED
  BY <1>2, <1>6, <1>7, <1>8

\* The last record has the greatest number, and every record has its tree.
LEMMA LastRecord ==
    ASSUME TypeOK, DiskInv
    PROVE  /\ Number \in Nat /\ \A i \in DOMAIN hist : hist[i].seq <= Number
           /\ Base \in Tree /\ Base \in [Paths -> Entry]
           /\ \A i \in DOMAIN hist : asked[hist[i].id] \in Tree
           /\ \A k \in DOMAIN wal : wal[k].seq <= Number + 1
           /\ \A k \in DOMAIN wal : asked[wal[k].id] \in Tree
<1>1. \A i \in DOMAIN hist : hist[i].seq <= Number
  BY LogFacts DEF Number, DiskInv, HistInv
<1>2. Number \in Nat
  BY LogFacts DEF Number
<1>3. \A k \in DOMAIN wal : asked[wal[k].id] \in Tree
  <2>1. \A t \in Transactions : asked[t] \in Tree \union {Gone}
    BY DEF TypeOK
  <2> QED
    BY <2>1, LogFacts DEF DiskInv, FramesInv
<1>4. \A i \in DOMAIN hist : asked[hist[i].id] \in Tree
  BY <1>3 DEF DiskInv, HistInv
<1>5. \A k \in DOMAIN wal : wal[k].seq <= Number + 1
  BY <1>1, <1>2, LogFacts DEF DiskInv, FramesInv
<1>6. Base \in Tree
  BY <1>4, LogFacts DEF Base, DiskInv, SeedInv
<1> QED
  BY <1>1, <1>2, <1>3, <1>4, <1>5, <1>6 DEF Tree

\* A durable intent without a record is the last frame and the newest.
LEMMA OutstandingFacts ==
    ASSUME TypeOK, DiskInv, Outstanding
    PROVE  /\ Len(wal) \in DOMAIN wal /\ Last(wal) = wal[Len(wal)] /\ Complete(Last(wal))
           /\ Last(wal).id \in Transactions /\ Last(wal).seq \in Nat \ {0}
           /\ Target \in Tree /\ Target \in [Paths -> Entry]
           /\ \A i \in DOMAIN hist : hist[i].seq < Last(wal).seq /\ hist[i].id # Last(wal).id
<1>1. /\ Len(wal) \in DOMAIN wal /\ Last(wal) = wal[Len(wal)] /\ Complete(Last(wal))
      /\ ~Remembered(Last(wal).seq)
  BY LogFacts DEF Outstanding
<1>2. Last(wal).id \in Transactions /\ Last(wal).seq \in Nat \ {0}
  BY <1>1, LogFacts
<1>3. Target \in Tree
  BY <1>1, LastRecord DEF Target
<1>4. ASSUME NEW i \in DOMAIN hist
      PROVE  hist[i].seq < Last(wal).seq /\ hist[i].id # Last(wal).id
  <2>1. PICK k \in DOMAIN wal : /\ wal[k].id = hist[i].id /\ wal[k].seq = hist[i].seq
                                /\ Complete(wal[k])
    BY DEF DiskInv, HistInv
  <2>2. wal[k].seq # Last(wal).seq
    BY <1>1, <2>1 DEF Remembered
  <2>3. k < Len(wal)
    BY <1>1, <2>2, LogFacts
  <2> QED
    BY <1>1, <2>1, <2>3 DEF DiskInv, FramesInv
<1> QED
  BY <1>1, <1>2, <1>3, <1>4 DEF Tree

\* One record of an intent, applied from the snapshot or found applied: its
\* path has what the version holds there, and what lies beneath it is gone
\* (apply_record).
LEMMA AppliedAt ==
    ASSUME TypeOK, NEW t \in Transactions, NEW o \in Operation, NEW to \in Tree,
           o.to = to[o.path], snap[t] \in {to, Gone}, CanApply(t, o)
    PROVE  /\ Applied(t, o)[o.path] = to[o.path]
           /\ \A y \in Paths : y # o.path =>
                 \/ Applied(t, o)[y] = seed[y]
                 \/ Applied(t, o)[y] = Absent /\ <<y, o.path>> \in Under
<1> DEFINE x == o.path
<1>1. x \in Paths /\ seed \in [Paths -> Entry] /\ to \in [Paths -> Entry]
  BY DEF Operation, TypeOK, Tree
<1>2. \A y \in Beneath(x) : y = x \/ <<y, x>> \in Under
  BY PathsAssumption DEF Beneath
<1>3. x \in Beneath(x)
  BY DEF Beneath
<1>4. /\ Without(seed, x) = [y \in Paths |-> IF y \in Beneath(x) THEN Absent ELSE seed[y]]
      /\ Without(seed, x)[x] = Absent
      /\ \A y \in Paths : y # x =>
            \/ Without(seed, x)[y] = seed[y]
            \/ Without(seed, x)[y] = Absent /\ <<y, x>> \in Under
  BY <1>1, <1>2, <1>3 DEF Without
<1> HIDE DEF x
<1>5. CASE o.to = Absent
  BY <1>4, <1>5 DEF Applied, x
<1>6. CASE o.to # Absent /\ SourceOf(t, x) = Absent
  <2>1. seed[x] = o.to
    BY <1>6 DEF CanApply, CanWrite, x
  <2> QED
    BY <1>6, <2>1 DEF Applied, x
<1>7. CASE o.to # Absent /\ SourceOf(t, x) # Absent
  <2>1. SourceOf(t, x) = to[x]
    BY <1>7 DEF SourceOf
  <2>2. Applied(t, o) = [Without(seed, x) EXCEPT ![x] = to[x]]
    BY <1>7, <2>1 DEF Applied, x
  <2> HIDE DEF x
  <2>3. /\ Applied(t, o)[x] = to[x]
        /\ \A y \in Paths : y # x => Applied(t, o)[y] = Without(seed, x)[y]
    BY <1>1, <1>4, <2>2
  <2> QED
    BY <1>4, <2>3 DEF x
<1> QED
  BY <1>5, <1>6, <1>7

\* The version an intent starts from and the one it makes differ at the paths
\* of its operations, and each of these says what the second holds.
LEMMA Intended ==
    ASSUME TypeOK, DiskInv, Outstanding
    PROVE  /\ Last(wal).ops \in Seq(Operation)
           /\ \A i \in DOMAIN Last(wal).ops :
                 /\ Last(wal).ops[i] \in Operation /\ Last(wal).ops[i].path \in Paths
                 /\ Last(wal).ops[i].to = Target[Last(wal).ops[i].path]
                 /\ Base[Last(wal).ops[i].path] # Target[Last(wal).ops[i].path]
           /\ \A x \in Paths : Base[x] # Target[x] =>
                 \E i \in DOMAIN Last(wal).ops : Last(wal).ops[i].path = x
           /\ \A i, j \in DOMAIN Last(wal).ops :
                 i < j /\ Removes(Last(wal).ops[j]) => Removes(Last(wal).ops[i])
<1>1. /\ Base \in [Paths -> Entry] /\ Target \in [Paths -> Entry]
      /\ Last(wal).ops \in Diff(Base, Target)
  BY LastRecord, OutstandingFacts DEF DiskInv, SeedInv
<1> DEFINE ops == Last(wal).ops
<1>2. /\ ops \in Seq(Operation)
      /\ \A i \in DOMAIN ops : /\ ops[i].to = Target[ops[i].path]
                               /\ Base[ops[i].path] # Target[ops[i].path]
      /\ \A x \in Paths : Base[x] # Target[x] => \E i \in DOMAIN ops : ops[i].path = x
      /\ \A i, j \in DOMAIN ops : i < j /\ Removes(ops[j]) => Removes(ops[i])
  <2> HIDE DEF ops
  <2>1. ops \in Diff(Base, Target)
    BY <1>1 DEF ops
  <2> QED
    BY <1>1, <2>1, DiffOps
<1> HIDE DEF ops
<1>3. \A i \in DOMAIN ops : ops[i] \in Operation
  BY <1>2
<1>4. \A i \in DOMAIN ops : ops[i].path \in Paths
  BY <1>3 DEF Operation
<1> QED
  BY <1>2, <1>3, <1>4 DEF ops

\* One operation of an outstanding intent: it undoes none of those before it
\* and nothing that both versions agree on (apply, for the order of diff_trees).
LEMMA CarryOut ==
    ASSUME TypeOK, DiskInv, Outstanding, ~Last(wal).finished,
           NEW n \in DOMAIN Last(wal).ops,
           \A i \in DOMAIN Last(wal).ops : i < n =>
               seed[Last(wal).ops[i].path] = Last(wal).ops[i].to,
           snap[Last(wal).id] \in {Target, Gone},
           CanApply(Last(wal).id, Last(wal).ops[n]),
           seed' = Applied(Last(wal).id, Last(wal).ops[n]),
           UNCHANGED <<wal, hist, asked>>
    PROVE  /\ DiskInv'
           /\ \A i \in DOMAIN Last(wal).ops : i < n + 1 =>
                  seed'[Last(wal).ops[i].path] = Last(wal).ops[i].to
<1> DEFINE ops == Last(wal).ops
           x == ops[n].path
<1>1. /\ Base \in Tree /\ Target \in Tree /\ Last(wal).id \in Transactions
      /\ \A y \in Paths : Base[y] = Target[y] => seed[y] = Target[y]
      /\ Outstanding /\ ~Last(wal).finished
  BY LastRecord, OutstandingFacts DEF DiskInv, SeedInv
<1>2. /\ \A i \in DOMAIN ops : /\ ops[i] \in Operation /\ ops[i].path \in Paths
                               /\ ops[i].to = Target[ops[i].path]
                               /\ Base[ops[i].path] # Target[ops[i].path]
      /\ \A i, j \in DOMAIN ops : i < j /\ Removes(ops[j]) => Removes(ops[i])
      /\ \A i \in DOMAIN ops : i \in Nat
  BY Intended
<1>3. /\ seed'[x] = Target[x]
      /\ \A y \in Paths : y # x => \/ seed'[y] = seed[y]
                                   \/ seed'[y] = Absent /\ <<y, x>> \in Under
  <2> DEFINE o == ops[n]
             t == Last(wal).id
  <2>1. o \in Operation /\ o.to = Target[o.path] /\ t \in Transactions
    BY <1>1, <1>2
  <2>2. snap[t] \in {Target, Gone} /\ CanApply(t, o) /\ seed' = Applied(t, o)
    OBVIOUS
  <2> HIDE DEF o, t
  <2>3. /\ Applied(t, o)[o.path] = Target[o.path]
        /\ \A y \in Paths : y # o.path =>
              \/ Applied(t, o)[y] = seed[y]
              \/ Applied(t, o)[y] = Absent /\ <<y, o.path>> \in Under
    BY <1>1, <2>1, <2>2, AppliedAt
  <2> QED
    BY <2>2, <2>3 DEF o
<1> HIDE DEF ops, x
<1>4. x \in Paths /\ Base[x] # Target[x] /\ ops[n].to = Target[x]
  BY <1>2 DEF x, ops
<1>5. \A y \in Paths : <<y, x>> \in Under =>
         /\ Base[x] # Absent => Base[y] = Absent
         /\ Target[x] # Absent => Target[y] = Absent
  BY <1>1 DEF Tree
<1>6. \A y \in Paths : Base[y] = Target[y] => seed'[y] = Target[y]
  BY <1>1, <1>3, <1>4, <1>5
<1>7. \A i \in DOMAIN ops : i < n + 1 => seed'[ops[i].path] = ops[i].to
  <2> SUFFICES ASSUME NEW i \in DOMAIN ops, i < n + 1
               PROVE  seed'[ops[i].path] = ops[i].to
    OBVIOUS
  <2> DEFINE y == ops[i].path
  <2>1. y \in Paths /\ ops[i].to = Target[y]
    BY <1>2
  <2>2. CASE y = x
    BY <1>3, <2>1, <2>2
  <2>3. CASE y # x
    <3>1. i < n
      <4>1. i # n
        BY <2>3 DEF x
      <4>2. n \in Nat /\ i \in Nat
        BY <1>2 DEF ops
      <4> QED
        BY <4>1, <4>2
    <3>2. seed[y] = ops[i].to
      BY <3>1 DEF ops
    <3>3. CASE seed'[y] = seed[y]
      BY <3>2, <3>3
    <3>4. CASE seed'[y] = Absent /\ <<y, x>> \in Under
      <4>1. CASE Target[x] = Absent
        <5>1. Removes(ops[n])
          BY <1>4, <4>1 DEF Removes
        <5>2. Removes(ops[i])
          BY <1>2, <3>1, <5>1 DEF ops
        <5> QED
          BY <3>4, <5>2 DEF Removes
      <4>2. CASE Target[x] # Absent
        BY <1>5, <2>1, <3>4, <4>2
      <4> QED
        BY <4>1, <4>2
    <3> QED
      BY <1>3, <2>1, <2>3, <3>3, <3>4
  <2> QED
    BY <2>2, <2>3
<1>8. SeedInv'
  BY <1>1, <1>6 DEF DiskInv, SeedInv, Base, Target, Outstanding, Remembered
<1>9. FramesInv' /\ HistInv'
  BY DEF DiskInv, FramesInv, HistInv, Remembered
<1> QED
  BY <1>7, <1>8, <1>9 DEF DiskInv, ops

\* When every operation has been carried out the seed is the version intended.
LEMMA CarriedOutWhole ==
    ASSUME TypeOK, DiskInv, Outstanding,
           \A i \in DOMAIN Last(wal).ops : seed[Last(wal).ops[i].path] = Last(wal).ops[i].to
    PROVE  seed = Target
<1>1. /\ seed \in [Paths -> Entry] /\ Target \in [Paths -> Entry]
      /\ \A x \in Paths : Base[x] = Target[x] => seed[x] = Target[x]
  BY OutstandingFacts DEF TypeOK, DiskInv, SeedInv
<1>2. \A x \in Paths : seed[x] = Target[x]
  BY <1>1, Intended
<1> QED
  BY <1>1, <1>2

\* A command is granted: its tree is asked for, the disk is as it was.
LEMMA GrantOnDisk ==
    ASSUME TypeOK, DiskInv, ~Outstanding, NEW t \in Transactions, asked[t] = Gone,
           NEW result \in Tree, asked' = [asked EXCEPT ![t] = result],
           UNCHANGED <<seed, wal, hist>>
    PROVE  DiskInv' /\ ~Outstanding' /\ Number' = Number
<1>1. \A u \in Transactions \union {0} : u # t => asked'[u] = asked[u]
  BY DEF TypeOK
<1>2. asked'[t] = result /\ result # Gone
  BY GoneAssumption DEF TypeOK
<1>3. \A k \in DOMAIN wal : wal[k].id \in Transactions /\ wal[k].id # t
  BY LogFacts DEF DiskInv, FramesInv
<1>4. FramesInv'
  BY <1>1, <1>3 DEF DiskInv, FramesInv, Remembered
<1>5. HistInv'
  BY DEF DiskInv, HistInv
<1>6. \A i \in DOMAIN hist : hist[i].id # t /\ hist[i].id \in Transactions
  BY <1>3 DEF DiskInv, HistInv
<1>7. Base' = Base /\ asked'[0] = asked[0]
  <2>1. 0 # t /\ 0 \in Transactions \union {0}
    BY LogFacts
  <2> QED
    BY <1>1, <1>6, <2>1, LogFacts DEF Base
<1>8. ~Outstanding'
  BY DEF Outstanding, Remembered
<1>9. SeedInv'
  BY <1>7, <1>8 DEF DiskInv, SeedInv
<1> QED
  BY <1>4, <1>5, <1>8, <1>9 DEF DiskInv, Number

\* An intent is appended, whole or as far as a crash lets it (Wal::begin): once
\* it is whole it is outstanding, before that the disk says what it said.
LEMMA AppendIntent ==
    ASSUME TypeOK, DiskInv, ~Outstanding, Ready, seq = Number,
           \A k \in DOMAIN wal : ~wal[k].torn,
           NEW f \in FrameOf, f.id = todo[1].id, f.seq = todo[1].seq, f.ops = todo[1].ops,
           ~f.finished, f.torn => ~Complete(f),
           wal' = Append(wal, f), UNCHANGED <<seed, hist, asked>>
    PROVE  /\ DiskInv'
           /\ Outstanding' <=> Complete(f)
           /\ Len(wal') = Len(wal) + 1 /\ wal'[Len(wal) + 1] = f
           /\ Last(wal') = f
           /\ \A k \in DOMAIN wal : k \in DOMAIN wal' /\ wal'[k] = wal[k]
<1> DEFINE n == Len(wal) + 1
<1>1. /\ wal' \in Seq(FrameOf) /\ Len(wal') = n /\ wal'[n] = f /\ DOMAIN wal' = 1..n
      /\ DOMAIN wal = 1..Len(wal) /\ Len(wal) \in Nat /\ wal' # <<>>
      /\ \A k \in DOMAIN wal : k \in DOMAIN wal' /\ wal'[k] = wal[k] /\ k < n
      /\ \A k \in DOMAIN wal' : k \in DOMAIN wal \/ k = n
  BY LogFacts, AppendProperties
<1>2. Last(wal') = f
  BY <1>1 DEF Last
<1>3. /\ f.seq = Number + 1 /\ Number \in Nat
      /\ asked[f.id] # Gone /\ f.ops \in Diff(seed, asked[f.id])
      /\ \A k \in DOMAIN wal : wal[k].id # f.id
  BY LastRecord DEF Ready
<1>4. \A i \in DOMAIN hist : hist[i].seq <= Number /\ hist[i].seq \in Nat
  BY LastRecord, LogFacts
<1>5. f.seq = 1 \/ \E i \in DOMAIN hist : f.seq <= hist[i].seq + 1
  BY <1>3, LogFacts DEF Number
<1>6. ASSUME NEW k \in DOMAIN wal, Complete(wal[k])
      PROVE  wal[k].seq < f.seq /\ wal[k].finished /\ Remembered(wal[k].seq)
  <2>1. Remembered(wal[k].seq)
    <3>1. CASE k = Len(wal)
      BY <1>6, <3>1, LogFacts, EmptySeq DEF Outstanding
    <3>2. CASE k # Len(wal)
      BY <1>6, <3>2, DurableFrames DEF DiskInv
    <3> QED
      BY <3>1, <3>2
  <2>2. wal[k].finished
    BY <1>6, <2>1, DurableFrames DEF DiskInv
  <2>3. wal[k].seq <= Number /\ wal[k].seq \in Nat
    BY <1>4, <2>1, LogFacts DEF Remembered
  <2> QED
    BY <1>3, <2>1, <2>2, <2>3
<1>7. \A k \in DOMAIN wal : wal[k].seq <= f.seq
  BY <1>3, LastRecord
<1> HIDE DEF n
<1>8. FramesInv'
  <2>1. ASSUME NEW k \in DOMAIN wal'
        PROVE  /\ asked[wal'[k].id] # Gone
               /\ wal'[k].finished => Complete(wal'[k])
               /\ wal'[k].torn => k = n /\ ~Complete(wal'[k])
               /\ wal'[k].seq = 1 \/ \E i \in DOMAIN hist : wal'[k].seq <= hist[i].seq + 1
    <3>1. CASE k \in DOMAIN wal
      BY <1>1, <3>1 DEF DiskInv, FramesInv
    <3>2. CASE k = n
      BY <1>1, <1>3, <1>5, <3>2
    <3> QED
      BY <1>1, <3>1, <3>2
  <2>2. ASSUME NEW k \in DOMAIN wal', NEW l \in DOMAIN wal', k < l
        PROVE  /\ wal'[k].id # wal'[l].id
               /\ wal'[k].seq <= wal'[l].seq
               /\ Complete(wal'[k]) => /\ wal'[k].seq < wal'[l].seq
                                       /\ wal'[k].finished
                                       /\ Remembered(wal'[k].seq)
    <3>1. CASE l \in DOMAIN wal
      <4>1. k \in DOMAIN wal
        BY <1>1, <2>2, <3>1
      <4> QED
        BY <1>1, <2>2, <3>1, <4>1 DEF DiskInv, FramesInv
    <3>2. CASE l = n
      <4>1. k \in DOMAIN wal
        BY <1>1, <2>2, <3>2
      <4> QED
        BY <1>1, <1>3, <1>6, <1>7, <3>2, <4>1
    <3> QED
      BY <1>1, <3>1, <3>2
  <2> QED
    BY <1>1, <2>1, <2>2 DEF FramesInv, Remembered
<1>9. HistInv'
  BY <1>1 DEF DiskInv, HistInv
<1>10. ~Remembered(f.seq)
  BY <1>3, <1>4 DEF Remembered
<1>11. Outstanding' <=> Complete(f)
  BY <1>1, <1>2, <1>10 DEF Outstanding, Remembered
<1>12. SeedInv'
  <2>1. seed = Base /\ asked[0] \in Tree
    BY DEF DiskInv, SeedInv
  <2>2. Base' = Base /\ Target' = asked[f.id]
    BY <1>2 DEF Base, Target
  <2> QED
    BY <1>2, <1>3, <1>11, <2>1, <2>2 DEF SeedInv
<1> QED
  BY <1>1, <1>2, <1>8, <1>9, <1>11, <1>12 DEF DiskInv, n

\* An End closes the outstanding intent: it is the last that was begun.
LEMMA EndLast ==
    ASSUME TypeOK, DiskInv, Outstanding, seed = Target,
           wal' = WithEnd(wal, Last(wal).seq), UNCHANGED <<seed, hist, asked>>
    PROVE  /\ DiskInv' /\ Outstanding'
           /\ Len(wal') = Len(wal) /\ DOMAIN wal' = DOMAIN wal
           /\ \A k \in DOMAIN wal : /\ Alike(wal'[k], wal[k]) /\ wal'[k].torn = wal[k].torn
                                    /\ wal'[k].finished <=> wal[k].finished \/ k = Len(wal)
<1> DEFINE n == Len(wal)
           S == {j \in DOMAIN wal : wal[j].seq = Last(wal).seq}
<1>1. n \in S /\ \A j \in S : n >= j
  BY OutstandingFacts, LogFacts
<1>2. \A j \in S : j \in Nat
  BY LogFacts
<1>3. n \in DOMAIN wal /\ Last(wal) = wal[n] /\ Complete(Last(wal))
  BY OutstandingFacts
<1> HIDE DEF S
<1>4. Max(S) = n
  <2>1. Max(S) \in S /\ \A j \in S : Max(S) >= j
    BY <1>1 DEF Max
  <2> HIDE DEF n
  <2> QED
    BY <1>1, <1>2, <2>1
<1>5. /\ wal' \in Seq(FrameOf) /\ Len(wal') = n
      /\ \A k \in DOMAIN wal : /\ Alike(wal'[k], wal[k]) /\ wal'[k].torn = wal[k].torn
                               /\ wal'[k].finished <=> wal[k].finished \/ k = n
  BY <1>4, LogFacts, WithEndLog DEF S
<1>6. DOMAIN wal' = DOMAIN wal
  BY <1>5, LogFacts
<1> HIDE DEF n
<1>7. \A k \in DOMAIN wal : /\ wal'[k].id = wal[k].id /\ wal'[k].seq = wal[k].seq
                            /\ wal'[k].ops = wal[k].ops
                            /\ Complete(wal'[k]) <=> Complete(wal[k])
  BY <1>5 DEF Alike, Complete
<1>8. FramesInv'
  <2>1. ASSUME NEW k \in DOMAIN wal
        PROVE  /\ asked[wal'[k].id] # Gone
               /\ wal'[k].finished => Complete(wal'[k])
               /\ wal'[k].torn => k = n /\ ~Complete(wal'[k])
               /\ wal'[k].seq = 1 \/ \E i \in DOMAIN hist : wal'[k].seq <= hist[i].seq + 1
    BY <1>3, <1>5, <1>7 DEF DiskInv, FramesInv, n
  <2>2. ASSUME NEW k \in DOMAIN wal, NEW l \in DOMAIN wal, k < l
        PROVE  /\ wal'[k].id # wal'[l].id
               /\ wal'[k].seq <= wal'[l].seq
               /\ Complete(wal'[k]) => /\ wal'[k].seq < wal'[l].seq
                                       /\ wal'[k].finished
                                       /\ Remembered(wal'[k].seq)
    BY <1>5, <1>7, <2>2 DEF DiskInv, FramesInv
  <2> QED
    BY <1>5, <1>6, <2>1, <2>2 DEF FramesInv, Remembered
<1>9. HistInv'
  BY <1>5, <1>6, <1>7 DEF DiskInv, HistInv
<1>10. Last(wal') = wal'[n] /\ wal' # <<>>
  <2>1. n \in DOMAIN wal'
    BY <1>3, <1>6
  <2> QED
    BY <1>5, <2>1, LogFacts DEF Last
<1>11. Outstanding' /\ Base' = Base /\ Target' = Target
  BY <1>3, <1>7, <1>10 DEF Outstanding, Remembered, Base, Target
<1>12. SeedInv'
  BY <1>3, <1>7, <1>10, <1>11 DEF DiskInv, SeedInv
<1> QED
  BY <1>5, <1>6, <1>8, <1>9, <1>11, <1>12 DEF DiskInv, n

\* The outstanding intent is recorded (History::append): its version becomes the
\* last recorded one.
LEMMA RecordLast ==
    ASSUME TypeOK, DiskInv, Outstanding, Last(wal).finished,
           NEW tx \in Intent, tx.id = Last(wal).id, tx.seq = Last(wal).seq,
           hist' = Append(hist, [id |-> tx.id, seq |-> tx.seq]),
           UNCHANGED <<seed, wal, asked>>
    PROVE  /\ DiskInv' /\ ~Outstanding'
           /\ Number' = tx.seq
           /\ \A s : Remembered(s)' <=> Remembered(s) \/ s = tx.seq
<1> DEFINE n == Len(hist) + 1
<1>1. /\ Len(hist') = n /\ Len(hist) \in Nat
      /\ \A i \in DOMAIN hist : i \in DOMAIN hist' /\ hist'[i] = hist[i] /\ i < n
      /\ hist'[n].id = tx.id /\ hist'[n].seq = tx.seq
      /\ \A i \in DOMAIN hist' : i \in DOMAIN hist \/ i = n
      /\ n \in DOMAIN hist' /\ hist' # <<>> /\ Last(hist') = hist'[n]
  BY Recorded DEF Last
<1> HIDE DEF n
<1>2. /\ Len(wal) \in DOMAIN wal /\ Last(wal) = wal[Len(wal)] /\ Complete(Last(wal))
      /\ \A i \in DOMAIN hist : hist[i].seq < tx.seq
  BY OutstandingFacts
<1>3. \A s : Remembered(s)' <=> Remembered(s) \/ s = tx.seq
  BY <1>1 DEF Remembered
<1>4. FramesInv'
  <2>1. ASSUME NEW k \in DOMAIN wal
        PROVE  wal[k].seq = 1 \/ \E i \in DOMAIN hist' : wal[k].seq <= hist'[i].seq + 1
    BY <1>1 DEF DiskInv, FramesInv
  <2> QED
    BY <1>3, <2>1 DEF DiskInv, FramesInv
<1>5. HistInv'
  <2>1. ASSUME NEW i \in DOMAIN hist', NEW j \in DOMAIN hist', i < j
        PROVE  hist'[i].seq < hist'[j].seq
    <3>1. i \in DOMAIN hist
      BY <1>1, <2>1, LogFacts
    <3>2. CASE j = n
      BY <1>1, <1>2, <3>1, <3>2
    <3>3. CASE j \in DOMAIN hist
      BY <1>1, <2>1, <3>1, <3>3 DEF DiskInv, HistInv
    <3> QED
      BY <1>1, <3>2, <3>3
  <2>2. ASSUME NEW i \in DOMAIN hist'
        PROVE  \E k \in DOMAIN wal : /\ wal[k].id = hist'[i].id /\ wal[k].seq = hist'[i].seq
                                     /\ Complete(wal[k]) /\ wal[k].finished
    <3>1. CASE i = n
      BY <1>1, <1>2, <3>1
    <3>2. CASE i \in DOMAIN hist
      BY <1>1, <3>2 DEF DiskInv, HistInv
    <3> QED
      BY <1>1, <3>1, <3>2
  <2> QED
    BY <2>1, <2>2 DEF HistInv
<1>6. ~Outstanding'
  BY <1>3 DEF Outstanding
<1>7. SeedInv'
  <2>1. seed = Target /\ asked[0] \in Tree
    BY DEF DiskInv, SeedInv
  <2>2. Base' = asked[tx.id]
    BY <1>1 DEF Base
  <2> QED
    BY <1>6, <2>1, <2>2 DEF SeedInv, Target
<1>8. Number' = tx.seq
  BY <1>1 DEF Number
<1> QED
  BY <1>3, <1>4, <1>5, <1>6, <1>7, <1>8 DEF DiskInv

\* A durable intent survives the truncation of a torn line as it is: an
\* outstanding one is the last frame, and is not torn.
LEMMA DurableSurvives ==
    ASSUME TypeOK, DiskInv
    PROVE  /\ Outstanding => Log = wal
           /\ \A k \in DOMAIN wal : Complete(wal[k]) => k \in DOMAIN Log
           /\ \A k \in DOMAIN Log : /\ k \in DOMAIN wal /\ ~Log[k].torn
                                    /\ Alike(Log[k], wal[k])
                                    /\ Log[k].finished = wal[k].finished
                                    /\ Complete(Log[k]) <=> Complete(wal[k])
           /\ Log \in Seq(FrameOf) /\ Len(Log) <= Len(wal)
<1>1. /\ Log \in Seq(FrameOf) /\ Len(Log) <= Len(wal)
      /\ \A k \in DOMAIN wal : Complete(wal[k]) => k \in DOMAIN Log
      /\ \A k \in DOMAIN Log : /\ k \in DOMAIN wal
                               /\ Alike(Log[k], wal[k])
                               /\ Log[k].finished = wal[k].finished
                               /\ Log[k].torn => wal[k].torn /\ k # Len(wal)
  BY LogFacts, TruncatedLog DEF Log
<1>2. \A k \in DOMAIN Log : ~Log[k].torn
  BY <1>1 DEF DiskInv, FramesInv
<1>3. \A k \in DOMAIN Log : Complete(Log[k]) <=> Complete(wal[k])
  BY <1>1 DEF Alike, Complete
<1>4. Outstanding => Log = wal
  <2> SUFFICES ASSUME Outstanding PROVE Log = wal
    OBVIOUS
  <2>1. ~Last(wal).torn
    BY OutstandingFacts DEF DiskInv, FramesInv
  <2> QED
    BY <2>1 DEF Log, Truncated
<1> QED
  BY <1>1, <1>2, <1>3, <1>4

\* A start truncates the log and changes nothing that was durable.
LEMMA TruncateOnDisk ==
    ASSUME TypeOK, DiskInv, wal' = Log, UNCHANGED <<seed, hist, asked>>
    PROVE  /\ DiskInv'
           /\ Outstanding' <=> Outstanding
           /\ \A k \in DOMAIN wal' : ~wal'[k].torn
<1>1. /\ Outstanding => wal' = wal
      /\ \A k \in DOMAIN wal : Complete(wal[k]) => k \in DOMAIN wal'
      /\ \A k \in DOMAIN wal' : /\ k \in DOMAIN wal /\ ~wal'[k].torn
                                /\ Alike(wal'[k], wal[k])
                                /\ wal'[k].finished = wal[k].finished
                                /\ Complete(wal'[k]) <=> Complete(wal[k])
      /\ wal' \in Seq(FrameOf) /\ Len(wal') <= Len(wal)
  BY DurableSurvives
<1>2. \A k \in DOMAIN wal' : wal'[k].id = wal[k].id /\ wal'[k].seq = wal[k].seq
  BY <1>1 DEF Alike
<1>3. FramesInv'
  <2>1. ASSUME NEW k \in DOMAIN wal'
        PROVE  /\ asked[wal'[k].id] # Gone
               /\ wal'[k].finished => Complete(wal'[k])
               /\ wal'[k].seq = 1 \/ \E i \in DOMAIN hist : wal'[k].seq <= hist[i].seq + 1
    BY <1>1, <1>2 DEF DiskInv, FramesInv
  <2>2. ASSUME NEW k \in DOMAIN wal', NEW l \in DOMAIN wal', k < l
        PROVE  /\ wal'[k].id # wal'[l].id
               /\ wal'[k].seq <= wal'[l].seq
               /\ Complete(wal'[k]) => /\ wal'[k].seq < wal'[l].seq
                                       /\ wal'[k].finished
                                       /\ Remembered(wal'[k].seq)
    BY <1>1, <1>2, <2>2 DEF DiskInv, FramesInv
  <2> QED
    BY <1>1, <2>1, <2>2 DEF FramesInv, Remembered
<1>4. HistInv'
  BY <1>1, <1>2 DEF DiskInv, HistInv
<1>5. Outstanding' <=> Outstanding
  <2>1. ASSUME ~Outstanding, Outstanding' PROVE FALSE
    <3> DEFINE n == Len(wal')
    <3>1. n \in DOMAIN wal' /\ Last(wal') = wal'[n]
      BY <1>1, <2>1, EmptySeq DEF Last, Outstanding
    <3>2. n \in DOMAIN wal /\ Complete(wal[n]) /\ ~Remembered(wal[n].seq)
      BY <1>1, <1>2, <2>1, <3>1 DEF Outstanding, Remembered
    <3>3. n = Len(wal)
      BY <3>2, DurableFrames DEF DiskInv
    <3>4. wal # <<>> /\ Last(wal) = wal[n]
      BY <3>2, <3>3, LogFacts DEF Last
    <3> QED
      BY <2>1, <3>2, <3>4 DEF Outstanding
  <2>2. ASSUME Outstanding PROVE Outstanding'
    BY <1>1, <2>2 DEF Outstanding, Remembered
  <2> QED
    BY <2>1, <2>2
<1>6. SeedInv'
  <2>1. Base' = Base
    BY DEF Base
  <2>2. CASE Outstanding
    <3>1. wal' = wal
      BY <1>1, <2>2
    <3> QED
      BY <1>5, <2>1, <2>2, <3>1 DEF DiskInv, SeedInv, Target
  <2>3. CASE ~Outstanding
    BY <1>5, <2>1, <2>3 DEF DiskInv, SeedInv
  <2> QED
    BY <2>2, <2>3
<1> QED
  BY <1>1, <1>3, <1>4, <1>5, <1>6 DEF DiskInv

\* A step that leaves the disk and what was asked for alone.
LEMMA SameDisk ==
    ASSUME DiskInv, UNCHANGED <<seed, wal, hist, asked>>
    PROVE  DiskInv' /\ (Outstanding' <=> Outstanding) /\ Number' = Number
  BY DEF DiskInv, FramesInv, HistInv, SeedInv, Outstanding, Base, Target, Number, Remembered

-----------------------------------------------------------------------------
(* What crashes leave: every step.                                         *)

\* The work at hand is the end of the log, and what is not finished, or not in
\* the history, is its last frame.
LEMMA WorkHead ==
    ASSUME TypeOK, CrashInv, mode \in {"publishing", "recovering"}, todo # <<>>,
           NEW k, k = Len(wal) - Len(todo) + 1
    PROVE  /\ Head(todo) = todo[1] /\ Head(todo) \in Intent /\ 1 \in DOMAIN todo
           /\ k \in DOMAIN wal /\ Reads(Head(todo), wal[k], hist)
           /\ k = Len(wal) => wal[k] = Last(wal)
           /\ k = Len(wal) <=> Len(todo) = 1
           /\ Head(todo).whole /\ (~Head(todo).finished \/ ~Head(todo).remembered) =>
                 k = Len(wal) /\ Outstanding
           /\ k = Len(wal) /\ (~Head(todo).whole \/ Head(todo).remembered) => ~Outstanding
<1>1. /\ Head(todo) = todo[1] /\ Head(todo) \in Intent /\ 1 \in DOMAIN todo
      /\ Len(todo) \in Nat \ {0}
  BY HeadIntent
<1>2. /\ Len(todo) <= Len(wal)
      /\ \A i \in DOMAIN todo : Reads(todo[i], wal[Len(wal) - Len(todo) + i], hist)
  BY DEF CrashInv, SessionInv, AtWork
<1>3. k \in DOMAIN wal /\ (k = Len(wal) <=> Len(todo) = 1)
  <2>1. Len(wal) \in Nat /\ DOMAIN wal = 1..Len(wal)
    BY LogFacts
  <2> DEFINE n == Len(wal)
             m == Len(todo)
  <2>4. n \in Nat /\ m \in Nat \ {0} /\ m <= n /\ k = n - m + 1
    BY <1>1, <1>2, <2>1
  <2> HIDE DEF n, m
  <2>5. k \in 1..n /\ (k = n <=> m = 1)
    BY <2>4
  <2>2. k \in 1..Len(wal)
    BY <2>5 DEF n
  <2>3. k = Len(wal) <=> Len(todo) = 1
    BY <2>5 DEF n, m
  <2> QED
    BY <2>1, <2>2, <2>3
<1>4. Reads(Head(todo), wal[k], hist)
  BY <1>1, <1>2
<1>5. k = Len(wal) => wal[k] = Last(wal) /\ wal # <<>>
  BY <1>3, LogFacts, EmptySeq
<1>6. ASSUME Head(todo).whole, ~Head(todo).finished \/ ~Head(todo).remembered
      PROVE  k = Len(wal) /\ Outstanding
  <2>1. Complete(wal[k]) /\ (~wal[k].finished \/ ~Remembered(wal[k].seq))
    BY <1>4, <1>6, Zenon DEF Reads, Remembered
  <2>2. k = Len(wal) /\ ~Remembered(wal[k].seq)
    BY <1>3, <2>1, DurableFrames DEF CrashInv, DiskInv
  <2> QED
    BY <1>5, <2>1, <2>2 DEF Outstanding
<1>7. ASSUME k = Len(wal), ~Head(todo).whole \/ Head(todo).remembered
      PROVE  ~Outstanding
  <2>1. ~Complete(wal[k]) \/ Remembered(wal[k].seq)
    BY <1>4, <1>7, Zenon DEF Reads, Remembered
  <2> QED
    BY <1>5, <1>7, <2>1 DEF Outstanding
<1> QED
  BY <1>1, <1>3, <1>4, <1>5, <1>6, <1>7

\* Nothing is left after the last of the work.
LEMMA LastOfWork ==
    ASSUME TypeOK, todo # <<>>
    PROVE  Tail(todo) = <<>> <=> Len(todo) = 1
<1> DEFINE rest == Tail(todo)
           n == Len(todo)
<1>1. rest \in Seq(Intent) /\ Len(rest) = n - 1 /\ n \in Nat
  BY HeadIntent
<1> HIDE DEF rest, n
<1>2. Len(rest) = 0 <=> n = 1
  BY <1>1
<1>3. rest = <<>> <=> Len(rest) = 0
  BY <1>1, EmptySeq
<1> QED
  BY <1>2, <1>3 DEF rest, n

\* The head of the work at hand is dealt with: the rest of it is still what the
\* log says.
LEMMA Proceed ==
    ASSUME TypeOK, CrashInv, mode = "recovering", todo # <<>>, todo' = Tail(todo),
           UNCHANGED wal, todo' = <<>> => ~Outstanding',
           todo' # <<>> => UNCHANGED hist
    PROVE  AtWork'
<1>1. /\ \A i \in DOMAIN todo' : i + 1 \in DOMAIN todo /\ todo'[i] = todo[i + 1]
      /\ Len(todo') = Len(todo) - 1 /\ Len(todo) \in Nat /\ DOMAIN todo' = 1..Len(todo) - 1
  BY HeadIntent
<1>2. /\ Len(todo) <= Len(wal)
      /\ \A i \in DOMAIN todo : Reads(todo[i], wal[Len(wal) - Len(todo) + i], hist)
  BY DEF CrashInv, SessionInv, AtWork
<1>3. Len(todo') <= Len(wal')
  BY <1>1, <1>2, LogFacts
<1>4. ASSUME NEW i \in DOMAIN todo'
      PROVE  Reads(todo'[i], wal'[Len(wal') - Len(todo') + i], hist')
  <2>1. Len(wal) - Len(todo') + i = Len(wal) - Len(todo) + (i + 1)
    BY <1>1, LogFacts
  <2>2. hist' = hist
    BY <1>4, EmptySeq
  <2> QED
    BY <1>1, <1>2, <2>1, <2>2
<1> QED
  BY <1>3, <1>4 DEF AtWork

\* What a reader is entitled to: the version outstanding, or the one recorded,
\* and the commands it is made of.
View == IF Outstanding THEN Target ELSE Base
Published == Committed \o (IF Outstanding THEN <<Last(wal).id>> ELSE <<>>)

\* A step that changes neither what is outstanding nor what is recorded.
LEMMA SameView ==
    ASSUME UNCHANGED <<hist, asked>>, Outstanding' <=> Outstanding,
           Outstanding => Last(wal').id = Last(wal).id
    PROVE  UNCHANGED <<View, Published>>
  BY DEF View, Published, Base, Target, Committed

\* record_commit, granted: the intent is ready, the disk as it was.
LEMMA GrantStep ==
    ASSUME TypeOK, CrashInv, NEW t \in Transactions, NEW result \in CommandTrees,
           Grant(t, result)
    PROVE  CrashInv' /\ UNCHANGED <<View, Published>>
<1>1. result \in Tree /\ result # Gone
  BY TreesAssumption, GoneAssumption
<1>2. PICK ops \in Diff(seed, result) :
         todo' = <<[id |-> t, seq |-> seq + 1, ops |-> ops, whole |-> TRUE,
                    finished |-> FALSE, remembered |-> FALSE]>>
  BY DEF Grant
<1>3. /\ mode = "open" /\ mode' = "logging" /\ step' = 1 /\ asked[t] = Gone
      /\ asked' = [asked EXCEPT ![t] = result] /\ snap' = [snap EXCEPT ![t] = result]
      /\ UNCHANGED <<seed, wal, hist, seq>>
  BY DEF Grant
<1>4. /\ ~Outstanding /\ seq = Number /\ \A k \in DOMAIN wal : ~wal[k].torn
      /\ \A u \in Transactions : snap[u] \in {asked[u], Gone}
  BY <1>3 DEF CrashInv, SessionInv
<1>5. DiskInv' /\ ~Outstanding' /\ Number' = Number
  BY <1>1, <1>3, <1>4, GrantOnDisk DEF CrashInv
<1>6. /\ asked \in [Transactions \union {0} -> Tree \union {Gone}]
      /\ snap \in [Transactions -> Tree \union {Gone}]
  BY DEF TypeOK
<1>7. asked'[t] = result /\ \A u \in Transactions \union {0} : u # t => asked'[u] = asked[u]
  BY <1>3, <1>6
<1>8. \A u \in Transactions : snap'[u] \in {asked'[u], Gone}
  BY <1>3, <1>4, <1>6, <1>7
<1>9. \A k \in DOMAIN wal : wal[k].id # t
  BY <1>3 DEF CrashInv, DiskInv, FramesInv
<1>10. Ready'
  BY <1>1, <1>2, <1>3, <1>7, <1>9 DEF Ready
<1>11. SessionInv'
  BY <1>3, <1>4, <1>5, <1>8, <1>10 DEF SessionInv
<1>12. StepInv'
  BY <1>3 DEF StepInv
<1>13. UNCHANGED <<View, Published>>
  <2>1. Base' = Base
    <3>1. \A i \in DOMAIN hist : hist[i].id # t /\ hist[i].id \in Transactions
      BY <1>9, LogFacts DEF CrashInv, DiskInv, HistInv
    <3>2. 0 # t
      BY LogFacts
    <3> QED
      BY <1>3, <1>7, <3>1, <3>2, LogFacts DEF Base
  <2> QED
    BY <1>3, <1>4, <1>5, <2>1 DEF View, Published, Committed
<1> QED
  BY <1>5, <1>11, <1>12, <1>13 DEF CrashInv

\* An intent becomes durable: its version is published with it.
LEMMA Durable ==
    ASSUME TypeOK, CrashInv, mode = "logging",
           NEW f \in FrameOf, f.id = todo[1].id, f.seq = todo[1].seq, f.ops = todo[1].ops,
           ~f.finished, f.torn => ~Complete(f),
           wal' = Append(wal, f), UNCHANGED <<seed, hist, asked>>
    PROVE  /\ DiskInv'
           /\ Outstanding' <=> Complete(f)
           /\ ~Complete(f) => UNCHANGED <<View, Published>>
           /\ Complete(f) => /\ View' = asked[f.id] /\ Published' = Append(Published, f.id)
                             /\ f.id \in Transactions /\ asked[f.id] # Gone
                             /\ \A i \in DOMAIN Published : Published[i] # f.id
<1>1. /\ ~Outstanding /\ seq = Number /\ Ready
      /\ \A k \in DOMAIN wal : ~wal[k].torn
  BY DEF CrashInv, SessionInv
<1>2. /\ DiskInv' /\ (Outstanding' <=> Complete(f)) /\ Last(wal') = f
  BY <1>1, AppendIntent DEF CrashInv, SessionInv
<1>3. ~Complete(f) => UNCHANGED <<View, Published>>
  BY <1>1, <1>2, SameView
<1>4. f.id \in Transactions /\ asked[f.id] # Gone
  <2>1. asked[todo[1].id] # Gone
    BY <1>1 DEF Ready
  <2>2. f.id \in Transactions
    BY FrameFields
  <2> QED
    BY <2>1, <2>2
<1>5. ASSUME Complete(f)
      PROVE  /\ View' = asked[f.id] /\ Published' = Append(Published, f.id)
             /\ \A i \in DOMAIN Published : Published[i] # f.id
  <2>1. View' = asked[f.id]
    BY <1>2, <1>5 DEF View, Target
  <2>2. Committed \in Seq(Transactions) /\ DOMAIN Committed = DOMAIN hist /\ Committed' = Committed
    BY LogFacts DEF Committed
  <2>3. Published = Committed
    BY <1>1, <2>2, ConcatEmptySeq DEF Published
  <2>4. Published' = Committed \o <<f.id>>
    BY <1>2, <1>5, <2>2 DEF Published
  <2>5. Published' = Append(Published, f.id)
    BY <1>4, <2>2, <2>3, <2>4, AppendIsConcat
  <2>6. \A i \in DOMAIN hist : hist[i].id # f.id
    BY <1>1 DEF CrashInv, DiskInv, HistInv, Ready
  <2> QED
    BY <2>1, <2>2, <2>3, <2>5, <2>6 DEF Committed
<1> QED
  BY <1>2, <1>3, <1>4, <1>5

\* The append of the intent that returns.
LEMMA LogIntentStep ==
    ASSUME TypeOK, CrashInv, LogIntent
    PROVE  /\ CrashInv'
           /\ \E t \in Transactions : /\ asked[t] # Gone
                                      /\ \A i \in DOMAIN Published : Published[i] # t
                                      /\ Published' = Append(Published, t)
                                      /\ View' = asked[t]
<1> DEFINE n == Lines(todo[1].ops)
           f == Frame(todo[1], n, FALSE)
<1>1. /\ mode = "logging" /\ mode' = "publishing" /\ wal' = Append(wal, f)
      /\ UNCHANGED <<seed, hist, snap, todo, step, asked>>
  BY DEF LogIntent, ghosts
<1>2. Ready /\ \A k \in DOMAIN wal : ~wal[k].torn
  BY <1>1 DEF CrashInv, SessionInv
<1>3. todo # <<>> /\ todo[1] \in Intent /\ todo \in Seq(Intent)
  <2>1. todo # <<>> /\ todo \in Seq(Intent)
    BY <1>1 DEF TypeOK
  <2> QED
    BY <2>1, HeadIntent
<1>4. /\ f \in FrameOf /\ f.id = todo[1].id /\ f.seq = todo[1].seq /\ f.ops = todo[1].ops
      /\ ~f.finished /\ ~f.torn /\ Complete(f)
  <2>1. n \in Nat /\ n <= Lines(todo[1].ops) /\ n = Lines(todo[1].ops) /\ FALSE \in BOOLEAN
    BY <1>3, IntentFields DEF Lines
  <2> HIDE DEF n
  <2> QED
    BY <1>3, <2>1, FrameIsOne
<1> HIDE DEF f, n
<1>5. /\ DiskInv' /\ Outstanding'
      /\ View' = asked[f.id] /\ Published' = Append(Published, f.id)
      /\ f.id \in Transactions /\ asked[f.id] # Gone
      /\ \A i \in DOMAIN Published : Published[i] # f.id
  BY <1>1, <1>4, Durable
<1>6. /\ Len(wal') = Len(wal) + 1 /\ wal'[Len(wal) + 1] = f /\ Len(wal) \in Nat
      /\ Last(wal') = f
      /\ \A k \in DOMAIN wal' : ~wal'[k].torn
  <2>1. /\ wal' \in Seq(FrameOf) /\ Len(wal') = Len(wal) + 1 /\ wal'[Len(wal) + 1] = f
        /\ \A k \in 1..Len(wal) : wal'[k] = wal[k]
        /\ Len(wal) \in Nat /\ DOMAIN wal = 1..Len(wal)
    BY <1>1, <1>4, LogFacts, AppendProperties
  <2>2. \A k \in DOMAIN wal' : k \in DOMAIN wal \/ k = Len(wal) + 1
    BY <2>1
  <2> QED
    BY <1>2, <1>4, <2>1, <2>2 DEF Last
<1>7. AtWork'
  <2>1. Len(todo) = 1 /\ DOMAIN todo = {1}
    BY <1>2, <1>3 DEF Ready
  <2>2. ~\E i \in DOMAIN hist : hist[i].seq = f.seq
    BY <1>1, <1>5, <1>6 DEF Outstanding, Remembered
  <2>3. Reads(todo[1], f, hist)
    BY <1>2, <1>4, <2>2, Zenon DEF Reads, Ready
  <2> QED
    BY <1>1, <1>3, <1>6, <2>1, <2>3 DEF AtWork
<1>8. SessionInv'
  <2>1. \A t \in Transactions : snap'[t] \in {asked'[t], Gone}
    BY <1>1 DEF CrashInv, SessionInv
  <2>2. (Len(todo) = 1 /\ todo[1].whole /\ ~todo[1].remembered)'
    BY <1>1, <1>2 DEF Ready
  <2> QED
    BY <1>1, <1>6, <1>7, <2>1, <2>2 DEF SessionInv
<1>9. StepInv'
  <2>1. step' = 1 /\ todo'[1].ops \in Seq(Operation)
    BY <1>1, <1>2, <1>3, IntentFields DEF Ready
  <2>2. \A i \in DOMAIN todo'[1].ops : ~(i < step')
    BY <2>1
  <2> QED
    BY <2>2 DEF StepInv
<1> QED
  BY <1>5, <1>8, <1>9 DEF CrashInv

\* The process dies, in an append or between two writes.
LEMMA CrashingStep ==
    ASSUME TypeOK, CrashInv, Crash
    PROVE  /\ CrashInv'
           /\ UNCHANGED asked
           /\ \/ UNCHANGED <<View, Published>>
              \/ \E t \in Transactions : /\ asked[t] # Gone
                                         /\ \A i \in DOMAIN Published : Published[i] # t
                                         /\ Published' = Append(Published, t)
                                         /\ View' = asked[t]
<1>1. /\ mode # "closed" /\ mode' = "closed" /\ todo' = <<>>
      /\ UNCHANGED <<seed, hist, snap, asked>>
      /\ (mode = "logging" /\ TornAppend) \/ UNCHANGED wal
  BY DEF Crash, Stop
<1>2. SessionInv' /\ StepInv'
  BY <1>1 DEF CrashInv, SessionInv, StepInv
<1>3. CASE UNCHANGED wal
  <2>1. DiskInv' /\ (Outstanding' <=> Outstanding)
    BY <1>1, <1>3, SameDisk DEF CrashInv
  <2>2. UNCHANGED <<View, Published>>
    BY <1>1, <1>3, <2>1, SameView
  <2> QED
    BY <1>1, <1>2, <2>1, <2>2 DEF CrashInv
<1>4. CASE mode = "logging" /\ TornAppend /\ ~UNCHANGED wal
  <2>1. PICK k \in 0..Lines(todo[1].ops), half \in BOOLEAN :
           /\ half => k < Lines(todo[1].ops)
           /\ wal' = Append(wal, Frame(todo[1], k, half))
    BY <1>4 DEF TornAppend
  <2>2. todo[1] \in Intent
    <3>1. todo # <<>>
      BY <1>4 DEF TypeOK
    <3> QED
      BY <3>1, HeadIntent
  <2>3. Lines(todo[1].ops) \in Nat
    BY <2>2, IntentFields DEF Lines
  <2>4. k \in Nat /\ k <= Lines(todo[1].ops)
    BY <2>1, <2>3
  <2> DEFINE f == Frame(todo[1], k, half)
  <2>5. /\ f \in FrameOf /\ f.id = todo[1].id /\ f.seq = todo[1].seq /\ f.ops = todo[1].ops
        /\ ~f.finished /\ (f.torn <=> half) /\ (Complete(f) <=> k = Lines(todo[1].ops))
    BY <2>2, <2>4, FrameIsOne
  <2>7. wal' = Append(wal, f)
    BY <2>1
  <2> HIDE DEF f
  <2>9. half => k # Lines(todo[1].ops)
    BY <2>1, <2>3
  <2>6. f.torn => ~Complete(f)
    BY <2>5, <2>9, Zenon
  <2>8. /\ DiskInv'
        /\ ~Complete(f) => UNCHANGED <<View, Published>>
        /\ Complete(f) => /\ View' = asked[f.id] /\ Published' = Append(Published, f.id)
                          /\ f.id \in Transactions /\ asked[f.id] # Gone
                          /\ \A i \in DOMAIN Published : Published[i] # f.id
    BY <1>1, <1>4, <2>5, <2>6, <2>7, Durable
  <2> QED
    BY <1>1, <1>2, <2>8 DEF CrashInv
<1> QED
  BY <1>1, <1>3, <1>4

\* Before the first operation nothing has to have been carried out.
LEMMA FromTheFirst ==
    ASSUME TypeOK', step' = 1
    PROVE  StepInv'
<1> SUFFICES ASSUME (todo # <<>>)' PROVE \A i \in DOMAIN todo'[1].ops : ~(i < step')
  BY DEF StepInv
<1>1. (todo \in Seq(Intent))'
  BY DEF TypeOK
<1>2. todo'[1] \in Intent
  BY <1>1, EmptySeq
<1>3. todo'[1].ops \in Seq(Operation)
  BY <1>2, IntentFields
<1> QED
  BY <1>3

\* The record moves a publication from outstanding to recorded, and a reader
\* sees no difference.
LEMMA RecordedView ==
    ASSUME TypeOK, DiskInv, Outstanding, NEW tx \in Intent, tx.id = Last(wal).id,
           hist' = Append(hist, [id |-> tx.id, seq |-> tx.seq]), ~Outstanding',
           UNCHANGED <<wal, asked>>
    PROVE  UNCHANGED <<View, Published>>
<1>1. /\ Len(hist') = Len(hist) + 1 /\ Len(hist) \in Nat /\ DOMAIN hist = 1..Len(hist)
      /\ hist' \in Seq([id : Transactions, seq : Nat \ {0}])
      /\ \A i \in DOMAIN hist : hist'[i] = hist[i]
      /\ hist'[Len(hist) + 1].id = tx.id
  BY Recorded
<1>2. hist' # <<>> /\ Last(hist') = hist'[Len(hist) + 1]
  BY <1>1 DEF Last
<1>3. View' = View
  BY <1>1, <1>2 DEF View, Base, Target
<1>4. Committed \in Seq(Transactions) /\ Len(Committed) = Len(hist)
      /\ \A i \in 1..Len(hist) : Committed[i] = hist[i].id
  BY LogFacts DEF Committed
<1>5. DOMAIN hist' = 1..Len(hist) + 1
  BY <1>1
<1>6. /\ Committed' = [i \in 1..Len(hist) + 1 |-> hist'[i].id]
  BY <1>5 DEF Committed
<1>7. tx.id \in Transactions
  BY IntentFields
<1>8. Committed' = Append(Committed, tx.id)
  <2> DEFINE n == Len(hist)
             c == Committed
             d == Committed'
  <2> DEFINE ids == [i \in 1..n + 1 |-> hist'[i].id]
  <2>1. /\ n \in Nat /\ c \in Seq(Transactions) /\ Len(c) = n
        /\ d = ids
        /\ \A i \in 1..n : hist'[i].id = c[i]
        /\ hist'[n + 1].id = tx.id
    BY <1>1, <1>4, <1>6
  <2> HIDE DEF n, c, d
  <2>2. /\ Append(c, tx.id) \in Seq(Transactions) /\ Len(Append(c, tx.id)) = n + 1
        /\ \A i \in 1..n : Append(c, tx.id)[i] = c[i]
        /\ Append(c, tx.id)[n + 1] = tx.id
    BY <1>7, <2>1, AppendProperties
  <2>3. d \in Seq(Transactions) /\ Len(d) = n + 1
    <3>1. \A i \in 1..n + 1 : i \in 1..n \/ i = n + 1
      BY <2>1
    <3>2. \A i \in 1..n : c[i] \in Transactions
      BY <2>1
    <3>3. \A i \in 1..n + 1 : hist'[i].id \in Transactions
      BY <1>7, <2>1, <3>1, <3>2
    <3>4. ids \in [1..n + 1 -> Transactions]
      BY <3>3
    <3> HIDE DEF ids
    <3>5. n + 1 \in Nat
      BY <2>1
    <3> QED
      BY <2>1, <3>4, <3>5
  <2>4. \A i \in 1..n + 1 : d[i] = Append(c, tx.id)[i]
    <3>1. \A i \in 1..n + 1 : d[i] = hist'[i].id
      BY <2>1, Zenon
    <3>2. \A i \in 1..n + 1 : i \in 1..n \/ i = n + 1
      BY <2>1
    <3> QED
      BY <2>1, <2>2, <3>1, <3>2
  <2>5. d = Append(c, tx.id)
    BY <2>2, <2>3, <2>4, SeqEqual
  <2> QED
    BY <2>5 DEF c, d
<1>9. Published = Append(Committed, tx.id)
  BY <1>4, <1>7, AppendIsConcat DEF Published
<1>10. Published' = Committed'
  <2>1. Committed' \in Seq(Transactions)
    BY <1>4, <1>7, <1>8, AppendProperties
  <2>2. Published' = Committed' \o <<>>
    BY DEF Published
  <2> QED
    BY <2>1, <2>2, ConcatEmptySeq
<1> QED
  BY <1>3, <1>8, <1>9, <1>10

\* A snapshot is reclaimed.
LEMMA ReclaimStep ==
    ASSUME TypeOK, CrashInv, NEW t \in Transactions, Reclaim(t)
    PROVE  CrashInv' /\ UNCHANGED <<asked, View, Published>>
<1>1. /\ mode = "open" /\ snap' = [snap EXCEPT ![t] = Gone]
      /\ UNCHANGED <<seed, wal, hist, mode, todo, step, seq, asked>>
  BY DEF Reclaim, session, ghosts
<1>2. \A u \in Transactions : snap'[u] \in {asked'[u], Gone}
  BY <1>1 DEF CrashInv, SessionInv, TypeOK
<1>3. DiskInv' /\ (Outstanding' <=> Outstanding) /\ Number' = Number
  BY <1>1, SameDisk DEF CrashInv
<1>4. SessionInv'
  BY <1>1, <1>2, <1>3 DEF CrashInv, SessionInv
<1>5. StepInv'
  BY <1>1 DEF StepInv
<1>6. UNCHANGED <<View, Published>>
  BY <1>1, <1>3, SameView
<1> QED
  BY <1>1, <1>3, <1>4, <1>5, <1>6 DEF CrashInv

\* One record applied (apply_record).
LEMMA ApplyOpStep ==
    ASSUME TypeOK, CrashInv, ApplyOp
    PROVE  CrashInv' /\ UNCHANGED <<asked, View, Published>>
<1> DEFINE k == Len(wal) - Len(todo) + 1
           tx == Head(todo)
<1>1. /\ mode \in {"publishing", "recovering"} /\ todo # <<>> /\ tx.whole
      /\ ~tx.finished /\ step <= Len(tx.ops)
      /\ CanApply(tx.id, tx.ops[step])
      /\ seed' = Applied(tx.id, tx.ops[step]) /\ step' = step + 1
      /\ UNCHANGED <<wal, hist, snap, mode, todo, seq, asked>>
  BY DEF ApplyOp, Working, ghosts
<1> HIDE DEF k
<1>2. /\ tx = todo[1] /\ tx \in Intent /\ Reads(tx, wal[k], hist)
      /\ k = Len(wal) /\ wal[k] = Last(wal) /\ Outstanding
  BY <1>1, WorkHead DEF k
<1>3. /\ tx.id = Last(wal).id /\ tx.ops = Last(wal).ops /\ ~Last(wal).finished
      /\ Last(wal).id \in Transactions
  <2>1. Complete(Last(wal)) /\ Last(wal).id \in Transactions
    BY <1>2, OutstandingFacts DEF CrashInv
  <2> QED
    BY <1>1, <1>2, <2>1, Zenon DEF Reads
<1>4. step \in DOMAIN Last(wal).ops
  <2>1. tx.ops \in Seq(Operation) /\ step \in Nat \ {0}
    BY <1>2, IntentFields DEF TypeOK
  <2>2. step \in 1..Len(tx.ops) /\ DOMAIN tx.ops = 1..Len(tx.ops)
    BY <1>1, <2>1
  <2> QED
    BY <1>3, <2>2
<1>5. \A i \in DOMAIN Last(wal).ops : i < step =>
         seed[Last(wal).ops[i].path] = Last(wal).ops[i].to
  BY <1>1, <1>2, <1>3 DEF CrashInv, StepInv
<1>6. snap[Last(wal).id] \in {Target, Gone}
  BY <1>3 DEF CrashInv, SessionInv, Target
<1>7. /\ DiskInv'
      /\ \A i \in DOMAIN Last(wal).ops : i < step + 1 =>
             seed'[Last(wal).ops[i].path] = Last(wal).ops[i].to
  BY <1>1, <1>2, <1>3, <1>4, <1>5, <1>6, CarryOut DEF CrashInv
<1>8. Outstanding' <=> Outstanding
  BY <1>1 DEF Outstanding, Remembered
<1>9. StepInv'
  BY <1>1, <1>2, <1>3, <1>7 DEF StepInv
<1>10. SessionInv'
  BY <1>1 DEF CrashInv, SessionInv, AtWork
<1>11. UNCHANGED <<View, Published>>
  BY <1>1, <1>8, SameView
<1> QED
  BY <1>1, <1>7, <1>9, <1>10, <1>11 DEF CrashInv

\* End (Wal::end), by the publisher or by a replay.
LEMMA LogEndStep ==
    ASSUME TypeOK, CrashInv, LogEnd
    PROVE  CrashInv' /\ UNCHANGED <<asked, View, Published>>
<1> DEFINE k == Len(wal) - Len(todo) + 1
           tx == Head(todo)
           done == [todo[1] EXCEPT !.finished = TRUE]
<1>1. /\ mode \in {"publishing", "recovering"} /\ todo # <<>> /\ tx.whole
      /\ ~tx.finished /\ step > Len(tx.ops)
      /\ wal' = WithEnd(wal, tx.seq) /\ todo' = [todo EXCEPT ![1] = done]
      /\ UNCHANGED <<seed, hist, snap, mode, step, seq, asked>>
  BY DEF LogEnd, Working, ghosts
<1> HIDE DEF k
<1>2. /\ tx = todo[1] /\ tx \in Intent /\ 1 \in DOMAIN todo /\ Reads(tx, wal[k], hist)
      /\ k = Len(wal) /\ wal[k] = Last(wal) /\ Outstanding /\ Len(todo) = 1
  BY <1>1, WorkHead DEF k
<1>3. /\ tx.id = Last(wal).id /\ tx.ops = Last(wal).ops /\ tx.seq = Last(wal).seq
      /\ Complete(Last(wal)) /\ Len(wal) \in DOMAIN wal
  <2>1. Complete(Last(wal)) /\ Len(wal) \in DOMAIN wal
    BY <1>2, OutstandingFacts DEF CrashInv
  <2> QED
    BY <1>1, <1>2, <2>1, Zenon DEF Reads
<1>4. \A i \in DOMAIN Last(wal).ops : seed[Last(wal).ops[i].path] = Last(wal).ops[i].to
  <2>1. tx.ops \in Seq(Operation) /\ step \in Nat
    BY <1>2, IntentFields DEF TypeOK
  <2>2. \A i \in DOMAIN tx.ops : i < step
    BY <1>1, <2>1
  <2> QED
    BY <1>1, <1>2, <1>3, <2>2 DEF CrashInv, StepInv
<1>5. seed = Target
  BY <1>2, <1>4, CarriedOutWhole DEF CrashInv
<1>6. /\ DiskInv' /\ Outstanding'
      /\ Len(wal') = Len(wal) /\ DOMAIN wal' = DOMAIN wal
      /\ \A j \in DOMAIN wal : /\ Alike(wal'[j], wal[j]) /\ wal'[j].torn = wal[j].torn
                               /\ wal'[j].finished <=> wal[j].finished \/ j = Len(wal)
  BY <1>1, <1>2, <1>3, <1>5, EndLast DEF CrashInv
<1>7. /\ done \in Intent /\ done.id = tx.id /\ done.seq = tx.seq /\ done.ops = tx.ops
      /\ done.whole = tx.whole /\ done.remembered = tx.remembered /\ done.finished
  BY <1>2, IntentFields
<1> HIDE DEF done
<1>8. Len(todo') = 1 /\ todo' \in Seq(Intent) /\ todo'[1] = done /\ DOMAIN todo' = {1}
  <2>1. /\ todo \in Seq(Intent) /\ 1 \in 1..Len(todo)
    BY <1>2 DEF TypeOK
  <2>2. Len(todo') = Len(todo) /\ todo' \in Seq(Intent) /\ todo'[1] = done
    BY <1>1, <1>7, <2>1, ExceptSeq
  <2> QED
    BY <1>2, <2>2
<1>9. Reads(done, wal'[Len(wal)], hist)
  <2>1. Alike(wal'[Len(wal)], wal[Len(wal)]) /\ wal'[Len(wal)].finished
    BY <1>3, <1>6
  <2>2. Complete(wal'[Len(wal)])
    BY <1>2, <1>3, <2>1 DEF Alike, Complete
  <2> QED
    BY <1>1, <1>2, <1>3, <1>7, <2>1, <2>2, Zenon DEF Reads, Alike
<1>10. AtWork'
  <2>1. Len(wal) \in Nat /\ Len(wal) >= 1
    BY <1>3, LogFacts
  <2>2. Len(wal') - Len(todo') + 1 = Len(wal)
    BY <1>6, <1>8, <2>1
  <2> QED
    BY <1>1, <1>6, <1>8, <1>9, <2>1, <2>2, EmptySeq DEF AtWork
<1>11. SessionInv'
  <2>1. \A t \in Transactions : snap'[t] \in {asked'[t], Gone}
    BY <1>1 DEF CrashInv, SessionInv
  <2>2. \A j \in DOMAIN wal' : ~wal'[j].torn
    <3>1. \A j \in DOMAIN wal : ~wal[j].torn
      BY <1>1 DEF CrashInv, SessionInv
    <3> QED
      BY <1>6, <3>1
  <2>3. mode = "publishing" => ~tx.remembered
    BY <1>2, Zenon DEF CrashInv, SessionInv
  <2>4. mode' = "publishing" => Len(todo') = 1 /\ todo'[1].whole /\ ~todo'[1].remembered
    BY <1>1, <1>7, <1>8, <2>3
  <2> QED
    BY <1>1, <1>10, <2>1, <2>2, <2>4 DEF SessionInv
<1>12. StepInv'
  BY <1>7, <1>8 DEF StepInv
<1>13. UNCHANGED <<View, Published>>
  <2>1. Last(wal').id = Last(wal).id
    BY <1>2, <1>3, <1>6, LogFacts DEF Last, Alike
  <2> QED
    BY <1>1, <1>2, <1>6, <2>1, SameView
<1> QED
  BY <1>1, <1>6, <1>11, <1>12, <1>13 DEF CrashInv

\* The history record of a publication (record_commit, History::append).
LEMMA RecordHistoryStep ==
    ASSUME TypeOK, CrashInv, RecordHistory
    PROVE  CrashInv' /\ UNCHANGED <<asked, View, Published>>
<1> DEFINE k == Len(wal) - Len(todo) + 1
           tx == Head(todo)
<1>1. /\ mode = "publishing" /\ tx.finished /\ mode' = "open" /\ todo' = <<>>
      /\ hist' = Append(hist, [id |-> tx.id, seq |-> tx.seq]) /\ seq' = tx.seq
      /\ UNCHANGED <<seed, wal, snap, asked>>
  BY DEF RecordHistory, ghosts
<1>2. todo # <<>> /\ tx.whole /\ ~tx.remembered
  <2>1. todo # <<>>
    BY <1>1 DEF TypeOK
  <2>2. tx = todo[1]
    BY <2>1, HeadIntent
  <2> QED
    BY <1>1, <2>1, <2>2 DEF CrashInv, SessionInv
<1> HIDE DEF k
<1>3. /\ tx \in Intent /\ Reads(tx, wal[k], hist)
      /\ k = Len(wal) /\ wal[k] = Last(wal) /\ Outstanding
  BY <1>1, <1>2, WorkHead DEF k
<1>4. tx.id = Last(wal).id /\ tx.seq = Last(wal).seq /\ Last(wal).finished
  BY <1>1, <1>3, Zenon DEF Reads
<1> HIDE DEF tx
<1>5. DiskInv' /\ ~Outstanding' /\ Number' = tx.seq
  BY <1>1, <1>3, <1>4, RecordLast DEF CrashInv
<1>6. UNCHANGED <<View, Published>>
  BY <1>1, <1>3, <1>4, <1>5, RecordedView DEF CrashInv
<1>7. SessionInv'
  BY <1>1, <1>5 DEF CrashInv, SessionInv
<1>8. StepInv'
  BY <1>1 DEF StepInv
<1> QED
  BY <1>1, <1>5, <1>6, <1>7, <1>8 DEF CrashInv

\* The history record a crash left out (recover).
LEMMA RestoreHistoryStep ==
    ASSUME TypeOK, TypeOK', CrashInv, RestoreHistory
    PROVE  CrashInv' /\ UNCHANGED <<asked, View, Published>>
<1> DEFINE k == Len(wal) - Len(todo) + 1
           tx == Head(todo)
<1>1. /\ mode = "recovering" /\ todo # <<>> /\ tx.whole /\ tx.finished
      /\ hist' = IF tx.remembered THEN hist ELSE Append(hist, [id |-> tx.id, seq |-> tx.seq])
      /\ todo' = Tail(todo) /\ step' = 1
      /\ UNCHANGED <<seed, wal, snap, mode, seq, asked>>
  BY DEF RestoreHistory, Working, ghosts
<1> HIDE DEF k
<1>2. /\ tx \in Intent /\ Reads(tx, wal[k], hist)
      /\ k = Len(wal) => wal[k] = Last(wal)
      /\ k = Len(wal) <=> Len(todo) = 1
      /\ ~tx.remembered => k = Len(wal) /\ Outstanding
      /\ k = Len(wal) /\ tx.remembered => ~Outstanding
  BY <1>1, WorkHead DEF k
<1>3. todo' = <<>> <=> Len(todo) = 1
  BY <1>1, LastOfWork
<1> HIDE DEF tx
<1>4. DiskInv' /\ (todo' = <<>> => ~Outstanding') /\ (todo' # <<>> => UNCHANGED hist)
      /\ UNCHANGED <<View, Published>>
  <2>1. CASE tx.remembered
    <3>1. hist' = hist
      BY <1>1, <2>1
    <3>2. DiskInv' /\ (Outstanding' <=> Outstanding)
      BY <1>1, <3>1, SameDisk DEF CrashInv
    <3>3. UNCHANGED <<View, Published>>
      BY <1>1, <3>1, <3>2, SameView
    <3> QED
      BY <1>2, <1>3, <2>1, <3>1, <3>2, <3>3
  <2>2. CASE ~tx.remembered
    <3>1. hist' = Append(hist, [id |-> tx.id, seq |-> tx.seq])
      BY <1>1, <2>2
    <3>2. k = Len(wal) /\ wal[k] = Last(wal) /\ Outstanding
      BY <1>2, <2>2
    <3>3. tx.id = Last(wal).id /\ tx.seq = Last(wal).seq /\ Last(wal).finished
      BY <1>1, <1>2, <3>2, Zenon DEF Reads
    <3>4. DiskInv' /\ ~Outstanding'
      BY <1>1, <1>2, <3>1, <3>2, <3>3, RecordLast DEF CrashInv
    <3>5. UNCHANGED <<View, Published>>
      BY <1>1, <1>2, <3>1, <3>2, <3>3, <3>4, RecordedView DEF CrashInv
    <3> QED
      BY <1>2, <1>3, <3>2, <3>4, <3>5
  <2> QED
    BY <2>1, <2>2
<1>5. AtWork'
  BY <1>1, <1>4, Proceed
<1>6. SessionInv'
  BY <1>1, <1>5 DEF CrashInv, SessionInv
<1>7. StepInv'
  BY <1>1, FromTheFirst
<1> QED
  BY <1>1, <1>4, <1>6, <1>7 DEF CrashInv

\* A prefix of an intent is passed over (recover).
LEMMA AbandonStep ==
    ASSUME TypeOK, TypeOK', CrashInv, Abandon
    PROVE  CrashInv' /\ UNCHANGED <<asked, View, Published>>
<1> DEFINE k == Len(wal) - Len(todo) + 1
<1>1. /\ mode = "recovering" /\ todo # <<>> /\ ~Head(todo).whole
      /\ todo' = Tail(todo) /\ step' = 1
      /\ UNCHANGED <<seed, wal, hist, snap, mode, seq, asked>>
  BY DEF Abandon, disk, ghosts
<1> HIDE DEF k
<1>2. /\ k = Len(wal) <=> Len(todo) = 1
      /\ k = Len(wal) => ~Outstanding
  BY <1>1, WorkHead DEF k
<1>3. DiskInv' /\ (Outstanding' <=> Outstanding)
  BY <1>1, SameDisk DEF CrashInv
<1>4. todo' = <<>> => ~Outstanding'
  BY <1>1, <1>2, <1>3, LastOfWork
<1>5. AtWork'
  BY <1>1, <1>4, Proceed
<1>6. SessionInv'
  BY <1>1, <1>5 DEF CrashInv, SessionInv
<1>7. StepInv'
  BY <1>1, FromTheFirst
<1>8. UNCHANGED <<View, Published>>
  BY <1>1, <1>3, SameView
<1> QED
  BY <1>1, <1>3, <1>6, <1>7, <1>8 DEF CrashInv

\* A session starts and reads the log (ShellMux::new, recover).
LEMMA StartStep ==
    ASSUME TypeOK, TypeOK', CrashInv, Start
    PROVE  CrashInv' /\ UNCHANGED <<asked, View, Published>>
<1>1. /\ mode \in {"closed", "refused"} /\ wal' = Log /\ step' = 1
      /\ \/ mode' = "refused" /\ UNCHANGED todo
         \/ mode' = "recovering" /\ todo' = Transcript(Log)
      /\ UNCHANGED <<seed, hist, snap, asked>>
  BY DEF Start, Log, SnapshotsAtStart, ghosts
<1>2. /\ DiskInv' /\ (Outstanding' <=> Outstanding)
      /\ \A k \in DOMAIN wal' : ~wal'[k].torn
  BY <1>1, TruncateOnDisk DEF CrashInv
<1>3. \A t \in Transactions : snap'[t] \in {asked'[t], Gone}
  BY <1>1 DEF CrashInv, SessionInv
<1>4. mode' = "recovering" => AtWork'
  <2> SUFFICES ASSUME mode' = "recovering" PROVE AtWork'
    OBVIOUS
  <2>1. todo' = Transcript(wal')
    BY <1>1
  <2>2. wal' \in Seq(FrameOf)
    BY DEF TypeOK
  <2> DEFINE log == wal'
  <2>3. /\ Transcript(log) \in Seq(Intent) /\ Len(Transcript(log)) = Len(log)
        /\ \A k \in DOMAIN log : Transcript(log)[k] = Read(log[k]) /\ log[k] \in FrameOf
        /\ Len(log) \in Nat /\ DOMAIN log = 1..Len(log)
    BY <2>2, TranscriptRead
  <2>4. \A k \in DOMAIN log : Reads(Read(log[k]), log[k], hist)
    <3> SUFFICES ASSUME NEW k \in DOMAIN log PROVE Reads(Read(log[k]), log[k], hist)
      OBVIOUS
    <3> HIDE DEF log
    <3>1. log[k] \in FrameOf
      BY <2>3
    <3> QED
      BY <3>1, ReadBack DEF Reads, Remembered
  <2>5. /\ Len(todo') = Len(wal') /\ DOMAIN todo' = DOMAIN wal'
        /\ \A k \in DOMAIN todo' : Len(wal') - Len(todo') + k = k /\ Reads(todo'[k], wal'[k], hist')
    BY <1>1, <2>1, <2>3, <2>4
  <2>6. todo' = <<>> => ~Outstanding'
    BY <2>2, <2>5, EmptySeq DEF Outstanding
  <2> QED
    BY <2>3, <2>5, <2>6 DEF AtWork
<1>5. SessionInv'
  BY <1>1, <1>2, <1>3, <1>4 DEF CrashInv, SessionInv
<1>6. StepInv'
  BY <1>1, FromTheFirst
<1>7. UNCHANGED <<View, Published>>
  <2>1. Outstanding => wal' = wal
    BY <1>1, DurableSurvives DEF CrashInv
  <2> QED
    BY <1>1, <1>2, <2>1, SameView
<1> QED
  BY <1>1, <1>2, <1>5, <1>6, <1>7 DEF CrashInv

\* A session gives up, or opens once nothing is left to do.
LEMMA EndOfRecovery ==
    ASSUME TypeOK, CrashInv, Refuse \/ Open
    PROVE  CrashInv' /\ UNCHANGED <<asked, View, Published>>
<1>1. /\ mode = "recovering" /\ mode' \in {"refused", "open"} /\ todo' = <<>>
      /\ UNCHANGED <<seed, wal, hist, asked>>
      /\ UNCHANGED snap \/ snap' = [t \in Transactions |-> Gone]
      /\ mode' = "open" =>
            /\ todo = <<>>
            /\ seq' = Max({0} \union {hist[i].seq : i \in DOMAIN hist})
  BY DEF Refuse, Open, disk, ghosts
<1>2. DiskInv' /\ (Outstanding' <=> Outstanding) /\ Number' = Number
  BY <1>1, SameDisk DEF CrashInv
<1>3. mode' = "open" => ~Outstanding' /\ seq' = Number'
  <2> DEFINE N == {0} \union {hist[i].seq : i \in DOMAIN hist}
  <2>1. /\ Number \in N /\ \A n \in N : Number >= n
    BY LastRecord, LogFacts DEF Number, CrashInv
  <2>2. \A n \in N : n \in Nat
    BY LogFacts
  <2> HIDE DEF N
  <2>3. Max(N) \in N /\ \A n \in N : Max(N) >= n
    BY <2>1 DEF Max
  <2>4. Max(N) = Number
    BY <2>1, <2>2, <2>3
  <2> QED
    BY <1>1, <1>2, <2>4 DEF CrashInv, SessionInv, AtWork, N
<1>4. \A t \in Transactions : snap'[t] \in {asked'[t], Gone}
  BY <1>1 DEF CrashInv, SessionInv
<1>5. SessionInv'
  BY <1>1, <1>3, <1>4 DEF CrashInv, SessionInv
<1>6. StepInv'
  BY <1>1 DEF StepInv
<1>7. UNCHANGED <<View, Published>>
  BY <1>1, <1>2, SameView
<1> QED
  BY <1>1, <1>2, <1>5, <1>6, <1>7 DEF CrashInv

\* A step that changes nothing.
LEMMA StutterStep ==
    ASSUME TypeOK, CrashInv, UNCHANGED vars
    PROVE  CrashInv' /\ UNCHANGED <<asked, View, Published>>
<1>1. UNCHANGED <<seed, wal, hist, snap, mode, todo, step, seq, asked>>
  BY DEF vars, disk, session, ghosts
<1>2. DiskInv' /\ (Outstanding' <=> Outstanding) /\ Number' = Number
  BY <1>1, SameDisk DEF CrashInv
<1>3. SessionInv' /\ StepInv'
  BY <1>1, <1>2 DEF CrashInv, SessionInv, StepInv, Ready, AtWork
<1>4. UNCHANGED <<View, Published>>
  BY <1>1, <1>2, SameView
<1> QED
  BY <1>1, <1>2, <1>3, <1>4 DEF CrashInv

\* The empty disk of a new session.
LEMMA CrashInit ==
    ASSUME Init
    PROVE  CrashInv
<1>1. /\ wal = <<>> /\ hist = <<>> /\ mode = "open" /\ todo = <<>> /\ seq = 0
      /\ asked = [t \in Transactions \union {0} |-> IF t = 0 THEN seed ELSE Gone]
      /\ snap = [t \in Transactions |-> Gone]
      /\ seed \in Tree
  BY TreesAssumption DEF Init
<1>2. asked[0] = seed
  BY <1>1
<1>3. ~Outstanding
  BY <1>1 DEF Outstanding
<1>4. DiskInv
  BY <1>1, <1>2, <1>3 DEF DiskInv, FramesInv, HistInv, SeedInv, Base
<1>5. SessionInv /\ StepInv
  BY <1>1, <1>3 DEF SessionInv, StepInv, Number
<1> QED
  BY <1>4, <1>5 DEF CrashInv

\* Where the process may die, and nothing else fails, no step leaves the
\* invariant; readers see a step only when an intent becomes durable.
LEMMA CrashStep ==
    ASSUME TypeOK, TypeOK', CrashInv, Faults \subseteq {"crash"}, [Next]_vars
    PROVE  /\ CrashInv'
           /\ \/ UNCHANGED <<asked, View, Published>>
              \/ /\ UNCHANGED <<View, Published>>
                 /\ \E t \in Transactions, result \in CommandTrees :
                       asked[t] = Gone /\ asked' = [asked EXCEPT ![t] = result]
              \/ /\ UNCHANGED asked
                 /\ \E t \in Transactions : /\ asked[t] # Gone
                                            /\ \A i \in DOMAIN Published : Published[i] # t
                                            /\ Published' = Append(Published, t)
                                            /\ View' = asked[t]
<1>1. ASSUME NEW t \in Transactions, NEW result \in CommandTrees, Grant(t, result)
      PROVE  /\ CrashInv' /\ UNCHANGED <<View, Published>>
             /\ asked[t] = Gone /\ asked' = [asked EXCEPT ![t] = result]
  <2>1. CrashInv' /\ UNCHANGED <<View, Published>>
    BY <1>1, GrantStep
  <2>2. asked[t] = Gone /\ asked' = [asked EXCEPT ![t] = result]
    BY <1>1 DEF Grant
  <2> QED
    BY <2>1, <2>2
<1>2. ASSUME NEW t \in Transactions, Reclaim(t)
      PROVE  CrashInv' /\ UNCHANGED <<asked, View, Published>>
  BY <1>2, ReclaimStep
<1>3. ASSUME LogIntent
      PROVE  /\ CrashInv' /\ UNCHANGED asked
             /\ \E t \in Transactions : /\ asked[t] # Gone
                                        /\ \A i \in DOMAIN Published : Published[i] # t
                                        /\ Published' = Append(Published, t)
                                        /\ View' = asked[t]
  <2>1. UNCHANGED asked
    BY <1>3 DEF LogIntent, ghosts
  <2> QED
    BY <1>3, <2>1, LogIntentStep
<1>4. CASE RecordHistory
  BY <1>4, RecordHistoryStep
<1>5. CASE Start
  BY <1>5, StartStep
<1>6. CASE Refuse \/ Open
  BY <1>6, EndOfRecovery
<1>7. CASE Abandon
  BY <1>7, AbandonStep
<1>8. CASE RestoreHistory
  BY <1>8, RestoreHistoryStep
<1>9. CASE ApplyOp
  BY <1>9, ApplyOpStep
<1>10. CASE LogEnd
  BY <1>10, LogEndStep
<1>11. CASE Crash
  BY <1>11, CrashingStep
<1>12. ~PowerLoss /\ ~IoError
  BY DEF PowerLoss, IoError
<1>13. CASE UNCHANGED vars
  BY <1>13, StutterStep
<1> QED
  BY <1>1, <1>2, <1>3, <1>4, <1>5, <1>6, <1>7, <1>8, <1>9, <1>10, <1>11, <1>12, <1>13
     DEF Next, Recovery

\* The invariant of the two theorems below.
LEMMA CrashSafe ==
    ASSUME Faults \subseteq {"crash"}
    PROVE  Spec => [](TypeOK /\ CrashInv)
<1>1. Init => BackedInv /\ CrashInv
  BY BackedInit, CrashInit
<1>2. BackedInv /\ CrashInv /\ [Next]_vars => BackedInv' /\ CrashInv'
  <2> SUFFICES ASSUME BackedInv, CrashInv, [Next]_vars PROVE BackedInv' /\ CrashInv'
    OBVIOUS
  <2>1. BackedInv'
    BY BackedStep
  <2>2. TypeOK /\ TypeOK'
    BY <2>1 DEF BackedInv
  <2> QED
    BY <2>1, <2>2, CrashStep
<1>3. BackedInv => TypeOK
  BY DEF BackedInv
<1> QED
  BY <1>1, <1>2, <1>3, PTL DEF Spec

-----------------------------------------------------------------------------
(* What crashes leave: what readers are entitled to.                       *)

\* At most one durable intent has no record, the outstanding one.
LEMMA PendingIs ==
    ASSUME TypeOK, CrashInv
    PROVE  Pending = IF Outstanding THEN <<Last(wal).id>> ELSE <<>>
<1> DEFINE n == Len(wal)
<1>1. DiskInv
  BY DEF CrashInv
<1>2. ASSUME NEW k \in Unrecorded
      PROVE  k = n /\ Outstanding
  <2>1. /\ k \in DOMAIN wal /\ Complete(wal[k])
        /\ \A i \in DOMAIN hist : hist[i].id # wal[k].id
    BY <1>1, DurableSurvives DEF Unrecorded, Alike
  <2>2. k = n /\ ~Remembered(wal[k].seq)
    BY <1>1, <2>1, DurableFrames DEF DiskInv
  <2> QED
    BY <2>1, <2>2, LogFacts, EmptySeq DEF Outstanding
<1>3. CASE ~Outstanding
  <2>1. Unrecorded = {}
    BY <1>2, <1>3
  <2>2. Cardinality(Unrecorded) = 0
    BY <2>1, FS_EmptySet
  <2>3. Pending = <<>>
    BY <2>2 DEF Pending
  <2> QED
    BY <1>3, <2>3
<1>4. CASE Outstanding
  <2>1. n \in DOMAIN wal /\ Last(wal) = wal[n] /\ Log = wal /\ Complete(wal[n])
    BY <1>1, <1>4, OutstandingFacts, DurableSurvives
  <2>2. n \in Unrecorded
    BY <1>1, <1>4, <2>1, OutstandingFacts DEF Unrecorded
  <2>3. Unrecorded = {n} /\ n \in Nat
    BY <1>2, <2>2, LogFacts
  <2> HIDE DEF n
  <2>4. Cardinality(Unrecorded) = 1 /\ Cardinality({n}) = 1
    BY <2>3, FS_Singleton
  <2>5. NthUnrecorded(1) = n
    <3>1. {j \in Unrecorded : j <= n} = {n}
      BY <2>3
    <3> QED
      BY <2>3, <2>4, <3>1 DEF NthUnrecorded
  <2>6. Pending = [i \in 1..1 |-> Log[NthUnrecorded(i)].id]
    BY <2>4 DEF Pending
  <2>7. \A i \in 1..1 : i = 1
    OBVIOUS
  <2>8. Pending = [i \in 1..1 |-> wal[n].id]
    BY <2>1, <2>5, <2>6, <2>7
  <2>9. Pending = <<wal[n].id>>
    BY <2>8
  <2> QED
    BY <1>4, <2>1, <2>9
<1> QED
  BY <1>3, <1>4

\* The seed with the rest of a durable intent carried out is the version readers
\* are entitled to.
LEMMA EntitledIs ==
    ASSUME TypeOK, CrashInv
    PROVE  Entitled = View
<1> DEFINE n == Len(wal)
<1>1. DiskInv /\ seed \in [Paths -> Entry]
  BY DEF CrashInv, TypeOK
<1>2. ASSUME NEW k \in Unfinished
      PROVE  k = n /\ Outstanding /\ ~Last(wal).finished
  <2>1. k \in DOMAIN wal /\ Complete(wal[k]) /\ ~wal[k].finished
    BY <1>1, DurableSurvives DEF Unfinished
  <2>2. k = n /\ ~Remembered(wal[k].seq)
    BY <1>1, <2>1, DurableFrames DEF DiskInv
  <2> QED
    BY <2>1, <2>2, LogFacts, EmptySeq DEF Outstanding
<1>3. CASE ~Outstanding
  <2>1. Unfinished = {}
    BY <1>2, <1>3
  <2> QED
    BY <1>1, <1>3, <2>1 DEF Entitled, View, DiskInv, SeedInv
<1>4. CASE Outstanding /\ Last(wal).finished
  <2>1. Unfinished = {}
    BY <1>2, <1>4
  <2> QED
    BY <1>1, <1>4, <2>1 DEF Entitled, View, DiskInv, SeedInv
<1>5. CASE Outstanding /\ ~Last(wal).finished
  <2>1. n \in DOMAIN wal /\ Last(wal) = wal[n] /\ Log = wal /\ Complete(wal[n]) /\ n \in Nat
    BY <1>1, <1>5, OutstandingFacts, DurableSurvives, LogFacts
  <2>2. n \in Unfinished
    BY <1>5, <2>1 DEF Unfinished
  <2>3. Unfinished = {n}
    BY <1>2, <2>2
  <2> HIDE DEF n
  <2>4. Max(Unfinished) = n
    BY <2>1, <2>3 DEF Max
  <2>5. Entitled = CarriedOut(Last(wal).ops)
    BY <2>1, <2>3, <2>4 DEF Entitled
  <2> DEFINE ops == Last(wal).ops
  <2>6. /\ \A i \in DOMAIN ops : ops[i].to = Target[ops[i].path]
        /\ \A x \in Paths : Base[x] # Target[x] => \E i \in DOMAIN ops : ops[i].path = x
    BY <1>1, <1>5, Intended
  <2>7. \A x \in Paths : Base[x] = Target[x] => seed[x] = Target[x]
    BY <1>1, <1>5 DEF DiskInv, SeedInv
  <2>8. Target \in [Paths -> Entry]
    BY <1>1, <1>5, OutstandingFacts
  <2> HIDE DEF ops
  <2>9. ASSUME NEW x \in Paths
        PROVE  (IF \E i \in DOMAIN ops : ops[i].path = x
                THEN ops[CHOOSE i \in DOMAIN ops : ops[i].path = x].to
                ELSE seed[x]) = Target[x]
    <3>1. CASE \E i \in DOMAIN ops : ops[i].path = x
      <4> DEFINE c == CHOOSE i \in DOMAIN ops : ops[i].path = x
      <4>1. c \in DOMAIN ops /\ ops[c].path = x
        BY <3>1
      <4> HIDE DEF c
      <4>2. ops[c].to = Target[x]
        BY <2>6, <4>1
      <4> QED
        BY <3>1, <4>2 DEF c
    <3>2. CASE ~\E i \in DOMAIN ops : ops[i].path = x
      BY <2>6, <2>7, <3>2
    <3> QED
      BY <3>1, <3>2
  <2>10. CarriedOut(ops) = Target
    BY <2>8, <2>9 DEF CarriedOut
  <2> QED
    BY <1>5, <2>5, <2>10 DEF View, ops
<1> QED
  BY <1>3, <1>4, <1>5

\* What the abstract seed and its log are.
Shown == Entitled = View /\ Committed \o Pending = Published

LEMMA Mapped == TypeOK /\ CrashInv => Shown
<1> SUFFICES ASSUME TypeOK, CrashInv PROVE Shown
  OBVIOUS
<1> QED
  BY EntitledIs, PendingIs DEF Published, Shown

\* A session that takes commands has nothing half done: between one command's
\* publication and the next the seed is the whole version of the last record,
\* whatever crashes came before and wherever they struck (commit.rs recover).
THEOREM OpenSessionsAreWhole ==
    ASSUME Faults \subseteq {"crash"}
    PROVE  Spec => []OpenIsWhole
<1>1. TypeOK /\ CrashInv => OpenIsWhole
  <2> SUFFICES ASSUME TypeOK, CrashInv, mode = "open" PROVE OpenIsWhole
    BY DEF OpenIsWhole
  <2>1. ~Outstanding
    BY DEF CrashInv, SessionInv
  <2>2. Pending = <<>>
    BY <2>1, PendingIs
  <2>3. seed = Base
    BY <2>1 DEF CrashInv, DiskInv, SeedInv
  <2> QED
    BY <2>2, <2>3 DEF OpenIsWhole, Base
<1> QED
  BY <1>1, CrashSafe, PTL

\* A new session publishes nothing and entitles readers to what the seed holds.
LEMMA AtomicInit ==
    Init => Atomic!Init
<1> SUFFICES ASSUME Init PROVE Atomic!Init
  OBVIOUS
<1>1. TypeOK /\ CrashInv
  BY CrashInit, BackedInit DEF BackedInv
<1>2. /\ wal = <<>> /\ hist = <<>> /\ seed \in Tree
      /\ asked = [t \in Transactions \union {0} |-> IF t = 0 THEN seed ELSE Gone]
  BY TreesAssumption DEF Init
<1>3. ~Outstanding
  BY <1>2 DEF Outstanding
<1>4. View \in Tree
  BY <1>2, <1>3 DEF View, Base
<1>5. Published = <<>>
  BY <1>2, <1>3 DEF Published, Committed
<1>6. \A t \in Transactions : asked[t] = Gone
  BY <1>2, BoundsAssumption
<1> QED
  BY <1>1, <1>4, <1>5, <1>6, Mapped DEF Shown, Atomic!Init

\* A step asks for a publication, makes one or shows nothing.
LEMMA AtomicStep ==
    ASSUME TypeOK, TypeOK', CrashInv, Faults \subseteq {"crash"}, [Next]_vars, Shown, Shown'
    PROVE  [Atomic!Next]_Atomic!vars
<1> USE DEF Shown
<1>1. CASE UNCHANGED <<asked, View, Published>>
  BY <1>1 DEF Atomic!vars
<1>2. ASSUME UNCHANGED <<View, Published>>, NEW t \in Transactions, NEW result \in CommandTrees,
             asked[t] = Gone, asked' = [asked EXCEPT ![t] = result]
      PROVE  Atomic!Next
  <2> DEFINE before == [k \in Transactions |-> asked[k]]
             after == [k \in Transactions |-> asked'[k]]
  <2>1. asked \in [Transactions \union {0} -> Tree \union {Gone}] /\ result \in Tree
    BY TreesAssumption DEF TypeOK
  <2>2. after[t] = result /\ before[t] = Gone
    BY <1>2, <2>1
  <2>3. after = [before EXCEPT ![t] = after[t]]
    BY <1>2, <2>1
  <2>4. Atomic!Ask(t)
    BY <1>2, <2>1, <2>2, <2>3 DEF Atomic!Ask
  <2> QED
    BY <2>4 DEF Atomic!Next
<1>3. ASSUME UNCHANGED asked, NEW t \in Transactions, asked[t] # Gone,
             \A i \in DOMAIN Published : Published[i] # t,
             Published' = Append(Published, t), View' = asked[t]
      PROVE  Atomic!Next
  <2>1. Atomic!Publish(t)
    BY <1>3 DEF Atomic!Publish
  <2> QED
    BY <2>1 DEF Atomic!Next
<1> QED
  BY <1>1, <1>2, <1>3, CrashStep

\* Publication is atomic and durable from the moment its intent is logged, for
\* every number of transactions, trees and crashes: the seed passes from one
\* whole version to the next, in the order of the log, each command once.
THEOREM PublicationIsAtomic ==
    ASSUME Faults \subseteq {"crash"}
    PROVE  Spec => ImplementsAtomicSeed
<1>1. TypeOK /\ CrashInv /\ [Next]_vars /\ TypeOK' /\ CrashInv'
        => [Atomic!Next]_Atomic!vars
  <2>1. TypeOK' /\ CrashInv' => Shown'
    BY Mapped, PTL
  <2> QED
    BY <2>1, Mapped, AtomicStep
<1> QED
  BY <1>1, AtomicInit, CrashSafe, PTL DEF Spec, ImplementsAtomicSeed, Atomic!Spec
=============================================================================
