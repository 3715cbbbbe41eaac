---------------------------- MODULE FrontendProofs ----------------------------
(***************************************************************************)
(* Proofs about what the displays of a session know, for every set of      *)
(* callers, clients, sizes and any number of jobs and calls.               *)
(***************************************************************************)
EXTENDS Frontend, Functions, TLAPS, SequenceTheorems

\* What a call may have left to do: these steps end a call, a build is followed
\* by what publishes the job, and giving up on one by what tells of it.
Final == {"launch", "retire", "check", "select"}

Follows(s, i, step) == \E j \in DOMAIN s : j > i /\ s[j] = step

Plans ==
    {s \in Seq(Steps) : \A i \in DOMAIN s :
        /\ s[i] \in Final => i = Len(s)
        /\ s[i] = "build" => /\ Follows(s, i, "wake")
                             /\ Follows(s, i, "opened")
                             /\ Follows(s, i, "published")
                             /\ ~Follows(s, i, "build")
        /\ s[i] = "unspawn" => Follows(s, i, "wake") /\ Follows(s, i, "changed")}

Display == [uid : Jobs \union {0}, state : {"none", "starting", "idle", "running"},
            closing : BOOLEAN, current : BOOLEAN]

Message == [kind : {"jobs", "closed"}, shown : Display]

\* The steps a call has left.
Left(t) == Range(task[t].todo)

TaskOf == [todo : Plans, uid : Jobs \union {0}, size : Geometries \union {None},
           targets : SUBSET Jobs, row : Display \union {None}, woken : BOOLEAN]

TypeOK ==
    /\ row \in Row \union {None} /\ current \in BOOLEAN
    /\ muxSize \in Geometries /\ size \in Geometries
    /\ terminal \in [Jobs -> Geometries \union {None}]
    /\ task \in [Tasks -> TaskOf]
    /\ reading \in Tasks \union {None}
    /\ handle \in Jobs \union {0}
    /\ pump \in [Jobs -> {"none", "running", "done"}]
    /\ client \in [Clients -> [state : {"off", "subscribed", "greeting", "on"},
                              inbox : Seq(Message), lagged : BOOLEAN, shown : Display]]
    /\ uids \in Jobs \union {0} /\ calls \in 0..MaxCalls
    /\ raced \subseteq {"name", "size", "early", "failure"}

\* A call that has a job to build has not begun to.
Building(t) == \E opens \in BOOLEAN : task[t].todo \in {Opening(opens), Tail(Opening(opens))}

\* A task that builds or announces a job knows its number and its size, and is
\* the only one to build it.
TaskInv ==
    \A t \in Tasks :
        /\ task[t].uid <= uids
        /\ Left(t) \intersect {"build", "reapply", "apply", "resized"} # {} => task[t].size # None
        /\ Left(t) \intersect {"build", "opened", "published", "reapply"} # {} => task[t].uid # 0
        /\ reading = t => (At(t, "changed") \/ At(t, "published")) /\ task[t].row \in Display
        /\ "build" \in Left(t) =>
              /\ Building(t)
              /\ \A x \in Tasks : "build" \in Left(x) /\ task[x].uid = task[t].uid => x = t
        /\ "wait" \in Left(t) => task[t].todo = WaitRegistered

\* Numbers are given once, in their order.
NumberInv ==
    /\ Open => row.uid <= uids /\ row.term <= uids
    /\ \A u \in Jobs : pump[u] # "none" => u <= uids

\* A row without a terminal has somebody who builds one or gives up.
BuilderInv ==
    Open /\ row.term = 0 =>
        \E t \in Tasks : /\ task[t].uid = row.uid
                         /\ Left(t) \intersect {"build", "unspawn"} # {}

\* Who sleeps waits for a launch, or is about to be woken.
WakeInv ==
    \A t \in Tasks : At(t, "wait") /\ ~task[t].woken =>
        Pending \/ \E x \in Tasks : "wake" \in Left(x)

\* An open terminal is that of the row, or about to be dropped.
Dropping(u) == \E t \in Tasks : "drop" \in Left(t) /\ task[t].uid = u

TerminalInv ==
    \A u \in Jobs : terminal[u] # None => (Open /\ row.term = u) \/ Dropping(u)

\* Whoever carries a geometry carries that of the mux, and a terminal that
\* differs from it is about to get it, or to go.
SizeInv ==
    "size" \notin raced =>
        /\ \A t \in Tasks : InFlight(t) => task[t].size = muxSize
        /\ size = muxSize \/ \E t \in Tasks : "resized" \in Left(t)
        /\ \A u \in Jobs : \/ terminal[u] \in {None, muxSize}
                           \/ Dropping(u)
                           \/ \E t \in Tasks : \/ "reapply" \in Left(t) /\ task[t].uid = u
                                               \/ "apply" \in Left(t) /\ u \in task[t].targets

\* Unless a name was reopened too early, a row has its own job's terminal, and
\* that job its handle and its pump, or a task about to give them to it.
Built(t) == "published" \in Left(t) /\ "build" \notin Left(t)

NameInv ==
    "name" \notin raced =>
        /\ Open => row.term \in {0, row.uid}
        /\ Open /\ row.term # 0 =>
              /\ terminal[row.term] # None
              /\ handle = row.term
                    \/ \E t \in Tasks : "opened" \in Left(t) /\ task[t].uid = row.term
              /\ pump[row.term] = "running"
                    \/ \E t \in Tasks : "published" \in Left(t) /\ task[t].uid = row.term
        /\ Open => ~Dropping(row.uid)
        /\ Open => \A t \in Tasks : task[t].uid = row.uid =>
              /\ "build" \in Left(t) => row.term = 0
              /\ Built(t) => row.term # 0
        /\ Open => (pump[row.uid] # "none" => row.term # 0)

FrontInv == TaskInv /\ NumberInv /\ BuilderInv /\ WakeInv /\ TerminalInv /\ SizeInv /\ NameInv

-----------------------------------------------------------------------------
\* The announcements a task has left.
Announcements == {"changed", "published"}
Announcing == \E t \in Tasks : Left(t) \intersect Announcements # {}

\* Only the announcement t is making is left.
LastWord(t) ==
    /\ \A x \in Tasks \ {t} : Left(x) \intersect Announcements = {}
    /\ Range(Rest(t)) \intersect Announcements = {}

\* The close of u is going to be published by its pump.
Owed(u) ==
    /\ u \in Jobs
    /\ pump[u] = "running" \/ \E t \in Tasks : "published" \in Left(t) /\ task[t].uid = u
    /\ terminal[u] = None \/ Dropping(u)

\* A display that shows s is right, or is going to be.
Right(s) == s = Shown \/ (row = None /\ Owed(s.uid))
Good(s) == Announcing \/ Right(s)
Goods == {s \in Display : Good(s)}

\* What is shown of s once the messages after the i-th have been received, none
\* of them a list.
After(inbox, i, s) ==
    IF \E k \in DOMAIN inbox : k > i /\ inbox[k].kind = "closed" /\ inbox[k].shown.uid = s.uid
    THEN Blank ELSE s

\* No list comes after the i-th message.
Unlisted(inbox, i) == \A k \in DOMAIN inbox : k > i => inbox[k].kind # "jobs"

\* The last list of an inbox, and a display before it, lead to one of those in G.
Channelled(inbox, G) ==
    \A i \in DOMAIN inbox :
        inbox[i].kind = "jobs" /\ Unlisted(inbox, i) => After(inbox, i, inbox[i].shown) \in G

\* With no list to come, the display s leads to one in G.
Displayed(inbox, G, s) == Unlisted(inbox, 0) => After(inbox, 0, s) \in G

\* Nothing is kept for a socket that is not connected.
ClosedInv ==
    \A c \in Clients : On(c, "off") => client[c].inbox = <<>>

\* Who is told that a job closed is not told so of the one that is there.
GoneInv ==
    \A c \in Clients : \A i \in DOMAIN client[c].inbox :
        client[c].inbox[i].kind = "closed" =>
            /\ client[c].inbox[i].shown.uid \in 1..uids
            /\ ~(Open /\ row.uid = client[c].inbox[i].shown.uid)

\* The last announcement there is to make tells of the table as it is.
ReadingInv ==
    reading # None /\ LastWord(reading) =>
        \/ task[reading].row = RowShown
        \/ row = None /\ Owed(task[reading].row.uid)

\* Every list that is the last to come is right, or another is going to be sent.
ChannelInv == \A c \in Clients : Channelled(client[c].inbox, Goods)

\* The rows a client was greeted with, with the selection it is going to be.
Greeting(c) == [client[c].shown EXCEPT !.current = CurrentShown]

\* So is what a client shows, unless it fell behind and is to be greeted again.
DisplayInv ==
    \A c \in Clients :
        ~client[c].lagged =>
            /\ On(c, "on") => Displayed(client[c].inbox, Goods, client[c].shown)
            /\ On(c, "greeting") => Displayed(client[c].inbox, Goods, Greeting(c))

\* What everybody shows will be right once what is on its way has been received.
TellInv == ClosedInv /\ GoneInv /\ ReadingInv /\ ChannelInv /\ DisplayInv

ShownInv == raced \intersect {"name", "failure"} = {} => TellInv

-----------------------------------------------------------------------------
(* Plans.                                                                  *)

\* The step after the first.
LEMMA PlanTail ==
    ASSUME NEW s \in Plans, s # <<>>
    PROVE  /\ Tail(s) \in Plans
           /\ Head(s) \in Steps
           /\ Range(s) = {Head(s)} \union Range(Tail(s))
           /\ Head(s) \in Final => Tail(s) = <<>>
           /\ Head(s) = "build" => /\ {"wake", "opened", "published"} \subseteq Range(Tail(s))
                                   /\ "build" \notin Range(Tail(s))
           /\ Head(s) = "unspawn" => {"wake", "changed"} \subseteq Range(Tail(s))
<1> DEFINE r == Tail(s)
<1>1. /\ s \in Seq(Steps) /\ r \in Seq(Steps)
      /\ Len(s) \in Nat \ {0} /\ Len(r) = Len(s) - 1
      /\ Head(s) = s[1] /\ DOMAIN s = 1..Len(s) /\ DOMAIN r = 1..Len(r)
      /\ \A i \in DOMAIN r : r[i] = s[i + 1] /\ i + 1 \in DOMAIN s
  BY DEF Plans
<1> HIDE DEF r
<1>2. \A i \in DOMAIN s : i = 1 \/ (i - 1 \in DOMAIN r /\ r[i - 1] = s[i])
  BY <1>1
<1>3. Range(s) = {Head(s)} \union Range(r)
  <2>1. \A i \in DOMAIN s : s[i] \in {Head(s)} \union Range(r)
    BY <1>1, <1>2 DEF Range
  <2>2. \A i \in DOMAIN r : r[i] \in Range(s)
    BY <1>1 DEF Range
  <2>3. Head(s) \in Range(s)
    BY <1>1 DEF Range
  <2> QED
    BY <2>1, <2>2, <2>3 DEF Range
<1>4. ASSUME NEW i \in DOMAIN r, NEW step, Follows(s, i + 1, step)
      PROVE  Follows(r, i, step)
  BY <1>1, <1>2, <1>4 DEF Follows
<1>5. ASSUME NEW i \in DOMAIN r, NEW step, Follows(r, i, step)
      PROVE  Follows(s, i + 1, step)
  BY <1>1, <1>5 DEF Follows
<1>6. ASSUME NEW i \in DOMAIN r
      PROVE  /\ r[i] \in Final => i = Len(r)
             /\ r[i] = "build" => /\ Follows(r, i, "wake")
                                  /\ Follows(r, i, "opened")
                                  /\ Follows(r, i, "published")
                                  /\ ~Follows(r, i, "build")
             /\ r[i] = "unspawn" => Follows(r, i, "wake") /\ Follows(r, i, "changed")
  <2>1. i + 1 \in DOMAIN s /\ r[i] = s[i + 1] /\ i \in Nat
    BY <1>1
  <2>2. r[i] \in Final => i = Len(r)
    BY <1>1, <2>1 DEF Plans
  <2> QED
    BY <1>4, <1>5, <2>1, <2>2 DEF Plans
<1>7. r \in Plans
  BY <1>1, <1>6 DEF Plans
<1>8. Head(s) \in Final => r = <<>>
  BY <1>1 DEF Plans
<1>9. ASSUME NEW step, Follows(s, 1, step) PROVE step \in Range(r)
  BY <1>1, <1>2, <1>9 DEF Follows, Range
<1>10. ASSUME Head(s) = "build" PROVE "build" \notin Range(r)
  <2>1. ~Follows(s, 1, "build")
    BY <1>1, <1>10 DEF Plans
  <2> QED
    BY <1>1, <2>1 DEF Follows, Range
<1>11. Head(s) = "build" => {"wake", "opened", "published"} \subseteq Range(r)
  BY <1>1, <1>9 DEF Plans
<1>12. Head(s) = "unspawn" => {"wake", "changed"} \subseteq Range(r)
  BY <1>1, <1>9 DEF Plans
<1> QED
  BY <1>1, <1>3, <1>7, <1>8, <1>10, <1>11, <1>12 DEF r

\* A step put first.
LEMMA PlanCons ==
    ASSUME NEW s \in Plans, NEW k \in {"reapply", "changed"}
    PROVE  /\ <<>> \o s = s
           /\ <<k>> \o s \in Plans
           /\ Range(<<k>> \o s) = {k} \union Range(s)
           /\ <<k>> \o s # <<>>
<1> DEFINE r == <<k>> \o s
<1>1. /\ s \in Seq(Steps) /\ r \in Seq(Steps) /\ <<>> \o s = s
      /\ Len(r) = Len(s) + 1 /\ Len(s) \in Nat
      /\ DOMAIN s = 1..Len(s) /\ DOMAIN r = 1..Len(r)
      /\ r[1] = k /\ \A i \in DOMAIN s : r[i + 1] = s[i]
  BY DEF Plans, Steps
<1> HIDE DEF r
<1>2. \A i \in DOMAIN r : i = 1 \/ (i - 1 \in DOMAIN s /\ r[i] = s[i - 1])
  BY <1>1
<1>3. Range(r) = {k} \union Range(s)
  <2>1. \A i \in DOMAIN r : r[i] \in {k} \union Range(s)
    BY <1>1, <1>2 DEF Range
  <2>2. \A i \in DOMAIN s : i + 1 \in DOMAIN r /\ s[i] = r[i + 1]
    BY <1>1
  <2>3. \A i \in DOMAIN s : s[i] \in Range(r)
    BY <2>2 DEF Range
  <2>4. k \in Range(r)
    BY <1>1 DEF Range
  <2> QED
    BY <2>1, <2>3, <2>4 DEF Range
<1>4. ASSUME NEW i \in DOMAIN s, NEW step
      PROVE  Follows(r, i + 1, step) <=> Follows(s, i, step)
  <2>1. ASSUME Follows(s, i, step) PROVE Follows(r, i + 1, step)
    <3>1. PICK j \in DOMAIN s : j > i /\ s[j] = step
      BY <2>1 DEF Follows
    <3>2. j + 1 \in DOMAIN r /\ j + 1 > i + 1 /\ r[j + 1] = step
      BY <1>1, <3>1
    <3> QED
      BY <3>2 DEF Follows
  <2>2. ASSUME Follows(r, i + 1, step) PROVE Follows(s, i, step)
    <3>1. PICK j \in DOMAIN r : j > i + 1 /\ r[j] = step
      BY <2>2 DEF Follows
    <3>2. i \in Nat /\ j \in Nat
      BY <1>1
    <3>3. j - 1 \in DOMAIN s /\ s[j - 1] = step /\ j - 1 > i
      BY <1>2, <3>1, <3>2
    <3> QED
      BY <3>3 DEF Follows
  <2> QED
    BY <2>1, <2>2
<1>5. ASSUME NEW i \in DOMAIN r
      PROVE  /\ r[i] \in Final => i = Len(r)
             /\ r[i] = "build" => /\ Follows(r, i, "wake")
                                  /\ Follows(r, i, "opened")
                                  /\ Follows(r, i, "published")
                                  /\ ~Follows(r, i, "build")
             /\ r[i] = "unspawn" => Follows(r, i, "wake") /\ Follows(r, i, "changed")
  <2>1. CASE i = 1
    BY <1>1, <2>1 DEF Final
  <2>2. CASE i # 1
    <3>1. PICK j \in DOMAIN s : i = j + 1 /\ r[i] = s[j]
      BY <1>1, <1>2, <2>2
    <3>2. s[j] \in Final => j = Len(s)
      BY <3>1 DEF Plans
    <3> QED
      BY <1>1, <1>4, <3>1, <3>2 DEF Plans
  <2> QED
    BY <2>1, <2>2
<1>6. r \in Plans
  BY <1>1, <1>5 DEF Plans
<1>7. r # <<>>
  BY <1>1
<1> QED
  BY <1>1, <1>3, <1>6, <1>7 DEF r

\* The lists calls start with, and those they change to.
LEMMA Ranges ==
    /\ Range(<<>>) = {}
    /\ \A a : Range(<<a>>) = {a}
    /\ \A a, b : Range(<<a, b>>) = {a, b}
    /\ \A a, b, c : Range(<<a, b, c>>) = {a, b, c}
    /\ \A a, b, c, d, e : Range(<<a, b, c, d, e>>) = {a, b, c, d, e}
    /\ \A a, b, c, d, e, f : Range(<<a, b, c, d, e, f>>) = {a, b, c, d, e, f}
  BY DEF Range

\* The plans of the calls, and what is left where one fails or waits.
LEMMA SomePlans ==
    /\ <<>> \in Plans
    /\ <<"changed">> \in Plans
    /\ <<"changed", "launch">> \in Plans
    /\ <<"changed", "drop">> \in Plans
    /\ <<"drop", "changed">> \in Plans
    /\ <<"drop">> \in Plans
    /\ <<"changed", "register", "check">> \in Plans
    /\ <<"wait", "register", "check">> \in Plans
    /\ <<"select">> \in Plans
    /\ <<"apply", "resized">> \in Plans
    /\ <<"unspawn", "wake", "changed">> \in Plans
    /\ <<"changed", "wake">> \in Plans
    /\ <<"changed", "wake", "retire">> \in Plans
    /\ <<"wake">> \in Plans
    /\ <<"wake", "retire">> \in Plans
    /\ <<"changed", "build", "wake", "opened", "published">> \in Plans
    /\ <<"changed", "build", "wake", "opened", "published", "launch">> \in Plans
  BY DEF Plans, Steps, Final, Follows

\* The plans of spawn.
LEMMA SpawnPlans ==
    ASSUME NEW opens \in BOOLEAN
    PROVE  /\ Opening(opens) \in Plans /\ Opening(opens) # <<>>
           /\ Range(Opening(opens)) \subseteq
                 {"changed", "build", "wake", "opened", "published", "launch"}
           /\ {"changed", "build", "wake", "opened", "published"} \subseteq Range(Opening(opens))
<1> DEFINE s == <<"changed", "build", "wake", "opened", "published">>
           r == <<"changed", "build", "wake", "opened", "published", "launch">>
<1>1. s \in Plans /\ r \in Plans
  BY SomePlans
<1>2. /\ Range(s) = {"changed", "build", "wake", "opened", "published"}
      /\ Range(r) = {"changed", "build", "wake", "opened", "published", "launch"}
  BY Ranges
<1>3. s # <<>> /\ r # <<>>
  OBVIOUS
<1>4. Opening(opens) = IF opens THEN r ELSE s
  BY DEF Opening
<1> HIDE DEF s, r
<1> QED
  BY <1>1, <1>2, <1>3, <1>4

-----------------------------------------------------------------------------
(* What a step does to the calls.                                          *)

\* The calls of the other tasks stay as they are.
Apart(t) == \A x \in Tasks \ {t} : task'[x] = task[x] /\ Left(x)' = Left(x)

\* A task with no call.
LEMMA IdleIs == Idle \in TaskOf /\ Idle.todo = <<>>
  BY SomePlans DEF Idle, TaskOf

\* Going on with another record, or forgetting a call that is over.
LEMMA Continues ==
    ASSUME TypeOK, NEW t \in Tasks, NEW r \in TaskOf, Continue(t, r)
    PROVE  /\ Apart(t)
           /\ task' \in [Tasks -> TaskOf]
           /\ task'[t] = IF r.todo = <<>> THEN Idle ELSE r
           /\ task'[t].todo = r.todo /\ Left(t)' = Range(r.todo)
<1>1. task \in [Tasks -> TaskOf]
  BY DEF TypeOK
<1>2. task' = [task EXCEPT ![t] = IF r.todo = <<>> THEN Idle ELSE r]
  BY DEF Continue
<1>3. task' \in [Tasks -> TaskOf] /\ task'[t] = IF r.todo = <<>> THEN Idle ELSE r
  BY <1>1, <1>2, IdleIs
<1>4. \A x \in Tasks \ {t} : task'[x] = task[x]
  BY <1>1, <1>2
<1>5. task'[t].todo = r.todo
  BY <1>3, IdleIs
<1> QED
  BY <1>3, <1>4, <1>5 DEF Apart, Left

\* A call goes on with the steps s.
LEMMA Goes ==
    ASSUME TypeOK, NEW t \in Tasks, NEW s \in Plans, Then(t, s)
    PROVE  /\ Apart(t)
           /\ task' \in [Tasks -> TaskOf]
           /\ task'[t].todo = s /\ Left(t)' = Range(s)
           /\ s # <<>> => task'[t] = [task[t] EXCEPT !.todo = s]
           /\ s = <<>> => task'[t] = Idle
<1>1. [task[t] EXCEPT !.todo = s] \in TaskOf /\ [task[t] EXCEPT !.todo = s].todo = s
  <2>1. task[t] \in TaskOf
    BY DEF TypeOK
  <2> QED
    BY <2>1 DEF TaskOf
<1>2. Continue(t, [task[t] EXCEPT !.todo = s])
  BY DEF Then
<1> QED
  BY <1>1, <1>2, Continues

\* The step that is next.
LEMMA Next1 ==
    ASSUME TypeOK, NEW t \in Tasks, NEW step, At(t, step)
    PROVE  /\ Rest(t) \in Plans
           /\ Left(t) = {step} \union Range(Rest(t))
           /\ step \in Final => Rest(t) = <<>>
           /\ step = "build" => /\ {"wake", "opened", "published"} \subseteq Range(Rest(t))
                                /\ "build" \notin Range(Rest(t))
           /\ step = "unspawn" => {"wake", "changed"} \subseteq Range(Rest(t))
<1>1. task[t].todo \in Plans /\ task[t].todo # <<>> /\ Head(task[t].todo) = step
  BY DEF TypeOK, TaskOf, At
<1> QED
  BY <1>1, PlanTail DEF Left, Rest

\* A step is done and nothing else of the call changes.
LEMMA DoneIs ==
    ASSUME TypeOK, NEW t \in Tasks, NEW step, At(t, step), Done(t)
    PROVE  /\ Apart(t)
           /\ task' \in [Tasks -> TaskOf]
           /\ task'[t].todo = Rest(t) /\ Left(t) = {step} \union Left(t)'
           /\ Rest(t) # <<>> => task'[t] = [task[t] EXCEPT !.todo = Rest(t)]
           /\ Rest(t) = <<>> => task'[t] = Idle
           /\ Left(t)' = Range(Rest(t))
<1>1. Rest(t) \in Plans /\ Left(t) = {step} \union Range(Rest(t))
  BY Next1
<1>2. Then(t, Rest(t))
  BY DEF Done
<1> QED
  BY <1>1, <1>2, Goes

\* A call begins.
LEMMA Begins ==
    ASSUME TypeOK, NEW t \in Tasks, NEW r \in TaskOf, r.todo # <<>>, task[t].todo = <<>>,
           task' = [task EXCEPT ![t] = r]
    PROVE  /\ Apart(t)
           /\ task' \in [Tasks -> TaskOf]
           /\ task'[t] = r /\ Left(t) = {} /\ Left(t)' = Range(r.todo)
<1>1. task \in [Tasks -> TaskOf]
  BY DEF TypeOK
<1>2. task'[t] = r /\ \A x \in Tasks \ {t} : task'[x] = task[x]
  BY <1>1
<1>3. Apart(t) /\ Left(t)' = Range(r.todo)
  BY <1>2 DEF Apart, Left
<1>4. Left(t) = {}
  BY Ranges DEF Left
<1>5. task' \in [Tasks -> TaskOf]
  BY <1>1
<1> QED
  BY <1>2, <1>3, <1>4, <1>5

\* A list of messages and what a display shows of a row.
LEMMA Displays ==
    ASSUME TypeOK
    PROVE  RowShown \in Display /\ CurrentShown \in BOOLEAN /\ Shown \in Display /\ Blank \in Display
<1>1. Blank \in Display
  BY DEF Blank, Display
<1>2. CASE Visible
  <2>1. row \in Row
    BY <1>2 DEF TypeOK, Visible, Open
  <2>2. Closing \in BOOLEAN
    BY DEF Closing
  <2>3. RowShown = [uid |-> row.uid, closing |-> Closing, current |-> FALSE,
                    state |-> IF row.term = 0 THEN "starting" ELSE row.state]
    BY <1>2 DEF RowShown
  <2> QED
    BY <1>1, <2>1, <2>2, <2>3 DEF Row, Display, Shown, CurrentShown, TypeOK, Visible, Open
<1>3. CASE ~Visible
  BY <1>1, <1>3 DEF RowShown, Shown, CurrentShown, Display
<1> QED
  BY <1>2, <1>3

-----------------------------------------------------------------------------
(* Types.                                                                  *)

\* A socket.
ClientOf == [state : {"off", "subscribed", "greeting", "on"},
             inbox : Seq(Message), lagged : BOOLEAN, shown : Display]

\* What a publication leaves the clients with.
LEMMA PublishType ==
    ASSUME client \in [Clients -> ClientOf], NEW m \in Message, Publish(m)
    PROVE  client' \in [Clients -> ClientOf]
<1>1. ASSUME NEW c \in Clients PROVE Delivered(client[c], m) \in ClientOf
  <2>1. client[c] \in ClientOf /\ client[c].inbox \in Seq(Message)
    BY DEF ClientOf
  <2>2. Append(client[c].inbox, m) \in Seq(Message)
    BY <2>1
  <2>3. client[c].inbox # <<>> => Append(Tail(client[c].inbox), m) \in Seq(Message)
    BY <2>1
  <2>4. Len(client[c].inbox) < Capacity \/ client[c].inbox # <<>>
    BY <2>1, CapacityAssumption
  <2> QED
    BY <2>1, <2>2, <2>3, <2>4 DEF Delivered, ClientOf
<1> QED
  BY <1>1 DEF Publish

\* Everything is of its kind when the mux is created.
LEMMA TypeStart ==
    ASSUME Init
    PROVE  TypeOK
<1>1. Unconnected \in ClientOf
  <2>1. Blank \in Display /\ <<>> \in Seq(Message)
    BY DEF Blank, Display
  <2> QED
    BY <2>1 DEF Unconnected, ClientOf
<1>2. /\ task \in [Tasks -> TaskOf] /\ client \in [Clients -> ClientOf]
  BY <1>1, IdleIs DEF Init
<1>3. /\ InitialSize \in Geometries /\ terminal \in [Jobs -> Geometries \union {None}]
      /\ pump \in [Jobs -> {"none", "running", "done"}]
      /\ 0 \in 0..MaxCalls
  BY BoundsAssumption DEF Init, Geometries
<1> QED
  BY <1>2, <1>3 DEF Init, TypeOK, ClientOf

\* Which of the calls changes and how, for types.
LEMMA TypeCalls ==
    ASSUME TypeOK, NEW t \in Tasks, Call(t)
    PROVE  TypeOK'
<1> DEFINE typed == task' \in [Tasks -> TaskOf]
<1>1. ASSUME NEW opens \in BOOLEAN, Spawn(t, opens) PROVE TypeOK'
  <2> DEFINE r == [Idle EXCEPT !.uid = uids', !.size = muxSize, !.todo = Opening(opens)]
  <2>1. uids' = uids + 1 /\ uids' \in Jobs
    <3>1. uids' = uids + 1 /\ uids < MaxJobs
      BY <1>1 DEF Spawn
    <3>2. uids \in Jobs \union {0}
      BY DEF TypeOK
    <3> QED
      BY <3>1, <3>2, BoundsAssumption DEF Jobs
  <2>2. Opening(opens) \in Plans
    BY SpawnPlans
  <2>3. r \in TaskOf
    BY <2>1, <2>2, IdleIs DEF TypeOK, TaskOf
  <2>4. task' = [task EXCEPT ![t] = r]
    BY <1>1 DEF Spawn
  <2> HIDE DEF r
  <2>5. typed
    BY <2>3, <2>4 DEF TypeOK
  <2>6. row' \in Row
    BY <1>1, <2>1 DEF Spawn, Row
  <2>7. calls' \in 0..MaxCalls
    BY <1>1, BoundsAssumption DEF Spawn, Calls, TypeOK
  <2> HIDE DEF typed
  <2> QED
    BY <1>1, <2>1, <2>5, <2>6, <2>7 DEF Spawn, TypeOK, display, typed
<1>2. ASSUME NEW s \in Plans, NEW r, r = [Idle EXCEPT !.todo = s], task' = [task EXCEPT ![t] = r]
      PROVE  typed
  <2>1. r \in TaskOf
    BY <1>2, IdleIs DEF TaskOf
  <2> QED
    BY <1>2, <2>1 DEF TypeOK
<1>3. Calls(t) => calls' \in 0..MaxCalls
  BY BoundsAssumption DEF Calls, TypeOK
<1> HIDE DEF typed
<1>4. ASSUME StartIn(t) PROVE TypeOK'
  <2>1. typed
    BY <1>2, <1>4, SomePlans DEF StartIn, Begin
  <2>2. row' \in Row
    BY <1>4 DEF StartIn, TypeOK, Row, Open
  <2> QED
    BY <1>3, <1>4, <2>1, <2>2 DEF StartIn, TypeOK, display, typed
<1>5. ASSUME NEW force \in BOOLEAN, Stop(t, force) PROVE TypeOK'
  <2>1. row \in Row
    BY <1>5 DEF Stop, Visible, Open, TypeOK
  <2>2. CASE row.state = "idle"
    <3> DEFINE r == [Idle EXCEPT !.uid = row.term, !.todo = <<"changed", "drop">>]
    <3>1. r \in TaskOf
      BY <2>1, IdleIs, SomePlans DEF TaskOf, Row
    <3>2. task' = [task EXCEPT ![t] = r] /\ Removed
      BY <1>5, <2>2 DEF Stop
    <3> HIDE DEF r
    <3>3. typed
      BY <3>1, <3>2 DEF TypeOK, typed
    <3> QED
      BY <1>3, <1>5, <3>2, <3>3 DEF Stop, Removed, TypeOK, display, typed
  <2>3. CASE row.state # "idle"
    <3>1. typed
      BY <1>2, <1>5, <2>3, SomePlans DEF Stop, Begin
    <3>2. row' \in Row
      BY <1>5, <2>1, <2>3 DEF Stop, Row
    <3> QED
      BY <1>3, <1>5, <2>3, <3>1, <3>2 DEF Stop, TypeOK, display, typed
  <2> QED
    BY <2>2, <2>3
<1>6. ASSUME Switch(t) PROVE TypeOK'
  <2>1. typed
    BY <1>2, <1>6, SomePlans DEF Switch, Begin
  <2> QED
    BY <1>3, <1>6, <2>1 DEF Switch, TypeOK, table, display, typed
<1>7. ASSUME NEW s \in Sizes, Resize(t, s) PROVE TypeOK'
  <2> DEFINE r == [Idle EXCEPT !.todo = <<"apply", "resized">>, !.size = s,
                       !.targets = IF Open THEN {row.term} \ {0} ELSE {}]
  <2>1. (IF Open THEN {row.term} \ {0} ELSE {}) \in SUBSET Jobs
    BY DEF TypeOK, Open, Row
  <2>2. r \in TaskOf
    BY <2>1, IdleIs, SomePlans DEF TaskOf, Geometries
  <2>3. task' = [task EXCEPT ![t] = r]
    BY <1>7 DEF Resize
  <2> HIDE DEF r
  <2>4. typed
    BY <2>2, <2>3 DEF TypeOK, typed
  <2>5. muxSize' \in Geometries /\ raced' \subseteq {"name", "size", "early", "failure"}
    BY <1>7 DEF Resize, Geometries, TypeOK
  <2> QED
    BY <1>3, <1>7, <2>4, <2>5 DEF Resize, TypeOK, display, typed
<1> QED
  BY <1>1, <1>4, <1>5, <1>6, <1>7 DEF Call

\* The lists that are put together.
LEMMA AfterPlans ==
    ASSUME TypeOK, NEW t \in Tasks
    PROVE  /\ AfterFailure(t) \in Plans /\ AfterFailure(t) # <<>>
           /\ <<"changed">> \o AfterFailure(t) \in Plans /\ <<"changed">> \o AfterFailure(t) # <<>>
           /\ "wake" \in Range(AfterFailure(t)) /\ Range(AfterFailure(t)) \subseteq {"wake", "retire"}
           /\ Range(<<"changed">> \o AfterFailure(t)) = {"changed"} \union Range(AfterFailure(t))
<1>1. AfterFailure(t) \in {<<"wake">>, <<"wake", "retire">>}
  BY DEF AfterFailure
<1>2. /\ Range(<<"wake">>) = {"wake"} /\ Range(<<"wake", "retire">>) = {"wake", "retire"}
      /\ <<"wake">> # <<>> /\ <<"wake", "retire">> # <<>>
  BY Ranges
<1>3. /\ AfterFailure(t) \in Plans /\ AfterFailure(t) # <<>>
      /\ "wake" \in Range(AfterFailure(t)) /\ Range(AfterFailure(t)) \subseteq {"wake", "retire"}
  BY <1>1, <1>2, SomePlans
<1> QED
  BY <1>3, PlanCons

\* Where a built job's terminal goes on.
LEMMA BuildGoes ==
    ASSUME TypeOK, NEW t \in Tasks, Build(t)
    PROVE  /\ Apart(t)
           /\ task' \in [Tasks -> TaskOf]
           /\ task'[t].todo = Reapplied(t) \o Rest(t) /\ task'[t].todo # <<>>
           /\ task'[t] = [task[t] EXCEPT !.todo = Reapplied(t) \o Rest(t),
                                         !.size = IF Reapplied(t) = <<>> THEN None ELSE muxSize]
           /\ Left(t) = {"build"} \union Range(Rest(t))
           /\ Left(t)' = Range(Rest(t)) \union (IF muxSize # task[t].size THEN {"reapply"} ELSE {})
           /\ (Reapplied(t) = <<>>) <=> (muxSize = task[t].size)
           /\ {"wake", "opened", "published"} \subseteq Range(Rest(t)) /\ "build" \notin Range(Rest(t))
<1> DEFINE s == Reapplied(t) \o Rest(t)
           r == [task[t] EXCEPT !.todo = s, !.size = IF Reapplied(t) = <<>> THEN None ELSE muxSize]
<1>1. /\ Rest(t) \in Plans /\ Left(t) = {"build"} \union Range(Rest(t))
      /\ {"wake", "opened", "published"} \subseteq Range(Rest(t)) /\ "build" \notin Range(Rest(t))
  BY Next1 DEF Build
<1>2. Rest(t) # <<>>
  BY <1>1, Ranges
<1>3. /\ s \in Plans /\ s # <<>>
      /\ Range(s) = Range(Rest(t)) \union (IF muxSize # task[t].size THEN {"reapply"} ELSE {})
      /\ (Reapplied(t) = <<>>) <=> (muxSize = task[t].size)
  <2>1. CASE muxSize # task[t].size
    <3>1. Reapplied(t) = <<"reapply">>
      BY <2>1 DEF Reapplied
    <3>2. <<"reapply">> # <<>>
      OBVIOUS
    <3> QED
      BY <1>1, <2>1, <3>1, <3>2, PlanCons
  <2>2. CASE muxSize = task[t].size
    <3>1. Reapplied(t) = <<>>
      BY <2>2 DEF Reapplied
    <3> QED
      BY <1>1, <1>2, <2>2, <3>1, PlanCons
  <2> QED
    BY <2>1, <2>2
<1>4. Continue(t, r)
  BY DEF Build
<1> HIDE DEF s
<1>5. r \in TaskOf /\ r.todo = s
  <2>1. task[t] \in TaskOf /\ muxSize \in Geometries
    BY DEF TypeOK
  <2> QED
    BY <1>3, <2>1 DEF TaskOf
<1> HIDE DEF r
<1>6. Apart(t) /\ task' \in [Tasks -> TaskOf] /\ task'[t] = r /\ Left(t)' = Range(s)
  BY <1>3, <1>4, <1>5, Continues
<1> QED
  BY <1>1, <1>3, <1>5, <1>6 DEF r, s

\* A terminal takes a size, or goes.
LEMMA TerminalTypes ==
    ASSUME TypeOK
    PROVE  /\ \A u \in Jobs \union {0} : Closed(u) \in [Jobs -> Geometries \union {None}]
           /\ \A u \in Jobs \union {0}, z \in Geometries \union {None} :
                 [Closed(u) EXCEPT ![u] = z] \in [Jobs -> Geometries \union {None}]
  BY DEF TypeOK, Closed

\* A wake-up touches what the others know of it.
LEMMA WakeIs ==
    ASSUME TypeOK, NEW t \in Tasks, Wake(t)
    PROVE  /\ task' \in [Tasks -> TaskOf]
           /\ \A x \in Tasks \ {t} :
                 /\ task'[x] = [task[x] EXCEPT !.woken = task[x].woken \/ Registered(x)]
                 /\ Left(x)' = Left(x) /\ task'[x].todo = task[x].todo
           /\ task'[t].todo = Rest(t) /\ Left(t) = {"wake"} \union Left(t)'
           /\ Rest(t) # <<>> => task'[t] = [task[t] EXCEPT !.todo = Rest(t)]
           /\ Rest(t) = <<>> => task'[t] = Idle
<1>1. Rest(t) \in Plans /\ Left(t) = {"wake"} \union Range(Rest(t))
  BY Next1 DEF Wake
<1>2. \A x \in Tasks : task[x] \in TaskOf
  BY DEF TypeOK
<1>3. \A x \in Tasks \ {t} : task'[x] = [task[x] EXCEPT !.woken = task[x].woken \/ Registered(x)]
  BY DEF Wake
<1>4. ASSUME NEW x \in Tasks \ {t} PROVE task'[x] \in TaskOf /\ task'[x].todo = task[x].todo
  <2>1. task[x].woken \in BOOLEAN /\ Registered(x) \in BOOLEAN
    BY <1>2 DEF TaskOf, Registered, At
  <2>2. (task[x].woken \/ Registered(x)) \in BOOLEAN
    BY <2>1
  <2> DEFINE w == task[x].woken \/ Registered(x)
  <2>3. w \in BOOLEAN /\ task'[x] = [task[x] EXCEPT !.woken = w]
    BY <1>3, <2>2
  <2> HIDE DEF w
  <2> QED
    BY <1>2, <2>3 DEF TaskOf
<1>5. task'[t] = IF Rest(t) = <<>> THEN Idle ELSE [task[t] EXCEPT !.todo = Rest(t)]
  BY DEF Wake
<1>6. [task[t] EXCEPT !.todo = Rest(t)] \in TaskOf /\ [task[t] EXCEPT !.todo = Rest(t)].todo = Rest(t)
  BY <1>1, <1>2 DEF TaskOf
<1>7. task'[t] \in TaskOf /\ task'[t].todo = Rest(t)
  BY <1>5, <1>6, IdleIs
<1>8. task' \in [Tasks -> TaskOf]
  <2>1. \A x \in Tasks : task'[x] \in TaskOf
    BY <1>4, <1>7
  <2>2. task' = [x \in Tasks |-> task'[x]]
    BY DEF Wake
  <2> QED
    BY <2>1, <2>2
<1> QED
  BY <1>1, <1>3, <1>4, <1>5, <1>7, <1>8 DEF Left

\* The steps of a call keep everything of its kind.
LEMMA TypeTasks ==
    ASSUME TypeOK, TaskInv, NEW t \in Tasks, TaskStep(t)
    PROVE  TypeOK'
<1> DEFINE typed == task' \in [Tasks -> TaskOf]
<1>0. task[t] \in TaskOf /\ task[t].uid \in Jobs \union {0} /\ task[t].size \in Geometries \union {None}
  BY DEF TypeOK, TaskOf
<1>a. \A step : At(t, step) /\ Done(t) => typed
  BY DoneIs
<1>b. \A s \in Plans : Then(t, s) => typed
  BY Goes
<1> HIDE DEF typed
<1>1. ASSUME Build(t) PROVE TypeOK'
  <2>1. typed
    BY <1>1, BuildGoes DEF typed
  <2>2. task[t].uid \in Jobs
    <3>1. "build" \in Left(t)
      BY <1>1, BuildGoes
    <3> QED
      BY <1>0, <3>1 DEF TaskInv
  <2>3. row' \in Row
    BY <1>1, <2>2 DEF Build, Open, TypeOK, Row
  <2>4. terminal' \in [Jobs -> Geometries \union {None}]
    <3>1. row.term \in Jobs \union {0}
      BY <1>1 DEF Build, Open, TypeOK, Row
    <3>2. terminal' = [Closed(row.term) EXCEPT ![task[t].uid] = task[t].size]
      BY <1>1 DEF Build
    <3>3. Closed(row.term) \in [Jobs -> Geometries \union {None}]
      BY <3>1, TerminalTypes
    <3> QED
      BY <1>0, <3>2, <3>3
  <2>5. raced' \subseteq {"name", "size", "early", "failure"}
    BY <1>1 DEF Build, TypeOK
  <2> QED
    BY <1>1, <2>1, <2>3, <2>4, <2>5 DEF Build, TypeOK, display, typed
<1>2. ASSUME BuildFails(t) PROVE TypeOK'
  <2>1. typed
    BY <1>2, <1>b, SomePlans DEF BuildFails
  <2> QED
    BY <1>2, <2>1 DEF BuildFails, TypeOK, table, display, typed
<1>3. ASSUME Unspawn(t) PROVE TypeOK'
  <2>1. typed
    BY <1>3, <1>a DEF Unspawn
  <2>2. row' \in Row \union {None} /\ terminal' \in [Jobs -> Geometries \union {None}]
    <3>1. CASE Open
      <4>1. row.term \in Jobs \union {0}
        BY <3>1 DEF Open, TypeOK, Row
      <4> QED
        BY <1>3, <3>1, <4>1, TerminalTypes DEF Unspawn
    <3>2. CASE ~Open
      BY <1>3, <3>2 DEF Unspawn, TypeOK
    <3> QED
      BY <3>1, <3>2
  <2>3. raced' \subseteq {"name", "size", "early", "failure"}
    BY <1>3 DEF Unspawn, TypeOK
  <2> QED
    BY <1>3, <2>1, <2>2, <2>3 DEF Unspawn, TypeOK, display, typed
<1>4. ASSUME Reapply(t) PROVE TypeOK'
  <2>1. typed
    BY <1>4, <1>a DEF Reapply
  <2>2. terminal' \in [Jobs -> Geometries \union {None}]
    BY <1>0, <1>4 DEF Reapply, TypeOK
  <2> QED
    BY <1>4, <2>1, <2>2 DEF Reapply, TypeOK, display, typed
<1>5. ASSUME Wake(t) PROVE TypeOK'
  <2>1. typed
    BY <1>5, WakeIs DEF typed
  <2> QED
    BY <1>5, <2>1 DEF Wake, TypeOK, table, display, typed
<1>6. ASSUME Launch(t) PROVE TypeOK'
  <2>1. typed
    BY <1>6, <1>b, AfterPlans, SomePlans DEF Launch
  <2>2. row' \in Row \union {None}
    BY <1>6 DEF Launch, Open, TypeOK, Row
  <2>3. raced' \subseteq {"name", "size", "early", "failure"}
    BY <1>6 DEF Launch, TypeOK
  <2> QED
    BY <1>6, <2>1, <2>2, <2>3 DEF Launch, TypeOK, display, typed
<1>7. ASSUME Retire(t) PROVE TypeOK'
  <2>1. typed /\ row' \in Row \union {None} /\ current' \in BOOLEAN
        /\ raced' \subseteq {"name", "size", "early", "failure"}
    <3>1. CASE Open /\ row.state = "idle"
      <4> DEFINE r == [task[t] EXCEPT !.uid = row.term, !.todo = <<"drop">>]
      <4>1. row.term \in Jobs \union {0}
        BY <3>1 DEF Open, TypeOK, Row
      <4>2. r \in TaskOf
        BY <1>0, <4>1, SomePlans DEF TaskOf
      <4>3. Continue(t, r) /\ Removed /\ UNCHANGED raced
        BY <1>7, <3>1 DEF Retire
      <4> HIDE DEF r
      <4> QED
        BY <4>2, <4>3, Continues DEF typed, Removed, TypeOK
    <3>2. CASE Open /\ row.state # "idle"
      <4>1. Done(t) /\ At(t, "retire") /\ UNCHANGED current /\ raced' = raced \union {"failure"}
            /\ row' = [row EXCEPT !.stop = "graceful"]
        BY <1>7, <3>2 DEF Retire
      <4>2. row' \in Row
        BY <3>2, <4>1 DEF TypeOK, Open, Row
      <4> QED
        BY <1>a, <4>1, <4>2 DEF TypeOK
    <3>3. CASE ~Open
      BY <1>7, <1>a, <3>3 DEF Retire, TypeOK
    <3> QED
      BY <3>1, <3>2, <3>3
  <2> QED
    BY <1>7, <2>1 DEF Retire, TypeOK, display, typed
<1>8. ASSUME Drop(t) PROVE TypeOK'
  <2>1. typed /\ terminal' \in [Jobs -> Geometries \union {None}]
    BY <1>0, <1>8, <1>a, TerminalTypes DEF Drop
  <2> QED
    BY <1>8, <2>1 DEF Drop, TypeOK, display, typed
<1>9. ASSUME Register(t) PROVE TypeOK'
  <2> DEFINE r == [task[t] EXCEPT !.woken = FALSE, !.todo = Rest(t)]
  <2>1. r \in TaskOf
    BY <1>0, <1>9, Next1 DEF TaskOf, Register
  <2>2. Continue(t, r)
    BY <1>9 DEF Register
  <2> HIDE DEF r
  <2>3. typed
    BY <2>1, <2>2, Continues DEF typed
  <2> QED
    BY <1>9, <2>3 DEF Register, TypeOK, table, display, typed
<1>10. ASSUME Check(t) PROVE TypeOK'
  <2>1. typed
    BY <1>10, <1>b, SomePlans DEF Check, WaitRegistered
  <2> QED
    BY <1>10, <2>1 DEF Check, TypeOK, table, display, typed
<1>11. ASSUME Wait(t) PROVE TypeOK'
  <2>1. typed
    BY <1>11, <1>a DEF Wait
  <2> QED
    BY <1>11, <2>1 DEF Wait, TypeOK, table, display, typed
<1>12. ASSUME Select(t) PROVE TypeOK'
  <2>1. typed
    BY <1>12, <1>b, SomePlans DEF Select
  <2> QED
    BY <1>12, <2>1 DEF Select, TypeOK, display, typed
<1>13. ASSUME Apply(t) PROVE TypeOK'
  <2> DEFINE r == [task[t] EXCEPT !.todo = Rest(t), !.targets = {}]
  <2>1. r \in TaskOf
    BY <1>0, <1>13, Next1 DEF TaskOf, Apply
  <2>2. Continue(t, r)
    BY <1>13 DEF Apply
  <2> HIDE DEF r
  <2>3. typed
    BY <2>1, <2>2, Continues DEF typed
  <2>4. terminal' \in [Jobs -> Geometries \union {None}]
    BY <1>0, <1>13 DEF Apply, TypeOK
  <2> QED
    BY <1>13, <2>3, <2>4 DEF Apply, TypeOK, display, typed
<1>14. ASSUME ReadRows(t) PROVE TypeOK'
  <2> DEFINE r == [task[t] EXCEPT !.row = RowShown]
  <2>1. r \in TaskOf
    BY <1>0, Displays DEF TaskOf
  <2>2. task' = [task EXCEPT ![t] = r]
    BY <1>14 DEF ReadRows
  <2> HIDE DEF r
  <2>3. typed
    BY <2>1, <2>2 DEF typed, TypeOK
  <2> QED
    BY <1>14, <2>3 DEF ReadRows, TypeOK, table, display, typed
<1>15. ASSUME ReadCurrent(t) PROVE TypeOK'
  <2> DEFINE m == [kind |-> "jobs", shown |-> [task[t].row EXCEPT !.current = CurrentShown]]
             r == [task[t] EXCEPT !.todo = Rest(t), !.row = None]
  <2>1. (At(t, "changed") \/ At(t, "published")) /\ task[t].row \in Display
    BY <1>0, <1>15 DEF ReadCurrent, TaskInv, TaskOf
  <2>2. m \in Message
    BY <2>1, Displays DEF Message, Display
  <2>3. r \in TaskOf
    BY <1>0, <2>1, Next1 DEF TaskOf
  <2>4. Continue(t, r) /\ Publish(m)
    BY <1>15 DEF ReadCurrent
  <2> HIDE DEF r, m
  <2>5. typed /\ client' \in [Clients -> ClientOf]
    BY <2>2, <2>3, <2>4, Continues, PublishType DEF typed, TypeOK, ClientOf
  <2>6. pump' \in [Jobs -> {"none", "running", "done"}]
    BY <1>15 DEF ReadCurrent, TypeOK
  <2> QED
    BY <1>15, <2>5, <2>6 DEF ReadCurrent, TypeOK, table, typed, ClientOf
<1>16. ASSUME Opened(t) PROVE TypeOK'
  <2>1. typed /\ raced' \subseteq {"name", "size", "early", "failure"}
    BY <1>16, <1>a DEF Opened, TypeOK
  <2> QED
    BY <1>0, <1>16, <2>1 DEF Opened, TypeOK, table, typed
<1>17. ASSUME Resized(t) PROVE TypeOK'
  <2>1. typed
    BY <1>17, <1>a DEF Resized
  <2>2. "resized" \in Left(t)
    BY <1>17, Next1 DEF Resized
  <2>3. size' \in Geometries
    BY <1>0, <1>17, <2>2 DEF Resized, TaskInv
  <2> QED
    BY <1>17, <2>1, <2>3 DEF Resized, TypeOK, table, typed
<1> QED
  BY <1>1, <1>2, <1>3, <1>4, <1>5, <1>6, <1>7, <1>8, <1>9, <1>10, <1>11, <1>12, <1>13,
     <1>14, <1>15, <1>16, <1>17 DEF TaskStep

\* So do conclusions, pumps and sockets.
LEMMA TypeOthers ==
    ASSUME TypeOK
    PROVE  /\ Conclude => TypeOK'
           /\ \A u \in Jobs : PumpEnds(u) => TypeOK'
           /\ \A c \in Clients : ClientStep(c) => TypeOK'
<1>1. ASSUME Conclude PROVE TypeOK'
  <2> DEFINE r == IF Closing THEN [Idle EXCEPT !.uid = row.term, !.todo = <<"drop", "changed">>]
                  ELSE [Idle EXCEPT !.todo = <<"changed">>]
  <2>1. row \in Row
    BY <1>1 DEF Conclude, Open, TypeOK
  <2>2. r \in TaskOf
    BY <2>1, IdleIs, SomePlans DEF TaskOf, Row
  <2>3. task' = [task EXCEPT ![Concluder] = r] /\ row' \in Row \union {None} /\ current' \in BOOLEAN
    BY <1>1, <2>1 DEF Conclude, Begin, Removed, Row, TypeOK
  <2> HIDE DEF r
  <2>4. task' \in [Tasks -> TaskOf]
    BY <2>2, <2>3 DEF TypeOK
  <2> QED
    BY <1>1, <2>3, <2>4 DEF Conclude, TypeOK, display
<1>2. ASSUME NEW u \in Jobs, PumpEnds(u) PROVE TypeOK'
  <2> DEFINE m == [kind |-> "closed", shown |-> [Blank EXCEPT !.uid = u]]
  <2>1. m \in Message
    BY DEF Message, Display, Blank
  <2>2. Publish(m)
    BY <1>2 DEF PumpEnds
  <2> HIDE DEF m
  <2>3. client' \in [Clients -> ClientOf]
    BY <2>1, <2>2, PublishType DEF TypeOK, ClientOf
  <2>4. pump' \in [Jobs -> {"none", "running", "done"}] /\ handle' \in Jobs \union {0}
    BY <1>2 DEF PumpEnds, OwnHandleDropped, TypeOK
  <2> QED
    BY <1>2, <2>3, <2>4 DEF PumpEnds, TypeOK, table, ClientOf
<1>3. ASSUME NEW c \in Clients, ClientStep(c) PROVE TypeOK'
  <2>1. client \in [Clients -> ClientOf] /\ client[c] \in ClientOf
    BY DEF TypeOK, ClientOf
  <2>2. client' \in [Clients -> ClientOf]
    <3>1. CASE Connect(c)
      BY <2>1, <3>1 DEF Connect, ClientOf
    <3>2. CASE GreetRows(c)
      BY <2>1, <3>2, Displays DEF GreetRows, ClientOf
    <3>3. CASE Greet(c)
      <4>1. [client[c].shown EXCEPT !.current = CurrentShown] \in Display
        BY <2>1, Displays DEF ClientOf, Display
      <4>2. client' = [client EXCEPT ![c] = [client[c] EXCEPT !.state = "on",
                           !.inbox = client[c].inbox,
                           !.shown = [client[c].shown EXCEPT !.current = CurrentShown]]]
        BY <2>1, <3>3 DEF Greet, Subscribed
      <4> QED
        BY <2>1, <4>1, <4>2 DEF ClientOf
    <3>4. CASE Lag(c)
      BY <2>1, <3>4, Displays DEF Lag, ClientOf
    <3>5. CASE Receive(c)
      <4>1. client[c].inbox \in Seq(Message) /\ client[c].inbox # <<>> /\ client[c].shown \in Display
        BY <2>1, <3>5 DEF Receive, ClientOf
      <4>2. Tail(client[c].inbox) \in Seq(Message) /\ Head(client[c].inbox) \in Message
        BY <4>1
      <4>3. Received(client[c].shown, Head(client[c].inbox)) \in Display
        BY <4>1, <4>2, Displays DEF Received, Message
      <4>4. client' = [client EXCEPT ![c] = [client[c] EXCEPT
                           !.inbox = Tail(client[c].inbox),
                           !.shown = Received(client[c].shown, Head(client[c].inbox))]]
        BY <2>1, <3>5 DEF Receive
      <4> QED
        BY <2>1, <4>2, <4>3, <4>4 DEF ClientOf
    <3> QED
      BY <1>3, <3>1, <3>2, <3>3, <3>4, <3>5 DEF ClientStep
  <2>3. UNCHANGED <<table, task, calls, reading, display, raced>>
    BY <1>3 DEF ClientStep, Connect, GreetRows, Greet, Lag, Receive
  <2> QED
    BY <2>2, <2>3 DEF TypeOK, table, display, ClientOf
<1> QED
  BY <1>1, <1>2, <1>3

\* Every step does.
LEMMA TypeStep ==
    ASSUME TypeOK, TaskInv, [Next]_vars
    PROVE  TypeOK'
<1>1. CASE UNCHANGED vars
  BY <1>1 DEF vars, TypeOK
<1>2. Callers \subseteq Tasks
  BY DEF Tasks
<1> QED
  BY <1>1, <1>2, TypeCalls, TypeTasks, TypeOthers DEF Next

-----------------------------------------------------------------------------
(* What each step does to the calls, in terms of the steps they have left.  *)

\* The calls of the others stay as they are, but for being woken.
Same(t) ==
    \A x \in Tasks \ {t} :
        /\ Left(x)' = Left(x)
        /\ task'[x].todo = task[x].todo /\ task'[x].uid = task[x].uid
        /\ task'[x].size = task[x].size /\ task'[x].targets = task[x].targets
        /\ task'[x].row = task[x].row

\* The call of t keeps its number and its size, until it is over.
Keeps(t) ==
    /\ Left(t)' # {} => task'[t].uid = task[t].uid /\ task'[t].size = task[t].size
    /\ Left(t)' = {} => task'[t].uid = 0

\* A step of t that is done and gone, and leaves the rest of the call.
Drops(t, step) ==
    /\ Apart(t) /\ Same(t) /\ Keeps(t)
    /\ Left(t) = {step} \union Left(t)'
    /\ task'[t].todo = Rest(t)

\* Calls that are apart are the same.
LEMMA ApartSame == ASSUME NEW t \in Tasks, Apart(t) PROVE Same(t)
  BY DEF Apart, Same

\* A list of steps that has none is empty.
LEMMA NoneLeft ==
    /\ \A s \in Plans : (s = <<>>) <=> (Range(s) = {})
    /\ \A t \in Tasks : task[t].todo = <<>> => Left(t) = {}
<1>1. ASSUME NEW s \in Plans, s # <<>> PROVE Range(s) # {}
  <2>1. s \in Seq(Steps) /\ 1 \in DOMAIN s
    BY <1>1 DEF Plans
  <2> QED
    BY <2>1 DEF Range
<1> QED
  BY <1>1, Ranges DEF Left

\* Done leaves the rest.
LEMMA DoneDrops ==
    ASSUME TypeOK, NEW t \in Tasks, NEW step, At(t, step), Done(t)
    PROVE  Drops(t, step) /\ (Left(t)' # {} => task'[t] = [task[t] EXCEPT !.todo = Rest(t)])
<1>1. /\ Apart(t)
      /\ task'[t].todo = Rest(t) /\ Left(t) = {step} \union Left(t)'
      /\ Rest(t) # <<>> => task'[t] = [task[t] EXCEPT !.todo = Rest(t)]
      /\ Rest(t) = <<>> => task'[t] = Idle
      /\ Left(t)' = Range(Rest(t))
  BY DoneIs
<1>2. Rest(t) \in Plans
  BY Next1
<1>3. (Rest(t) = <<>>) <=> (Left(t)' = {})
  BY <1>1, <1>2, NoneLeft
<1>4. Keeps(t)
  <2>1. task[t] \in TaskOf
    BY DEF TypeOK
  <2>2. Left(t)' # {} => task'[t].uid = task[t].uid /\ task'[t].size = task[t].size
    BY <1>1, <1>3, <2>1 DEF TaskOf
  <2>3. Idle.uid = 0
    BY DEF Idle
  <2> QED
    BY <1>1, <1>3, <2>2, <2>3 DEF Keeps
<1> QED
  BY <1>1, <1>3, <1>4, ApartSame DEF Drops

\* Done leaves the rest, with another field of the call changed.
LEMMA ContinueDrops ==
    ASSUME TypeOK, NEW t \in Tasks, NEW step, At(t, step), NEW r \in TaskOf,
           r.todo = Rest(t), r.uid = task[t].uid, r.size = task[t].size, Continue(t, r)
    PROVE  Drops(t, step) /\ (Left(t)' # {} => task'[t] = r)
<1>1. /\ Apart(t)
      /\ task'[t] = IF r.todo = <<>> THEN Idle ELSE r
      /\ task'[t].todo = r.todo /\ Left(t)' = Range(r.todo)
  BY Continues
<1>2. Rest(t) \in Plans /\ Left(t) = {step} \union Range(Rest(t))
  BY Next1
<1>3. (Rest(t) = <<>>) <=> (Left(t)' = {})
  BY <1>1, <1>2, NoneLeft
<1>4. Keeps(t)
  <2>1. Idle.uid = 0
    BY DEF Idle
  <2> QED
    BY <1>1, <1>3, <2>1 DEF Keeps
<1> QED
  BY <1>1, <1>2, <1>3, <1>4, ApartSame DEF Drops

\* A call that goes on with another list.
LEMMA GoesKeeps ==
    ASSUME TypeOK, NEW t \in Tasks, NEW s \in Plans, Then(t, s)
    PROVE  Apart(t) /\ Same(t) /\ Keeps(t) /\ Left(t)' = Range(s) /\ task'[t].todo = s
<1>1. /\ Apart(t)
      /\ task'[t].todo = s /\ Left(t)' = Range(s)
      /\ s # <<>> => task'[t] = [task[t] EXCEPT !.todo = s]
      /\ s = <<>> => task'[t] = Idle
  BY Goes
<1>2. (s = <<>>) <=> (Left(t)' = {})
  BY <1>1, NoneLeft
<1>3. Keeps(t)
  <2>1. task[t] \in TaskOf
    BY DEF TypeOK
  <2>2. Left(t)' # {} => task'[t].uid = task[t].uid /\ task'[t].size = task[t].size
    BY <1>1, <1>2, <2>1 DEF TaskOf
  <2>3. Idle.uid = 0
    BY DEF Idle
  <2> QED
    BY <1>1, <1>2, <2>2, <2>3 DEF Keeps
<1> QED
  BY <1>1, <1>3, ApartSame

\* The simple steps.
LEMMA StepDrops ==
    ASSUME TypeOK, NEW t \in Tasks
    PROVE  /\ Unspawn(t) => Drops(t, "unspawn") /\ {"wake", "changed"} \subseteq Left(t)'
           /\ Reapply(t) => Drops(t, "reapply")
           /\ Drop(t) => Drops(t, "drop")
           /\ Wait(t) => Drops(t, "wait")
           /\ Opened(t) => Drops(t, "opened")
           /\ Resized(t) => Drops(t, "resized")
           /\ Register(t) => Drops(t, "register")
           /\ Apply(t) => Drops(t, "apply")
<1>0. task[t] \in TaskOf
  BY DEF TypeOK
<1>1. ASSUME Unspawn(t) PROVE Drops(t, "unspawn") /\ {"wake", "changed"} \subseteq Left(t)'
  <2>1. At(t, "unspawn") /\ Done(t)
    BY <1>1 DEF Unspawn
  <2>2. Drops(t, "unspawn")
    BY <2>1, DoneDrops
  <2>3. {"wake", "changed"} \subseteq Range(Rest(t))
    BY <2>1, Next1
  <2>4. Left(t)' = Range(Rest(t))
    BY <2>1, DoneIs
  <2> QED
    BY <2>2, <2>3, <2>4
<1>2. Reapply(t) => Drops(t, "reapply")
  BY DoneDrops DEF Reapply
<1>3. Drop(t) => Drops(t, "drop")
  BY DoneDrops DEF Drop
<1>4. Wait(t) => Drops(t, "wait")
  BY DoneDrops DEF Wait
<1>5. Opened(t) => Drops(t, "opened")
  BY DoneDrops DEF Opened
<1>6. Resized(t) => Drops(t, "resized")
  BY DoneDrops DEF Resized
<1>7. ASSUME Register(t) PROVE Drops(t, "register")
  <2> DEFINE r == [task[t] EXCEPT !.woken = FALSE, !.todo = Rest(t)]
  <2>1. At(t, "register") /\ Continue(t, r)
    BY <1>7 DEF Register
  <2>2. Rest(t) \in Plans
    BY <2>1, Next1
  <2>3. r \in TaskOf /\ r.todo = Rest(t) /\ r.uid = task[t].uid /\ r.size = task[t].size
    BY <1>0, <2>2 DEF TaskOf
  <2> HIDE DEF r
  <2> QED
    BY <2>1, <2>3, ContinueDrops
<1>8. ASSUME Apply(t) PROVE Drops(t, "apply")
  <2> DEFINE r == [task[t] EXCEPT !.todo = Rest(t), !.targets = {}]
  <2>1. At(t, "apply") /\ Continue(t, r)
    BY <1>8 DEF Apply
  <2>2. Rest(t) \in Plans
    BY <2>1, Next1
  <2>3. r \in TaskOf /\ r.todo = Rest(t) /\ r.uid = task[t].uid /\ r.size = task[t].size
    BY <1>0, <2>2 DEF TaskOf
  <2> HIDE DEF r
  <2> QED
    BY <2>1, <2>3, ContinueDrops
<1> QED
  BY <1>1, <1>2, <1>3, <1>4, <1>5, <1>6, <1>7, <1>8

\* The steps that put others in the place of those they leave.
LEMMA StepTurns ==
    ASSUME TypeOK, NEW t \in Tasks
    PROVE  /\ BuildFails(t) => /\ Apart(t) /\ Same(t) /\ Keeps(t) /\ "build" \in Left(t)
                               /\ Left(t)' = {"unspawn", "wake", "changed"}
                               /\ task'[t].todo = <<"unspawn", "wake", "changed">>
           /\ Launch(t) => /\ Apart(t) /\ Same(t) /\ Keeps(t) /\ Left(t) = {"launch"}
                           /\ "wake" \in Left(t)' /\ Left(t)' \subseteq {"changed", "wake", "retire"}
           /\ Check(t) => /\ Apart(t) /\ Same(t) /\ Keeps(t) /\ Left(t) = {"check"}
                          /\ Left(t)' \subseteq {"wait", "register", "check", "select"}
                          /\ "wait" \in Left(t)' => Pending /\ task'[t].todo = WaitRegistered
           /\ Select(t) => /\ Apart(t) /\ Same(t) /\ Keeps(t) /\ Left(t) = {"select"}
                           /\ Left(t)' \subseteq {"changed"}
                           /\ Visible => Left(t)' = {"changed"}
           /\ Retire(t) => /\ Apart(t) /\ Same(t) /\ Left(t) = {"retire"} /\ Left(t)' \subseteq {"drop"}
                           /\ Open /\ row.state = "idle" =>
                                 Left(t)' = {"drop"} /\ task'[t].uid = row.term
                           /\ ~(Open /\ row.state = "idle") => Left(t)' = {}
<1>0. task[t] \in TaskOf
  BY DEF TypeOK
<1>a. ASSUME NEW step \in Final, At(t, step) PROVE Left(t) = {step} /\ Rest(t) = <<>>
  BY <1>a, Next1, Ranges
<1>1. ASSUME BuildFails(t)
      PROVE  /\ Apart(t) /\ Same(t) /\ Keeps(t) /\ "build" \in Left(t)
             /\ Left(t)' = {"unspawn", "wake", "changed"}
             /\ task'[t].todo = <<"unspawn", "wake", "changed">>
  <2> DEFINE s == <<"unspawn", "wake", "changed">>
  <2>1. At(t, "build") /\ Then(t, s) /\ s \in Plans
    BY <1>1, SomePlans DEF BuildFails
  <2>2. Range(s) = {"unspawn", "wake", "changed"}
    BY Ranges
  <2> HIDE DEF s
  <2>3. Apart(t) /\ Same(t) /\ Keeps(t) /\ Left(t)' = Range(s) /\ task'[t].todo = s
    BY <2>1, GoesKeeps
  <2>4. "build" \in Left(t)
    BY <2>1, Next1
  <2> QED
    BY <2>2, <2>3, <2>4 DEF s
<1>2. ASSUME Launch(t)
      PROVE  /\ Apart(t) /\ Same(t) /\ Keeps(t) /\ Left(t) = {"launch"}
             /\ "wake" \in Left(t)' /\ Left(t)' \subseteq {"changed", "wake", "retire"}
  <2>1. PICK s \in {<<"changed", "wake">>, <<"changed">> \o AfterFailure(t), AfterFailure(t)} : Then(t, s)
    BY <1>2 DEF Launch
  <2>2. s \in Plans
    BY <2>1, SomePlans, AfterPlans
  <2>3. "wake" \in Range(s) /\ Range(s) \subseteq {"changed", "wake", "retire"}
    <3>1. Range(<<"changed", "wake">>) = {"changed", "wake"}
      BY Ranges
    <3> QED
      BY <2>1, <3>1, AfterPlans
  <2>4. Left(t) = {"launch"}
    BY <1>2, <1>a DEF Launch, Final
  <2> QED
    BY <2>1, <2>2, <2>3, <2>4, GoesKeeps
<1>3. ASSUME Check(t)
      PROVE  /\ Apart(t) /\ Same(t) /\ Keeps(t) /\ Left(t) = {"check"}
             /\ Left(t)' \subseteq {"wait", "register", "check", "select"}
             /\ "wait" \in Left(t)' => Pending /\ task'[t].todo = WaitRegistered
  <2>1. PICK s \in {WaitRegistered, <<"select">>} : Then(t, s) /\ (s = WaitRegistered => Pending)
    <3>1. WaitRegistered # <<"select">>
      <4>1. Range(WaitRegistered) # Range(<<"select">>)
        BY Ranges DEF WaitRegistered
      <4> QED
        BY <4>1
    <3> QED
      BY <1>3, <3>1 DEF Check
  <2>2. WaitRegistered \in Plans /\ <<"select">> \in Plans
    BY SomePlans DEF WaitRegistered
  <2>3. Range(WaitRegistered) = {"wait", "register", "check"} /\ Range(<<"select">>) = {"select"}
    BY Ranges DEF WaitRegistered
  <2>4. Left(t) = {"check"}
    BY <1>3, <1>a DEF Check, Final
  <2>5. Apart(t) /\ Same(t) /\ Keeps(t) /\ Left(t)' = Range(s) /\ task'[t].todo = s
    BY <2>1, <2>2, GoesKeeps
  <2>6. "wait" \in Range(s) => s = WaitRegistered
    BY <2>1, <2>3
  <2> QED
    BY <2>1, <2>3, <2>4, <2>5, <2>6
<1>4. ASSUME Select(t)
      PROVE  /\ Apart(t) /\ Same(t) /\ Keeps(t) /\ Left(t) = {"select"}
             /\ Left(t)' \subseteq {"changed"}
             /\ Visible => Left(t)' = {"changed"}
  <2>1. /\ Visible => Then(t, <<"changed">>)
        /\ ~Visible => Then(t, <<>>)
    BY <1>4 DEF Select
  <2>2. <<>> \in Plans /\ <<"changed">> \in Plans
    BY SomePlans
  <2>3. Range(<<>>) = {} /\ Range(<<"changed">>) = {"changed"}
    BY Ranges
  <2>4. Left(t) = {"select"}
    BY <1>4, <1>a DEF Select, Final
  <2>5. CASE Visible
    BY <2>1, <2>2, <2>3, <2>4, <2>5, GoesKeeps
  <2>6. CASE ~Visible
    BY <2>1, <2>2, <2>3, <2>4, <2>6, GoesKeeps
  <2> QED
    BY <2>5, <2>6
<1>5. ASSUME Retire(t)
      PROVE  /\ Apart(t) /\ Same(t) /\ Left(t) = {"retire"} /\ Left(t)' \subseteq {"drop"}
             /\ Open /\ row.state = "idle" => Left(t)' = {"drop"} /\ task'[t].uid = row.term
             /\ ~(Open /\ row.state = "idle") => Left(t)' = {}
  <2>1. At(t, "retire")
    BY <1>5 DEF Retire
  <2>2. Left(t) = {"retire"} /\ Rest(t) = <<>>
    BY <2>1, <1>a DEF Final
  <2>3. CASE Open /\ row.state = "idle"
    <3> DEFINE r == [task[t] EXCEPT !.uid = row.term, !.todo = <<"drop">>]
    <3>1. row.term \in Jobs \union {0}
      BY <2>3 DEF Open, TypeOK, Row
    <3>2. r \in TaskOf
      BY <1>0, <3>1, SomePlans DEF TaskOf
    <3>3. Continue(t, r)
      BY <1>5, <2>3 DEF Retire
    <3>4. r.todo = <<"drop">> /\ r.uid = row.term /\ <<"drop">> # <<>>
      BY <1>0 DEF TaskOf
    <3>5. Range(<<"drop">>) = {"drop"}
      BY Ranges
    <3> HIDE DEF r
    <3>6. /\ Apart(t)
          /\ task'[t] = IF r.todo = <<>> THEN Idle ELSE r
          /\ Left(t)' = Range(r.todo)
      BY <3>2, <3>3, Continues
    <3> QED
      BY <2>2, <2>3, <3>4, <3>5, <3>6, ApartSame
  <2>4. CASE ~(Open /\ row.state = "idle")
    <3>1. Done(t)
      BY <1>5, <2>4 DEF Retire
    <3>2. Left(t)' = Range(Rest(t)) /\ Apart(t)
      BY <2>1, <3>1, DoneIs
    <3> QED
      BY <2>2, <2>4, <3>2, Ranges, ApartSame
  <2> QED
    BY <2>3, <2>4
<1> QED
  BY <1>1, <1>2, <1>3, <1>4, <1>5

\* The announcements, and the wake-up.
LEMMA StepTells ==
    ASSUME TypeOK, TaskInv, NEW t \in Tasks
    PROVE  /\ ReadRows(t) =>
                 /\ Apart(t) /\ Same(t) /\ Announces(t)
                 /\ Left(t)' = Left(t) /\ task'[t].todo = task[t].todo
                 /\ task'[t] = [task[t] EXCEPT !.row = RowShown]
                 /\ task'[t].uid = task[t].uid /\ task'[t].size = task[t].size
                 /\ task'[t].targets = task[t].targets
           /\ ReadCurrent(t) =>
                 /\ Announces(t) /\ (Drops(t, "changed") \/ Drops(t, "published"))
                 /\ At(t, "changed") => Drops(t, "changed")
                 /\ At(t, "published") => Drops(t, "published")
                 /\ Left(t)' # {} => task'[t].targets = task[t].targets
           /\ Wake(t) =>
                 /\ Same(t) /\ Keeps(t)
                 /\ Left(t) = {"wake"} \union Left(t)' /\ task'[t].todo = Rest(t)
                 /\ Left(t)' # {} => task'[t].targets = task[t].targets
                 /\ \A x \in Tasks \ {t} : Registered(x) => task'[x].woken
<1>0. task[t] \in TaskOf
  BY DEF TypeOK
<1>1. ASSUME ReadRows(t)
      PROVE  /\ Apart(t) /\ Same(t) /\ Announces(t)
             /\ Left(t)' = Left(t) /\ task'[t].todo = task[t].todo
             /\ task'[t] = [task[t] EXCEPT !.row = RowShown]
             /\ task'[t].uid = task[t].uid /\ task'[t].size = task[t].size
             /\ task'[t].targets = task[t].targets
  <2> DEFINE r == [task[t] EXCEPT !.row = RowShown]
  <2>1. task' = [task EXCEPT ![t] = r] /\ Announces(t) /\ task \in [Tasks -> TaskOf]
    BY <1>1 DEF ReadRows, TypeOK
  <2>2. /\ r.todo = task[t].todo /\ r.uid = task[t].uid /\ r.size = task[t].size
        /\ r.targets = task[t].targets
    BY <1>0 DEF TaskOf
  <2> HIDE DEF r
  <2>3. task'[t] = r /\ \A x \in Tasks \ {t} : task'[x] = task[x]
    BY <2>1
  <2>4. Apart(t) /\ Left(t)' = Left(t)
    BY <2>2, <2>3 DEF Apart, Left
  <2> QED
    BY <2>1, <2>2, <2>3, <2>4, ApartSame DEF r
<1>2. ASSUME ReadCurrent(t)
      PROVE  /\ Announces(t) /\ (Drops(t, "changed") \/ Drops(t, "published"))
             /\ At(t, "changed") => Drops(t, "changed")
             /\ At(t, "published") => Drops(t, "published")
             /\ Left(t)' # {} => task'[t].targets = task[t].targets
  <2> DEFINE r == [task[t] EXCEPT !.todo = Rest(t), !.row = None]
  <2>1. Announces(t) /\ Continue(t, r)
    BY <1>2 DEF ReadCurrent, TaskInv, Announces
  <2>2. Rest(t) \in Plans
    BY <2>1, Next1 DEF Announces
  <2>3. /\ r \in TaskOf /\ r.todo = Rest(t) /\ r.uid = task[t].uid /\ r.size = task[t].size
        /\ r.targets = task[t].targets
    BY <1>0, <2>2 DEF TaskOf
  <2> HIDE DEF r
  <2>4. ASSUME NEW step, At(t, step) PROVE Drops(t, step) /\ (Left(t)' # {} => task'[t] = r)
    BY <2>1, <2>3, <2>4, ContinueDrops
  <2> QED
    BY <2>1, <2>3, <2>4 DEF Announces
<1>3. ASSUME Wake(t)
      PROVE  /\ Same(t) /\ Keeps(t)
             /\ Left(t) = {"wake"} \union Left(t)' /\ task'[t].todo = Rest(t)
             /\ Left(t)' # {} => task'[t].targets = task[t].targets
             /\ \A x \in Tasks \ {t} : Registered(x) => task'[x].woken
  <2>1. /\ \A x \in Tasks \ {t} :
              /\ task'[x] = [task[x] EXCEPT !.woken = task[x].woken \/ Registered(x)]
              /\ Left(x)' = Left(x) /\ task'[x].todo = task[x].todo
        /\ task'[t].todo = Rest(t) /\ Left(t) = {"wake"} \union Left(t)'
        /\ Rest(t) # <<>> => task'[t] = [task[t] EXCEPT !.todo = Rest(t)]
        /\ Rest(t) = <<>> => task'[t] = Idle
    BY <1>3, WakeIs
  <2>2. Left(t)' = Range(Rest(t)) /\ Rest(t) \in Plans
    BY <1>3, <2>1, Next1 DEF Wake, Left
  <2>3. (Rest(t) = <<>>) <=> (Left(t)' = {})
    BY <2>2, NoneLeft
  <2>4. Keeps(t) /\ (Left(t)' # {} => task'[t].targets = task[t].targets)
    <3>1. Left(t)' # {} => /\ task'[t].uid = task[t].uid /\ task'[t].size = task[t].size
                           /\ task'[t].targets = task[t].targets
      BY <1>0, <2>1, <2>3 DEF TaskOf
    <3>2. Left(t)' = {} => task'[t].uid = 0
      BY <2>1, <2>3 DEF Idle
    <3> QED
      BY <3>1, <3>2 DEF Keeps
  <2>5. ASSUME NEW x \in Tasks \ {t}
        PROVE  /\ task'[x].uid = task[x].uid
               /\ task'[x].size = task[x].size /\ task'[x].targets = task[x].targets
               /\ task'[x].row = task[x].row
               /\ Registered(x) => task'[x].woken
    <3>1. task[x] \in TaskOf
      BY DEF TypeOK
    <3>2. task'[x] = [task[x] EXCEPT !.woken = task[x].woken \/ Registered(x)]
      BY <2>1
    <3> QED
      BY <3>1, <3>2 DEF TaskOf
  <2> QED
    BY <2>1, <2>4, <2>5 DEF Same
<1> QED
  BY <1>1, <1>2, <1>3

\* A call that is begun with the steps s and nothing else.
LEMMA BeginsWith ==
    ASSUME TypeOK, NEW t \in Tasks, NEW s \in Plans, s # <<>>, task[t].todo = <<>>, Begin(t, s)
    PROVE  /\ Apart(t) /\ Same(t) /\ Left(t) = {} /\ Left(t)' = Range(s)
           /\ task'[t].todo = s /\ task'[t].uid = 0 /\ task'[t].targets = {}
<1> DEFINE r == [Idle EXCEPT !.todo = s]
<1>1. r \in TaskOf /\ r.todo = s /\ r.uid = 0 /\ r.targets = {}
  BY IdleIs DEF TaskOf, Idle
<1>2. task' = [task EXCEPT ![t] = r]
  BY DEF Begin
<1> HIDE DEF r
<1> QED
  BY <1>1, <1>2, Begins, ApartSame

\* The calls.
LEMMA CallBegins ==
    ASSUME TypeOK, NEW t \in Tasks
    PROVE  /\ \A opens \in BOOLEAN : Spawn(t, opens) =>
                 /\ Apart(t) /\ Same(t) /\ Left(t) = {}
                 /\ Left(t)' \subseteq {"changed", "build", "wake", "opened", "published", "launch"}
                 /\ {"changed", "build", "wake", "opened", "published"} \subseteq Left(t)'
                 /\ task'[t].todo = Opening(opens) /\ task'[t].uid = uids + 1
                 /\ task'[t].size = muxSize /\ uids' = uids + 1 /\ uids + 1 \in Jobs
           /\ StartIn(t) =>
                 /\ Apart(t) /\ Same(t) /\ Left(t) = {} /\ Left(t)' = {"changed", "launch"}
                 /\ task'[t].uid = 0
           /\ \A force \in BOOLEAN : Stop(t, force) =>
                 /\ Apart(t) /\ Same(t) /\ Left(t) = {}
                 /\ row.state = "idle" => Left(t)' = {"changed", "drop"} /\ task'[t].uid = row.term
                 /\ row.state # "idle" => Left(t)' = {"changed"} /\ task'[t].uid = 0
           /\ Switch(t) =>
                 /\ Apart(t) /\ Same(t) /\ Left(t) = {} /\ Left(t)' = {"changed", "register", "check"}
                 /\ task'[t].uid = 0
           /\ \A s \in Sizes : Resize(t, s) =>
                 /\ Apart(t) /\ Same(t) /\ Left(t) = {} /\ Left(t)' = {"apply", "resized"}
                 /\ task'[t].uid = 0 /\ task'[t].size = s
                 /\ task'[t].targets = IF Open THEN {row.term} \ {0} ELSE {}
<1>1. ASSUME NEW opens \in BOOLEAN, Spawn(t, opens)
      PROVE  /\ Apart(t) /\ Same(t) /\ Left(t) = {}
             /\ Left(t)' \subseteq {"changed", "build", "wake", "opened", "published", "launch"}
             /\ {"changed", "build", "wake", "opened", "published"} \subseteq Left(t)'
             /\ task'[t].todo = Opening(opens) /\ task'[t].uid = uids + 1
             /\ task'[t].size = muxSize /\ uids' = uids + 1 /\ uids + 1 \in Jobs
  <2> DEFINE r == [Idle EXCEPT !.uid = uids', !.size = muxSize, !.todo = Opening(opens)]
  <2>1. uids' = uids + 1 /\ uids' \in Jobs
    <3>1. uids' = uids + 1 /\ uids < MaxJobs
      BY <1>1 DEF Spawn
    <3>2. uids \in Jobs \union {0}
      BY DEF TypeOK
    <3> QED
      BY <3>1, <3>2, BoundsAssumption DEF Jobs
  <2>2. r \in TaskOf /\ r.todo = Opening(opens) /\ r.uid = uids' /\ r.size = muxSize
    BY <2>1, SpawnPlans, IdleIs DEF TypeOK, TaskOf
  <2>3. task' = [task EXCEPT ![t] = r] /\ task[t].todo = <<>>
    BY <1>1 DEF Spawn, Calls
  <2>4. Opening(opens) # <<>>
    BY SpawnPlans
  <2> HIDE DEF r
  <2>5. Apart(t) /\ task'[t] = r /\ Left(t) = {} /\ Left(t)' = Range(r.todo)
    BY <2>2, <2>3, <2>4, Begins
  <2>6. Left(t)' = Range(Opening(opens))
    BY <2>2, <2>5
  <2> QED
    BY <2>1, <2>2, <2>5, <2>6, SpawnPlans, ApartSame
<1>a. ASSUME NEW s \in {<<"changed">>, <<"changed", "launch">>, <<"changed", "register", "check">>},
             Begin(t, s), task[t].todo = <<>>
      PROVE  /\ Apart(t) /\ Same(t) /\ Left(t) = {} /\ Left(t)' = Range(s)
             /\ task'[t].uid = 0
  <2>1. s \in Plans
    BY SomePlans
  <2>2. s # <<>>
    OBVIOUS
  <2> QED
    BY <1>a, <2>1, <2>2, BeginsWith
<1>2. ASSUME StartIn(t)
      PROVE  /\ Apart(t) /\ Same(t) /\ Left(t) = {} /\ Left(t)' = {"changed", "launch"}
             /\ task'[t].uid = 0
  <2>1. Begin(t, <<"changed", "launch">>) /\ task[t].todo = <<>>
    BY <1>2 DEF StartIn, Calls
  <2>2. Range(<<"changed", "launch">>) = {"changed", "launch"}
    BY Ranges
  <2> QED
    BY <1>a, <2>1, <2>2
<1>3. ASSUME NEW force \in BOOLEAN, Stop(t, force)
      PROVE  /\ Apart(t) /\ Same(t) /\ Left(t) = {}
             /\ row.state = "idle" => Left(t)' = {"changed", "drop"} /\ task'[t].uid = row.term
             /\ row.state # "idle" => Left(t)' = {"changed"} /\ task'[t].uid = 0
  <2>0. task[t].todo = <<>> /\ row \in Row
    BY <1>3 DEF Stop, Calls, Visible, Open, TypeOK
  <2>1. CASE row.state = "idle"
    <3> DEFINE r == [Idle EXCEPT !.uid = row.term, !.todo = <<"changed", "drop">>]
    <3>1. r \in TaskOf /\ r.todo = <<"changed", "drop">> /\ r.uid = row.term
      BY <2>0, IdleIs, SomePlans DEF TaskOf, Row
    <3>2. task' = [task EXCEPT ![t] = r] /\ <<"changed", "drop">> # <<>>
      BY <1>3, <2>1 DEF Stop
    <3>3. Range(<<"changed", "drop">>) = {"changed", "drop"}
      BY Ranges
    <3> HIDE DEF r
    <3> QED
      BY <2>0, <2>1, <3>1, <3>2, <3>3, Begins, ApartSame
  <2>2. CASE row.state # "idle"
    <3>1. Begin(t, <<"changed">>)
      BY <1>3, <2>2 DEF Stop
    <3>2. Range(<<"changed">>) = {"changed"}
      BY Ranges
    <3> QED
      BY <1>a, <2>0, <2>2, <3>1, <3>2
  <2> QED
    BY <2>1, <2>2
<1>4. ASSUME Switch(t)
      PROVE  /\ Apart(t) /\ Same(t) /\ Left(t) = {} /\ Left(t)' = {"changed", "register", "check"}
             /\ task'[t].uid = 0
  <2>1. Begin(t, <<"changed", "register", "check">>) /\ task[t].todo = <<>>
    BY <1>4 DEF Switch, Calls
  <2>2. Range(<<"changed", "register", "check">>) = {"changed", "register", "check"}
    BY Ranges
  <2> QED
    BY <1>a, <2>1, <2>2
<1>5. ASSUME NEW s \in Sizes, Resize(t, s)
      PROVE  /\ Apart(t) /\ Same(t) /\ Left(t) = {} /\ Left(t)' = {"apply", "resized"}
             /\ task'[t].uid = 0 /\ task'[t].size = s
             /\ task'[t].targets = IF Open THEN {row.term} \ {0} ELSE {}
  <2> DEFINE us == IF Open THEN {row.term} \ {0} ELSE {}
             r == [Idle EXCEPT !.todo = <<"apply", "resized">>, !.size = s, !.targets = us]
  <2>1. us \in SUBSET Jobs
    BY DEF TypeOK, Open, Row
  <2>2. task' = [task EXCEPT ![t] = r] /\ task[t].todo = <<>> /\ <<"apply", "resized">> # <<>>
    BY <1>5 DEF Resize, Calls
  <2> HIDE DEF us
  <2>3. /\ r \in TaskOf /\ r.todo = <<"apply", "resized">> /\ r.uid = 0 /\ r.size = s
        /\ r.targets = us
    BY <2>1, IdleIs, SomePlans DEF TaskOf, Geometries, Idle
  <2>4. Range(<<"apply", "resized">>) = {"apply", "resized"}
    BY Ranges
  <2> HIDE DEF r
  <2> QED
    BY <2>2, <2>3, <2>4, Begins, ApartSame DEF us
<1> QED
  BY <1>1, <1>2, <1>3, <1>4, <1>5

\* The conclusion of a command.
LEMMA ConcludeBegins ==
    ASSUME TypeOK, Conclude
    PROVE  /\ Apart(Concluder) /\ Same(Concluder) /\ Left(Concluder) = {}
           /\ Closing => Left(Concluder)' = {"changed", "drop"} /\ task'[Concluder].uid = row.term
           /\ ~Closing => Left(Concluder)' = {"changed"} /\ task'[Concluder].uid = 0
<1>0. task[Concluder].todo = <<>> /\ row \in Row /\ Concluder \in Tasks
  BY DEF Conclude, Open, TypeOK, Tasks
<1>1. CASE Closing
  <2> DEFINE r == [Idle EXCEPT !.uid = row.term, !.todo = <<"drop", "changed">>]
  <2>1. r \in TaskOf /\ r.todo = <<"drop", "changed">> /\ r.uid = row.term
    BY <1>0, IdleIs, SomePlans DEF TaskOf, Row
  <2>2. task' = [task EXCEPT ![Concluder] = r] /\ <<"drop", "changed">> # <<>>
    BY <1>1 DEF Conclude
  <2>3. Range(<<"drop", "changed">>) = {"changed", "drop"}
    BY Ranges
  <2> HIDE DEF r
  <2> QED
    BY <1>0, <1>1, <2>1, <2>2, <2>3, Begins, ApartSame
<1>2. CASE ~Closing
  <2>1. Begin(Concluder, <<"changed">>)
    BY <1>2 DEF Conclude
  <2>2. Range(<<"changed">>) = {"changed"} /\ <<"changed">> # <<>> /\ <<"changed">> \in Plans
    BY Ranges, SomePlans
  <2> QED
    BY <1>0, <1>2, <2>1, <2>2, BeginsWith
<1> QED
  BY <1>1, <1>2

-----------------------------------------------------------------------------
(* TaskInv.                                                                *)

\* A call that has a job to build announces it first, or is about to build it.
LEMMA BuildingIs ==
    ASSUME NEW t \in Tasks, Building(t)
    PROVE  /\ Left(t) \subseteq {"changed", "build", "wake", "opened", "published", "launch"}
           /\ At(t, "changed") \/ At(t, "build")
           /\ \A step : At(t, step) => step \in {"changed", "build"}
           /\ At(t, "changed") => \E opens \in BOOLEAN : Rest(t) = Tail(Opening(opens))
<1>1. PICK opens \in BOOLEAN : task[t].todo \in {Opening(opens), Tail(Opening(opens))}
  BY DEF Building
<1>2. /\ Opening(opens) # <<>> /\ Head(Opening(opens)) = "changed"
      /\ Tail(Opening(opens)) # <<>> /\ Head(Tail(Opening(opens))) = "build"
      /\ Range(Tail(Opening(opens))) \subseteq Range(Opening(opens))
      /\ Range(Opening(opens)) \subseteq
            {"changed", "build", "wake", "opened", "published", "launch"}
  <2>1. CASE opens
    <3>1. Opening(opens) = <<"changed", "build", "wake", "opened", "published", "launch">>
      BY <2>1 DEF Opening
    <3>2. Tail(Opening(opens)) = <<"build", "wake", "opened", "published", "launch">>
      BY <3>1
    <3>3. /\ Opening(opens) # <<>> /\ Head(Opening(opens)) = "changed"
          /\ Tail(Opening(opens)) # <<>> /\ Head(Tail(Opening(opens))) = "build"
      BY <3>1, <3>2
    <3>4. Range(Tail(Opening(opens))) = {"build", "wake", "opened", "published", "launch"}
      <4>1. Range(<<"build", "wake", "opened", "published", "launch">>)
              = {"build", "wake", "opened", "published", "launch"}
        BY Ranges
      <4> QED
        BY <3>2, <4>1, Zenon
    <3>5. Range(Opening(opens)) = {"changed", "build", "wake", "opened", "published", "launch"}
      BY <3>1, Ranges
    <3>6. /\ Range(Tail(Opening(opens))) \subseteq Range(Opening(opens))
          /\ Range(Opening(opens)) \subseteq
                {"changed", "build", "wake", "opened", "published", "launch"}
      BY <3>4, <3>5
    <3> QED
      BY <3>3, <3>6, Zenon
  <2>2. CASE ~opens
    <3>1. Opening(opens) = <<"changed", "build", "wake", "opened", "published">>
      BY <2>2 DEF Opening
    <3>2. Tail(Opening(opens)) = <<"build", "wake", "opened", "published">>
      BY <3>1
    <3>3. /\ Opening(opens) # <<>> /\ Head(Opening(opens)) = "changed"
          /\ Tail(Opening(opens)) # <<>> /\ Head(Tail(Opening(opens))) = "build"
      BY <3>1, <3>2
    <3>4. Range(Tail(Opening(opens))) = {"build", "wake", "opened", "published"}
      <4>1. Range(<<"build", "wake", "opened", "published">>)
              = {"build", "wake", "opened", "published"}
        BY DEF Range
      <4> QED
        BY <3>2, <4>1, Zenon
    <3>5. Range(Opening(opens)) = {"changed", "build", "wake", "opened", "published"}
      BY <3>1, Ranges
    <3>6. /\ Range(Tail(Opening(opens))) \subseteq Range(Opening(opens))
          /\ Range(Opening(opens)) \subseteq
                {"changed", "build", "wake", "opened", "published", "launch"}
      BY <3>4, <3>5
    <3> QED
      BY <3>3, <3>6, Zenon
  <2> QED
    BY <2>1, <2>2
<1>3. CASE task[t].todo = Opening(opens)
  BY <1>2, <1>3 DEF At, Rest, Left
<1>4. CASE task[t].todo = Tail(Opening(opens))
  BY <1>2, <1>4 DEF At, Left
<1> QED
  BY <1>1, <1>3, <1>4

\* A task has one step to take, and who reads the mux announces something.
LEMMA OneStep ==
    ASSUME NEW t \in Tasks
    PROVE  /\ \A a, b : At(t, a) /\ At(t, b) => a = b
           /\ \A a : At(t, a) => task[t].todo # <<>>
           /\ \A a : TaskInv /\ At(t, a) /\ a \notin Announcements => reading # t
           /\ TaskInv /\ task[t].todo = <<>> => reading # t
           /\ Announces(t) <=> \E a \in Announcements : At(t, a)
  BY DEF At, TaskInv, Announcements, Announces

\* A step of t that leaves the announcements of the others to them.
LEMMA TaskKept ==
    ASSUME TypeOK, TaskInv, NEW t \in Tasks, Same(t), uids' = uids,
           task'[t].uid <= uids,
           Left(t)' \intersect {"build", "reapply", "apply", "resized"} # {} => task'[t].size # None,
           Left(t)' \intersect {"build", "opened", "published", "reapply"} # {} => task'[t].uid # 0,
           reading' \in {reading, None}, reading' # t,
           "build" \in Left(t)' =>
               "build" \in Left(t) /\ task'[t].uid = task[t].uid /\ Building(t)',
           "wait" \in Left(t)' => task'[t].todo = WaitRegistered
    PROVE  TaskInv'
<1>1. ASSUME NEW x \in Tasks \ {t}
      PROVE  /\ task'[x].uid <= uids
             /\ Left(x)' \intersect {"build", "reapply", "apply", "resized"} # {} => task'[x].size # None
             /\ Left(x)' \intersect {"build", "opened", "published", "reapply"} # {} => task'[x].uid # 0
             /\ reading' = x => (At(x, "changed") \/ At(x, "published"))' /\ task'[x].row \in Display
             /\ "build" \in Left(x)' => Building(x)'
             /\ "wait" \in Left(x)' => task'[x].todo = WaitRegistered
  <2>1. /\ Left(x)' = Left(x)
        /\ task'[x].todo = task[x].todo /\ task'[x].uid = task[x].uid
        /\ task'[x].size = task[x].size /\ task'[x].targets = task[x].targets
        /\ task'[x].row = task[x].row
    BY DEF Same
  <2>2. (At(x, "changed") \/ At(x, "published"))' <=> (At(x, "changed") \/ At(x, "published"))
    BY <2>1 DEF At
  <2>3. Building(x)' <=> Building(x)
    BY <2>1 DEF Building, Opening
  <2>4. None \notin Tasks
    BY NoneAssumption
  <2> QED
    BY <2>1, <2>2, <2>3, <2>4 DEF TaskInv
<1>2. ASSUME NEW x \in Tasks, NEW y \in Tasks, "build" \in Left(x)', "build" \in Left(y)',
             task'[x].uid = task'[y].uid
      PROVE  y = x
  <2>1. "build" \in Left(x) /\ task'[x].uid = task[x].uid
    BY <1>2 DEF Same
  <2>2. "build" \in Left(y) /\ task'[y].uid = task[y].uid
    BY <1>2 DEF Same
  <2> QED
    BY <1>2, <2>1, <2>2 DEF TaskInv
<1> QED
  BY <1>1, <1>2 DEF TaskInv

\* The same, where t is done with a step other than the building of a job.
LEMMA TaskKeptDone ==
    ASSUME TypeOK, TaskInv, NEW t \in Tasks, NEW step, At(t, step), step # "build",
           Same(t), Keeps(t), Left(t) = {step} \union Left(t)', task'[t].todo = Rest(t),
           uids' = uids, reading' \in {reading, None}, reading' # t
    PROVE  TaskInv'
<1>0. task[t].uid <= uids /\ uids \in Nat /\ task[t].todo \in Plans
  BY DEF TypeOK, TaskInv, TaskOf, Jobs
<1>1. Left(t)' # {} => task'[t].uid = task[t].uid /\ task'[t].size = task[t].size
  BY DEF Keeps
<1>2. task'[t].uid <= uids
  BY <1>0, <1>1 DEF Keeps
<1>3. /\ Left(t)' \intersect {"build", "reapply", "apply", "resized"} # {} => task'[t].size # None
      /\ Left(t)' \intersect {"build", "opened", "published", "reapply"} # {} => task'[t].uid # 0
  BY <1>1 DEF TaskInv
<1>4. ASSUME "build" \in Left(t)'
      PROVE  "build" \in Left(t) /\ task'[t].uid = task[t].uid /\ Building(t)'
  <2>1. "build" \in Left(t) /\ task'[t].uid = task[t].uid
    BY <1>1, <1>4
  <2>2. Building(t)
    BY <2>1 DEF TaskInv
  <2>3. step = "changed"
    BY <2>2, BuildingIs
  <2>4. PICK opens \in BOOLEAN : Rest(t) = Tail(Opening(opens))
    BY <2>2, <2>3, BuildingIs
  <2>5. Building(t)'
    BY <2>4 DEF Building, Opening
  <2> QED
    BY <2>1, <2>5
<1>5. ASSUME "wait" \in Left(t)' PROVE FALSE
  <2>1. task[t].todo = WaitRegistered
    BY <1>5 DEF TaskInv
  <2>2. Rest(t) = <<"register", "check">>
    BY <2>1 DEF Rest, WaitRegistered
  <2>3. Left(t)' = {"register", "check"}
    <3>1. Left(t)' = Range(task'[t].todo)
      BY DEF Left
    <3>2. Range(<<"register", "check">>) = {"register", "check"}
      BY Ranges
    <3> QED
      BY <2>2, <3>1, <3>2
  <2> QED
    BY <1>5, <2>3
<1> QED
  BY <1>2, <1>3, <1>4, <1>5, TaskKept

\* The numbers of a row, and what a task may be said to need when it has nothing
\* of the kind left.
LEMMA RowNumbers ==
    ASSUME TypeOK, NumberInv, Open
    PROVE  row \in Row /\ row.uid \in Nat /\ row.term \in Nat /\ row.uid # 0
           /\ row.uid \in Jobs /\ row.term \in Jobs \union {0}
           /\ row.uid <= uids /\ row.term <= uids /\ uids \in Nat
  BY DEF TypeOK, NumberInv, Open, Row, Jobs

\* The steps of a call keep TaskInv.
LEMMA TaskInvSteps ==
    ASSUME TypeOK, TaskInv, NumberInv, NEW t \in Tasks, TaskStep(t)
    PROVE  TaskInv'
<1>0. /\ task[t] \in TaskOf /\ task[t].uid <= uids /\ uids \in Nat /\ 0 <= uids
      /\ None \notin Tasks
  BY NoneAssumption DEF TypeOK, TaskInv, Jobs
<1>a. ASSUME NEW step, step \notin Announcements \union {"build"}, At(t, step), Drops(t, step),
             uids' = uids, reading' = reading
      PROVE  TaskInv'
  <2>1. reading # t
    BY <1>a, OneStep
  <2> QED
    BY <1>a, <2>1, TaskKeptDone DEF Drops
<1>1. ASSUME Build(t) PROVE TaskInv'
  <2>1. /\ Apart(t) /\ Same(t)
        /\ task'[t] = [task[t] EXCEPT !.todo = Reapplied(t) \o Rest(t),
                                      !.size = IF Reapplied(t) = <<>> THEN None ELSE muxSize]
        /\ Left(t) = {"build"} \union Range(Rest(t))
        /\ Left(t)' = Range(Rest(t)) \union (IF muxSize # task[t].size THEN {"reapply"} ELSE {})
        /\ (Reapplied(t) = <<>>) <=> (muxSize = task[t].size)
        /\ "build" \notin Range(Rest(t))
    BY <1>1, BuildGoes, ApartSame
  <2>2. At(t, "build") /\ reading' = reading /\ uids' = uids
    BY <1>1 DEF Build
  <2>3. reading # t
    BY <2>2, OneStep DEF Announcements
  <2>4. Left(t) \subseteq {"changed", "build", "wake", "opened", "published", "launch"}
    BY <2>1, BuildingIs DEF TaskInv
  <2>5. task'[t].uid = task[t].uid
    BY <1>0, <2>1 DEF TaskOf
  <2>6. task[t].uid # 0
    BY <2>1 DEF TaskInv
  <2>7. muxSize # None
    BY NoneAssumption DEF TypeOK
  <2>8. muxSize # task[t].size => task'[t].size = muxSize
    BY <1>0, <2>1 DEF TaskOf
  <2>9. Left(t)' \intersect {"build", "reapply", "apply", "resized"} # {} => task'[t].size # None
    BY <2>1, <2>4, <2>7, <2>8
  <2>10. "build" \notin Left(t)' /\ "wait" \notin Left(t)'
    BY <2>1, <2>4
  <2> QED
    BY <1>0, <2>1, <2>2, <2>3, <2>5, <2>6, <2>9, <2>10, TaskKept
<1>2. ASSUME BuildFails(t) PROVE TaskInv'
  <2>1. /\ Same(t) /\ Keeps(t) /\ Left(t)' = {"unspawn", "wake", "changed"}
    BY <1>2, StepTurns
  <2>2. At(t, "build") /\ reading' = reading /\ uids' = uids
    BY <1>2 DEF BuildFails, table
  <2>3. reading # t
    BY <2>2, OneStep DEF Announcements
  <2>4. task'[t].uid = task[t].uid
    BY <2>1 DEF Keeps
  <2> QED
    BY <1>0, <2>1, <2>2, <2>3, <2>4, TaskKept
<1>3. ASSUME Unspawn(t) PROVE TaskInv'
  BY <1>3, <1>a, StepDrops DEF Unspawn, Announcements
<1>4. ASSUME Reapply(t) PROVE TaskInv'
  BY <1>4, <1>a, StepDrops DEF Reapply, Announcements
<1>5. ASSUME Wake(t) PROVE TaskInv'
  <2>1. At(t, "wake") /\ reading' = reading /\ uids' = uids
    BY <1>5 DEF Wake, table
  <2>2. reading # t
    BY <2>1, OneStep DEF Announcements
  <2>3. Same(t) /\ Keeps(t) /\ Left(t) = {"wake"} \union Left(t)' /\ task'[t].todo = Rest(t)
    BY <1>5, StepTells
  <2> QED
    BY <2>1, <2>2, <2>3, TaskKeptDone
<1>6. ASSUME Launch(t) PROVE TaskInv'
  <2>1. /\ Same(t) /\ Keeps(t) /\ "wake" \in Left(t)' /\ Left(t)' \subseteq {"changed", "wake", "retire"}
    BY <1>6, StepTurns
  <2>2. At(t, "launch") /\ reading' = reading /\ uids' = uids
    BY <1>6 DEF Launch
  <2>3. reading # t
    BY <2>2, OneStep DEF Announcements
  <2>4. task'[t].uid = task[t].uid
    BY <2>1 DEF Keeps
  <2>5. Left(t)' \intersect {"build", "reapply", "apply", "resized", "opened", "published", "wait"} = {}
    BY <2>1
  <2> QED
    BY <1>0, <2>1, <2>2, <2>3, <2>4, <2>5, TaskKept
<1>7. ASSUME Retire(t) PROVE TaskInv'
  <2>1. /\ Same(t) /\ Left(t)' \subseteq {"drop"}
        /\ Open /\ row.state = "idle" => task'[t].uid = row.term
        /\ ~(Open /\ row.state = "idle") => Left(t)' = {}
    BY <1>7, StepTurns
  <2>2. At(t, "retire") /\ reading' = reading /\ uids' = uids
    BY <1>7 DEF Retire
  <2>3. reading # t
    BY <2>2, OneStep DEF Announcements
  <2>4. task'[t].uid <= uids
    <3>1. CASE Open /\ row.state = "idle"
      BY <2>1, <3>1, RowNumbers
    <3>2. CASE ~(Open /\ row.state = "idle")
      <4>1. Done(t)
        BY <1>7, <3>2 DEF Retire
      <4>2. Drops(t, "retire")
        BY <2>2, <4>1, DoneDrops
      <4> QED
        BY <1>0, <2>1, <3>2, <4>2 DEF Drops, Keeps
    <3> QED
      BY <3>1, <3>2
  <2>5. Left(t)' \intersect {"build", "reapply", "apply", "resized", "opened", "published", "wait"} = {}
    BY <2>1
  <2> QED
    BY <1>0, <2>1, <2>2, <2>3, <2>4, <2>5, TaskKept
<1>8. ASSUME Drop(t) PROVE TaskInv'
  BY <1>8, <1>a, StepDrops DEF Drop, Announcements
<1>9. ASSUME Register(t) PROVE TaskInv'
  BY <1>9, <1>a, StepDrops DEF Register, table, Announcements
<1>10. ASSUME Check(t) PROVE TaskInv'
  <2>1. /\ Same(t) /\ Keeps(t)
        /\ Left(t)' \subseteq {"wait", "register", "check", "select"}
        /\ "wait" \in Left(t)' => task'[t].todo = WaitRegistered
    BY <1>10, StepTurns
  <2>2. At(t, "check") /\ reading' = reading /\ uids' = uids
    BY <1>10 DEF Check, table
  <2>3. reading # t
    BY <2>2, OneStep DEF Announcements
  <2>4. task'[t].uid <= uids
    BY <1>0, <2>1 DEF Keeps
  <2>5. Left(t)' \intersect {"build", "reapply", "apply", "resized", "opened", "published"} = {}
    BY <2>1
  <2> QED
    BY <1>0, <2>1, <2>2, <2>3, <2>4, <2>5, TaskKept
<1>11. ASSUME Wait(t) PROVE TaskInv'
  BY <1>11, <1>a, StepDrops DEF Wait, table, Announcements
<1>12. ASSUME Select(t) PROVE TaskInv'
  <2>1. Same(t) /\ Keeps(t) /\ Left(t)' \subseteq {"changed"}
    BY <1>12, StepTurns
  <2>2. At(t, "select") /\ reading' = reading /\ uids' = uids
    BY <1>12 DEF Select
  <2>3. reading # t
    BY <2>2, OneStep DEF Announcements
  <2>4. task'[t].uid <= uids
    BY <1>0, <2>1 DEF Keeps
  <2>5. Left(t)' \intersect {"build", "reapply", "apply", "resized", "opened", "published", "wait"} = {}
    BY <2>1
  <2> QED
    BY <1>0, <2>1, <2>2, <2>3, <2>4, <2>5, TaskKept
<1>13. ASSUME Apply(t) PROVE TaskInv'
  BY <1>13, <1>a, StepDrops DEF Apply, Announcements
<1>14. ASSUME ReadRows(t) PROVE TaskInv'
  <2>1. /\ Same(t) /\ Announces(t)
        /\ Left(t)' = Left(t) /\ task'[t].todo = task[t].todo
        /\ task'[t] = [task[t] EXCEPT !.row = RowShown]
        /\ task'[t].uid = task[t].uid /\ task'[t].size = task[t].size
    BY <1>14, StepTells
  <2>2. reading' = t /\ uids' = uids
    BY <1>14 DEF ReadRows, table
  <2>3. task'[t].row \in Display
    BY <1>0, <2>1, Displays DEF TaskOf
  <2>4. (At(t, "changed") \/ At(t, "published"))'
    BY <2>1 DEF Announces, At
  <2>5. ASSUME NEW x \in Tasks
        PROVE  /\ Left(x)' = Left(x) /\ task'[x].todo = task[x].todo
               /\ task'[x].uid = task[x].uid /\ task'[x].size = task[x].size
    BY <2>1 DEF Same
  <2>6. \A x \in Tasks : Building(x)' <=> Building(x)
    BY <2>5 DEF Building, Opening
  <2> QED
    BY <2>2, <2>3, <2>4, <2>5, <2>6 DEF TaskInv
<1>15. ASSUME ReadCurrent(t) PROVE TaskInv'
  <2>1. PICK step \in Announcements : At(t, step) /\ Drops(t, step)
    BY <1>15, StepTells DEF Announces, Announcements
  <2>2. reading' = None /\ uids' = uids
    BY <1>15 DEF ReadCurrent, table
  <2> QED
    BY <1>0, <2>1, <2>2, TaskKeptDone DEF Drops, Announcements
<1>16. ASSUME Opened(t) PROVE TaskInv'
  BY <1>16, <1>a, StepDrops DEF Opened, table, Announcements
<1>17. ASSUME Resized(t) PROVE TaskInv'
  BY <1>17, <1>a, StepDrops DEF Resized, table, Announcements
<1> QED
  BY <1>1, <1>2, <1>3, <1>4, <1>5, <1>6, <1>7, <1>8, <1>9, <1>10, <1>11, <1>12, <1>13,
     <1>14, <1>15, <1>16, <1>17 DEF TaskStep

\* A call that begins keeps TaskInv.
LEMMA TaskInvCalls ==
    ASSUME TypeOK, TaskInv, NumberInv, NEW t \in Tasks, Call(t)
    PROVE  TaskInv'
<1>0. task[t].uid <= uids /\ uids \in Nat /\ 0 <= uids /\ None \notin Tasks
  BY NoneAssumption DEF TypeOK, TaskInv, Jobs
<1>a. ASSUME task[t].todo = <<>>, reading' = reading, uids' = uids, Same(t),
             Left(t)' \subseteq {"changed", "launch", "drop", "register", "check"},
             task'[t].uid <= uids
      PROVE  TaskInv'
  <2>1. reading # t
    BY <1>a, OneStep
  <2>2. Left(t)' \intersect {"build", "reapply", "apply", "resized", "opened", "published", "wait"} = {}
    BY <1>a
  <2> QED
    BY <1>0, <1>a, <2>1, <2>2, TaskKept
<1>1. ASSUME NEW opens \in BOOLEAN, Spawn(t, opens) PROVE TaskInv'
  <2>1. /\ Same(t) /\ Left(t) = {}
        /\ Left(t)' \subseteq {"changed", "build", "wake", "opened", "published", "launch"}
        /\ task'[t].todo = Opening(opens) /\ task'[t].uid = uids + 1
        /\ task'[t].size = muxSize /\ uids' = uids + 1 /\ uids + 1 \in Jobs
    BY <1>1, CallBegins
  <2>2. task[t].todo = <<>> /\ reading' = reading
    BY <1>1 DEF Spawn, Calls
  <2>3. reading # t
    BY <2>2, OneStep
  <2>4. muxSize # None
    BY NoneAssumption DEF TypeOK
  <2>5. Building(t)'
    BY <2>1 DEF Building, Opening
  <2>6. ASSUME NEW x \in Tasks \ {t}
        PROVE  /\ task'[x].uid <= uids
               /\ Left(x)' \intersect {"build", "reapply", "apply", "resized"} # {} => task'[x].size # None
               /\ Left(x)' \intersect {"build", "opened", "published", "reapply"} # {} => task'[x].uid # 0
               /\ reading' = x => (At(x, "changed") \/ At(x, "published"))' /\ task'[x].row \in Display
               /\ "build" \in Left(x)' => Building(x)'
               /\ "wait" \in Left(x)' => task'[x].todo = WaitRegistered
               /\ task'[x].uid \in Nat
               /\ Left(x)' = Left(x) /\ task'[x].uid = task[x].uid
    <3>1. /\ Left(x)' = Left(x)
          /\ task'[x].todo = task[x].todo /\ task'[x].uid = task[x].uid
          /\ task'[x].size = task[x].size /\ task'[x].row = task[x].row
      BY <2>1 DEF Same
    <3>2. (At(x, "changed") \/ At(x, "published"))' <=> (At(x, "changed") \/ At(x, "published"))
      BY <3>1 DEF At
    <3>3. Building(x)' <=> Building(x)
      BY <3>1 DEF Building, Opening
    <3>4. task[x].uid \in Nat
      BY DEF TypeOK, TaskOf, Jobs
    <3> QED
      BY <2>2, <3>1, <3>2, <3>3, <3>4 DEF TaskInv
  <2>7. ASSUME NEW x \in Tasks, NEW y \in Tasks, "build" \in Left(x)', "build" \in Left(y)',
               task'[x].uid = task'[y].uid
        PROVE  y = x
    <3>1. CASE x = t \/ y = t
      BY <1>0, <2>1, <2>6, <2>7, <3>1
    <3>2. CASE x # t /\ y # t
      BY <2>6, <2>7, <3>2 DEF TaskInv
    <3> QED
      BY <3>1, <3>2
  <2>8. /\ task'[t].uid <= uids'
        /\ task'[t].size # None /\ task'[t].uid # 0
        /\ reading' # t /\ "wait" \notin Left(t)'
    BY <1>0, <2>1, <2>2, <2>3, <2>4
  <2>9. ASSUME NEW x \in Tasks \ {t} PROVE task'[x].uid <= uids'
    BY <1>0, <2>1, <2>6
  <2> QED
    BY <2>5, <2>6, <2>7, <2>8, <2>9 DEF TaskInv
<1>2. ASSUME StartIn(t) PROVE TaskInv'
  BY <1>0, <1>2, <1>a, CallBegins DEF StartIn, Calls
<1>3. ASSUME NEW force \in BOOLEAN, Stop(t, force) PROVE TaskInv'
  <2>1. /\ Same(t)
        /\ row.state = "idle" => Left(t)' = {"changed", "drop"} /\ task'[t].uid = row.term
        /\ row.state # "idle" => Left(t)' = {"changed"} /\ task'[t].uid = 0
    BY <1>3, CallBegins
  <2>2. task[t].todo = <<>> /\ reading' = reading /\ uids' = uids /\ Open
    BY <1>3 DEF Stop, Calls, Visible
  <2>3. row.term <= uids
    BY <2>2, RowNumbers
  <2> QED
    BY <1>0, <1>a, <2>1, <2>2, <2>3
<1>4. ASSUME Switch(t) PROVE TaskInv'
  BY <1>0, <1>4, <1>a, CallBegins DEF Switch, Calls, table
<1>5. ASSUME NEW s \in Sizes, Resize(t, s) PROVE TaskInv'
  <2>1. /\ Same(t) /\ Left(t)' = {"apply", "resized"}
        /\ task'[t].uid = 0 /\ task'[t].size = s
    BY <1>5, CallBegins
  <2>2. task[t].todo = <<>> /\ reading' = reading /\ uids' = uids
    BY <1>5 DEF Resize, Calls
  <2>3. reading # t
    BY <2>2, OneStep
  <2>4. s # None
    BY NoneAssumption DEF Geometries
  <2>5. Left(t)' \intersect {"build", "opened", "published", "reapply"} = {}
        /\ "build" \notin Left(t)' /\ "wait" \notin Left(t)'
    BY <2>1
  <2> QED
    BY <1>0, <2>1, <2>2, <2>3, <2>4, <2>5, TaskKept
<1> QED
  BY <1>1, <1>2, <1>3, <1>4, <1>5 DEF Call

\* Steps of nobody's call.
LEMMA StepsAside ==
    ASSUME TypeOK
    PROVE  /\ \A u \in Jobs : PumpEnds(u) =>
                 UNCHANGED <<row, current, muxSize, terminal, task, reading, size, uids, raced>>
           /\ \A c \in Clients : ClientStep(c) =>
                 UNCHANGED <<row, current, muxSize, terminal, task, reading, handle, size, pump,
                             uids, raced>>
           /\ UNCHANGED vars =>
                 UNCHANGED <<row, current, muxSize, terminal, task, reading, handle, size, pump,
                             client, uids, raced>>
  BY DEF PumpEnds, ClientStep, Connect, GreetRows, Greet, Lag, Receive, table, display, vars

\* Nor does a conclusion break it, and pumps and sockets leave it alone.
LEMMA TaskInvOthers ==
    ASSUME TypeOK, TaskInv, NumberInv
    PROVE  /\ Conclude => TaskInv'
           /\ UNCHANGED <<task, reading, uids>> => TaskInv'
<1>0. Concluder \in Tasks /\ uids \in Nat
  BY DEF TypeOK, Tasks, Jobs
<1>1. ASSUME Conclude PROVE TaskInv'
  <2> DEFINE t == Concluder
  <2>1. /\ Same(t)
        /\ Closing => Left(t)' = {"changed", "drop"} /\ task'[t].uid = row.term
        /\ ~Closing => Left(t)' = {"changed"} /\ task'[t].uid = 0
    BY <1>1, ConcludeBegins
  <2>2. task[t].todo = <<>> /\ reading' = reading /\ uids' = uids /\ Open
    BY <1>1 DEF Conclude
  <2>3. row.term <= uids
    BY <2>2, RowNumbers
  <2>4. reading # t
    BY <1>0, <2>2, OneStep
  <2>5. Left(t)' \intersect {"build", "reapply", "apply", "resized", "opened", "published", "wait"} = {}
    BY <2>1
  <2>6. task'[t].uid <= uids
    BY <1>0, <2>1, <2>3
  <2>7. None # t
    BY <1>0, NoneAssumption
  <2> QED
    BY <1>0, <2>1, <2>2, <2>4, <2>5, <2>6, <2>7, TaskKept
<1>2. ASSUME UNCHANGED <<task, reading, uids>> PROVE TaskInv'
  BY <1>2 DEF TaskInv, Left, At, Building, Opening, WaitRegistered, Display
<1> QED
  BY <1>1, <1>2

\* Whatever the step.
LEMMA TaskInvStep ==
    ASSUME TypeOK, TaskInv, NumberInv, [Next]_vars
    PROVE  TaskInv'
<1>1. CASE UNCHANGED vars
  BY <1>1, StepsAside, TaskInvOthers
<1>2. Callers \subseteq Tasks
  BY DEF Tasks
<1> QED
  BY <1>1, <1>2, TaskInvCalls, TaskInvSteps, TaskInvOthers, StepsAside DEF Next

\* A row that is changed is a row still.
LEMMA RowEdits ==
    ASSUME TypeOK, Open
    PROVE  /\ \A k \in {"starting", "idle", "running"} :
                 LET r == [row EXCEPT !.state = k]
                 IN  /\ r \in Row /\ r # None /\ r.uid = row.uid /\ r.term = row.term
                     /\ r.stop = row.stop /\ r.state = k
           /\ \A k \in {"no", "graceful", "force"} :
                 LET r == [row EXCEPT !.stop = k]
                 IN  /\ r \in Row /\ r # None /\ r.uid = row.uid /\ r.term = row.term
                     /\ r.state = row.state /\ r.stop = k
           /\ \A u \in Jobs \union {0} :
                 LET r == [row EXCEPT !.term = u]
                 IN  /\ r \in Row /\ r # None /\ r.uid = row.uid /\ r.term = u
                     /\ r.state = row.state /\ r.stop = row.stop
<1>1. row \in Row /\ None \notin Row
  BY NoneAssumption DEF TypeOK, Open
<1>2. ASSUME NEW r \in Row PROVE r # None
  BY <1>1, <1>2
<1>3. /\ \A k \in {"starting", "idle", "running"} : [row EXCEPT !.state = k] \in Row
      /\ \A k \in {"no", "graceful", "force"} : [row EXCEPT !.stop = k] \in Row
      /\ \A u \in Jobs \union {0} : [row EXCEPT !.term = u] \in Row
  BY <1>1 DEF Row
<1>4. ASSUME NEW k \in {"starting", "idle", "running"}
      PROVE  LET r == [row EXCEPT !.state = k]
             IN  /\ r \in Row /\ r # None /\ r.uid = row.uid /\ r.term = row.term
                 /\ r.stop = row.stop /\ r.state = k
  BY <1>1, <1>2, <1>3 DEF Row
<1>5. ASSUME NEW k \in {"no", "graceful", "force"}
      PROVE  LET r == [row EXCEPT !.stop = k]
             IN  /\ r \in Row /\ r # None /\ r.uid = row.uid /\ r.term = row.term
                 /\ r.state = row.state /\ r.stop = k
  BY <1>1, <1>2, <1>3 DEF Row
<1>6. ASSUME NEW u \in Jobs \union {0}
      PROVE  LET r == [row EXCEPT !.term = u]
             IN  /\ r \in Row /\ r # None /\ r.uid = row.uid /\ r.term = u
                 /\ r.state = row.state /\ r.stop = row.stop
  BY <1>1, <1>2, <1>3 DEF Row
<1> QED
  BY <1>4, <1>5, <1>6

\* A job with a command in flight is told to stop, and stays until it is over.
LEMMA StopEdits ==
    ASSUME TypeOK, NEW t \in Tasks, NEW force \in BOOLEAN, Stop(t, force)
    PROVE  /\ Open
           /\ row.state # "idle" =>
                 /\ row' \in Row /\ row' # None /\ row'.uid = row.uid /\ row'.term = row.term
                 /\ row'.state = row.state
<1> DEFINE k == IF force THEN "force" ELSE "graceful"
<1>1. k \in {"no", "graceful", "force"}
  OBVIOUS
<1>2. Open /\ (row.state # "idle" => row' = [row EXCEPT !.stop = k])
  BY DEF Stop, Visible
<1> HIDE DEF k
<1>3. row \in Row /\ None \notin Row
  BY <1>2, NoneAssumption DEF TypeOK, Open
<1> QED
  BY <1>1, <1>2, <1>3 DEF Row

-----------------------------------------------------------------------------
(* NumberInv.                                                              *)

\* The row is still that of the job it was of, if there is one.
RowSame == row' # None => Open /\ row'.uid = row.uid /\ row'.term = row.term

\* Only a reservation and a build change whose row it is, and what terminal it has.
LEMMA RowSames ==
    ASSUME TypeOK
    PROVE  /\ \A t \in Tasks : StartIn(t) => RowSame
           /\ \A t \in Tasks, force \in BOOLEAN : Stop(t, force) => RowSame
           /\ \A t \in Tasks : Switch(t) => RowSame
           /\ \A t \in Tasks, s \in Sizes : Resize(t, s) => RowSame
           /\ \A t \in Tasks : TaskStep(t) => Build(t) \/ RowSame
           /\ \A t \in Tasks : Launch(t) \/ Retire(t) => RowSame
           /\ Conclude => RowSame
           /\ row' = row => RowSame
<1>0. Open => row \in Row
  BY DEF TypeOK, Open
<1>1. row' = row => RowSame
  BY DEF RowSame, Open
<1>2. ASSUME NEW t \in Tasks, StartIn(t) PROVE RowSame
  BY <1>0, <1>2 DEF StartIn, Row, RowSame
<1>3. ASSUME NEW t \in Tasks, NEW force \in BOOLEAN, Stop(t, force) PROVE RowSame
  BY <1>0, <1>3 DEF Stop, Removed, Visible, Row, RowSame
<1>4. ASSUME NEW t \in Tasks, Switch(t) PROVE RowSame
  BY <1>1, <1>4 DEF Switch, table
<1>5. ASSUME NEW t \in Tasks, NEW s \in Sizes, Resize(t, s) PROVE RowSame
  BY <1>1, <1>5 DEF Resize
<1>8. ASSUME NEW t \in Tasks, Launch(t) \/ Retire(t) PROVE RowSame
  <2>1. CASE Launch(t)
    BY <1>0, <2>1 DEF Launch, Row, Open, RowSame
  <2>2. CASE Retire(t)
    BY <1>0, <2>2 DEF Retire, Row, Open, Removed, RowSame
  <2> QED
    BY <1>8, <2>1, <2>2
<1>6. ASSUME NEW t \in Tasks, TaskStep(t) PROVE Build(t) \/ RowSame
  <2>1. CASE BuildFails(t) \/ Reapply(t) \/ Wake(t) \/ Drop(t) \/ Register(t) \/ Check(t)
             \/ Wait(t) \/ Select(t) \/ Apply(t) \/ ReadRows(t) \/ ReadCurrent(t)
             \/ Opened(t) \/ Resized(t)
    BY <1>1, <2>1 DEF BuildFails, Reapply, Wake, Drop, Register, Check, Wait, Select, Apply,
       ReadRows, ReadCurrent, Opened, Resized, table
  <2>2. CASE Unspawn(t)
    BY <2>2 DEF Unspawn, Open, RowSame
  <2> QED
    BY <1>6, <1>8, <2>1, <2>2 DEF TaskStep
<1>7. ASSUME Conclude PROVE RowSame
  BY <1>0, <1>7 DEF Conclude, Row, Open, Removed, RowSame
<1> QED
  BY <1>1, <1>2, <1>3, <1>4, <1>5, <1>6, <1>7, <1>8

\* Numbers are given once.
LEMMA NumberInvStep ==
    ASSUME TypeOK, TaskInv, NumberInv, [Next]_vars
    PROVE  NumberInv'
<1>0. Callers \subseteq Tasks /\ uids \in Nat
  BY DEF Tasks, TypeOK, Jobs
<1>a. ASSUME uids' = uids, pump' = pump, RowSame PROVE NumberInv'
  BY <1>a DEF NumberInv, Open, RowSame
<1>1. ASSUME NEW t \in Tasks, NEW opens \in BOOLEAN, Spawn(t, opens) PROVE NumberInv'
  <2>1. row'.uid = uids + 1 /\ row'.term = 0 /\ uids' = uids + 1 /\ pump' = pump
    BY <1>1 DEF Spawn, display
  <2> QED
    BY <1>0, <2>1 DEF NumberInv, Open, Jobs
<1>2. ASSUME NEW t \in Tasks, Call(t), \A opens \in BOOLEAN : ~Spawn(t, opens) PROVE NumberInv'
  <2>1. uids' = uids /\ pump' = pump
    BY <1>2 DEF Call, StartIn, Stop, Switch, Resize, table, display
  <2>2. RowSame
    BY <1>2, RowSames DEF Call
  <2> QED
    BY <1>a, <2>1, <2>2
<1>3. ASSUME NEW t \in Tasks, Build(t) PROVE NumberInv'
  <2>1. row' = [row EXCEPT !.term = task[t].uid] /\ Open /\ uids' = uids /\ pump' = pump
    BY <1>3 DEF Build, display
  <2>2. row'.uid = row.uid /\ row'.term = task[t].uid
    BY <2>1 DEF TypeOK, Open, Row
  <2> QED
    BY <2>1, <2>2 DEF NumberInv, TaskInv, Open
<1>4. ASSUME NEW t \in Tasks, ReadCurrent(t) PROVE NumberInv'
  <2>1. row' = row /\ uids' = uids
    BY <1>4 DEF ReadCurrent, table
  <2>2. ASSUME NEW u \in Jobs, pump'[u] # "none" PROVE u <= uids
    BY <1>4, <2>2 DEF ReadCurrent, NumberInv, TaskInv, TypeOK
  <2> QED
    BY <2>1, <2>2 DEF NumberInv, Open
<1>5. ASSUME NEW t \in Tasks, TaskStep(t), ~Build(t), ~ReadCurrent(t) PROVE NumberInv'
  <2>1. uids' = uids /\ pump' = pump
    BY <1>5 DEF TaskStep, BuildFails, Unspawn, Reapply, Wake, Launch, Retire, Drop, Register,
       Check, Wait, Select, Apply, ReadRows, Opened, Resized, table, display
  <2> QED
    BY <1>5, <1>a, <2>1, RowSames
<1>6. ASSUME Conclude PROVE NumberInv'
  BY <1>6, <1>a, RowSames DEF Conclude, display
<1>7. ASSUME NEW u \in Jobs, PumpEnds(u) PROVE NumberInv'
  BY <1>7 DEF PumpEnds, table, NumberInv, Open, TypeOK
<1>8. ASSUME NEW c \in Clients, ClientStep(c) PROVE NumberInv'
  BY <1>a, <1>8, StepsAside, RowSames
<1>9. CASE UNCHANGED vars
  BY <1>a, <1>9, StepsAside, RowSames
<1> QED
  BY <1>0, <1>1, <1>2, <1>3, <1>4, <1>5, <1>6, <1>7, <1>8, <1>9 DEF Next

-----------------------------------------------------------------------------
(* BuilderInv: a row without a terminal has somebody who builds one.       *)

\* A step of t that is not about it.
LEMMA BuilderKept ==
    ASSUME BuilderInv, NEW t \in Tasks, Same(t), RowSame,
           Left(t) \intersect {"build", "unspawn"} # {} =>
               Left(t)' \intersect {"build", "unspawn"} # {} /\ task'[t].uid = task[t].uid
    PROVE  BuilderInv'
<1>1. SUFFICES ASSUME row' # None, row'.term = 0
               PROVE  \E x \in Tasks : /\ task'[x].uid = row'.uid
                                        /\ Left(x)' \intersect {"build", "unspawn"} # {}
  BY DEF BuilderInv, Open
<1>2. Open /\ row.term = 0 /\ row'.uid = row.uid
  BY <1>1 DEF RowSame
<1>3. PICK x \in Tasks : task[x].uid = row.uid /\ Left(x) \intersect {"build", "unspawn"} # {}
  BY <1>2 DEF BuilderInv
<1>4. task'[x].uid = row'.uid /\ Left(x)' \intersect {"build", "unspawn"} # {}
  BY <1>2, <1>3 DEF Same
<1> QED
  BY <1>4

\* A row without a terminal keeps its builder.
LEMMA BuilderInvStep ==
    ASSUME TypeOK, TaskInv, BuilderInv, [Next]_vars
    PROVE  BuilderInv'
<1>0. Callers \subseteq Tasks /\ Concluder \in Tasks
  BY DEF Tasks
<1>a. ASSUME UNCHANGED <<row, task>> PROVE BuilderInv'
  BY <1>a DEF BuilderInv, Open, Left
<1>b. ASSUME NEW t \in Tasks, NEW step, step \notin {"build", "unspawn"}, Drops(t, step), RowSame
      PROVE  BuilderInv'
  BY <1>b, BuilderKept DEF Drops, Keeps
<1>1. ASSUME NEW t \in Tasks, NEW opens \in BOOLEAN, Spawn(t, opens) PROVE BuilderInv'
  <2>1. task'[t].uid = uids + 1 /\ "build" \in Left(t)' /\ uids' = uids + 1
    BY <1>1, CallBegins
  <2>2. row'.uid = uids'
    BY <1>1 DEF Spawn
  <2> QED
    BY <2>1, <2>2 DEF BuilderInv
<1>2. ASSUME NEW t \in Tasks, Call(t), \A opens \in BOOLEAN : ~Spawn(t, opens) PROVE BuilderInv'
  BY <1>2, BuilderKept, RowSames, CallBegins DEF Call
<1>3. ASSUME NEW t \in Tasks, Build(t) PROVE BuilderInv'
  <2>1. row' = [row EXCEPT !.term = task[t].uid] /\ Open /\ "build" \in Left(t)
    BY <1>3, BuildGoes DEF Build
  <2>2. row'.term # 0
    BY <2>1 DEF TypeOK, Open, Row, TaskInv
  <2> QED
    BY <2>2 DEF BuilderInv
<1>4. ASSUME NEW t \in Tasks, Unspawn(t) PROVE BuilderInv'
  <2>1. row' = None
    BY <1>4 DEF Unspawn, Open
  <2> QED
    BY <2>1 DEF BuilderInv, Open
<1>5. ASSUME NEW t \in Tasks, TaskStep(t), ~Build(t), ~Unspawn(t) PROVE BuilderInv'
  <2>0. RowSame
    BY <1>5, RowSames
  <2>1. CASE BuildFails(t)
    BY <2>0, <2>1, BuilderKept, StepTurns DEF Keeps
  <2>2. CASE Launch(t) \/ Check(t) \/ Select(t) \/ Retire(t)
    BY <2>0, <2>2, BuilderKept, StepTurns
  <2>3. CASE Wake(t)
    BY <2>0, <2>3, BuilderKept, StepTells DEF Keeps
  <2>4. CASE ReadRows(t)
    BY <2>0, <2>4, BuilderKept, StepTells
  <2>5. CASE ReadCurrent(t)
    BY <1>b, <2>0, <2>5, StepTells
  <2>6. CASE Reapply(t) \/ Drop(t) \/ Wait(t) \/ Opened(t) \/ Resized(t) \/ Register(t) \/ Apply(t)
    BY <1>b, <2>0, <2>6, StepDrops
  <2> QED
    BY <1>5, <2>1, <2>2, <2>3, <2>4, <2>5, <2>6 DEF TaskStep
<1>6. ASSUME Conclude PROVE BuilderInv'
  BY <1>0, <1>6, BuilderKept, RowSames, ConcludeBegins
<1> QED
  BY <1>0, <1>1, <1>2, <1>3, <1>4, <1>5, <1>6, <1>a, StepsAside DEF Next

-----------------------------------------------------------------------------
(* WakeInv: who sleeps waits for a launch, or is about to be woken.         *)

\* Who builds a job, or gives up on one, wakes the others after it.
LEMMA BuilderWakes ==
    ASSUME TypeOK, NEW t \in Tasks, Left(t) \intersect {"build", "unspawn"} # {}
    PROVE  "wake" \in Left(t)
<1>1. task[t].todo \in Plans
  BY DEF TypeOK, TaskOf
<1>2. PICK i \in DOMAIN task[t].todo : task[t].todo[i] \in {"build", "unspawn"}
  BY DEF Left, Range
<1>3. Follows(task[t].todo, i, "wake")
  BY <1>1, <1>2 DEF Plans
<1> QED
  BY <1>3 DEF Follows, Left, Range

\* A step of t that leaves those asleep asleep, and waited for.
LEMMA WakeKept ==
    ASSUME TypeOK, WakeInv, NEW t \in Tasks, Apart(t),
           At(t, "wait")' => Pending',
           "wake" \in Left(t) => "wake" \in Left(t)',
           Pending => Pending' \/ \E x \in Tasks : "wake" \in Left(x)'
    PROVE  WakeInv'
<1>1. SUFFICES ASSUME NEW x \in Tasks, At(x, "wait")', ~task'[x].woken
               PROVE  Pending' \/ \E y \in Tasks : "wake" \in Left(y)'
  BY DEF WakeInv
<1>2. CASE x = t
  BY <1>1, <1>2
<1>3. CASE x # t
  <2>1. At(x, "wait") /\ ~task[x].woken
    BY <1>1, <1>3 DEF Apart, At
  <2>2. CASE Pending
    BY <2>2
  <2>3. CASE ~Pending
    <3>1. PICK y \in Tasks : "wake" \in Left(y)
      BY <2>1, <2>3 DEF WakeInv
    <3>2. "wake" \in Left(y)'
      BY <3>1 DEF Apart
    <3> QED
      BY <3>2
  <2> QED
    BY <2>2, <2>3
<1> QED
  BY <1>2, <1>3

\* A list of steps that is about to wait has the wait in it.
LEMMA WaitLeft ==
    ASSUME TypeOK', NEW t \in Tasks, At(t, "wait")'
    PROVE  "wait" \in Left(t)'
<1>1. task'[t].todo \in Plans /\ task'[t].todo # <<>> /\ Head(task'[t].todo) = "wait"
  BY DEF TypeOK, TaskOf, At
<1> QED
  BY <1>1, PlanTail DEF Left

\* Nobody comes to wait by being done with something else.
LEMMA NoWait ==
    ASSUME TypeOK, TaskInv, NEW t \in Tasks, NEW step, Drops(t, step)
    PROVE  "wait" \notin Left(t)'
<1>1. SUFFICES ASSUME "wait" \in Left(t)' PROVE FALSE
  OBVIOUS
<1>2. task[t].todo = WaitRegistered
  BY <1>1 DEF Drops, TaskInv
<1>3. Rest(t) = <<"register", "check">>
  BY <1>2 DEF Rest, WaitRegistered
<1>4. Left(t)' = Range(task'[t].todo)
  BY DEF Left
<1>5. Range(<<"register", "check">>) = {"register", "check"}
  BY Ranges
<1>6. Left(t)' = {"register", "check"}
  BY <1>3, <1>4, <1>5 DEF Drops
<1> QED
  BY <1>1, <1>6

\* An idle or running job whose launch is pending has somebody who will wake.
LEMMA PendingWakes ==
    ASSUME TypeOK, BuilderInv, Pending, row.state # "starting"
    PROVE  \E x \in Tasks : "wake" \in Left(x)
<1>1. Open /\ row.term = 0
  BY DEF Pending
<1>2. PICK x \in Tasks : Left(x) \intersect {"build", "unspawn"} # {}
  BY <1>1 DEF BuilderInv
<1> QED
  BY <1>2, BuilderWakes

\* Nobody sleeps on.
LEMMA WakeInvStep ==
    ASSUME TypeOK, TaskInv, BuilderInv, WakeInv, TypeOK', [Next]_vars
    PROVE  WakeInv'
<1>0. Callers \subseteq Tasks /\ Concluder \in Tasks
  BY DEF Tasks
<1>a. ASSUME UNCHANGED <<row, task>> PROVE WakeInv'
  BY <1>a DEF WakeInv, Pending, Open, Left, At
<1>b. ASSUME row' = row PROVE Pending' <=> Pending
  BY <1>b DEF Pending, Open
<1>c. ASSUME NEW t \in Tasks, NEW step, step # "wake", Drops(t, step), row' = row
      PROVE  WakeInv'
  <2>1. ~At(t, "wait")'
    BY <1>c, NoWait, WaitLeft
  <2> QED
    BY <1>b, <1>c, <2>1, WakeKept DEF Drops
<1>d. ASSUME NEW t \in Tasks, Apart(t), "wake" \notin Left(t), "wait" \notin Left(t)',
             Pending => Pending' \/ row.state # "starting"
      PROVE  WakeInv'
  <2>1. ~At(t, "wait")'
    BY <1>d, WaitLeft
  <2>2. Pending => Pending' \/ \E x \in Tasks : "wake" \in Left(x)'
    BY <1>d, PendingWakes DEF Apart
  <2> QED
    BY <1>d, <2>1, <2>2, WakeKept
<1>1. ASSUME NEW t \in Tasks, Call(t) PROVE WakeInv'
  <2>1. CASE \E opens \in BOOLEAN : Spawn(t, opens)
    <3>1. /\ Apart(t) /\ Left(t) = {}
          /\ Left(t)' \subseteq {"changed", "build", "wake", "opened", "published", "launch"}
      BY <2>1, CallBegins
    <3>2. ~Pending
      BY <2>1 DEF Spawn, Pending
    <3> QED
      BY <1>d, <3>1, <3>2
  <2>2. CASE StartIn(t)
    <3>1. Pending'
      BY <2>2, RowEdits DEF StartIn, Pending, Open
    <3>2. Apart(t) /\ Left(t) = {} /\ Left(t)' = {"changed", "launch"}
      BY <2>2, CallBegins
    <3> QED
      BY <1>d, <3>1, <3>2
  <2>3. CASE \E force \in BOOLEAN : Stop(t, force)
    <3>1. /\ Apart(t) /\ Left(t) = {}
          /\ row.state = "idle" => Left(t)' = {"changed", "drop"}
          /\ row.state # "idle" => Left(t)' = {"changed"}
      BY <2>3, CallBegins
    <3>2. row.state # "idle" => (Pending => Pending')
      BY <2>3, StopEdits DEF Pending, Open
    <3> QED
      BY <1>d, <3>1, <3>2
  <2>4. CASE Switch(t)
    <3>1. row' = row
      BY <2>4 DEF Switch, table
    <3> QED
      BY <1>b, <1>d, <2>4, <3>1, CallBegins
  <2>5. CASE \E s \in Sizes : Resize(t, s)
    <3>1. row' = row
      BY <2>5 DEF Resize
    <3> QED
      BY <1>b, <1>d, <2>5, <3>1, CallBegins
  <2> QED
    BY <1>1, <2>1, <2>2, <2>3, <2>4, <2>5 DEF Call
<1>2. ASSUME NEW t \in Tasks, TaskStep(t) PROVE WakeInv'
  <2>a. ASSUME Apart(t), "wake" \in Left(t)', "wait" \notin Left(t)' PROVE WakeInv'
    <3>1. ~At(t, "wait")'
      BY <2>a, WaitLeft
    <3> QED
      BY <2>a, <3>1, WakeKept
  <2>1. CASE Build(t)
    <3>1. /\ Apart(t) /\ Left(t) = {"build"} \union Range(Rest(t))
          /\ Left(t)' = Range(Rest(t)) \union (IF muxSize # task[t].size THEN {"reapply"} ELSE {})
          /\ "wake" \in Range(Rest(t))
      BY <2>1, BuildGoes
    <3>2. Left(t) \subseteq {"changed", "build", "wake", "opened", "published", "launch"}
      BY <3>1, BuildingIs DEF TaskInv
    <3> QED
      BY <2>a, <3>1, <3>2
  <2>2. CASE BuildFails(t)
    BY <2>2, <2>a, StepTurns
  <2>3. CASE Unspawn(t)
    <3>1. Drops(t, "unspawn") /\ "wake" \in Left(t)'
      BY <2>3, StepDrops
    <3> QED
      BY <2>a, <3>1, NoWait DEF Drops
  <2>4. CASE Launch(t)
    BY <2>4, <2>a, StepTurns
  <2>5. CASE Wake(t)
    <3>1. row' = row
      BY <2>5 DEF Wake, table
    <3>2. /\ \A x \in Tasks \ {t} : /\ task'[x] = [task[x] EXCEPT !.woken = task[x].woken \/ Registered(x)]
                                   /\ task'[x].todo = task[x].todo
          /\ task'[t].todo = Rest(t)
      BY <2>5, WakeIs
    <3>3. ~At(t, "wait")'
      <4>1. "wait" \in Left(t)' => Left(t)' = {"register", "check"}
        <5>1. ASSUME "wait" \in Left(t)' PROVE Left(t)' = {"register", "check"}
          <6>1. "wait" \in Left(t)
            BY <2>5, <5>1, StepTells
          <6>2. task[t].todo = WaitRegistered
            BY <6>1 DEF TaskInv
          <6>3. Rest(t) = <<"register", "check">>
            BY <6>2 DEF Rest, WaitRegistered
          <6>4. Left(t)' = Range(task'[t].todo)
            BY DEF Left
          <6>5. Range(<<"register", "check">>) = {"register", "check"}
            BY Ranges
          <6> QED
            BY <3>2, <6>3, <6>4, <6>5
        <5> QED
          BY <5>1
      <4> QED
        BY <4>1, WaitLeft
    <3>4. ASSUME NEW x \in Tasks, At(x, "wait")', ~task'[x].woken
          PROVE  FALSE
      <4>1. x # t
        BY <3>3, <3>4
      <4>2. At(x, "wait")
        BY <3>2, <3>4, <4>1 DEF At
      <4>3. Registered(x)
        BY <4>2 DEF Registered
      <4>4. task'[x].woken
        BY <2>5, <4>1, <4>3, StepTells
      <4> QED
        BY <3>4, <4>4
    <3> QED
      BY <3>4 DEF WakeInv
  <2>6. CASE Check(t)
    <3>1. /\ Apart(t) /\ Left(t) = {"check"} /\ ("wait" \in Left(t)' => Pending)
      BY <2>6, StepTurns
    <3>2. Pending' <=> Pending
      BY <1>b, <2>6 DEF Check, table
    <3>3. At(t, "wait")' => Pending'
      BY <3>1, <3>2, WaitLeft
    <3> QED
      BY <3>1, <3>2, <3>3, WakeKept
  <2>7. CASE Select(t)
    <3>1. Pending' <=> Pending
      BY <1>b, <2>7 DEF Select
    <3>2. Apart(t) /\ Left(t) = {"select"} /\ Left(t)' \subseteq {"changed"}
      BY <2>7, StepTurns
    <3> QED
      BY <1>d, <3>1, <3>2
  <2>8. CASE Retire(t)
    <3>1. Apart(t) /\ Left(t) = {"retire"} /\ Left(t)' \subseteq {"drop"}
      BY <2>8, StepTurns
    <3>2. Pending => Pending' \/ row.state # "starting"
      BY <2>8, RowEdits DEF Retire, Pending, Open
    <3> QED
      BY <1>d, <3>1, <3>2
  <2>9. CASE ReadRows(t)
    <3>1. Pending' <=> Pending
      BY <1>b, <2>9 DEF ReadRows, table
    <3>2. Apart(t) /\ Announces(t) /\ Left(t)' = Left(t) /\ task'[t].todo = task[t].todo
      BY <2>9, StepTells
    <3>3. ~At(t, "wait")'
      BY <3>2, OneStep DEF At, Announces
    <3> QED
      BY <3>1, <3>2, <3>3, WakeKept
  <2>10. CASE ReadCurrent(t)
    <3>1. row' = row
      BY <2>10 DEF ReadCurrent, table
    <3> QED
      BY <1>c, <2>10, <3>1, StepTells
  <2>11. CASE Reapply(t) \/ Drop(t) \/ Wait(t) \/ Opened(t) \/ Resized(t) \/ Register(t) \/ Apply(t)
    <3>1. row' = row
      BY <2>11 DEF Reapply, Drop, Wait, Opened, Resized, Register, Apply, table
    <3> QED
      BY <1>c, <2>11, <3>1, StepDrops
  <2> QED
    BY <1>2, <2>1, <2>2, <2>3, <2>4, <2>5, <2>6, <2>7, <2>8, <2>9, <2>10, <2>11 DEF TaskStep
<1>3. ASSUME Conclude PROVE WakeInv'
  <2>1. row.state # "starting"
    BY <1>3 DEF Conclude
  <2>2. /\ Apart(Concluder) /\ Left(Concluder) = {} /\ "wait" \notin Left(Concluder)'
    BY <1>3, ConcludeBegins
  <2> QED
    BY <1>0, <1>d, <2>1, <2>2
<1> QED
  BY <1>0, <1>1, <1>2, <1>3, <1>a, StepsAside DEF Next

-----------------------------------------------------------------------------
(* TerminalInv: an open terminal is the row's, or about to be dropped.      *)

\* A step of t that leaves the terminals others are to drop to them.
LEMMA DroppingKept ==
    ASSUME NEW t \in Tasks, Same(t), NEW u \in Jobs, Dropping(u),
           "drop" \in Left(t) /\ task[t].uid = u =>
               "drop" \in Left(t)' /\ task'[t].uid = task[t].uid
    PROVE  Dropping(u)'
<1>1. PICK x \in Tasks : "drop" \in Left(x) /\ task[x].uid = u
  BY DEF Dropping
<1>2. "drop" \in Left(x)' /\ task'[x].uid = u
  BY <1>1 DEF Same
<1> QED
  BY <1>2 DEF Dropping

\* A step of t that opens none, and keeps what it has to drop.
LEMMA TerminalKept ==
    ASSUME TerminalInv, NEW t \in Tasks, Same(t),
           "drop" \in Left(t) => "drop" \in Left(t)' /\ task'[t].uid = task[t].uid,
           \A u \in Jobs : terminal'[u] # None => terminal[u] # None,
           \A u \in Jobs : Open /\ row.term = u /\ terminal'[u] # None =>
               (Open' /\ row'.term = u) \/ Dropping(u)'
    PROVE  TerminalInv'
  BY DroppingKept DEF TerminalInv

\* No terminal is left open.
LEMMA TerminalInvStep ==
    ASSUME TypeOK, TaskInv, TerminalInv, [Next]_vars
    PROVE  TerminalInv'
<1>0. Callers \subseteq Tasks /\ Concluder \in Tasks
  BY DEF Tasks
<1>a. ASSUME UNCHANGED <<row, task, terminal>> PROVE TerminalInv'
  BY <1>a DEF TerminalInv, Open, Left, Dropping
<1>b. ASSUME NEW t \in Tasks, Same(t), terminal' = terminal,
             "drop" \in Left(t) => "drop" \in Left(t)' /\ task'[t].uid = task[t].uid,
             Open => \/ Open' /\ row'.term = row.term
                     \/ "drop" \in Left(t)' /\ task'[t].uid = row.term
      PROVE  TerminalInv'
  <2>1. \A u \in Jobs : Open /\ row.term = u /\ terminal'[u] # None =>
            (Open' /\ row'.term = u) \/ Dropping(u)'
    BY <1>b DEF Dropping
  <2> QED
    BY <1>b, <2>1, TerminalKept
<1>c. ASSUME NEW t \in Tasks, Same(t), UNCHANGED <<row, terminal>>,
             "drop" \in Left(t) => "drop" \in Left(t)' /\ task'[t].uid = task[t].uid
      PROVE  TerminalInv'
  <2>1. Open => Open' /\ row'.term = row.term
    BY <1>c DEF Open
  <2> QED
    BY <1>b, <1>c, <2>1
<1>d. ASSUME NEW t \in Tasks, NEW step, step # "drop", Drops(t, step)
      PROVE  "drop" \in Left(t) => "drop" \in Left(t)' /\ task'[t].uid = task[t].uid
  BY <1>d DEF Drops, Keeps
<1>1. ASSUME NEW t \in Tasks, Call(t) PROVE TerminalInv'
  <2>1. CASE \E opens \in BOOLEAN : Spawn(t, opens)
    <3>1. terminal' = terminal /\ ~Open
      BY <2>1 DEF Spawn
    <3>2. Same(t) /\ Left(t) = {}
      BY <2>1, CallBegins
    <3> QED
      BY <1>b, <3>1, <3>2
  <2>2. CASE StartIn(t)
    <3>1. terminal' = terminal /\ Open' /\ row'.term = row.term
      BY <2>2, RowEdits DEF StartIn, Open
    <3>2. Same(t) /\ Left(t) = {}
      BY <2>2, CallBegins
    <3> QED
      BY <1>b, <3>1, <3>2
  <2>3. CASE \E force \in BOOLEAN : Stop(t, force)
    <3>1. /\ Same(t) /\ Left(t) = {}
          /\ row.state = "idle" => Left(t)' = {"changed", "drop"} /\ task'[t].uid = row.term
      BY <2>3, CallBegins
    <3>2. row.state # "idle" => Open' /\ row'.term = row.term
      BY <2>3, StopEdits DEF Open
    <3>3. terminal' = terminal
      BY <2>3 DEF Stop
    <3> QED
      BY <1>b, <3>1, <3>2, <3>3
  <2>4. CASE Switch(t)
    <3>1. UNCHANGED <<row, terminal>>
      BY <2>4 DEF Switch, table
    <3> QED
      BY <1>c, <2>4, <3>1, CallBegins
  <2>5. CASE \E s \in Sizes : Resize(t, s)
    <3>1. UNCHANGED <<row, terminal>>
      BY <2>5 DEF Resize
    <3> QED
      BY <1>c, <2>5, <3>1, CallBegins
  <2> QED
    BY <1>1, <2>1, <2>2, <2>3, <2>4, <2>5 DEF Call
<1>2. ASSUME NEW t \in Tasks, TaskStep(t) PROVE TerminalInv'
  <2>1. CASE Build(t)
    <3>1. /\ Apart(t) /\ Left(t) = {"build"} \union Range(Rest(t))
      BY <2>1, BuildGoes
    <3>2. "drop" \notin Left(t) /\ Same(t)
      BY <3>1, BuildingIs, ApartSame DEF TaskInv
    <3>3. /\ row' = [row EXCEPT !.term = task[t].uid] /\ Open
          /\ terminal' = [Closed(row.term) EXCEPT ![task[t].uid] = task[t].size]
      BY <2>1 DEF Build
    <3>4. row'.term = task[t].uid /\ Open'
      BY <3>3, RowEdits DEF Open, TypeOK, TaskOf
    <3>5. ASSUME NEW u \in Jobs, terminal'[u] # None, u # task[t].uid PROVE Dropping(u)'
      <4>1. terminal[u] # None /\ u # row.term
        BY <3>3, <3>5 DEF Closed
      <4>2. Dropping(u)
        BY <4>1 DEF TerminalInv
      <4> QED
        BY <3>2, <4>2, DroppingKept
    <3> QED
      BY <3>4, <3>5 DEF TerminalInv
  <2>2. CASE BuildFails(t)
    <3>1. UNCHANGED <<row, terminal>>
      BY <2>2 DEF BuildFails, table
    <3>2. "build" \in Left(t) /\ Same(t)
      BY <2>2, StepTurns
    <3>3. "drop" \notin Left(t)
      BY <3>2, BuildingIs DEF TaskInv
    <3> QED
      BY <1>c, <3>1, <3>2, <3>3
  <2>3. CASE Unspawn(t)
    <3>1. Drops(t, "unspawn")
      BY <2>3, StepDrops
    <3>2. /\ \A u \in Jobs : terminal'[u] # None => terminal[u] # None
          /\ \A u \in Jobs : ~(Open /\ row.term = u /\ terminal'[u] # None)
      BY <2>3 DEF Unspawn, Closed
    <3> QED
      BY <1>d, <3>1, <3>2, TerminalKept DEF Drops
  <2>4. CASE Reapply(t) \/ Apply(t)
    <3>1. Drops(t, "reapply") \/ Drops(t, "apply")
      BY <2>4, StepDrops
    <3>2. /\ \A u \in Jobs : terminal'[u] # None => terminal[u] # None
          /\ row' = row
      BY <2>4 DEF Reapply, Apply
    <3>3. Open => Open' /\ row'.term = row.term
      BY <3>2 DEF Open
    <3>4. "drop" \in Left(t) => "drop" \in Left(t)' /\ task'[t].uid = task[t].uid
      BY <1>d, <3>1
    <3> QED
      BY <3>1, <3>2, <3>3, <3>4, TerminalKept DEF Drops
  <2>5. CASE Drop(t)
    <3>1. Drops(t, "drop")
      BY <2>5, StepDrops
    <3>2. row' = row /\ terminal' = Closed(task[t].uid)
      BY <2>5 DEF Drop
    <3>3. ASSUME NEW u \in Jobs, terminal'[u] # None
          PROVE  (Open' /\ row'.term = u) \/ Dropping(u)'
      <4>1. terminal[u] # None /\ u # task[t].uid
        BY <3>2, <3>3 DEF Closed
      <4>2. CASE Open /\ row.term = u
        BY <3>2, <4>2 DEF Open
      <4>3. CASE Dropping(u)
        BY <3>1, <4>1, <4>3, DroppingKept DEF Drops
      <4> QED
        BY <4>1, <4>2, <4>3 DEF TerminalInv
    <3> QED
      BY <3>3 DEF TerminalInv
  <2>6. CASE Launch(t)
    <3>1. terminal' = terminal /\ (Open => Open' /\ row'.term = row.term)
      BY <2>6, RowEdits DEF Launch, Open
    <3> QED
      BY <1>b, <2>6, <3>1, StepTurns
  <2>7. CASE Retire(t)
    <3>1. /\ Same(t) /\ Left(t) = {"retire"}
          /\ Open /\ row.state = "idle" => Left(t)' = {"drop"} /\ task'[t].uid = row.term
      BY <2>7, StepTurns
    <3>2. terminal' = terminal /\ (Open /\ row.state # "idle" => Open' /\ row'.term = row.term)
      BY <2>7, RowEdits DEF Retire, Open
    <3> QED
      BY <1>b, <3>1, <3>2
  <2>8. CASE Check(t) \/ Select(t)
    <3>1. UNCHANGED <<row, terminal>>
      BY <2>8 DEF Check, Select, table
    <3> QED
      BY <1>c, <2>8, <3>1, StepTurns
  <2>9. CASE Wake(t) \/ ReadRows(t)
    <3>1. UNCHANGED <<row, terminal>>
      BY <2>9 DEF Wake, ReadRows, table
    <3> QED
      BY <1>c, <2>9, <3>1, StepTells DEF Keeps
  <2>10. CASE ReadCurrent(t)
    <3>1. UNCHANGED <<row, terminal>>
      BY <2>10 DEF ReadCurrent, table
    <3>2. Drops(t, "changed") \/ Drops(t, "published")
      BY <2>10, StepTells
    <3> QED
      BY <1>c, <1>d, <3>1, <3>2 DEF Drops
  <2>11. CASE Wait(t) \/ Opened(t) \/ Resized(t) \/ Register(t)
    <3>1. UNCHANGED <<row, terminal>>
      BY <2>11 DEF Wait, Opened, Resized, Register, table
    <3>2. PICK step : step # "drop" /\ Drops(t, step)
      <4>1. "wait" # "drop" /\ "opened" # "drop" /\ "resized" # "drop" /\ "register" # "drop"
        OBVIOUS
      <4> QED
        BY <2>11, <4>1, StepDrops
    <3> QED
      BY <1>c, <1>d, <3>1, <3>2 DEF Drops
  <2> QED
    BY <1>2, <2>1, <2>2, <2>3, <2>4, <2>5, <2>6, <2>7, <2>8, <2>9, <2>10, <2>11 DEF TaskStep
<1>3. ASSUME Conclude PROVE TerminalInv'
  <2> DEFINE t == Concluder
  <2>1. /\ Same(t) /\ Left(t) = {}
        /\ Closing => Left(t)' = {"changed", "drop"} /\ task'[t].uid = row.term
    BY <1>3, ConcludeBegins
  <2>2. terminal' = terminal /\ (~Closing => Open' /\ row'.term = row.term)
    BY <1>3, RowEdits DEF Conclude, Open
  <2> QED
    BY <1>0, <1>b, <2>1, <2>2
<1> QED
  BY <1>0, <1>1, <1>2, <1>3, <1>a, StepsAside DEF Next

-----------------------------------------------------------------------------
(* SizeInv: one size for the whole mux.                                     *)

\* The steps that carry a geometry.
Flights == {"apply", "resized", "reapply"}

\* A geometry is on its way while one of these steps is left.
LEMMA FlightIs ==
    \A t \in Tasks : /\ InFlight(t) <=> Left(t) \intersect Flights # {}
                     /\ InFlight(t)' <=> Left(t)' \intersect Flights # {}
  BY DEF InFlight, Left, Range, Flights

\* The jobs a resize has left to reach are the ones it found.
LEMMA StepTargets ==
    ASSUME TypeOK, NEW t \in Tasks, Left(t)' # {}
    PROVE  \/ Unspawn(t) \/ Reapply(t) \/ Drop(t) \/ Wait(t) \/ Opened(t) \/ Resized(t) \/ Register(t)
           => task'[t].targets = task[t].targets
<1>0. task[t] \in TaskOf
  BY DEF TypeOK
<1>1. ASSUME NEW step, At(t, step), Done(t) PROVE task'[t].targets = task[t].targets
  <2>1. task'[t] = [task[t] EXCEPT !.todo = Rest(t)]
    BY <1>1, DoneDrops
  <2> QED
    BY <1>0, <2>1 DEF TaskOf
<1>2. CASE Unspawn(t) \/ Reapply(t) \/ Drop(t) \/ Wait(t) \/ Opened(t) \/ Resized(t)
  BY <1>1, <1>2 DEF Unspawn, Reapply, Drop, Wait, Opened, Resized
<1>3. ASSUME Register(t) PROVE task'[t].targets = task[t].targets
  <2> DEFINE r == [task[t] EXCEPT !.woken = FALSE, !.todo = Rest(t)]
  <2>1. At(t, "register") /\ Continue(t, r)
    BY <1>3 DEF Register
  <2>2. Rest(t) \in Plans
    BY <2>1, Next1
  <2>3. /\ r \in TaskOf /\ r.todo = Rest(t) /\ r.uid = task[t].uid /\ r.size = task[t].size
        /\ r.targets = task[t].targets
    BY <1>0, <2>2 DEF TaskOf
  <2> HIDE DEF r
  <2> QED
    BY <2>1, <2>3, ContinueDrops
<1> QED
  BY <1>2, <1>3

\* A step of t that does not change the size of the mux, and leaves the terminals
\* that have another to those who are to reach them.
LEMMA SizeKept ==
    ASSUME SizeInv, NEW t \in Tasks, Same(t), muxSize' = muxSize,
           "size" \notin raced' => "size" \notin raced,
           "size" \notin raced /\ Left(t)' \intersect Flights # {} => task'[t].size = muxSize,
           "size" \notin raced =>
               size' = muxSize \/ (size' = size /\ ("resized" \in Left(t) => "resized" \in Left(t)')),
           \A u \in Jobs : "size" \notin raced /\ terminal'[u] \notin {None, muxSize} =>
               /\ terminal'[u] = terminal[u]
               /\ "drop" \in Left(t) /\ task[t].uid = u => "drop" \in Left(t)' /\ task'[t].uid = u
               /\ "reapply" \in Left(t) /\ task[t].uid = u => "reapply" \in Left(t)' /\ task'[t].uid = u
               /\ "apply" \in Left(t) /\ u \in task[t].targets =>
                      "apply" \in Left(t)' /\ u \in task'[t].targets
    PROVE  SizeInv'
<1>1. SUFFICES ASSUME "size" \notin raced'
               PROVE  /\ \A x \in Tasks : InFlight(x)' => task'[x].size = muxSize'
                      /\ size' = muxSize' \/ \E x \in Tasks : "resized" \in Left(x)'
                      /\ \A u \in Jobs : \/ terminal'[u] \in {None, muxSize'}
                                         \/ Dropping(u)'
                                         \/ \E x \in Tasks :
                                               \/ "reapply" \in Left(x)' /\ task'[x].uid = u
                                               \/ "apply" \in Left(x)' /\ u \in task'[x].targets
  BY DEF SizeInv
<1>2. "size" \notin raced
  BY <1>1
<1>3. ASSUME NEW x \in Tasks, InFlight(x)' PROVE task'[x].size = muxSize'
  <2>1. CASE x = t
    BY <1>2, <1>3, <2>1, FlightIs
  <2>2. CASE x # t
    <3>1. Left(x)' = Left(x) /\ task'[x].size = task[x].size
      BY <2>2 DEF Same
    <3>2. InFlight(x)
      BY <1>3, <3>1, FlightIs
    <3> QED
      BY <1>2, <3>1, <3>2 DEF SizeInv
  <2> QED
    BY <2>1, <2>2
<1>4. size' = muxSize' \/ \E x \in Tasks : "resized" \in Left(x)'
  <2>1. CASE size' = muxSize
    BY <2>1
  <2>2. CASE size' # muxSize
    <3>1. size' = size /\ ("resized" \in Left(t) => "resized" \in Left(t)')
      BY <1>2, <2>2
    <3>2. PICK x \in Tasks : "resized" \in Left(x)
      BY <1>2, <2>2, <3>1 DEF SizeInv
    <3>3. "resized" \in Left(x)'
      BY <3>1, <3>2 DEF Same
    <3> QED
      BY <3>3
  <2> QED
    BY <2>1, <2>2
<1>5. ASSUME NEW u \in Jobs, terminal'[u] \notin {None, muxSize'}
      PROVE  \/ Dropping(u)'
             \/ \E x \in Tasks : \/ "reapply" \in Left(x)' /\ task'[x].uid = u
                                 \/ "apply" \in Left(x)' /\ u \in task'[x].targets
  <2>1. /\ terminal'[u] = terminal[u]
        /\ "drop" \in Left(t) /\ task[t].uid = u => "drop" \in Left(t)' /\ task'[t].uid = u
        /\ "reapply" \in Left(t) /\ task[t].uid = u => "reapply" \in Left(t)' /\ task'[t].uid = u
        /\ "apply" \in Left(t) /\ u \in task[t].targets =>
               "apply" \in Left(t)' /\ u \in task'[t].targets
    BY <1>2, <1>5
  <2>2. terminal[u] \notin {None, muxSize}
    BY <1>5, <2>1
  <2>3. CASE Dropping(u)
    BY <2>1, <2>3, DroppingKept
  <2>4. ASSUME NEW x \in Tasks, "reapply" \in Left(x) /\ task[x].uid = u
        PROVE  "reapply" \in Left(x)' /\ task'[x].uid = u
    BY <2>1, <2>4 DEF Same
  <2>5. ASSUME NEW x \in Tasks, "apply" \in Left(x) /\ u \in task[x].targets
        PROVE  "apply" \in Left(x)' /\ u \in task'[x].targets
    BY <2>1, <2>5 DEF Same
  <2> QED
    BY <1>2, <2>2, <2>3, <2>4, <2>5 DEF SizeInv
<1> QED
  BY <1>3, <1>4, <1>5

\* A task that is done with a step that moves no geometry.
LEMMA SizeKeptDone ==
    ASSUME SizeInv, NEW t \in Tasks, NEW step, step \notin Flights \union {"drop"}, Same(t), Keeps(t),
           Left(t) = {step} \union Left(t)',
           Left(t)' # {} => task'[t].targets = task[t].targets,
           muxSize' = muxSize, "size" \notin raced' => "size" \notin raced, size' = size,
           \A u \in Jobs : terminal'[u] \in {None, terminal[u]}
    PROVE  SizeInv'
<1>1. "size" \notin raced /\ Left(t)' \intersect Flights # {} => task'[t].size = muxSize
  <2>1. Left(t)' \intersect Flights # {} => InFlight(t) /\ task'[t].size = task[t].size
    BY FlightIs DEF Keeps
  <2> QED
    BY <2>1 DEF SizeInv
<1>2. /\ "resized" \in Left(t) => "resized" \in Left(t)'
      /\ "drop" \in Left(t) => "drop" \in Left(t)' /\ task'[t].uid = task[t].uid
      /\ "reapply" \in Left(t) => "reapply" \in Left(t)' /\ task'[t].uid = task[t].uid
      /\ "apply" \in Left(t) => "apply" \in Left(t)' /\ task'[t].targets = task[t].targets
  BY DEF Keeps, Flights
<1> QED
  BY <1>1, <1>2, SizeKept

\* A task whose steps, before and after, have nothing to do with geometries.
LEMMA SizeKeptApart ==
    ASSUME SizeInv, NEW t \in Tasks, Same(t),
           Left(t) \intersect (Flights \union {"drop"}) = {}, Left(t)' \intersect Flights = {},
           muxSize' = muxSize, "size" \notin raced' => "size" \notin raced, size' = size,
           \A u \in Jobs : terminal'[u] \in {None, terminal[u]}
    PROVE  SizeInv'
<1>1. /\ Left(t)' \intersect Flights = {}
      /\ "resized" \notin Left(t) /\ "drop" \notin Left(t)
      /\ "reapply" \notin Left(t) /\ "apply" \notin Left(t)
  BY DEF Flights
<1> QED
  BY <1>1, SizeKept

\* A built job has the size it was started with, or is about to get another.
LEMMA SizeInvBuild ==
    ASSUME TypeOK, TaskInv, SizeInv, NEW t \in Tasks, Build(t)
    PROVE  SizeInv'
<1>1. /\ Same(t) /\ Left(t) = {"build"} \union Range(Rest(t))
      /\ task'[t] = [task[t] EXCEPT !.todo = Reapplied(t) \o Rest(t),
                                    !.size = IF Reapplied(t) = <<>> THEN None ELSE muxSize]
      /\ Left(t)' = Range(Rest(t)) \union (IF muxSize # task[t].size THEN {"reapply"} ELSE {})
      /\ (Reapplied(t) = <<>>) <=> (muxSize = task[t].size)
  BY BuildGoes, ApartSame
<1>2. Left(t) \subseteq {"changed", "build", "wake", "opened", "published", "launch"}
  BY <1>1, BuildingIs DEF TaskInv
<1>3. /\ muxSize # task[t].size => "reapply" \in Left(t)' /\ task'[t].size = muxSize
      /\ muxSize = task[t].size => Left(t)' \intersect Flights = {}
      /\ task'[t].uid = task[t].uid
  <2>1. task[t] \in TaskOf
    BY DEF TypeOK
  <2>2. task'[t].uid = task[t].uid /\ (muxSize # task[t].size => task'[t].size = muxSize)
    BY <1>1, <2>1 DEF TaskOf
  <2>3. Range(Rest(t)) \intersect Flights = {}
    BY <1>1, <1>2 DEF Flights
  <2> QED
    BY <1>1, <2>2, <2>3
<1>4. /\ muxSize' = muxSize /\ size' = size /\ ("size" \notin raced' => "size" \notin raced)
      /\ terminal' = [Closed(row.term) EXCEPT ![task[t].uid] = task[t].size]
  BY DEF Build, display
<1>5. SUFFICES ASSUME "size" \notin raced'
               PROVE  /\ \A x \in Tasks : InFlight(x)' => task'[x].size = muxSize'
                      /\ size' = muxSize' \/ \E x \in Tasks : "resized" \in Left(x)'
                      /\ \A u \in Jobs : \/ terminal'[u] \in {None, muxSize'}
                                         \/ Dropping(u)'
                                         \/ \E x \in Tasks :
                                               \/ "reapply" \in Left(x)' /\ task'[x].uid = u
                                               \/ "apply" \in Left(x)' /\ u \in task'[x].targets
  BY DEF SizeInv
<1>6. "size" \notin raced
  BY <1>4, <1>5
<1>7. ASSUME NEW x \in Tasks, InFlight(x)' PROVE task'[x].size = muxSize'
  <2>1. CASE x = t
    BY <1>3, <1>4, <1>7, <2>1, FlightIs
  <2>2. CASE x # t
    <3>1. Left(x)' = Left(x) /\ task'[x].size = task[x].size
      BY <1>1, <2>2 DEF Same
    <3>2. InFlight(x)
      BY <1>7, <3>1, FlightIs
    <3> QED
      BY <1>4, <1>6, <3>1, <3>2 DEF SizeInv
  <2> QED
    BY <2>1, <2>2
<1>8. size' = muxSize' \/ \E x \in Tasks : "resized" \in Left(x)'
  <2>1. ASSUME NEW x \in Tasks, "resized" \in Left(x) PROVE "resized" \in Left(x)'
    BY <1>1, <1>2, <2>1 DEF Same
  <2> QED
    BY <1>4, <1>6, <2>1 DEF SizeInv
<1>9. ASSUME NEW u \in Jobs, terminal'[u] \notin {None, muxSize'}
      PROVE  \/ Dropping(u)'
             \/ \E x \in Tasks : \/ "reapply" \in Left(x)' /\ task'[x].uid = u
                                 \/ "apply" \in Left(x)' /\ u \in task'[x].targets
  <2>1. CASE u = task[t].uid
    <3>1. terminal'[u] = task[t].size
      BY <1>4, <2>1 DEF Closed
    <3>2. "reapply" \in Left(t)' /\ task'[t].uid = u
      BY <1>3, <1>4, <1>9, <2>1, <3>1
    <3> QED
      BY <3>2
  <2>2. CASE u # task[t].uid
    <3>1. terminal[u] = terminal'[u]
      BY <1>4, <1>9, <2>2 DEF Closed
    <3>2. CASE Dropping(u)
      BY <1>1, <1>2, <3>2, DroppingKept
    <3>3. ASSUME NEW x \in Tasks, "reapply" \in Left(x) /\ task[x].uid = u
          PROVE  "reapply" \in Left(x)' /\ task'[x].uid = u
      BY <1>1, <1>2, <3>3 DEF Same
    <3>4. ASSUME NEW x \in Tasks, "apply" \in Left(x) /\ u \in task[x].targets
          PROVE  "apply" \in Left(x)' /\ u \in task'[x].targets
      BY <1>1, <1>2, <3>4 DEF Same
    <3> QED
      BY <1>4, <1>6, <1>9, <3>1, <3>2, <3>3, <3>4 DEF SizeInv
  <2> QED
    BY <2>1, <2>2
<1> QED
  BY <1>7, <1>8, <1>9

\* A resize that finds nothing on its way finds every terminal there is.
LEMMA SizeInvResize ==
    ASSUME TypeOK, TerminalInv, SizeInv, NEW t \in Tasks, NEW s \in Sizes, Resize(t, s)
    PROVE  SizeInv'
<1>1. /\ Same(t) /\ Left(t) = {} /\ Left(t)' = {"apply", "resized"}
      /\ task'[t].size = s
      /\ task'[t].targets = IF Open THEN {row.term} \ {0} ELSE {}
  BY CallBegins
<1>2. /\ muxSize' = s /\ terminal' = terminal
      /\ raced' = IF \E x \in Tasks : InFlight(x) THEN raced \union {"size"} ELSE raced
  BY DEF Resize
<1>3. SUFFICES ASSUME "size" \notin raced'
               PROVE  /\ \A x \in Tasks : InFlight(x)' => task'[x].size = muxSize'
                      /\ \E x \in Tasks : "resized" \in Left(x)'
                      /\ \A u \in Jobs : \/ terminal'[u] \in {None, muxSize'}
                                         \/ Dropping(u)'
                                         \/ \E x \in Tasks :
                                               \/ "reapply" \in Left(x)' /\ task'[x].uid = u
                                               \/ "apply" \in Left(x)' /\ u \in task'[x].targets
  BY DEF SizeInv
<1>4. \A x \in Tasks : ~InFlight(x)
  BY <1>2, <1>3
<1>5. ASSUME NEW x \in Tasks, InFlight(x)' PROVE task'[x].size = muxSize'
  <2>1. x = t
    <3>1. SUFFICES ASSUME x # t PROVE FALSE
      OBVIOUS
    <3>2. Left(x)' = Left(x)
      BY <1>1, <3>1 DEF Same
    <3> QED
      BY <1>4, <1>5, <3>2, FlightIs
  <2> QED
    BY <1>1, <1>2, <2>1
<1>6. "resized" \in Left(t)'
  BY <1>1
<1>7. ASSUME NEW u \in Jobs, terminal'[u] # None
      PROVE  Dropping(u)' \/ ("apply" \in Left(t)' /\ u \in task'[t].targets)
  <2>1. CASE Open /\ row.term = u
    <3>1. u # 0
      BY BoundsAssumption DEF Jobs
    <3> QED
      BY <1>1, <2>1, <3>1
  <2>2. CASE Dropping(u)
    BY <1>1, <2>2, DroppingKept
  <2> QED
    BY <1>2, <1>7, <2>1, <2>2 DEF TerminalInv
<1> QED
  BY <1>5, <1>6, <1>7

\* What is on its way is the size of the mux.
LEMMA SizeInvStep ==
    ASSUME TypeOK, TaskInv, TerminalInv, SizeInv, [Next]_vars
    PROVE  SizeInv'
<1>0. Callers \subseteq Tasks /\ Concluder \in Tasks
  BY DEF Tasks
<1>a. ASSUME UNCHANGED <<task, terminal, muxSize, size, raced>> PROVE SizeInv'
  BY <1>a DEF SizeInv, InFlight, Left, Dropping
<1>1. ASSUME NEW t \in Tasks, Call(t) PROVE SizeInv'
  <2>1. CASE \E opens \in BOOLEAN : Spawn(t, opens)
    <3>1. Same(t) /\ Left(t) = {} /\ Left(t)' \intersect Flights = {}
      BY <2>1, CallBegins DEF Flights
    <3>2. UNCHANGED <<muxSize, raced, size, terminal>>
      BY <2>1 DEF Spawn, display
    <3> QED
      BY <3>1, <3>2, SizeKeptApart
  <2>2. CASE StartIn(t)
    <3>1. Same(t) /\ Left(t) = {} /\ Left(t)' \intersect Flights = {}
      BY <2>2, CallBegins DEF Flights
    <3>2. UNCHANGED <<muxSize, raced, size, terminal>>
      BY <2>2 DEF StartIn, display
    <3> QED
      BY <3>1, <3>2, SizeKeptApart
  <2>3. CASE \E force \in BOOLEAN : Stop(t, force)
    <3>1. Same(t) /\ Left(t) = {} /\ Left(t)' \intersect Flights = {}
      BY <2>3, CallBegins DEF Flights
    <3>2. UNCHANGED <<muxSize, raced, size, terminal>>
      BY <2>3 DEF Stop, display
    <3> QED
      BY <3>1, <3>2, SizeKeptApart
  <2>4. CASE Switch(t)
    <3>1. Same(t) /\ Left(t) = {} /\ Left(t)' \intersect Flights = {}
      BY <2>4, CallBegins DEF Flights
    <3>2. UNCHANGED <<muxSize, raced, size, terminal>>
      BY <2>4 DEF Switch, table, display
    <3> QED
      BY <3>1, <3>2, SizeKeptApart
  <2>5. CASE \E s \in Sizes : Resize(t, s)
    BY <2>5, SizeInvResize
  <2> QED
    BY <1>1, <2>1, <2>2, <2>3, <2>4, <2>5 DEF Call
<1>2. ASSUME NEW t \in Tasks, TaskStep(t) PROVE SizeInv'
  <2>1. CASE Build(t)
    BY <2>1, SizeInvBuild
  <2>2. CASE BuildFails(t)
    <3>1. Same(t) /\ "build" \in Left(t) /\ Left(t)' \intersect Flights = {}
      BY <2>2, StepTurns DEF Flights
    <3>2. Left(t) \intersect (Flights \union {"drop"}) = {}
      BY <3>1, BuildingIs DEF TaskInv, Flights
    <3>3. UNCHANGED <<muxSize, raced, size, terminal>>
      BY <2>2 DEF BuildFails, table, display
    <3> QED
      BY <3>1, <3>2, <3>3, SizeKeptApart
  <2>3. CASE Launch(t) \/ Check(t) \/ Select(t) \/ Retire(t)
    <3>1. Same(t) /\ Left(t)' \intersect Flights = {} /\ Left(t) \intersect (Flights \union {"drop"}) = {}
      BY <2>3, StepTurns DEF Flights
    <3>2. UNCHANGED <<muxSize, size, terminal>> /\ ("size" \notin raced' => "size" \notin raced)
      BY <2>3 DEF Launch, Check, Select, Retire, table, display
    <3> QED
      BY <3>1, <3>2, SizeKeptApart
  <2>4. CASE Unspawn(t)
    <3>1. Drops(t, "unspawn") /\ (Left(t)' # {} => task'[t].targets = task[t].targets)
      BY <2>4, StepDrops, StepTargets
    <3>2. UNCHANGED <<muxSize, size>> /\ ("size" \notin raced' => "size" \notin raced)
      BY <2>4 DEF Unspawn, display
    <3>3. \A u \in Jobs : terminal'[u] \in {None, terminal[u]}
      BY <2>4 DEF Unspawn, Closed
    <3> QED
      BY <3>1, <3>2, <3>3, SizeKeptDone DEF Drops, Flights
  <2>5. CASE Wait(t) \/ Opened(t) \/ Register(t)
    <3>1. /\ \E step \in {"wait", "opened", "register"} : Drops(t, step)
          /\ Left(t)' # {} => task'[t].targets = task[t].targets
      BY <2>5, StepDrops, StepTargets
    <3>2. UNCHANGED <<muxSize, size, terminal>> /\ ("size" \notin raced' => "size" \notin raced)
      BY <2>5 DEF Wait, Opened, Register, table, display
    <3> QED
      BY <3>1, <3>2, SizeKeptDone DEF Drops, Flights
  <2>6. CASE Wake(t)
    <3>1. /\ Same(t) /\ Keeps(t) /\ Left(t) = {"wake"} \union Left(t)'
          /\ Left(t)' # {} => task'[t].targets = task[t].targets
      BY <2>6, StepTells
    <3>2. UNCHANGED <<muxSize, size, terminal, raced>>
      BY <2>6 DEF Wake, table, display
    <3> QED
      BY <3>1, <3>2, SizeKeptDone DEF Flights
  <2>7. CASE ReadCurrent(t)
    <3>1. /\ \E step \in {"changed", "published"} : Drops(t, step)
          /\ Left(t)' # {} => task'[t].targets = task[t].targets
      BY <2>7, StepTells
    <3>2. UNCHANGED <<muxSize, size, terminal, raced>>
      BY <2>7 DEF ReadCurrent, table
    <3> QED
      BY <3>1, <3>2, SizeKeptDone DEF Drops, Flights
  <2>8. CASE ReadRows(t)
    <3>1. /\ Same(t) /\ Left(t)' = Left(t)
          /\ task'[t].uid = task[t].uid /\ task'[t].size = task[t].size
          /\ task'[t].targets = task[t].targets
      BY <2>8, StepTells
    <3>2. UNCHANGED <<muxSize, size, terminal, raced>>
      BY <2>8 DEF ReadRows, table, display
    <3>3. "size" \notin raced /\ Left(t)' \intersect Flights # {} => task'[t].size = muxSize
      BY <3>1, FlightIs DEF SizeInv
    <3> QED
      BY <3>1, <3>2, <3>3, SizeKept
  <2>9. CASE Reapply(t)
    <3>1. Drops(t, "reapply") /\ (Left(t)' # {} => task'[t].targets = task[t].targets)
      BY <2>9, StepDrops, StepTargets
    <3>2. UNCHANGED <<muxSize, size, raced>>
      BY <2>9 DEF Reapply, display
    <3>3. "size" \notin raced => task[t].size = muxSize
      BY <3>1, FlightIs DEF SizeInv, Drops, Flights
    <3>4. ASSUME NEW u \in Jobs, "size" \notin raced, terminal'[u] \notin {None, muxSize}
          PROVE  terminal'[u] = terminal[u] /\ u # task[t].uid
      BY <2>9, <3>3, <3>4 DEF Reapply
    <3>5. /\ Same(t) /\ Left(t) = {"reapply"} \union Left(t)'
          /\ Left(t)' # {} => task'[t].uid = task[t].uid /\ task'[t].size = task[t].size
      BY <3>1 DEF Drops, Keeps
    <3>6. /\ "resized" \in Left(t) => "resized" \in Left(t)'
          /\ "apply" \in Left(t) => "apply" \in Left(t)' /\ task'[t].targets = task[t].targets
      BY <3>1, <3>5
    <3> QED
      BY <3>2, <3>3, <3>4, <3>5, <3>6, SizeKept
  <2>10. CASE Apply(t)
    <3>1. Drops(t, "apply")
      BY <2>10, StepDrops
    <3>2. UNCHANGED <<muxSize, size, raced>>
      BY <2>10 DEF Apply, display
    <3>3. "size" \notin raced => task[t].size = muxSize
      BY <3>1, FlightIs DEF SizeInv, Drops, Flights
    <3>4. ASSUME NEW u \in Jobs, "size" \notin raced, terminal'[u] \notin {None, muxSize}
          PROVE  terminal'[u] = terminal[u] /\ u \notin task[t].targets
      BY <2>10, <3>3, <3>4 DEF Apply
    <3>5. /\ Same(t) /\ Left(t) = {"apply"} \union Left(t)'
          /\ Left(t)' # {} => task'[t].uid = task[t].uid /\ task'[t].size = task[t].size
      BY <3>1 DEF Drops, Keeps
    <3>6. /\ "resized" \in Left(t) => "resized" \in Left(t)'
          /\ "drop" \in Left(t) => "drop" \in Left(t)' /\ task'[t].uid = task[t].uid
          /\ "reapply" \in Left(t) => "reapply" \in Left(t)' /\ task'[t].uid = task[t].uid
      BY <3>5
    <3> QED
      BY <3>2, <3>3, <3>4, <3>5, <3>6, SizeKept
  <2>11. CASE Resized(t)
    <3>1. Drops(t, "resized") /\ (Left(t)' # {} => task'[t].targets = task[t].targets)
      BY <2>11, StepDrops, StepTargets
    <3>2. UNCHANGED <<muxSize, terminal, raced>> /\ size' = task[t].size
      BY <2>11 DEF Resized, table
    <3>3. "size" \notin raced => task[t].size = muxSize
      BY <3>1, FlightIs DEF SizeInv, Drops, Flights
    <3>4. /\ Same(t) /\ Left(t) = {"resized"} \union Left(t)'
          /\ Left(t)' # {} => task'[t].uid = task[t].uid /\ task'[t].size = task[t].size
      BY <3>1 DEF Drops, Keeps
    <3>5. /\ "drop" \in Left(t) => "drop" \in Left(t)' /\ task'[t].uid = task[t].uid
          /\ "reapply" \in Left(t) => "reapply" \in Left(t)' /\ task'[t].uid = task[t].uid
          /\ "apply" \in Left(t) => "apply" \in Left(t)' /\ task'[t].targets = task[t].targets
      BY <3>1, <3>4
    <3> QED
      BY <3>2, <3>3, <3>4, <3>5, SizeKept
  <2>12. CASE Drop(t)
    <3>1. Drops(t, "drop") /\ (Left(t)' # {} => task'[t].targets = task[t].targets)
      BY <2>12, StepDrops, StepTargets
    <3>2. UNCHANGED <<muxSize, size, raced>> /\ terminal' = Closed(task[t].uid)
      BY <2>12 DEF Drop, display
    <3>3. ASSUME NEW u \in Jobs, terminal'[u] # None
          PROVE  terminal'[u] = terminal[u] /\ u # task[t].uid
      BY <3>2, <3>3 DEF Closed
    <3>4. /\ Same(t) /\ Left(t) = {"drop"} \union Left(t)'
          /\ Left(t)' # {} => task'[t].uid = task[t].uid /\ task'[t].size = task[t].size
      BY <3>1 DEF Drops, Keeps
    <3>5. /\ "resized" \in Left(t) => "resized" \in Left(t)'
          /\ "apply" \in Left(t) => "apply" \in Left(t)' /\ task'[t].targets = task[t].targets
      BY <3>1, <3>4
    <3>6. "size" \notin raced /\ Left(t)' \intersect Flights # {} => task'[t].size = muxSize
      <4>1. Left(t)' \intersect Flights # {} => InFlight(t)
        BY <3>4, FlightIs
      <4> QED
        BY <3>4, <4>1 DEF SizeInv
    <3> QED
      BY <3>2, <3>3, <3>4, <3>5, <3>6, SizeKept
  <2> QED
    BY <1>2, <2>1, <2>2, <2>3, <2>4, <2>5, <2>6, <2>7, <2>8, <2>9, <2>10, <2>11, <2>12 DEF TaskStep
<1>3. ASSUME Conclude PROVE SizeInv'
  <2>1. Same(Concluder) /\ Left(Concluder) = {} /\ Left(Concluder)' \intersect Flights = {}
    BY <1>3, ConcludeBegins DEF Flights
  <2>2. UNCHANGED <<muxSize, raced, size, terminal>>
    BY <1>3 DEF Conclude, display
  <2> QED
    BY <1>0, <2>1, <2>2, SizeKeptApart
<1> QED
  BY <1>0, <1>1, <1>2, <1>3, <1>a, StepsAside DEF Next

-----------------------------------------------------------------------------
(* NameInv: a built job has its terminal, its handle and its pump.          *)

\* A step of t that leaves the name to the job that has it, and what it has of it.
LEMMA NameKept ==
    ASSUME TypeOK, NameInv, NEW t \in Tasks, Same(t), RowSame,
           "name" \notin raced' => "name" \notin raced,
           "name" \notin raced' /\ Open /\ row.term # 0 =>
               /\ terminal[row.term] # None => terminal'[row.term] # None
               /\ handle = row.term => handle' = row.term
               /\ "opened" \in Left(t) /\ task[t].uid = row.term =>
                      handle' = row.term \/ ("opened" \in Left(t)' /\ task'[t].uid = row.term)
               /\ pump[row.term] = "running" => pump'[row.term] = "running"
               /\ "published" \in Left(t) /\ task[t].uid = row.term =>
                      pump'[row.term] = "running" \/ ("published" \in Left(t)' /\ task'[t].uid = row.term),
           "name" \notin raced' /\ Open =>
               /\ "drop" \in Left(t)' /\ task'[t].uid = row.uid =>
                      "drop" \in Left(t) /\ task[t].uid = row.uid
               /\ "build" \in Left(t)' /\ task'[t].uid = row.uid =>
                      "build" \in Left(t) /\ task[t].uid = row.uid
               /\ Built(t)' /\ task'[t].uid = row.uid => Built(t) /\ task[t].uid = row.uid
               /\ pump'[row.uid] # "none" => pump[row.uid] # "none" \/ row.term # 0
    PROVE  NameInv'
<1>1. SUFFICES ASSUME "name" \notin raced', row' # None
               PROVE  /\ row'.term \in {0, row'.uid}
                      /\ row'.term # 0 =>
                            /\ terminal'[row'.term] # None
                            /\ handle' = row'.term
                                  \/ \E x \in Tasks : "opened" \in Left(x)' /\ task'[x].uid = row'.term
                            /\ pump'[row'.term] = "running"
                                  \/ \E x \in Tasks : "published" \in Left(x)' /\ task'[x].uid = row'.term
                      /\ \A x \in Tasks : ~("drop" \in Left(x)' /\ task'[x].uid = row'.uid)
                      /\ \A x \in Tasks : task'[x].uid = row'.uid =>
                            /\ "build" \in Left(x)' => row'.term = 0
                            /\ Built(x)' => row'.term # 0
                      /\ pump'[row'.uid] # "none" => row'.term # 0
  BY DEF NameInv, Open, Dropping
<1>2. Open /\ row'.uid = row.uid /\ row'.term = row.term /\ "name" \notin raced
  BY <1>1 DEF RowSame
<1>3. row'.term \in {0, row'.uid}
  BY <1>2 DEF NameInv
<1>4. ASSUME row.term # 0
      PROVE  /\ terminal'[row.term] # None
             /\ handle' = row.term \/ \E x \in Tasks : "opened" \in Left(x)' /\ task'[x].uid = row.term
             /\ pump'[row.term] = "running"
                   \/ \E x \in Tasks : "published" \in Left(x)' /\ task'[x].uid = row.term
  <2>1. terminal'[row.term] # None
    BY <1>1, <1>2, <1>4 DEF NameInv
  <2>2. handle' = row.term \/ \E x \in Tasks : "opened" \in Left(x)' /\ task'[x].uid = row.term
    <3>1. CASE handle = row.term
      BY <1>1, <1>2, <1>4, <3>1
    <3>2. ASSUME NEW x \in Tasks, "opened" \in Left(x) /\ task[x].uid = row.term
          PROVE  handle' = row.term \/ ("opened" \in Left(x)' /\ task'[x].uid = row.term)
      BY <1>1, <1>2, <1>4, <3>2 DEF Same
    <3> QED
      BY <1>2, <1>4, <3>1, <3>2 DEF NameInv
  <2>3. pump'[row.term] = "running"
           \/ \E x \in Tasks : "published" \in Left(x)' /\ task'[x].uid = row.term
    <3>1. CASE pump[row.term] = "running"
      BY <1>1, <1>2, <1>4, <3>1
    <3>2. ASSUME NEW x \in Tasks, "published" \in Left(x) /\ task[x].uid = row.term
          PROVE  pump'[row.term] = "running" \/ ("published" \in Left(x)' /\ task'[x].uid = row.term)
      BY <1>1, <1>2, <1>4, <3>2 DEF Same
    <3> QED
      BY <1>2, <1>4, <3>1, <3>2 DEF NameInv
  <2> QED
    BY <2>1, <2>2, <2>3
<1>5. ASSUME NEW x \in Tasks, "drop" \in Left(x)', task'[x].uid = row'.uid PROVE FALSE
  <2>1. "drop" \in Left(x) /\ task[x].uid = row.uid
    BY <1>1, <1>2, <1>5 DEF Same
  <2> QED
    BY <1>2, <2>1 DEF NameInv, Dropping
<1>6. ASSUME NEW x \in Tasks, task'[x].uid = row'.uid
      PROVE  /\ "build" \in Left(x)' => row'.term = 0
             /\ Built(x)' => row'.term # 0
  <2>1. "build" \in Left(x)' => "build" \in Left(x) /\ task[x].uid = row.uid
    BY <1>1, <1>2, <1>6 DEF Same
  <2>2. Built(x)' => Built(x) /\ task[x].uid = row.uid
    <3>1. CASE x = t
      BY <1>1, <1>2, <1>6, <3>1
    <3>2. CASE x # t
      BY <1>2, <1>6, <3>2 DEF Same, Built
    <3> QED
      BY <3>1, <3>2
  <2> QED
    BY <1>2, <2>1, <2>2 DEF NameInv
<1>7. pump'[row'.uid] # "none" => row'.term # 0
  BY <1>1, <1>2 DEF NameInv
<1> QED
  BY <1>2, <1>3, <1>4, <1>5, <1>6, <1>7

\* A task that is done with a step that has nothing to do with the name.
LEMMA NameKeptDone ==
    ASSUME TypeOK, NameInv, NEW t \in Tasks, NEW step, step \notin {"build", "opened", "published"},
           Same(t), Keeps(t), Left(t) = {step} \union Left(t)', RowSame,
           "name" \notin raced' => "name" \notin raced, handle' = handle, pump' = pump,
           Open /\ "name" \notin raced' /\ row.term # 0 =>
               (terminal[row.term] # None => terminal'[row.term] # None)
    PROVE  NameInv'
<1>1. Left(t)' # {} => task'[t].uid = task[t].uid
  BY DEF Keeps
<1>2. /\ "opened" \in Left(t) => "opened" \in Left(t)' /\ task'[t].uid = task[t].uid
      /\ "published" \in Left(t) => "published" \in Left(t)' /\ task'[t].uid = task[t].uid
      /\ "drop" \in Left(t)' => "drop" \in Left(t) /\ task'[t].uid = task[t].uid
      /\ "build" \in Left(t)' => "build" \in Left(t) /\ task'[t].uid = task[t].uid
  BY <1>1
<1>3. Built(t)' => Built(t) /\ task'[t].uid = task[t].uid
  BY <1>1 DEF Built
<1> QED
  BY <1>2, <1>3, NameKept

\* A task whose steps, before and after, have nothing to do with the name.
LEMMA NameKeptApart ==
    ASSUME TypeOK, NameInv, NEW t \in Tasks, Same(t), RowSame,
           Left(t) \intersect {"opened", "published"} = {},
           Left(t)' \intersect {"build", "published"} = {},
           row' # None => "drop" \notin Left(t)',
           "name" \notin raced' => "name" \notin raced,
           handle' = handle, pump' = pump, terminal' = terminal
    PROVE  NameInv'
<1>1. CASE row' = None
  BY <1>1 DEF NameInv, Open
<1>2. CASE row' # None
  <2>1. "opened" \notin Left(t) /\ "published" \notin Left(t) /\ "build" \notin Left(t)' /\ ~Built(t)'
    BY DEF Built
  <2> QED
    BY <1>2, <2>1, NameKept
<1> QED
  BY <1>1, <1>2

\* The name is given to a job that nobody has anything to do with yet.
LEMMA NameInvSpawn ==
    ASSUME TypeOK, TaskInv, NumberInv, NameInv, NEW t \in Tasks, NEW opens \in BOOLEAN, Spawn(t, opens)
    PROVE  NameInv'
<1>1. /\ Same(t)
      /\ Left(t)' \subseteq {"changed", "build", "wake", "opened", "published", "launch"}
      /\ {"changed", "build", "wake", "opened", "published"} \subseteq Left(t)'
      /\ task'[t].uid = uids + 1 /\ uids + 1 \in Jobs /\ uids' = uids + 1
  BY CallBegins
<1>2. row'.uid = uids + 1 /\ row'.term = 0 /\ pump' = pump
  BY <1>1 DEF Spawn, display
<1>3. uids \in Nat
  BY DEF TypeOK, Jobs
<1>4. ASSUME NEW x \in Tasks, task'[x].uid = row'.uid
      PROVE  x = t
  <2>1. SUFFICES ASSUME x # t PROVE FALSE
    OBVIOUS
  <2>2. task[x].uid = uids + 1
    BY <1>1, <1>2, <1>4, <2>1 DEF Same
  <2>3. task[x].uid <= uids /\ task[x].uid \in Nat
    BY DEF TaskInv, TypeOK, TaskOf, Jobs
  <2> QED
    BY <1>3, <2>2, <2>3
<1>5. pump'[row'.uid] = "none"
  BY <1>1, <1>2, <1>3 DEF NumberInv
<1>6. ~Built(t)' /\ "drop" \notin Left(t)'
  BY <1>1 DEF Built
<1>7. \A x \in Tasks : ~("drop" \in Left(x)' /\ task'[x].uid = row'.uid)
  BY <1>4, <1>6
<1>8. \A x \in Tasks : task'[x].uid = row'.uid => ~Built(x)'
  BY <1>4, <1>6
<1> QED
  BY <1>2, <1>5, <1>7, <1>8 DEF NameInv, Dropping

\* A job that is built in its own row has a terminal there, and what follows.
LEMMA NameInvBuild ==
    ASSUME TypeOK, TaskInv, NameInv, NEW t \in Tasks, Build(t)
    PROVE  NameInv'
<1>1. /\ Same(t) /\ Left(t) = {"build"} \union Range(Rest(t))
      /\ task'[t] = [task[t] EXCEPT !.todo = Reapplied(t) \o Rest(t),
                                    !.size = IF Reapplied(t) = <<>> THEN None ELSE muxSize]
      /\ Left(t)' = Range(Rest(t)) \union (IF muxSize # task[t].size THEN {"reapply"} ELSE {})
      /\ {"wake", "opened", "published"} \subseteq Range(Rest(t)) /\ "build" \notin Range(Rest(t))
  BY BuildGoes, ApartSame
<1>2. Left(t) \subseteq {"changed", "build", "wake", "opened", "published", "launch"}
  BY <1>1, BuildingIs DEF TaskInv
<1>3. /\ "opened" \in Left(t)' /\ "published" \in Left(t)'
      /\ "build" \notin Left(t)' /\ "drop" \notin Left(t)'
  BY <1>1, <1>2
<1>4. task[t] \in TaskOf /\ task'[t].uid = task[t].uid
  BY <1>1 DEF TypeOK, TaskOf
<1>5. /\ row' = [row EXCEPT !.term = task[t].uid] /\ Open
      /\ terminal' = [Closed(row.term) EXCEPT ![task[t].uid] = task[t].size]
      /\ raced' = IF row.uid = task[t].uid THEN raced ELSE raced \union {"name"}
  BY DEF Build
<1>6. task[t].uid \in Jobs /\ task[t].uid # 0 /\ task[t].size # None
  BY <1>1, <1>4 DEF TaskInv, TaskOf
<1>7. row'.term = task[t].uid /\ row'.uid = row.uid
  BY <1>5, <1>6, RowEdits
<1>8. SUFFICES ASSUME "name" \notin raced' PROVE NameInv'
  BY DEF NameInv
<1>9. row.uid = task[t].uid /\ "name" \notin raced
  BY <1>5, <1>8
<1>10. terminal'[row'.term] # None
  BY <1>5, <1>6, <1>7 DEF Closed
<1>11. ASSUME NEW x \in Tasks, "drop" \in Left(x)', task'[x].uid = row'.uid PROVE FALSE
  <2>1. "drop" \in Left(x) /\ task[x].uid = row.uid
    BY <1>1, <1>3, <1>7, <1>11 DEF Same
  <2> QED
    BY <1>5, <1>9, <2>1 DEF NameInv, Dropping
<1>12. ASSUME NEW x \in Tasks, "build" \in Left(x)', task'[x].uid = row'.uid PROVE FALSE
  <2>1. "build" \in Left(x) /\ task[x].uid = task[t].uid /\ x # t
    BY <1>1, <1>3, <1>7, <1>9, <1>12 DEF Same
  <2> QED
    BY <1>1, <2>1 DEF TaskInv
<1>13. row'.term # 0 /\ row'.term = row'.uid
  BY <1>6, <1>7, <1>9
<1> QED
  BY <1>3, <1>4, <1>7, <1>10, <1>11, <1>12, <1>13 DEF NameInv, Dropping

\* Unless a name is reopened too early, its job has what it needs.
LEMMA NameInvStep ==
    ASSUME TypeOK, TaskInv, NumberInv, NameInv, [Next]_vars
    PROVE  NameInv'
<1>0. Callers \subseteq Tasks /\ Concluder \in Tasks
  BY DEF Tasks
<1>a. ASSUME UNCHANGED <<row, task, terminal, handle, pump, raced>> PROVE NameInv'
  BY <1>a DEF NameInv, Open, Left, Dropping, Built
<1>1. ASSUME NEW t \in Tasks, Call(t) PROVE NameInv'
  <2>1. CASE \E opens \in BOOLEAN : Spawn(t, opens)
    BY <2>1, NameInvSpawn
  <2>2. CASE StartIn(t)
    <3>1. Same(t) /\ Left(t) = {} /\ Left(t)' = {"changed", "launch"} /\ RowSame
      BY <2>2, CallBegins, RowSames
    <3>2. UNCHANGED <<handle, pump, terminal, raced>>
      BY <2>2 DEF StartIn, display
    <3> QED
      BY <3>1, <3>2, NameKeptApart
  <2>3. CASE \E force \in BOOLEAN : Stop(t, force)
    <3>1. /\ Same(t) /\ Left(t) = {} /\ RowSame
          /\ row.state = "idle" => Left(t)' = {"changed", "drop"}
          /\ row.state # "idle" => Left(t)' = {"changed"}
      BY <2>3, CallBegins, RowSames
    <3>2. UNCHANGED <<handle, pump, terminal, raced>> /\ (row.state = "idle" => row' = None)
      BY <2>3 DEF Stop, Removed, display
    <3> QED
      BY <3>1, <3>2, NameKeptApart
  <2>4. CASE Switch(t)
    <3>1. Same(t) /\ Left(t) = {} /\ Left(t)' = {"changed", "register", "check"} /\ RowSame
      BY <2>4, CallBegins, RowSames
    <3>2. UNCHANGED <<handle, pump, terminal, raced>>
      BY <2>4 DEF Switch, table, display
    <3> QED
      BY <3>1, <3>2, NameKeptApart
  <2>5. CASE \E s \in Sizes : Resize(t, s)
    <3>1. Same(t) /\ Left(t) = {} /\ Left(t)' = {"apply", "resized"} /\ RowSame
      BY <2>5, CallBegins, RowSames
    <3>2. UNCHANGED <<handle, pump, terminal>> /\ ("name" \notin raced' => "name" \notin raced)
      BY <2>5 DEF Resize, display
    <3> QED
      BY <3>1, <3>2, NameKeptApart
  <2> QED
    BY <1>1, <2>1, <2>2, <2>3, <2>4, <2>5 DEF Call
<1>2. ASSUME NEW t \in Tasks, TaskStep(t) PROVE NameInv'
  <2>0. Build(t) \/ RowSame
    BY <1>2, RowSames
  <2>1. CASE Build(t)
    BY <2>1, NameInvBuild
  <2>2. CASE BuildFails(t)
    <3>1. Same(t) /\ Keeps(t) /\ "build" \in Left(t) /\ Left(t)' = {"unspawn", "wake", "changed"}
      BY <2>2, StepTurns
    <3>2. UNCHANGED <<row, handle, pump, terminal, raced>> /\ RowSame
      BY <2>2, RowSames DEF BuildFails, table, display
    <3>3. "drop" \notin Left(t)' /\ "build" \notin Left(t)' /\ ~Built(t)'
      BY <3>1 DEF Built
    <3>4. "name" \notin raced /\ Open /\ row.term # 0 => task[t].uid # row.term
      BY <3>1 DEF NameInv
    <3>5. task[t].uid # 0
      BY <3>1 DEF TaskInv
    <3> QED
      BY <3>1, <3>2, <3>3, <3>4, <3>5, NameKept
  <2>3. CASE Unspawn(t)
    BY <2>3 DEF Unspawn, NameInv, Open
  <2>4. CASE Reapply(t) \/ Apply(t)
    <3>1. \E step \in {"reapply", "apply"} : Drops(t, step)
      BY <2>4, StepDrops
    <3>2. UNCHANGED <<row, handle, pump, raced>> /\ RowSame
      BY <2>4, RowSames DEF Reapply, Apply, display
    <3>3. task[t].size # None
      BY <3>1 DEF TaskInv, Drops
    <3>4. \A u \in Jobs : terminal[u] # None => terminal'[u] # None
      BY <2>4, <3>3 DEF Reapply, Apply
    <3>5. Open => row.term \in Jobs \/ row.term = 0
      BY DEF TypeOK, Row, Open
    <3> QED
      BY <3>1, <3>2, <3>4, <3>5, NameKeptDone DEF Drops
  <2>5. CASE Drop(t)
    <3>1. Drops(t, "drop")
      BY <2>5, StepDrops
    <3>2. UNCHANGED <<row, handle, pump, raced>> /\ RowSame /\ terminal' = Closed(task[t].uid)
      BY <2>5, RowSames DEF Drop, display
    <3>3. ASSUME Open, "name" \notin raced, row.term # 0
          PROVE  terminal[row.term] # None => terminal'[row.term] # None
      <4>1. row.term = row.uid /\ row.term \in Jobs
        BY <3>3 DEF NameInv, TypeOK, Row, Open
      <4>2. task[t].uid # row.term
        BY <3>1, <3>3, <4>1 DEF NameInv, Dropping, Drops
      <4> QED
        BY <3>2, <4>1, <4>2 DEF Closed
    <3> QED
      BY <3>1, <3>2, <3>3, NameKeptDone DEF Drops
  <2>6. CASE Launch(t) \/ Check(t) \/ Select(t)
    <3>1. /\ Same(t) /\ Left(t) \intersect {"opened", "published"} = {}
          /\ Left(t)' \intersect {"build", "published"} = {} /\ "drop" \notin Left(t)'
      BY <2>6, StepTurns
    <3>2. UNCHANGED <<handle, pump, terminal>> /\ RowSame /\ ("name" \notin raced' => "name" \notin raced)
      BY <2>6, RowSames DEF Launch, Check, Select, table, display
    <3> QED
      BY <3>1, <3>2, NameKeptApart
  <2>7. CASE Retire(t)
    <3>1. /\ Same(t) /\ Left(t) = {"retire"} /\ Left(t)' \subseteq {"drop"} /\ RowSame
          /\ ~(Open /\ row.state = "idle") => Left(t)' = {}
      BY <2>7, StepTurns, RowSames
    <3>2. /\ UNCHANGED <<handle, pump, terminal>> /\ ("name" \notin raced' => "name" \notin raced)
          /\ Open /\ row.state = "idle" => row' = None
      BY <2>7 DEF Retire, Removed, display
    <3> QED
      BY <3>1, <3>2, NameKeptApart
  <2>8. CASE Wait(t) \/ Resized(t) \/ Register(t)
    <3>1. \E step \in {"wait", "resized", "register"} : Drops(t, step)
      BY <2>8, StepDrops
    <3>2. UNCHANGED <<row, handle, pump, terminal, raced>> /\ RowSame
      BY <2>8, RowSames DEF Wait, Resized, Register, table, display
    <3> QED
      BY <3>1, <3>2, NameKeptDone DEF Drops
  <2>9. CASE Wake(t)
    <3>1. Same(t) /\ Keeps(t) /\ Left(t) = {"wake"} \union Left(t)'
      BY <2>9, StepTells
    <3>2. UNCHANGED <<row, handle, pump, terminal, raced>> /\ RowSame
      BY <2>9, RowSames DEF Wake, table, display
    <3> QED
      BY <3>1, <3>2, NameKeptDone
  <2>10. CASE ReadRows(t)
    <3>1. Same(t) /\ Left(t)' = Left(t) /\ task'[t].uid = task[t].uid
      BY <2>10, StepTells
    <3>2. UNCHANGED <<row, handle, pump, terminal, raced>> /\ RowSame
      BY <2>10, RowSames DEF ReadRows, table, display
    <3>3. Built(t)' <=> Built(t)
      BY <3>1 DEF Built
    <3> QED
      BY <3>1, <3>2, <3>3, NameKept
  <2>11. CASE ReadCurrent(t)
    <3>0. UNCHANGED <<row, handle, terminal, raced>> /\ RowSame
      BY <2>11, RowSames DEF ReadCurrent, table
    <3>1. CASE At(t, "published")
      <4>1. Drops(t, "published")
        BY <2>11, <3>1, StepTells
      <4>2. pump' = [pump EXCEPT ![task[t].uid] = "running"]
        BY <2>11, <3>1 DEF ReadCurrent
      <4>3. "build" \notin Left(t)
        BY <3>1, BuildingIs DEF TaskInv
      <4>4. Built(t) /\ task[t].uid # 0
        BY <4>1, <4>3 DEF Drops, Built, TaskInv
      <4>5. /\ Same(t) /\ Left(t) = {"published"} \union Left(t)'
            /\ Left(t)' # {} => task'[t].uid = task[t].uid
        BY <4>1 DEF Drops, Keeps
      <4>6. Built(t)' => Left(t)' # {}
        BY DEF Built
      <4>7. /\ "opened" \in Left(t) => "opened" \in Left(t)' /\ task'[t].uid = task[t].uid
            /\ "drop" \in Left(t)' => "drop" \in Left(t) /\ task'[t].uid = task[t].uid
            /\ "build" \notin Left(t)'
            /\ Built(t)' => task'[t].uid = task[t].uid
        BY <4>3, <4>5, <4>6
      <4>8. ASSUME Open, "name" \notin raced
            PROVE  /\ pump[row.term] = "running" => pump'[row.term] = "running"
                   /\ task[t].uid = row.term /\ row.term # 0 => pump'[row.term] = "running"
                   /\ pump'[row.uid] # "none" => pump[row.uid] # "none" \/ row.term # 0
        <5>1. row.term \in Jobs \union {0} /\ row.uid \in Jobs /\ DOMAIN pump = Jobs
          BY <4>8 DEF TypeOK, Open, Row
        <5>2. task[t].uid = row.uid => row.term # 0
          BY <4>4, <4>8 DEF NameInv
        <5>3. pump[row.term] = "running" => pump'[row.term] = "running"
          BY <4>2
        <5> QED
          BY <4>2, <5>1, <5>2, <5>3
      <4> QED
        BY <3>0, <4>4, <4>5, <4>7, <4>8, NameKept
    <3>2. CASE ~At(t, "published")
      <4>1. Drops(t, "changed") /\ pump' = pump
        BY <2>11, <3>2, StepTells DEF Announces, ReadCurrent
      <4> QED
        BY <3>0, <4>1, NameKeptDone DEF Drops
    <3> QED
      BY <3>1, <3>2
  <2>12. CASE Opened(t)
    <3>1. Drops(t, "opened")
      BY <2>12, StepDrops
    <3>2. /\ UNCHANGED <<row, pump, terminal>> /\ RowSame /\ handle' = task[t].uid
          /\ raced' = IF Open /\ row.uid # task[t].uid THEN raced \union {"name"} ELSE raced
      BY <2>12, RowSames DEF Opened, table
    <3>3. /\ Same(t) /\ Left(t) = {"opened"} \union Left(t)'
          /\ Left(t)' # {} => task'[t].uid = task[t].uid
      BY <3>1 DEF Drops, Keeps
    <3>4. Built(t)' => Built(t) /\ task'[t].uid = task[t].uid
      BY <3>3 DEF Built
    <3>5. /\ "published" \in Left(t) => "published" \in Left(t)' /\ task'[t].uid = task[t].uid
          /\ "drop" \in Left(t)' => "drop" \in Left(t) /\ task'[t].uid = task[t].uid
          /\ "build" \in Left(t)' => "build" \in Left(t) /\ task'[t].uid = task[t].uid
      BY <3>3
    <3>6. task[t].uid # 0
      BY <3>3 DEF TaskInv
    <3>7. ASSUME Open, "name" \notin raced', row.term # 0 PROVE handle' = row.term
      BY <3>2, <3>7 DEF NameInv
    <3> QED
      BY <3>2, <3>3, <3>4, <3>5, <3>7, NameKept
  <2> QED
    BY <1>2, <2>1, <2>2, <2>3, <2>4, <2>5, <2>6, <2>7, <2>8, <2>9, <2>10, <2>11, <2>12 DEF TaskStep
<1>3. ASSUME Conclude PROVE NameInv'
  <2>1. /\ Same(Concluder) /\ Left(Concluder) = {} /\ RowSame
        /\ Closing => Left(Concluder)' = {"changed", "drop"}
        /\ ~Closing => Left(Concluder)' = {"changed"}
    BY <1>3, ConcludeBegins, RowSames
  <2>2. UNCHANGED <<raced, handle, pump, terminal>> /\ (Closing => row' = None)
    BY <1>3 DEF Conclude, Removed, display
  <2> QED
    BY <1>0, <2>1, <2>2, NameKeptApart
<1>4. ASSUME NEW u \in Jobs, PumpEnds(u) PROVE NameInv'
  <2>1. UNCHANGED <<row, task, terminal, raced>>
    BY <1>4, StepsAside
  <2>2. /\ pump[u] = "running" /\ terminal[u] = None
        /\ pump' = [pump EXCEPT ![u] = "done"] /\ handle' = IF handle = u THEN 0 ELSE handle
    BY <1>4 DEF PumpEnds, OwnHandleDropped
  <2>3. ASSUME "name" \notin raced, Open, row.term # 0
        PROVE  /\ pump[row.term] = "running" => pump'[row.term] = "running"
               /\ handle = row.term => handle' = row.term
    BY <2>2, <2>3 DEF NameInv
  <2>4. Open => (pump'[row.uid] # "none" => pump[row.uid] # "none")
    BY <2>2 DEF TypeOK
  <2>5. \A x \in Tasks : Left(x)' = Left(x) /\ (Built(x)' <=> Built(x))
    BY <2>1 DEF Left, Built
  <2> QED
    BY <2>1, <2>3, <2>4, <2>5 DEF NameInv, Open, Dropping
<1> QED
  BY <1>0, <1>1, <1>2, <1>3, <1>4, <1>a, StepsAside DEF Next

-----------------------------------------------------------------------------
(* The invariant, and what follows from it.                                 *)

\* A session begins with nothing in it.
LEMMA FrontStart ==
    ASSUME Init
    PROVE  TypeOK /\ FrontInv
<1>1. TypeOK
  BY TypeStart
<1>2. \A t \in Tasks : task[t] = Idle /\ task[t].todo = <<>> /\ task[t].uid = 0
  BY IdleIs DEF Init, Idle
<1>3. \A t \in Tasks : Left(t) = {}
  BY <1>2, NoneLeft
<1>4. reading = None /\ None \notin Tasks /\ row = None /\ uids = 0 /\ size = muxSize
  BY NoneAssumption DEF Init
<1>5. \A t \in Tasks : ~At(t, "wait")
  BY <1>2 DEF At
<1>6. TaskInv
  BY <1>2, <1>3, <1>4 DEF TaskInv
<1>7. NumberInv /\ BuilderInv /\ WakeInv /\ TerminalInv /\ NameInv
  BY <1>4, <1>5 DEF Init, NumberInv, BuilderInv, WakeInv, TerminalInv, NameInv, Open
<1>8. SizeInv
  BY <1>3, <1>4, FlightIs DEF Init, SizeInv, Flights
<1> QED
  BY <1>1, <1>6, <1>7, <1>8 DEF FrontInv

\* Every step keeps it.
LEMMA FrontStep ==
    ASSUME TypeOK, FrontInv, [Next]_vars
    PROVE  TypeOK' /\ FrontInv'
<1>1. TaskInv /\ NumberInv /\ BuilderInv /\ WakeInv /\ TerminalInv /\ SizeInv /\ NameInv
  BY DEF FrontInv
<1>2. TypeOK'
  BY <1>1, TypeStep
<1>3. TaskInv' /\ NumberInv'
  BY <1>1, TaskInvStep, NumberInvStep
<1>4. BuilderInv' /\ WakeInv'
  BY <1>1, <1>2, BuilderInvStep, WakeInvStep
<1>5. TerminalInv' /\ SizeInv' /\ NameInv'
  BY <1>1, TerminalInvStep, SizeInvStep, NameInvStep
<1> QED
  BY <1>2, <1>3, <1>4, <1>5 DEF FrontInv

\* What the displays keep is of the kind the code keeps it in: no call has a step
\* left that its plan does not have.
THEOREM FrontendTyped == Spec => []TypeOK
<1>1. Init => TypeOK /\ FrontInv
  BY FrontStart
<1>2. TypeOK /\ FrontInv /\ [Next]_vars => (TypeOK /\ FrontInv)'
  BY FrontStep
<1> QED
  BY <1>1, <1>2, PTL DEF Spec

\* The invariant of every session.
THEOREM FrontendInvariant == Spec => [](TypeOK /\ FrontInv)
<1>1. Init => TypeOK /\ FrontInv
  BY FrontStart
<1>2. TypeOK /\ FrontInv /\ [Next]_vars => (TypeOK /\ FrontInv)'
  BY FrontStep
<1> QED
  BY <1>1, <1>2, PTL DEF Spec

\* await_launch registers before it looks, and whoever ends a pending launch wakes
\* those registered afterwards: no switch sleeps on when nothing is pending.
THEOREM SwitchesWake == Spec => []NoLostWakeup
<1>1. ASSUME TypeOK, FrontInv PROVE NoLostWakeup
  <2>1. SUFFICES ASSUME NEW t \in Callers, At(t, "wait"), ~task[t].woken, ~Pending
                 PROVE  \E x \in Tasks : \E i \in DOMAIN task[x].todo :
                            task[x].todo[i] \in {"wake", "build"}
    BY DEF NoLostWakeup
  <2>2. t \in Tasks
    BY DEF Tasks
  <2>3. PICK x \in Tasks : "wake" \in Left(x)
    BY <1>1, <2>1, <2>2 DEF FrontInv, WakeInv
  <2> QED
    BY <2>3 DEF Left, Range
<1> QED
  BY <1>1, FrontendInvariant, PTL

\* resize puts the size in the table before it goes round the terminals, and a job
\* built meanwhile follows: with no two changes under way, every terminal ends with
\* the size of the mux.
THEOREM SizesAgree == Spec => []OneSize
<1>1. ASSUME TypeOK, FrontInv PROVE OneSize
  <2>1. SUFFICES ASSUME Quiet, "size" \notin raced
                 PROVE  size = muxSize /\ \A u \in Jobs : terminal[u] \in {None, muxSize}
    BY DEF OneSize
  <2>2. \A t \in Tasks : Left(t) = {}
    BY <2>1, NoneLeft DEF Quiet
  <2> QED
    BY <1>1, <2>1, <2>2 DEF FrontInv, SizeInv, Dropping
<1> QED
  BY <1>1, FrontendInvariant, PTL

\* OwnHandleDropped compares uids: the end of a job's pump takes the handle of that
\* job only, and a job that is built keeps its own.
THEOREM HandlesStay == Spec => []HandleKept
<1>1. ASSUME TypeOK, FrontInv PROVE HandleKept
  <2>1. SUFFICES ASSUME Quiet, Open, "name" \notin raced
                 PROVE  row.term = 0 \/ handle = row.term
    BY DEF HandleKept
  <2>2. \A t \in Tasks : Left(t) = {}
    BY <2>1, NoneLeft DEF Quiet
  <2> QED
    BY <1>1, <2>1, <2>2 DEF FrontInv, NameInv
<1> QED
  BY <1>1, FrontendInvariant, PTL

-----------------------------------------------------------------------------
(* Inboxes.  G and H stand for the displays that are good before and after. *)

\* Receiving the first message.
LEMMA AfterTail ==
    ASSUME NEW b \in Seq(Message), b # <<>>, NEW i \in Nat, NEW s \in Display
    PROVE  /\ After(Tail(b), i, s) = After(b, i + 1, s)
           /\ Unlisted(Tail(b), i) <=> Unlisted(b, i + 1)
<1> DEFINE r == Tail(b)
<1>1. /\ r \in Seq(Message) /\ Len(b) \in Nat \ {0} /\ Len(r) = Len(b) - 1
      /\ DOMAIN b = 1..Len(b) /\ DOMAIN r = 1..Len(r)
      /\ \A k \in DOMAIN r : r[k] = b[k + 1] /\ k + 1 \in DOMAIN b
  OBVIOUS
<1> HIDE DEF r
<1>2. \A k \in DOMAIN b : k > i + 1 => k - 1 \in DOMAIN r /\ r[k - 1] = b[k] /\ k - 1 > i
  BY <1>1
<1>3. \A k \in DOMAIN r : k > i => k + 1 \in DOMAIN b /\ r[k] = b[k + 1] /\ k + 1 > i + 1
  BY <1>1
<1>4. Unlisted(r, i) <=> Unlisted(b, i + 1)
  BY <1>2, <1>3 DEF Unlisted
<1>5. (\E k \in DOMAIN r : k > i /\ r[k].kind = "closed" /\ r[k].shown.uid = s.uid) <=>
      (\E k \in DOMAIN b : k > i + 1 /\ b[k].kind = "closed" /\ b[k].shown.uid = s.uid)
  BY <1>2, <1>3
<1> QED
  BY <1>4, <1>5 DEF After, r

\* A message more.
LEMMA AfterAppend ==
    ASSUME NEW b \in Seq(Message), NEW m \in Message, NEW i \in Nat, i <= Len(b), NEW s \in Display
    PROVE  /\ After(Append(b, m), i, s) =
                 IF m.kind = "closed" /\ m.shown.uid = s.uid THEN Blank ELSE After(b, i, s)
           /\ Unlisted(Append(b, m), i) <=> Unlisted(b, i) /\ m.kind # "jobs"
<1> DEFINE r == Append(b, m)
<1>1. /\ r \in Seq(Message) /\ Len(b) \in Nat /\ Len(r) = Len(b) + 1
      /\ DOMAIN b = 1..Len(b) /\ DOMAIN r = 1..Len(r)
      /\ \A k \in DOMAIN b : r[k] = b[k]
      /\ r[Len(b) + 1] = m
  OBVIOUS
<1> HIDE DEF r
<1>2. /\ \A k \in DOMAIN b : k \in DOMAIN r /\ r[k] = b[k]
      /\ \A k \in DOMAIN r : k \in DOMAIN b \/ k = Len(b) + 1
      /\ Len(b) + 1 \in DOMAIN r /\ Len(b) + 1 > i
  BY <1>1
<1>3. Unlisted(r, i) <=> Unlisted(b, i) /\ m.kind # "jobs"
  BY <1>1, <1>2 DEF Unlisted
<1>4. (\E k \in DOMAIN r : k > i /\ r[k].kind = "closed" /\ r[k].shown.uid = s.uid) <=>
      \/ m.kind = "closed" /\ m.shown.uid = s.uid
      \/ \E k \in DOMAIN b : k > i /\ b[k].kind = "closed" /\ b[k].shown.uid = s.uid
  BY <1>1, <1>2
<1> QED
  BY <1>3, <1>4 DEF After, r

\* The first message goes, received or lost.
LEMMA ChannelTail ==
    ASSUME NEW b \in Seq(Message), b # <<>>, NEW G, Channelled(b, G)
    PROVE  Channelled(Tail(b), G)
<1>1. SUFFICES ASSUME NEW i \in DOMAIN Tail(b), Tail(b)[i].kind = "jobs", Unlisted(Tail(b), i)
               PROVE  After(Tail(b), i, Tail(b)[i].shown) \in G
  BY DEF Channelled
<1>2. i \in Nat /\ i + 1 \in DOMAIN b /\ Tail(b)[i] = b[i + 1]
  BY <1>1
<1>3. b[i + 1] \in Message
  BY <1>2
<1>4. b[i + 1].shown \in Display
  BY <1>3 DEF Message
<1> QED
  BY <1>1, <1>2, <1>4, AfterTail DEF Channelled

\* A list is published.
LEMMA ChannelJobs ==
    ASSUME NEW b \in Seq(Message), NEW m \in Message, m.kind = "jobs", NEW H, m.shown \in H
    PROVE  Channelled(Append(b, m), H) /\ ~Unlisted(Append(b, m), 0)
<1> DEFINE r == Append(b, m)
<1>1. /\ Len(b) \in Nat /\ Len(r) = Len(b) + 1 /\ DOMAIN r = 1..Len(r)
      /\ r[Len(b) + 1] = m
  OBVIOUS
<1> HIDE DEF r
<1>2. Len(b) + 1 \in DOMAIN r /\ Len(b) + 1 > 0
  BY <1>1
<1>3. ASSUME NEW i \in DOMAIN r, Unlisted(r, i) PROVE i = Len(b) + 1
  BY <1>1, <1>2, <1>3 DEF Unlisted
<1>4. After(r, Len(b) + 1, m.shown) = m.shown
  BY <1>1 DEF After
<1>5. Channelled(r, H)
  BY <1>1, <1>3, <1>4 DEF Channelled
<1>6. ~Unlisted(r, 0)
  BY <1>1, <1>2 DEF Unlisted
<1> QED
  BY <1>5, <1>6 DEF r

\* That a job closed is published: what showed it shows nothing.
LEMMA ChannelClosed ==
    ASSUME NEW b \in Seq(Message), NEW m \in Message, m.kind = "closed", m.shown.uid # 0,
           NEW G, NEW H, \A s \in G : s.uid # m.shown.uid => s \in H,
           (\E s \in G : s.uid = m.shown.uid) => Blank \in H
    PROVE  /\ Channelled(b, G) => Channelled(Append(b, m), H)
           /\ \A s \in Display : Displayed(b, G, s) => Displayed(Append(b, m), H, s)
<1>1. ASSUME NEW i \in Nat, i <= Len(b), NEW s \in Display, After(b, i, s) \in G
      PROVE  After(Append(b, m), i, s) \in H
  <2>1. After(Append(b, m), i, s) = IF m.shown.uid = s.uid THEN Blank ELSE After(b, i, s)
    BY <1>1, AfterAppend
  <2>2. After(b, i, s) \in {Blank, s} /\ Blank.uid = 0
    BY DEF After, Blank
  <2> QED
    BY <1>1, <2>1, <2>2
<1>2. ASSUME Channelled(b, G) PROVE Channelled(Append(b, m), H)
  <2>1. SUFFICES ASSUME NEW i \in DOMAIN Append(b, m), Append(b, m)[i].kind = "jobs",
                        Unlisted(Append(b, m), i)
                 PROVE  After(Append(b, m), i, Append(b, m)[i].shown) \in H
    BY DEF Channelled
  <2>2. i \in DOMAIN b /\ i \in Nat /\ i <= Len(b) /\ Append(b, m)[i] = b[i] /\ b[i] \in Message
    BY <2>1
  <2>3. b[i].shown \in Display
    BY <2>2 DEF Message
  <2>4. Unlisted(b, i)
    BY <2>1, <2>2, <2>3, AfterAppend
  <2> QED
    BY <1>1, <1>2, <2>1, <2>2, <2>3, <2>4 DEF Channelled
<1>3. ASSUME NEW s \in Display, Displayed(b, G, s) PROVE Displayed(Append(b, m), H, s)
  <2>1. 0 \in Nat /\ 0 <= Len(b)
    OBVIOUS
  <2>2. Unlisted(Append(b, m), 0) => Unlisted(b, 0)
    BY <2>1, AfterAppend
  <2> QED
    BY <1>1, <1>3, <2>1, <2>2 DEF Displayed
<1> QED
  BY <1>2, <1>3

-----------------------------------------------------------------------------
(* What the displays of the clients will come to.                          *)

\* The messages of an inbox lead from a display to a display.
LEMMA AfterIs ==
    /\ Blank \in Display /\ Blank.uid = 0 /\ [Blank EXCEPT !.current = FALSE] = Blank
    /\ \A b, i : \A s \in Display : After(b, i, s) \in {Blank, s} /\ After(b, i, s) \in Display
<1>1. Blank \in Display /\ Blank.uid = 0 /\ Blank.current = FALSE
  BY DEF Blank, Display
<1>2. \A s \in Display : s.current = FALSE => [s EXCEPT !.current = FALSE] = s
  BY DEF Display
<1> QED
  BY <1>1, <1>2 DEF After

\* What is good of more displays is good.
LEMMA ChannelMore ==
    ASSUME NEW b, NEW G, NEW H, G \subseteq H
    PROVE  /\ Channelled(b, G) => Channelled(b, H)
           /\ \A s : Displayed(b, G, s) => Displayed(b, H, s)
  BY DEF Channelled, Displayed

\* Where every display is good, every inbox is.
LEMMA ChannelAll ==
    ASSUME NEW b \in Seq(Message), NEW G, Display \subseteq G
    PROVE  Channelled(b, G) /\ \A s \in Display : Displayed(b, G, s)
<1>1. ASSUME NEW i \in DOMAIN b PROVE After(b, i, b[i].shown) \in G
  <2>1. b[i] \in Message
    OBVIOUS
  <2>2. b[i].shown \in Display
    BY <2>1 DEF Message
  <2> QED
    BY <2>2, AfterIs
<1> QED
  BY <1>1, AfterIs DEF Channelled, Displayed

\* What is shown of the table.
LEMMA Shows ==
    ASSUME TypeOK
    PROVE  /\ RowShown \in Display /\ Shown \in Display /\ CurrentShown \in BOOLEAN
           /\ Shown = [RowShown EXCEPT !.current = CurrentShown]
           /\ Shown.uid = RowShown.uid
           /\ Visible => RowShown.uid = row.uid
           /\ ~Visible => RowShown = Blank /\ Shown = Blank /\ CurrentShown = FALSE
<1>1. RowShown \in Display /\ Shown \in Display /\ CurrentShown \in BOOLEAN
  BY Displays
<1>2. Shown = [RowShown EXCEPT !.current = CurrentShown]
  BY DEF Shown
<1>3. Shown.uid = RowShown.uid
  BY <1>1, <1>2 DEF Display
<1>4. Visible => RowShown.uid = row.uid
  BY DEF RowShown
<1>5. ASSUME ~Visible PROVE RowShown = Blank /\ Shown = Blank /\ CurrentShown = FALSE
  <2>1. RowShown = Blank /\ CurrentShown = FALSE
    BY <1>5 DEF RowShown, CurrentShown
  <2>2. [Blank EXCEPT !.current = FALSE] = Blank
    BY AfterIs
  <2> QED
    BY <1>2, <2>1, <2>2
<1> QED
  BY <1>1, <1>2, <1>3, <1>4, <1>5

\* A display with the selection of another is still one of the same job.
LEMMA Selects ==
    ASSUME NEW s \in Display, NEW b \in BOOLEAN
    PROVE  /\ [s EXCEPT !.current = b] \in Display
           /\ [s EXCEPT !.current = b].uid = s.uid
           /\ [s EXCEPT !.current = b].current = b
  BY DEF Display

\* A client's inbox and display.
LEMMA Sockets ==
    ASSUME TypeOK, NEW c \in Clients
    PROVE  /\ client[c].inbox \in Seq(Message) /\ client[c].shown \in Display
           /\ Greeting(c) \in Display /\ Greeting(c).uid = client[c].shown.uid
           /\ client[c].lagged \in BOOLEAN
<1>1. client[c] \in ClientOf
  BY DEF TypeOK, ClientOf
<1>2. client[c].inbox \in Seq(Message) /\ client[c].shown \in Display /\ client[c].lagged \in BOOLEAN
  BY <1>1 DEF ClientOf
<1> QED
  BY <1>2, Shows, Selects DEF Greeting

\* So they are after a step.
LEMMA SocketsNext ==
    ASSUME TypeOK', NEW c \in Clients
    PROVE  /\ client'[c].inbox \in Seq(Message) /\ client'[c].shown \in Display
           /\ Greeting(c)' \in Display
<1>1. client'[c] \in ClientOf
  BY DEF TypeOK, ClientOf
<1>2. client'[c].inbox \in Seq(Message) /\ client'[c].shown \in Display
  BY <1>1 DEF ClientOf
<1>3. CurrentShown' \in BOOLEAN
  <2>1. current' \in BOOLEAN
    BY DEF TypeOK
  <2> QED
    BY <2>1 DEF CurrentShown, Visible
<1> QED
  BY <1>2, <1>3, Selects DEF Greeting

\* While a change is still to be announced everybody is going to be told.
LEMMA AllGood ==
    ASSUME TypeOK', Announcing'
    PROVE  ChannelInv' /\ DisplayInv'
<1>1. Display \subseteq Goods'
  BY DEF Goods, Good
<1>2. ASSUME NEW c \in Clients
      PROVE  /\ Channelled(client'[c].inbox, Goods')
             /\ Displayed(client'[c].inbox, Goods', client'[c].shown)
             /\ Displayed(client'[c].inbox, Goods', Greeting(c)')
  BY <1>1, SocketsNext, ChannelAll
<1> QED
  BY <1>2 DEF ChannelInv, DisplayInv

\* The job of a row that is new has a number that is new.
RowFresh ==
    row' # None => \/ Open /\ row'.uid = row.uid
                   \/ uids' = uids + 1 /\ row'.uid = uids'

\* Who was told that a job closed goes on to have been told right.
LEMMA GoneKept ==
    ASSUME TypeOK, GoneInv, client' = client, uids' \in {uids, uids + 1}, RowFresh
    PROVE  GoneInv'
<1>1. uids \in Nat
  BY DEF TypeOK, Jobs
<1>2. SUFFICES ASSUME NEW c \in Clients, NEW i \in DOMAIN client[c].inbox,
                      client[c].inbox[i].kind = "closed"
               PROVE  /\ client[c].inbox[i].shown.uid \in 1..uids'
                      /\ ~(row' # None /\ row'.uid = client[c].inbox[i].shown.uid)
  BY DEF GoneInv, Open
<1>3. /\ client[c].inbox[i].shown.uid \in 1..uids
      /\ ~(Open /\ row.uid = client[c].inbox[i].shown.uid)
  BY <1>2 DEF GoneInv
<1> QED
  BY <1>1, <1>3 DEF RowFresh

-----------------------------------------------------------------------------
(* Steps that leave an announcement to make.                               *)

\* A step of t that leaves it an announcement, and announces nothing.
Loud(t) ==
    /\ Same(t) /\ reading # t /\ reading' = reading /\ client' = client
    /\ Left(t)' \intersect Announcements # {}

\* Whoever was reading does not have the last word.
LEMMA LoudTells ==
    ASSUME TypeOK, TypeOK', NEW t \in Tasks, Loud(t), ClosedInv, GoneInv,
           uids' \in {uids, uids + 1}, RowFresh
    PROVE  TellInv'
<1>1. Announcing'
  BY DEF Loud, Announcing
<1>2. ChannelInv' /\ DisplayInv'
  BY <1>1, AllGood
<1>3. GoneInv'
  BY GoneKept DEF Loud
<1>4. ClosedInv'
  BY DEF ClosedInv, Loud, On
<1>5. ASSUME reading' # None, LastWord(reading)' PROVE FALSE
  <2>1. reading' # t
    BY DEF Loud
  <2> QED
    BY <1>5, <2>1 DEF LastWord, Loud
<1>6. ReadingInv'
  BY <1>5 DEF ReadingInv
<1> QED
  BY <1>2, <1>3, <1>4, <1>6 DEF TellInv

-----------------------------------------------------------------------------
(* Steps that change nothing that is told, or of which nothing is said.    *)

\* A step of t that neither announces anything nor has anything of its own forgotten.
Quietly(t) ==
    /\ Same(t) /\ reading # t /\ reading' = reading /\ client' = client /\ pump' = pump
    /\ uids' = uids
    /\ Left(t) \intersect Announcements \subseteq Left(t)'
    /\ "published" \in Left(t) => task'[t].uid = task[t].uid
    /\ \A u \in Jobs : terminal[u] = None => terminal'[u] = None
    /\ \A u \in Jobs : "drop" \in Left(t) /\ task[t].uid = u =>
           terminal'[u] = None \/ ("drop" \in Left(t)' /\ task'[t].uid = u)

\* Nothing is announced of the table, but for what is being read of it now.
Settled == ~Announcing \/ (reading # None /\ LastWord(reading))

\* The close of a job stays one that is going to be told of.
LEMMA OwedKept ==
    ASSUME NEW t \in Tasks, Quietly(t), NEW u, Owed(u)
    PROVE  Owed(u)'
<1>1. u \in Jobs
  BY DEF Owed
<1>2. pump'[u] = "running" \/ \E x \in Tasks : "published" \in Left(x)' /\ task'[x].uid = u
  <2>1. CASE pump[u] = "running"
    BY <2>1 DEF Quietly
  <2>2. CASE pump[u] # "running"
    <3>1. PICK x \in Tasks : "published" \in Left(x) /\ task[x].uid = u
      BY <2>2 DEF Owed
    <3>2. CASE x = t
      BY <3>1, <3>2 DEF Quietly, Announcements
    <3>3. CASE x # t
      BY <3>1, <3>3 DEF Quietly, Same
    <3> QED
      BY <3>2, <3>3
  <2> QED
    BY <2>1, <2>2
<1>3. terminal'[u] = None \/ Dropping(u)'
  <2>1. CASE terminal[u] = None
    BY <1>1, <2>1 DEF Quietly
  <2>2. CASE terminal[u] # None
    <3>1. PICK x \in Tasks : "drop" \in Left(x) /\ task[x].uid = u
      BY <2>2 DEF Owed, Dropping
    <3>2. CASE x = t
      BY <1>1, <3>1, <3>2 DEF Quietly, Dropping
    <3>3. CASE x # t
      BY <3>1, <3>3 DEF Quietly, Same, Dropping
    <3> QED
      BY <3>2, <3>3
  <2> QED
    BY <2>1, <2>2
<1> QED
  BY <1>1, <1>2, <1>3 DEF Owed

\* The row goes without a word: who shows it is going to be told that the job closed.
Vanishes ==
    /\ row # None /\ row' = None /\ current' = FALSE
    /\ Settled => \A u : u = row.uid => Owed(u)'

\* What is right of the rows stays so.
LEMMA RowsRight ==
    ASSUME TypeOK, NEW t \in Tasks, Quietly(t), (row' = row /\ current' = current) \/ Vanishes,
           Settled, NEW s \in Display, s = RowShown \/ (row = None /\ Owed(s.uid))
    PROVE  s = RowShown' \/ (row' = None /\ Owed(s.uid)')
<1>1. CASE row' = row /\ current' = current
  <2>1. RowShown' = RowShown
    BY <1>1 DEF RowShown, Visible, Closing, Open
  <2>2. Owed(s.uid) => Owed(s.uid)'
    BY OwedKept
  <2> QED
    BY <1>1, <2>1, <2>2
<1>2. CASE Vanishes
  <2>1. s = RowShown /\ RowShown' = Blank
    BY <1>2 DEF Vanishes, RowShown, Visible, Open
  <2>2. CASE ~Visible
    BY <2>1, <2>2 DEF RowShown
  <2>3. CASE Visible
    <3>1. s.uid = row.uid
      BY <2>1, <2>3, Shows
    <3>2. \A u : u = row.uid => Owed(u)'
      BY <1>2 DEF Vanishes
    <3> QED
      BY <1>2, <3>1, <3>2 DEF Vanishes
  <2> QED
    BY <2>2, <2>3
<1> QED
  BY <1>1, <1>2

\* What is right of the whole stays so, with the selection there is.
LEMMA ShownRight ==
    ASSUME TypeOK, NEW t \in Tasks, Quietly(t), (row' = row /\ current' = current) \/ Vanishes,
           Settled, NEW s \in Display, Right(s)
    PROVE  /\ Right(s)'
           /\ s.current = CurrentShown => Right([s EXCEPT !.current = CurrentShown])'
<1>1. CASE row' = row /\ current' = current
  <2>1. Shown' = Shown /\ CurrentShown' = CurrentShown
    BY <1>1 DEF Shown, RowShown, CurrentShown, Visible, Closing, Open
  <2>2. Owed(s.uid) => Owed(s.uid)'
    BY OwedKept
  <2>3. Right(s)'
    BY <1>1, <2>1, <2>2 DEF Right
  <2>4. s.current = CurrentShown => [s EXCEPT !.current = CurrentShown'] = s
    BY <2>1 DEF Display
  <2> QED
    BY <2>3, <2>4 DEF Right
<1>2. CASE Vanishes
  <2>1. s = Shown /\ Shown' = Blank /\ CurrentShown' = FALSE
    <3>1. s = Shown
      BY <1>2 DEF Vanishes, Right
    <3>2. RowShown' = Blank /\ CurrentShown' = FALSE
      BY <1>2 DEF Vanishes, RowShown, CurrentShown, Visible, Open
    <3>3. [Blank EXCEPT !.current = FALSE] = Blank
      BY AfterIs
    <3> QED
      BY <3>1, <3>2, <3>3 DEF Shown
  <2>2. CASE ~Visible
    <3>1. s = Blank /\ CurrentShown = FALSE
      BY <2>1, <2>2, Shows
    <3>2. [s EXCEPT !.current = CurrentShown'] = Blank
      BY <2>1, <3>1, AfterIs
    <3> QED
      BY <2>1, <3>1, <3>2 DEF Right
  <2>3. CASE Visible
    <3>1. s.uid = row.uid
      BY <2>1, <2>3, Shows
    <3>2. Owed(s.uid)' /\ row' = None
      <4>1. \A u : u = row.uid => Owed(u)'
        BY <1>2 DEF Vanishes
      <4> QED
        BY <1>2, <3>1, <4>1 DEF Vanishes
    <3>3. [s EXCEPT !.current = CurrentShown'].uid = s.uid
      BY <2>1, Selects
    <3> QED
      BY <3>2, <3>3 DEF Right
  <2> QED
    BY <2>2, <2>3
<1> QED
  BY <1>1, <1>2

\* Everybody who was going to be told is.
LEMMA QuietTells ==
    ASSUME TypeOK, TypeOK', TaskInv, TellInv, NEW t \in Tasks, Quietly(t),
           (row' = row /\ current' = current) \/ Vanishes
    PROVE  TellInv'
<1>1. ClosedInv'
  BY DEF TellInv, ClosedInv, Quietly, On
<1>2. GoneInv'
  <2>1. RowFresh
    BY DEF RowFresh, Vanishes, Open
  <2> QED
    BY <2>1, GoneKept DEF TellInv, Quietly
<1>3. \A x \in Tasks : Left(x) \intersect Announcements \subseteq Left(x)'
  BY DEF Quietly, Same
<1>4. Announcing => Announcing'
  BY <1>3 DEF Announcing
<1>5. Goods \subseteq Goods'
  <2>1. SUFFICES ASSUME NEW s \in Display, Good(s) PROVE Good(s)'
    BY DEF Goods
  <2>2. CASE Announcing
    BY <1>4, <2>2 DEF Good
  <2>3. CASE ~Announcing
    <3>1. Right(s) /\ Settled
      BY <2>1, <2>3 DEF Good, Settled
    <3> QED
      BY <3>1, ShownRight DEF Good
  <2> QED
    BY <2>2, <2>3
<1>6. ReadingInv'
  <2>1. SUFFICES ASSUME reading' # None, LastWord(reading)'
                 PROVE  \/ task'[reading'].row = RowShown'
                        \/ row' = None /\ Owed(task[reading].row.uid)'
    BY DEF ReadingInv
  <2> DEFINE r == reading
  <2>2. r # t /\ reading' = r /\ r # None /\ r \in Tasks
    BY <2>1 DEF Quietly, TypeOK
  <2>3. task'[r].row = task[r].row /\ task'[r].todo = task[r].todo
    BY <2>2 DEF Quietly, Same
  <2>4. LastWord(r)
    BY <1>3, <2>1, <2>2, <2>3 DEF LastWord, Rest
  <2>5. Settled
    BY <2>2, <2>4 DEF Settled
  <2>6. task[r].row = RowShown \/ (row = None /\ Owed(task[r].row.uid))
    BY <2>2, <2>4, <2>5 DEF TellInv, ReadingInv
  <2>7. PICK s \in Display : s = task[r].row
    BY <2>2 DEF TaskInv
  <2>8. s = RowShown' \/ (row' = None /\ Owed(s.uid)')
    BY <2>5, <2>6, <2>7, RowsRight
  <2>9. task'[reading'].row = s
    BY <2>2, <2>3, <2>7
  <2> QED
    BY <2>8, <2>9 DEF Owed
<1>7. ChannelInv'
  BY <1>5, ChannelMore DEF TellInv, ChannelInv, Quietly
<1>8. DisplayInv'
  <2>1. CASE Announcing'
    BY <2>1, AllGood
  <2>2. CASE ~Announcing'
    <3>1. Settled
      BY <1>4, <2>2 DEF Settled
    <3>2. SUFFICES ASSUME NEW c \in Clients, ~client[c].lagged
                   PROVE  /\ On(c, "on") => Displayed(client[c].inbox, Goods', client[c].shown)
                          /\ On(c, "greeting") => Displayed(client[c].inbox, Goods', Greeting(c)')
      BY DEF DisplayInv, Quietly, On
    <3>3. On(c, "on") => Displayed(client[c].inbox, Goods', client[c].shown)
      BY <1>5, <3>2, ChannelMore DEF TellInv, DisplayInv
    <3>4. ASSUME On(c, "greeting") PROVE Displayed(client[c].inbox, Goods', Greeting(c)')
      <4>1. SUFFICES ASSUME Unlisted(client[c].inbox, 0)
                     PROVE  After(client[c].inbox, 0, Greeting(c)') \in Goods'
        BY DEF Displayed
      <4>2. After(client[c].inbox, 0, Greeting(c)) \in Goods
        BY <3>2, <3>4, <4>1 DEF TellInv, DisplayInv, Displayed
      <4>3. PICK g \in Display : g = Greeting(c) /\ g.current = CurrentShown
        BY Sockets, Shows, Selects DEF Greeting
      <4>4. Greeting(c)' = [g EXCEPT !.current = CurrentShown']
        BY <4>3 DEF Greeting, Quietly
      <4>5. CurrentShown' \in BOOLEAN
        <5>1. current' \in BOOLEAN
          BY DEF TypeOK
        <5> QED
          BY <5>1 DEF CurrentShown, Visible
      <4>6. PICK h \in Display : h = [g EXCEPT !.current = CurrentShown'] /\ h.uid = g.uid
        BY <4>5, Selects
      <4>7. CASE After(client[c].inbox, 0, g) = Blank /\ After(client[c].inbox, 0, h) = Blank
        BY <1>5, <4>2, <4>3, <4>4, <4>6, <4>7
      <4>8. CASE After(client[c].inbox, 0, g) = g /\ After(client[c].inbox, 0, h) = h
        <5>1. Right(g)
          BY <1>4, <2>2, <4>2, <4>3, <4>8 DEF Goods, Good
        <5>2. Right([g EXCEPT !.current = CurrentShown])'
          BY <3>1, <4>3, <5>1, ShownRight
        <5>3. Right(h)'
          BY <4>6, <5>2 DEF Right
        <5> QED
          BY <4>4, <4>6, <4>8, <5>3 DEF Goods, Good
      <4> QED
        BY <4>6, <4>7, <4>8 DEF After
    <3> QED
      BY <3>3, <3>4
  <2> QED
    BY <2>1, <2>2
<1> QED
  BY <1>1, <1>2, <1>6, <1>7, <1>8 DEF TellInv

-----------------------------------------------------------------------------
(* Which steps are which.                                                  *)

\* A build or its end is followed by an announcement.
LEMMA PlanTells ==
    ASSUME NEW s \in Plans
    PROVE  /\ "build" \in Range(s) => "published" \in Range(s)
           /\ "unspawn" \in Range(s) => "changed" \in Range(s)
<1>1. ASSUME NEW i \in DOMAIN s
      PROVE  /\ s[i] = "build" => Follows(s, i, "published")
             /\ s[i] = "unspawn" => Follows(s, i, "changed")
  BY DEF Plans
<1> QED
  BY <1>1 DEF Range, Follows

\* With nothing to announce nobody builds.
LEMMA NoBuilder ==
    ASSUME TypeOK, TaskInv, Settled, NEW x \in Tasks
    PROVE  Left(x) \intersect {"build", "unspawn"} = {}
<1>1. task[x].todo \in Plans
  BY DEF TypeOK, TaskOf
<1>2. CASE Left(x) \intersect Announcements = {}
  BY <1>1, <1>2, PlanTells DEF Left, Announcements
<1>3. CASE Left(x) \intersect Announcements # {}
  <2>1. reading = x /\ LastWord(x)
    BY <1>3 DEF Settled, Announcing, LastWord
  <2>2. PICK a \in Announcements : At(x, a)
    BY <2>1 DEF TaskInv, Announcements
  <2>3. Rest(x) \in Plans /\ Left(x) = {a} \union Range(Rest(x))
    BY <2>2, Next1
  <2>4. Range(Rest(x)) \intersect Announcements = {}
    BY <2>1 DEF LastWord
  <2>5. Range(Rest(x)) \intersect {"build", "unspawn"} = {}
    BY <2>3, <2>4, PlanTells DEF Announcements
  <2> QED
    BY <2>3, <2>5 DEF Announcements
<1> QED
  BY <1>2, <1>3

\* report_launch_failure closes a job: its terminal is dropped, and its pump, which
\* runs or is about to, tells of it.
LEMMA RetireGoes ==
    ASSUME TypeOK, FrontInv, "name" \notin raced, NEW t \in Tasks, Retire(t),
           Open, row.state = "idle"
    PROVE  Vanishes
<1>1. row' = None /\ current' = FALSE /\ row # None /\ pump' = pump
  BY DEF Retire, Removed, Open, display
<1>2. Same(t) /\ Left(t) = {"retire"} /\ Left(t)' = {"drop"} /\ task'[t].uid = row.term
  BY StepTurns
<1>3. ASSUME Settled PROVE \A u : u = row.uid => Owed(u)'
  <2>1. \A x \in Tasks : Left(x) \intersect {"build", "unspawn"} = {}
    BY <1>3, NoBuilder DEF FrontInv
  <2>2. row.term # 0
    BY <2>1 DEF FrontInv, BuilderInv
  <2>3. /\ row.term = row.uid /\ row.uid \in Jobs
        /\ \/ pump[row.term] = "running"
           \/ \E x \in Tasks : "published" \in Left(x) /\ task[x].uid = row.term
    BY <2>2, RowNumbers DEF FrontInv, NameInv
  <2>4. SUFFICES ASSUME NEW u, u = row.uid PROVE Owed(u)'
    OBVIOUS
  <2>5. u \in Jobs /\ Dropping(u)'
    BY <1>2, <2>3, <2>4 DEF Dropping
  <2>6. pump'[u] = "running" \/ \E x \in Tasks : "published" \in Left(x)' /\ task'[x].uid = u
    BY <1>1, <1>2, <2>3, <2>4 DEF Same
  <2> QED
    BY <2>5, <2>6 DEF Owed
<1> QED
  BY <1>1, <1>3 DEF Vanishes

\* A step that is no announcement and drops no terminal is quiet.
LEMMA DropsQuietly ==
    ASSUME TypeOK, TaskInv, NEW t \in Tasks, NEW step, step \notin Announcements \union {"drop"},
           At(t, step), Same(t), Keeps(t), Left(t) = {step} \union Left(t)',
           reading' = reading, client' = client, pump' = pump, uids' = uids,
           \A u \in Jobs : terminal[u] = None => terminal'[u] = None
    PROVE  Quietly(t)
<1>1. reading # t
  BY OneStep
<1>2. Left(t) \intersect Announcements \subseteq Left(t)'
  OBVIOUS
<1>3. "published" \in Left(t) => task'[t].uid = task[t].uid
  BY <1>2 DEF Keeps, Announcements
<1>4. "drop" \in Left(t) => "drop" \in Left(t)' /\ task'[t].uid = task[t].uid
  BY DEF Keeps
<1> QED
  BY <1>1, <1>2, <1>3, <1>4 DEF Quietly

\* So is one that has no announcement and no terminal left.
LEMMA TurnsQuietly ==
    ASSUME TypeOK, TaskInv, NEW t \in Tasks, reading # t, Same(t),
           Left(t) \intersect (Announcements \union {"drop"}) = {},
           reading' = reading, client' = client, pump' = pump, uids' = uids, terminal' = terminal
    PROVE  Quietly(t)
<1>1. /\ Left(t) \intersect Announcements \subseteq Left(t)' /\ "published" \notin Left(t)
      /\ "drop" \notin Left(t)
  BY DEF Announcements
<1> QED
  BY <1>1 DEF Quietly

\* The calls.
LEMMA CallTells ==
    ASSUME TypeOK, TaskInv, NEW t \in Tasks, Call(t)
    PROVE  /\ Loud(t) \/ (Quietly(t) /\ row' = row /\ current' = current)
           /\ uids' \in {uids, uids + 1} /\ RowFresh
<1>1. reading # t
  BY OneStep DEF Call, Spawn, StartIn, Stop, Switch, Resize, Calls
<1>2. reading' = reading /\ client' = client
  BY DEF Call, Spawn, StartIn, Stop, Switch, Resize, table, display
<1>3. CASE \E opens \in BOOLEAN : Spawn(t, opens)
  <2>1. PICK opens \in BOOLEAN : Spawn(t, opens)
    BY <1>3
  <2>2. Same(t) /\ "changed" \in Left(t)' /\ uids' = uids + 1
    BY <2>1, CallBegins
  <2>3. RowFresh
    BY <2>1, <2>2 DEF Spawn, RowFresh
  <2> QED
    BY <1>1, <1>2, <2>2, <2>3 DEF Loud, Announcements
<1>4. CASE StartIn(t)
  <2>1. Same(t) /\ "changed" \in Left(t)' /\ uids' = uids
    BY <1>4, CallBegins DEF StartIn
  <2>2. RowFresh
    BY <1>4, RowSames DEF RowSame, RowFresh
  <2> QED
    BY <1>1, <1>2, <2>1, <2>2 DEF Loud, Announcements
<1>5. CASE \E force \in BOOLEAN : Stop(t, force)
  <2>1. PICK force \in BOOLEAN : Stop(t, force)
    BY <1>5
  <2>2. Same(t) /\ "changed" \in Left(t)' /\ uids' = uids
    BY <2>1, CallBegins DEF Stop
  <2>3. RowFresh
    BY <2>1, RowSames DEF RowSame, RowFresh
  <2> QED
    BY <1>1, <1>2, <2>2, <2>3 DEF Loud, Announcements
<1>6. CASE Switch(t)
  <2>1. Same(t) /\ "changed" \in Left(t)' /\ uids' = uids
    BY <1>6, CallBegins DEF Switch, table
  <2>2. RowFresh
    BY <1>6, RowSames DEF RowSame, RowFresh
  <2> QED
    BY <1>1, <1>2, <2>1, <2>2 DEF Loud, Announcements
<1>7. CASE \E s \in Sizes : Resize(t, s)
  <2>1. PICK s \in Sizes : Resize(t, s)
    BY <1>7
  <2>2. Same(t) /\ Left(t) = {} /\ UNCHANGED <<row, current, terminal, uids, pump>>
    BY <2>1, CallBegins DEF Resize, display
  <2>3. RowFresh
    BY <2>2 DEF RowFresh, Open
  <2> QED
    BY <1>1, <1>2, <2>2, <2>3, TurnsQuietly
<1> QED
  BY <1>3, <1>4, <1>5, <1>6, <1>7 DEF Call

\* A command that ends.
LEMMA ConcludeTells ==
    ASSUME TypeOK, TaskInv, Conclude
    PROVE  Loud(Concluder) /\ uids' = uids /\ RowFresh
<1>1. Concluder \in Tasks /\ reading # Concluder
  BY OneStep DEF Tasks, Conclude
<1>2. Same(Concluder) /\ "changed" \in Left(Concluder)'
  BY ConcludeBegins
<1>3. RowFresh
  BY RowSames DEF RowSame, RowFresh
<1>4. reading' = reading /\ client' = client /\ uids' = uids
  BY DEF Conclude, display
<1> QED
  BY <1>1, <1>2, <1>3, <1>4 DEF Loud, Announcements

\* The steps of a call, but for announcements themselves.
LEMMA TaskTells ==
    ASSUME TypeOK, FrontInv, NEW t \in Tasks, TaskStep(t), ~ReadRows(t), ~ReadCurrent(t),
           raced' \intersect {"name", "failure"} = {}, "name" \notin raced
    PROVE  /\ Loud(t) \/ (Quietly(t) /\ ((row' = row /\ current' = current) \/ Vanishes))
           /\ uids' = uids /\ RowFresh
<1>0. TaskInv
  BY DEF FrontInv
<1>1. reading' = reading /\ client' = client /\ uids' = uids
  BY DEF TaskStep, Build, BuildFails, Unspawn, Reapply, Wake, Launch, Retire, Drop, Register, Check,
         Wait, Select, Apply, Opened, Resized, table, display
<1>2. CASE Build(t)
  <2>1. Apart(t) /\ "published" \in Left(t)'
    BY <1>2, BuildGoes
  <2>2. reading # t
    BY <1>0, <1>2, OneStep DEF Build, Announcements
  <2>3. RowFresh
    <3>1. Open /\ task[t].uid \in Jobs \union {0} /\ row' = [row EXCEPT !.term = task[t].uid]
      BY <1>2 DEF Build, TypeOK, TaskOf
    <3>2. row'.uid = row.uid
      BY <3>1, RowEdits
    <3> QED
      BY <3>1, <3>2 DEF RowFresh
  <2> QED
    BY <1>1, <2>1, <2>2, <2>3, ApartSame DEF Loud, Announcements
<1>3. CASE BuildFails(t)
  <2>1. Same(t) /\ "changed" \in Left(t)' /\ row' = row
    BY <1>3, StepTurns DEF BuildFails, table
  <2>2. reading # t
    BY <1>0, <1>3, OneStep DEF BuildFails, Announcements
  <2> QED
    BY <1>1, <2>1, <2>2 DEF Loud, Announcements, RowFresh, Open
<1>4. CASE Unspawn(t)
  <2>1. Same(t) /\ "changed" \in Left(t)'
    BY <1>4, StepDrops DEF Drops
  <2>2. reading # t
    BY <1>0, <1>4, OneStep DEF Unspawn, Announcements
  <2>3. RowFresh
    BY <1>4 DEF Unspawn, RowFresh, Open
  <2> QED
    BY <1>1, <2>1, <2>2, <2>3 DEF Loud, Announcements
<1>5. CASE Reapply(t)
  <2>1. Drops(t, "reapply") /\ At(t, "reapply") /\ UNCHANGED <<row, current, pump>>
    BY <1>5, StepDrops DEF Reapply, display
  <2>2. \A u \in Jobs : terminal[u] = None => terminal'[u] = None
    BY <1>5 DEF Reapply
  <2>3. Quietly(t)
    BY <1>0, <1>1, <2>1, <2>2, DropsQuietly DEF Drops, Announcements
  <2> QED
    BY <1>1, <2>1, <2>3 DEF RowFresh, Open
<1>6. CASE Wake(t)
  <2>1. /\ Same(t) /\ Keeps(t) /\ Left(t) = {"wake"} \union Left(t)' /\ At(t, "wake")
        /\ UNCHANGED <<row, current, pump, terminal>>
    BY <1>0, <1>6, StepTells DEF Wake, display, table
  <2>2. Quietly(t)
    BY <1>0, <1>1, <2>1, DropsQuietly DEF Announcements
  <2> QED
    BY <1>1, <2>1, <2>2 DEF RowFresh, Open
<1>7. CASE Launch(t)
  <2>1. Same(t) /\ Left(t) = {"launch"}
    BY <1>7, StepTurns
  <2>2. reading # t
    BY <1>0, <1>7, OneStep DEF Launch, Announcements
  <2>3. RowFresh
    BY <1>7, RowSames DEF RowSame, RowFresh
  <2>4. CASE Then(t, <<"changed", "wake">>)
    <3>1. <<"changed", "wake">> \in Plans /\ Range(<<"changed", "wake">>) = {"changed", "wake"}
      BY SomePlans, Ranges
    <3>2. "changed" \in Left(t)'
      BY <2>4, <3>1, GoesKeeps
    <3> QED
      BY <1>1, <2>1, <2>2, <2>3, <3>2 DEF Loud, Announcements
  <2>5. CASE Then(t, <<"changed">> \o AfterFailure(t))
    <3>1. "changed" \in Left(t)'
      BY <2>5, AfterPlans, GoesKeeps
    <3> QED
      BY <1>1, <2>1, <2>2, <2>3, <3>1 DEF Loud, Announcements
  <2>6. CASE row' = row
    <3>1. UNCHANGED <<current, pump, terminal>>
      BY <1>7 DEF Launch, display
    <3>2. Quietly(t)
      BY <1>0, <1>1, <2>1, <2>2, <3>1, TurnsQuietly DEF Announcements
    <3> QED
      BY <1>1, <2>3, <2>6, <3>1, <3>2
  <2> QED
    BY <1>7, <2>4, <2>5, <2>6 DEF Launch
<1>8. CASE Retire(t)
  <2>1. Same(t) /\ Left(t) = {"retire"}
    BY <1>8, StepTurns
  <2>2. reading # t
    BY <1>0, <1>8, OneStep DEF Retire, Announcements
  <2>3. UNCHANGED <<pump, terminal>>
    BY <1>8 DEF Retire, display
  <2>4. Quietly(t)
    BY <1>0, <1>1, <2>1, <2>2, <2>3, TurnsQuietly DEF Announcements
  <2>5. CASE Open /\ row.state = "idle"
    <3>1. Vanishes
      BY <1>8, <2>5, RetireGoes
    <3> QED
      BY <1>1, <2>4, <3>1 DEF Vanishes, RowFresh
  <2>6. CASE ~(Open /\ row.state = "idle")
    <3>1. row' = row /\ current' = current
      BY <1>8, <2>6 DEF Retire
    <3> QED
      BY <1>1, <2>4, <3>1 DEF RowFresh, Open
  <2> QED
    BY <2>5, <2>6
<1>9. CASE Drop(t)
  <2>1. Drops(t, "drop") /\ At(t, "drop") /\ UNCHANGED <<row, current, pump>>
    BY <1>9, StepDrops DEF Drop, display
  <2>2. \A u \in Jobs : /\ terminal[u] = None => terminal'[u] = None
                        /\ task[t].uid = u => terminal'[u] = None
    BY <1>9 DEF Drop, Closed
  <2>3. reading # t
    BY <1>0, <1>9, OneStep DEF Drop, Announcements
  <2>4. Left(t) \intersect Announcements \subseteq Left(t)'
    BY <2>1 DEF Drops, Announcements
  <2>5. "published" \in Left(t) => task'[t].uid = task[t].uid
    BY <2>4, <2>1 DEF Drops, Keeps, Announcements
  <2>6. Quietly(t)
    BY <1>1, <2>1, <2>2, <2>3, <2>4, <2>5 DEF Quietly, Drops
  <2> QED
    BY <1>1, <2>1, <2>6 DEF RowFresh, Open
<1>10. CASE Register(t)
  <2>1. Drops(t, "register") /\ At(t, "register") /\ UNCHANGED <<row, current, pump, terminal>>
    BY <1>10, StepDrops DEF Register, display, table
  <2>2. Quietly(t)
    BY <1>0, <1>1, <2>1, DropsQuietly DEF Drops, Announcements
  <2> QED
    BY <1>1, <2>1, <2>2 DEF RowFresh, Open
<1>11. CASE Check(t)
  <2>1. Same(t) /\ Left(t) = {"check"} /\ UNCHANGED <<row, current, pump, terminal>>
    BY <1>11, StepTurns DEF Check, display, table
  <2>2. reading # t
    BY <1>0, <1>11, OneStep DEF Check, Announcements
  <2>3. Quietly(t)
    BY <1>0, <1>1, <2>1, <2>2, TurnsQuietly DEF Announcements
  <2> QED
    BY <1>1, <2>1, <2>3 DEF RowFresh, Open
<1>12. CASE Wait(t)
  <2>1. Drops(t, "wait") /\ At(t, "wait") /\ UNCHANGED <<row, current, pump, terminal>>
    BY <1>12, StepDrops DEF Wait, display, table
  <2>2. Quietly(t)
    BY <1>0, <1>1, <2>1, DropsQuietly DEF Drops, Announcements
  <2> QED
    BY <1>1, <2>1, <2>2 DEF RowFresh, Open
<1>13. CASE Select(t)
  <2>1. Same(t) /\ Left(t) = {"select"} /\ row' = row
    BY <1>13, StepTurns DEF Select
  <2>2. reading # t
    BY <1>0, <1>13, OneStep DEF Select, Announcements
  <2>3. CASE Visible
    <3>1. "changed" \in Left(t)'
      BY <1>13, <2>3, StepTurns
    <3> QED
      BY <1>1, <2>1, <2>2, <3>1 DEF Loud, Announcements, RowFresh, Open
  <2>4. CASE ~Visible
    <3>1. UNCHANGED <<current, pump, terminal>>
      BY <1>13, <2>4 DEF Select, display
    <3>2. Quietly(t)
      BY <1>0, <1>1, <2>1, <2>2, <3>1, TurnsQuietly DEF Announcements
    <3> QED
      BY <1>1, <2>1, <3>1, <3>2 DEF RowFresh, Open
  <2> QED
    BY <2>3, <2>4
<1>14. CASE Apply(t)
  <2>1. Drops(t, "apply") /\ At(t, "apply") /\ UNCHANGED <<row, current, pump>>
    BY <1>14, StepDrops DEF Apply, display
  <2>2. \A u \in Jobs : terminal[u] = None => terminal'[u] = None
    BY <1>14 DEF Apply
  <2>3. Quietly(t)
    BY <1>0, <1>1, <2>1, <2>2, DropsQuietly DEF Drops, Announcements
  <2> QED
    BY <1>1, <2>1, <2>3 DEF RowFresh, Open
<1>15. CASE Opened(t)
  <2>1. Drops(t, "opened") /\ At(t, "opened") /\ UNCHANGED <<row, current, pump, terminal>>
    BY <1>15, StepDrops DEF Opened, table
  <2>2. Quietly(t)
    BY <1>0, <1>1, <2>1, DropsQuietly DEF Drops, Announcements
  <2> QED
    BY <1>1, <2>1, <2>2 DEF RowFresh, Open
<1>16. CASE Resized(t)
  <2>1. Drops(t, "resized") /\ At(t, "resized") /\ UNCHANGED <<row, current, pump, terminal>>
    BY <1>16, StepDrops DEF Resized, table
  <2>2. Quietly(t)
    BY <1>0, <1>1, <2>1, DropsQuietly DEF Drops, Announcements
  <2> QED
    BY <1>1, <2>1, <2>2 DEF RowFresh, Open
<1> QED
  BY <1>2, <1>3, <1>4, <1>5, <1>6, <1>7, <1>8, <1>9, <1>10, <1>11, <1>12, <1>13, <1>14, <1>15,
     <1>16 DEF TaskStep

-----------------------------------------------------------------------------
(* Announcements.                                                          *)

\* What a socket has to read after a message, if it was not lost on the way.
LEMMA Delivers ==
    ASSUME TypeOK, NEW c \in Clients, NEW m \in Message, Publish(m)
    PROVE  /\ client'[c].state = client[c].state /\ client'[c].shown = client[c].shown
           /\ On(c, "off") => client'[c] = client[c]
           /\ ~On(c, "off") =>
                 \/ client'[c].inbox = Append(client[c].inbox, m) /\ client'[c].lagged = client[c].lagged
                 \/ /\ client[c].inbox # <<>> /\ client'[c].lagged
                    /\ client'[c].inbox = Append(Tail(client[c].inbox), m)
<1>1. client[c] \in ClientOf /\ Capacity \in Nat \ {0}
  BY CapacityAssumption DEF TypeOK, ClientOf
<1>2. client'[c] = Delivered(client[c], m)
  BY DEF Publish
<1> DEFINE d == client[c]
<1>3. d \in ClientOf /\ d.inbox \in Seq(Message)
  BY <1>1 DEF ClientOf
<1>4. CASE d.state = "off"
  <2>1. client'[c] = d
    BY <1>2, <1>4 DEF Delivered
  <2> QED
    BY <1>4, <2>1 DEF On
<1>5. CASE d.state # "off" /\ Len(d.inbox) < Capacity
  <2>1. client'[c] = [d EXCEPT !.inbox = Append(d.inbox, m)]
    BY <1>2, <1>5 DEF Delivered
  <2> HIDE DEF d
  <2>2. /\ client'[c].state = d.state /\ client'[c].shown = d.shown
        /\ client'[c].inbox = Append(d.inbox, m) /\ client'[c].lagged = d.lagged
    BY <1>3, <2>1 DEF ClientOf
  <2> QED
    BY <1>5, <2>2 DEF On, d
<1>6. CASE d.state # "off" /\ ~(Len(d.inbox) < Capacity)
  <2>1. client'[c] = [d EXCEPT !.inbox = Append(Tail(d.inbox), m), !.lagged = TRUE]
    BY <1>2, <1>6 DEF Delivered
  <2>2. d.inbox # <<>>
    BY <1>1, <1>6
  <2> HIDE DEF d
  <2>3. /\ client'[c].state = d.state /\ client'[c].shown = d.shown
        /\ client'[c].inbox = Append(Tail(d.inbox), m) /\ client'[c].lagged
    BY <1>3, <2>1 DEF ClientOf
  <2> QED
    BY <1>6, <2>2, <2>3 DEF On, d
<1> QED
  BY <1>4, <1>5, <1>6

\* The messages of a sequence that has grown, or has lost its first.
LEMMA AppendOld ==
    ASSUME NEW b \in Seq(Message), NEW m \in Message
    PROVE  /\ \A i \in DOMAIN Append(b, m) :
                 Append(b, m)[i] = m \/ \E j \in DOMAIN b : Append(b, m)[i] = b[j]
           /\ b # <<>> => /\ Tail(b) \in Seq(Message)
                          /\ \A i \in DOMAIN Tail(b) : \E j \in DOMAIN b : Tail(b)[i] = b[j]
<1> DEFINE r == Append(b, m)
<1>1. /\ r \in Seq(Message) /\ Len(b) \in Nat /\ Len(r) = Len(b) + 1
      /\ DOMAIN b = 1..Len(b) /\ DOMAIN r = 1..Len(r)
      /\ \A k \in DOMAIN b : r[k] = b[k]
      /\ r[Len(b) + 1] = m
  OBVIOUS
<1>2. ASSUME b # <<>>
      PROVE  /\ Tail(b) \in Seq(Message)
             /\ \A i \in DOMAIN Tail(b) : i + 1 \in DOMAIN b /\ Tail(b)[i] = b[i + 1]
  BY <1>2
<1> HIDE DEF r
<1>3. \A i \in DOMAIN r : i \in DOMAIN b \/ i = Len(b) + 1
  BY <1>1
<1> QED
  BY <1>1, <1>2, <1>3 DEF r

\* Every message of an inbox is an old one or the new one.
LEMMA DeliversOld ==
    ASSUME TypeOK, NEW c \in Clients, NEW m \in Message, Publish(m), NEW i \in DOMAIN client'[c].inbox
    PROVE  \/ client'[c].inbox[i] = m
           \/ \E j \in DOMAIN client[c].inbox : client'[c].inbox[i] = client[c].inbox[j]
<1>1. client[c].inbox \in Seq(Message)
  BY Sockets
<1>2. PICK b \in Seq(Message) : b = client[c].inbox
  BY <1>1
<1>3. \/ client'[c].inbox = b
      \/ client'[c].inbox = Append(b, m)
      \/ b # <<>> /\ client'[c].inbox = Append(Tail(b), m)
  BY <1>2, Delivers
<1>4. CASE client'[c].inbox = Append(b, m)
  BY <1>2, <1>4, AppendOld
<1>5. CASE b # <<>> /\ client'[c].inbox = Append(Tail(b), m)
  <2>1. PICK r \in Seq(Message) : r = Tail(b)
    BY <1>5, AppendOld
  <2>2. \A k \in DOMAIN r : \E j \in DOMAIN b : r[k] = b[j]
    BY <1>5, <2>1, AppendOld
  <2>3. client'[c].inbox = Append(r, m)
    BY <1>5, <2>1
  <2>4. Append(r, m)[i] = m \/ \E k \in DOMAIN r : Append(r, m)[i] = r[k]
    BY <2>3, AppendOld
  <2> QED
    BY <1>2, <2>2, <2>3, <2>4
<1> QED
  BY <1>2, <1>3, <1>4, <1>5

\* There are messages.
LEMMA SomeMessage == \E m : m \in Message
<1>1. [kind |-> "jobs", shown |-> Blank] \in Message
  BY AfterIs DEF Message
<1> QED
  BY <1>1

\* The sockets of nobody get nothing.
LEMMA PublishClosed ==
    ASSUME TypeOK, ClosedInv, NEW m \in Message, Publish(m)
    PROVE  ClosedInv'
  BY Delivers DEF ClosedInv, On

\* What is told that a job closed, if the new message is told right.
LEMMA PublishGone ==
    ASSUME TypeOK, GoneInv, NEW m \in Message, Publish(m), uids' = uids, row' = row,
           m.kind = "closed" => m.shown.uid \in 1..uids /\ ~(Open /\ row.uid = m.shown.uid)
    PROVE  GoneInv'
<1>1. SUFFICES ASSUME NEW c \in Clients, NEW i \in DOMAIN client'[c].inbox,
                      client'[c].inbox[i].kind = "closed"
               PROVE  /\ client'[c].inbox[i].shown.uid \in 1..uids
                      /\ ~(Open /\ row.uid = client'[c].inbox[i].shown.uid)
  BY DEF GoneInv, Open
<1>2. CASE client'[c].inbox[i] = m
  BY <1>1, <1>2
<1>3. CASE \E j \in DOMAIN client[c].inbox : client'[c].inbox[i] = client[c].inbox[j]
  BY <1>1, <1>3 DEF GoneInv
<1> QED
  BY <1>1, <1>2, <1>3, DeliversOld

\* The rows are read, under the mutex: what is read is the table as it is.
LEMMA ReadRowsTells ==
    ASSUME TypeOK, TypeOK', TaskInv, TellInv, NEW t \in Tasks, ReadRows(t)
    PROVE  TellInv'
<1>1. /\ UNCHANGED <<row, current, uids, client>> /\ reading' = t /\ t # None
      /\ Left(t)' = Left(t) /\ task'[t].row = RowShown
  <2>1. /\ UNCHANGED <<row, current, uids, client>> /\ reading' = t /\ t # None
    BY NoneAssumption DEF ReadRows, table
  <2>2. Left(t)' = Left(t) /\ task'[t] = [task[t] EXCEPT !.row = RowShown] /\ task[t] \in TaskOf
    BY StepTells DEF TypeOK
  <2> QED
    BY <2>1, <2>2 DEF TaskOf
<1>2. Left(t) \intersect Announcements # {}
  <2>1. PICK a \in Announcements : At(t, a)
    BY OneStep DEF ReadRows
  <2> QED
    BY <2>1, Next1
<1>3. ChannelInv' /\ DisplayInv'
  BY <1>1, <1>2, AllGood DEF Announcing
<1>4. ClosedInv' /\ GoneInv'
  BY <1>1, GoneKept DEF TellInv, ClosedInv, On, RowFresh, Open
<1>5. ReadingInv'
  <2>1. RowShown' = RowShown
    BY <1>1 DEF RowShown, Visible, Closing, Open
  <2> QED
    BY <1>1, <2>1 DEF ReadingInv
<1> QED
  BY <1>3, <1>4, <1>5 DEF TellInv

\* The selection is read, and the list is published: if there is no other to come,
\* it is the table as it is.
LEMMA ReadCurrentTells ==
    ASSUME TypeOK, TypeOK', TaskInv, TellInv, NEW t \in Tasks, ReadCurrent(t)
    PROVE  TellInv'
<1> DEFINE s == [task[t].row EXCEPT !.current = CurrentShown]
           m == [kind |-> "jobs", shown |-> s]
<1>1. /\ reading = t /\ reading' = None /\ t # None /\ Publish(m)
      /\ UNCHANGED <<row, current, terminal, uids>>
  BY NoneAssumption DEF ReadCurrent, table
<1>2. task[t].row \in Display
  BY <1>1 DEF TaskInv
<1>3. s \in Display /\ s.uid = task[t].row.uid
  BY <1>2, Shows, Selects
<1>4. m \in Message /\ m.kind = "jobs" /\ m.shown = s
  BY <1>3 DEF Message
<1>5. PICK a \in Announcements : At(t, a) /\ Drops(t, a)
  BY StepTells DEF Announcements, Announces
<1>6. ReadingInv'
  BY <1>1 DEF ReadingInv
<1> HIDE DEF m
<1>7. ClosedInv' /\ GoneInv'
  BY <1>1, <1>4, PublishClosed, PublishGone DEF TellInv
<1>8. CASE Announcing'
  BY <1>6, <1>7, <1>8, AllGood DEF TellInv
<1>9. CASE ~Announcing'
  <2>1. LastWord(t)
    <3>1. \A x \in Tasks : Left(x)' \intersect Announcements = {}
      BY <1>9 DEF Announcing
    <3>2. Left(t)' = Range(Rest(t)) /\ \A x \in Tasks \ {t} : Left(x)' = Left(x)
      BY <1>5 DEF Drops, Same, Left
    <3> QED
      BY <3>1, <3>2 DEF LastWord
  <2>2. s = Shown \/ (row = None /\ Owed(s.uid))
    <3>1. CASE task[t].row = RowShown
      BY <3>1 DEF Shown
    <3>2. CASE row = None /\ Owed(task[t].row.uid)
      BY <1>3, <3>2
    <3> QED
      BY <1>1, <2>1, <3>1, <3>2 DEF TellInv, ReadingInv
  <2>3. PICK z \in Display : z = s
    BY <1>3
  <2>4. Shown' = Shown
    BY <1>1 DEF Shown, RowShown, CurrentShown, Visible, Closing, Open
  <2>5. Owed(z.uid) => Owed(z.uid)'
    <3>1. SUFFICES ASSUME NEW u, Owed(u) PROVE Owed(u)'
      OBVIOUS
    <3>2. u \in Jobs
      BY <3>1 DEF Owed
    <3>3. ASSUME "published" \in Left(t), task[t].uid = u, "published" \notin Left(t)'
          PROVE  pump'[u] = "running"
      <4>1. At(t, "published")
        BY <1>5, <3>3 DEF Drops
      <4>2. pump' = [pump EXCEPT ![u] = "running"] /\ pump \in [Jobs -> {"none", "running", "done"}]
        BY <3>3, <4>1 DEF ReadCurrent, TypeOK
      <4> QED
        BY <3>2, <4>2
    <3>4. pump[u] = "running" => pump'[u] = "running"
      <4>1. task[t].uid \in Jobs \union {0} /\ pump \in [Jobs -> {"none", "running", "done"}]
        BY DEF TypeOK, TaskOf
      <4>2. pump' = pump \/ pump' = [pump EXCEPT ![task[t].uid] = "running"]
        BY DEF ReadCurrent
      <4> QED
        BY <3>2, <4>1, <4>2
    <3>5. Left(t)' # {} => task'[t].uid = task[t].uid
      BY <1>5 DEF Drops, Keeps
    <3>6. pump'[u] = "running" \/ \E x \in Tasks : "published" \in Left(x)' /\ task'[x].uid = u
      BY <1>5, <3>1, <3>3, <3>4, <3>5 DEF Owed, Drops, Same
    <3>7. terminal'[u] = None \/ Dropping(u)'
      BY <1>1, <1>5, <3>1, <3>5 DEF Owed, Dropping, Drops, Same, Announcements
    <3> QED
      BY <3>2, <3>6, <3>7 DEF Owed
  <2>6. s \in Goods'
    BY <1>1, <2>2, <2>3, <2>4, <2>5 DEF Goods, Good, Right
  <2>7. ASSUME NEW c \in Clients
        PROVE  /\ Channelled(client'[c].inbox, Goods')
               /\ client'[c].state # "off" => ~Unlisted(client'[c].inbox, 0)
    <3>1. client[c].inbox \in Seq(Message)
      BY Sockets
    <3>2. CASE On(c, "off")
      <4>1. client'[c].inbox = <<>> /\ client'[c].state = "off"
        BY <1>1, <1>4, <3>2, Delivers DEF TellInv, ClosedInv, On
      <4> QED
        BY <4>1 DEF Channelled
    <3>3. CASE ~On(c, "off")
      <4>1. PICK b \in Seq(Message) : client'[c].inbox = Append(b, m)
        <5>1. client[c].inbox # <<>> => Tail(client[c].inbox) \in Seq(Message)
          BY <3>1
        <5> QED
          BY <1>1, <1>4, <3>1, <3>3, <5>1, Delivers
      <4> QED
        BY <1>4, <2>6, <4>1, ChannelJobs
    <3> QED
      BY <3>2, <3>3
  <2>8. ChannelInv'
    BY <2>7 DEF ChannelInv
  <2>9. DisplayInv'
    BY <2>7 DEF DisplayInv, Displayed, On
  <2> QED
    BY <1>6, <1>7, <2>8, <2>9 DEF TellInv
<1> QED
  BY <1>8, <1>9

\* A pump tells that its job closed: not the one in the row, which is another's by
\* then, or has a terminal.
LEMMA PumpTells ==
    ASSUME TypeOK, TypeOK', NumberInv, NameInv, "name" \notin raced, TellInv, NEW u \in Jobs, PumpEnds(u)
    PROVE  TellInv'
<1> DEFINE m == [kind |-> "closed", shown |-> [Blank EXCEPT !.uid = u]]
<1>1. /\ Publish(m) /\ pump[u] = "running" /\ terminal[u] = None /\ reading = None
      /\ pump' = [pump EXCEPT ![u] = "done"]
      /\ UNCHANGED <<row, current, terminal, task, reading, uids>>
  BY DEF PumpEnds, table, MutexFree
<1>2. m \in Message /\ m.kind = "closed" /\ m.shown.uid = u
  BY DEF Message, Display, Blank
<1>3. u # 0 /\ u \in Nat /\ uids \in Nat /\ u <= uids
  BY <1>1 DEF Jobs, NumberInv, TypeOK
<1>4. ~(Open /\ row.uid = u)
  BY <1>1, <1>3 DEF NameInv
<1>5. ReadingInv'
  BY <1>1 DEF ReadingInv
<1> HIDE DEF m
<1>6. ClosedInv' /\ GoneInv'
  <2>1. m.shown.uid \in 1..uids /\ ~(Open /\ row.uid = m.shown.uid)
    BY <1>2, <1>3, <1>4
  <2> QED
    BY <1>1, <1>2, <2>1, PublishClosed, PublishGone DEF TellInv
<1>7. Shown' = Shown /\ CurrentShown' = CurrentShown
  BY <1>1 DEF Shown, RowShown, CurrentShown, Visible, Closing, Open
<1>8. \A x \in Tasks : Left(x)' = Left(x) /\ task'[x] = task[x]
  BY <1>1 DEF Left
<1>9. Announcing' <=> Announcing
  BY <1>8 DEF Announcing
<1>10. ASSUME NEW s \in Goods, s.uid # u PROVE s \in Goods'
  <2>1. Owed(s.uid) => Owed(s.uid)'
    BY <1>1, <1>8, <1>10 DEF Owed, Dropping, TypeOK
  <2> QED
    BY <1>1, <1>7, <1>9, <2>1 DEF Goods, Good, Right
<1>11. ASSUME NEW s \in Goods, s.uid = u PROVE Blank \in Goods'
  <2>1. CASE Announcing
    BY <1>9, <2>1, AfterIs DEF Goods, Good
  <2>2. CASE ~Announcing
    <3>1. Right(s)
      BY <2>2 DEF Goods, Good
    <3>2. s # Shown
      BY <1>3, <1>4, <1>11, Shows, AfterIs DEF Visible
    <3>3. Shown = Blank
      BY <3>1, <3>2, Shows DEF Right, Visible, Open
    <3> QED
      BY <1>7, <3>3, AfterIs DEF Goods, Good, Right
  <2> QED
    BY <2>1, <2>2
<1>12. ASSUME NEW b \in Seq(Message)
       PROVE  /\ Channelled(b, Goods) => Channelled(Append(b, m), Goods')
              /\ \A s \in Display : Displayed(b, Goods, s) => Displayed(Append(b, m), Goods', s)
  BY <1>2, <1>3, <1>10, <1>11, ChannelClosed
<1>13. ChannelInv'
  <2>1. SUFFICES ASSUME NEW c \in Clients PROVE Channelled(client'[c].inbox, Goods')
    BY DEF ChannelInv
  <2>2. client[c].inbox \in Seq(Message) /\ Channelled(client[c].inbox, Goods)
    BY Sockets DEF TellInv, ChannelInv
  <2>3. CASE On(c, "off")
    <3>1. client'[c].inbox = <<>>
      BY <1>1, <1>2, <2>3, Delivers DEF TellInv, ClosedInv
    <3> QED
      BY <3>1 DEF Channelled
  <2>4. CASE client'[c].inbox = Append(client[c].inbox, m)
    BY <1>12, <2>2, <2>4
  <2>5. CASE client[c].inbox # <<>> /\ client'[c].inbox = Append(Tail(client[c].inbox), m)
    <3>1. Tail(client[c].inbox) \in Seq(Message) /\ Channelled(Tail(client[c].inbox), Goods)
      BY <2>2, <2>5, AppendOld, ChannelTail
    <3> QED
      BY <1>12, <2>5, <3>1
  <2> QED
    BY <1>1, <1>2, <2>3, <2>4, <2>5, Delivers
<1>14. DisplayInv'
  <2>1. SUFFICES ASSUME NEW c \in Clients, ~client'[c].lagged
                 PROVE  /\ On(c, "on")' => Displayed(client'[c].inbox, Goods', client'[c].shown)
                        /\ On(c, "greeting")' => Displayed(client'[c].inbox, Goods', Greeting(c)')
    BY DEF DisplayInv
  <2>2. /\ client[c].inbox \in Seq(Message) /\ client[c].shown \in Display
        /\ Greeting(c) \in Display
    BY Sockets
  <2>3. /\ client'[c].state = client[c].state /\ client'[c].shown = client[c].shown
        /\ Greeting(c)' = Greeting(c)
    BY <1>1, <1>2, <1>7, Delivers DEF Greeting
  <2>4. CASE On(c, "off")
    BY <2>3, <2>4 DEF On
  <2>5. CASE ~On(c, "off")
    <3>1. client'[c].inbox = Append(client[c].inbox, m) /\ ~client[c].lagged
      BY <1>1, <1>2, <2>1, <2>5, Delivers
    <3>2. /\ On(c, "on") => Displayed(client[c].inbox, Goods, client[c].shown)
          /\ On(c, "greeting") => Displayed(client[c].inbox, Goods, Greeting(c))
      BY <3>1 DEF TellInv, DisplayInv
    <3> QED
      BY <1>12, <2>2, <2>3, <3>1, <3>2 DEF On
  <2> QED
    BY <2>4, <2>5
<1> QED
  BY <1>5, <1>6, <1>13, <1>14 DEF TellInv

-----------------------------------------------------------------------------
(* Sockets.                                                                *)

\* The first message of an inbox received: what the rest leads to.
LEMMA ReceivedGood ==
    ASSUME NEW b \in Seq(Message), b # <<>>, NEW G, Channelled(b, G), NEW s \in Display,
           Displayed(b, G, s)
    PROVE  Displayed(Tail(b), G, Received(s, Head(b)))
<1>1. 1 \in DOMAIN b /\ Head(b) = b[1] /\ b[1] \in Message /\ 0 \in Nat /\ 1 \in Nat /\ 0 + 1 = 1
  OBVIOUS
<1>2. b[1].shown \in Display /\ b[1].kind \in {"jobs", "closed"}
  BY <1>1 DEF Message
<1>3. \A k \in DOMAIN b : k > 0 /\ (k > 1 \/ k = 1)
  OBVIOUS
<1>4. SUFFICES ASSUME Unlisted(Tail(b), 0)
               PROVE  After(Tail(b), 0, Received(s, b[1])) \in G
  BY <1>1 DEF Displayed
<1>5. Unlisted(b, 1)
  BY <1>1, <1>4, AfterTail, AfterIs
<1>6. CASE b[1].kind = "jobs"
  <2>1. After(b, 1, b[1].shown) \in G
    BY <1>1, <1>5, <1>6 DEF Channelled
  <2>2. After(Tail(b), 0, b[1].shown) = After(b, 1, b[1].shown)
    BY <1>1, <1>2, AfterTail
  <2> QED
    BY <1>6, <2>1, <2>2 DEF Received
<1>7. CASE b[1].kind = "closed"
  <2>1. Unlisted(b, 0)
    BY <1>3, <1>5, <1>7 DEF Unlisted
  <2>2. After(b, 0, s) \in G
    BY <2>1 DEF Displayed
  <2>3. CASE s.uid = b[1].shown.uid
    <3>1. After(b, 0, s) = Blank
      BY <1>1, <1>3, <1>7, <2>3 DEF After
    <3>2. After(Tail(b), 0, Blank) = Blank
      BY AfterIs
    <3> QED
      BY <1>7, <2>2, <2>3, <3>1, <3>2 DEF Received
  <2>4. CASE s.uid # b[1].shown.uid
    <3>1. After(b, 0, s) = After(b, 1, s)
      BY <1>3, <2>4 DEF After
    <3>2. After(Tail(b), 0, s) = After(b, 1, s)
      BY <1>1, AfterTail
    <3> QED
      BY <1>7, <2>2, <2>4, <3>1, <3>2 DEF Received
  <2> QED
    BY <2>3, <2>4
<1> QED
  BY <1>2, <1>6, <1>7

\* A client that is greeted with the table is told nothing that undoes it.
LEMMA GreetedGood ==
    ASSUME TypeOK, GoneInv, NEW c \in Clients
    PROVE  Displayed(client[c].inbox, Goods, Shown)
<1>1. Shown \in Goods
  BY Shows DEF Goods, Good, Right
<1>2. ASSUME NEW k \in DOMAIN client[c].inbox, client[c].inbox[k].kind = "closed"
      PROVE  client[c].inbox[k].shown.uid # Shown.uid
  <2>1. /\ client[c].inbox[k].shown.uid \in 1..uids
        /\ ~(Open /\ row.uid = client[c].inbox[k].shown.uid)
    BY <1>2 DEF GoneInv
  <2>2. CASE Visible
    BY <2>1, <2>2, Shows DEF Visible
  <2>3. CASE ~Visible
    <3>1. Shown.uid = 0
      BY <2>3, Shows, AfterIs
    <3>2. uids \in Nat
      BY DEF TypeOK, Jobs
    <3> QED
      BY <2>1, <3>1, <3>2
  <2> QED
    BY <2>2, <2>3
<1>3. After(client[c].inbox, 0, Shown) = Shown
  BY <1>2 DEF After
<1> QED
  BY <1>1, <1>3 DEF Displayed

\* The steps of a socket.
LEMMA SocketSteps ==
    ASSUME TypeOK, NEW c \in Clients, ClientStep(c)
    PROVE  /\ \A x \in Clients \ {c} : client'[x] = client[x]
           /\ \/ client'[c].inbox = client[c].inbox
              \/ client[c].inbox # <<>> /\ client'[c].inbox = Tail(client[c].inbox)
           /\ client'[c].state # "off"
           /\ \/ client'[c].state = "subscribed"
              \/ /\ client'[c].state = "greeting" /\ client'[c].inbox = client[c].inbox
                 /\ client'[c].shown = RowShown
              \/ /\ client[c].state = "greeting" /\ client'[c].lagged = client[c].lagged
                 /\ client'[c].state = "on" /\ client'[c].inbox = client[c].inbox
                 /\ client'[c].shown = Greeting(c)
              \/ /\ client[c].state = "on" /\ ~client[c].lagged /\ client[c].inbox # <<>>
                 /\ client'[c].state = "on" /\ client'[c].inbox = Tail(client[c].inbox)
                 /\ client'[c].shown = Received(client[c].shown, Head(client[c].inbox))
           /\ On(c, "off") => client'[c].inbox = client[c].inbox
<1>1. client \in [Clients -> ClientOf] /\ client[c] \in ClientOf
  BY DEF TypeOK, ClientOf
<1>2. CASE Connect(c)
  <2>1. client' = [client EXCEPT ![c].state = "subscribed"]
    BY <1>2 DEF Connect
  <2>7. \A x \in Clients \ {c} : client'[x] = client[x]
    BY <1>1, <2>1
  <2>2. client'[c] = [client[c] EXCEPT !.state = "subscribed"]
    BY <1>1, <2>1
  <2>3. client'[c].state = "subscribed" /\ client'[c].inbox = client[c].inbox
    BY <1>1, <2>2 DEF ClientOf
  <2>4. client'[c].state # "off"
    BY <2>3
  <2> QED
    BY <2>3, <2>4, <2>7
<1>3. CASE GreetRows(c)
  <2>1. client' = [client EXCEPT ![c].state = "greeting", ![c].shown = RowShown]
    BY <1>3 DEF GreetRows
  <2>7. \A x \in Clients \ {c} : client'[x] = client[x]
    BY <1>1, <2>1
  <2>2. client'[c] = [client[c] EXCEPT !.state = "greeting", !.shown = RowShown]
    BY <1>1, <2>1
  <2>3. /\ client'[c].state = "greeting" /\ client'[c].inbox = client[c].inbox
        /\ client'[c].shown = RowShown
    BY <1>1, <2>2 DEF ClientOf
  <2>4. client'[c].state # "off"
    BY <2>3
  <2> QED
    BY <2>3, <2>4, <2>7
<1>4. CASE Greet(c)
  <2>1. /\ client' = [client EXCEPT ![c].state = "on", ![c].inbox = client[c].inbox,
                                    ![c].shown.current = CurrentShown]
        /\ client[c].state = "greeting"
    BY <1>4 DEF Greet, On, Subscribed
  <2>7. \A x \in Clients \ {c} : client'[x] = client[x]
    BY <1>1, <2>1
  <2>2. client'[c] = [client[c] EXCEPT !.state = "on", !.inbox = client[c].inbox,
                                    !.shown = [client[c].shown EXCEPT !.current = CurrentShown]]
    BY <1>1, <2>1
  <2>3. /\ client'[c].state = "on" /\ client'[c].inbox = client[c].inbox
        /\ client'[c].lagged = client[c].lagged
        /\ client'[c].shown = [client[c].shown EXCEPT !.current = CurrentShown]
    BY <1>1, <2>2 DEF ClientOf
  <2>4. client'[c].shown = Greeting(c)
    BY <2>3 DEF Greeting
  <2>5. ~On(c, "off")
    BY <2>1 DEF On
  <2>8. client[c].state = "greeting"
    BY <2>1
  <2>6. client'[c].state # "off"
    BY <2>3
  <2> QED
    BY <2>3, <2>4, <2>5, <2>6, <2>7, <2>8
<1>5. CASE Lag(c)
  <2>1. client' = [client EXCEPT ![c].state = "subscribed", ![c].lagged = FALSE, ![c].shown = Blank]
    BY <1>5 DEF Lag
  <2> QED
    BY <1>1, <1>5, <2>1 DEF ClientOf, Lag, On
<1>6. CASE Receive(c)
  <2>1. /\ client' = [client EXCEPT ![c].inbox = Tail(client[c].inbox),
                                    ![c].shown = Received(client[c].shown, Head(client[c].inbox))]
        /\ client[c].state = "on" /\ ~client[c].lagged /\ client[c].inbox # <<>>
    BY <1>1, <1>6 DEF Receive, On
  <2>7. \A x \in Clients \ {c} : client'[x] = client[x]
    BY <1>1, <2>1
  <2>2. client'[c] = [client[c] EXCEPT !.inbox = Tail(client[c].inbox),
                                    !.shown = Received(client[c].shown, Head(client[c].inbox))]
    BY <1>1, <2>1
  <2>3. /\ client'[c].state = "on" /\ client'[c].inbox = Tail(client[c].inbox)
        /\ client'[c].shown = Received(client[c].shown, Head(client[c].inbox))
    BY <1>1, <2>1, <2>2 DEF ClientOf
  <2>4. client[c].state = "on" /\ ~client[c].lagged /\ client[c].inbox # <<>> /\ ~On(c, "off")
    BY <2>1 DEF On
  <2>5. client'[c].state # "off"
    BY <2>3
  <2> QED
    BY <2>3, <2>4, <2>5, <2>7
<1> QED
  BY <1>2, <1>3, <1>4, <1>5, <1>6 DEF ClientStep

\* What a socket does leads where it led before.
LEMMA SocketTells ==
    ASSUME TypeOK, TypeOK', TellInv, NEW c \in Clients, ClientStep(c)
    PROVE  TellInv'
<1>1. UNCHANGED <<row, current, terminal, task, reading, pump, uids>>
  BY StepsAside
<1>2. \A x \in Clients \ {c} : client'[x] = client[x] /\ Greeting(x)' = Greeting(x)
  <2>1. CurrentShown' = CurrentShown
    BY <1>1 DEF CurrentShown, Visible, Open
  <2> QED
    BY <2>1, SocketSteps DEF Greeting
<1>3. RowShown' = RowShown /\ Shown' = Shown
  BY <1>1 DEF Shown, RowShown, CurrentShown, Visible, Closing, Open
<1>4. \A u : Owed(u)' <=> Owed(u)
  BY <1>1 DEF Owed, Dropping, Left
<1>5. \A x \in Tasks : Left(x)' = Left(x) /\ Rest(x)' = Rest(x)
  BY <1>1 DEF Left, Rest
<1>6. Goods' = Goods
  <2>1. Announcing' <=> Announcing
    BY <1>5 DEF Announcing
  <2>2. \A s \in Display : Good(s)' <=> Good(s)
    BY <1>1, <1>3, <1>4, <2>1 DEF Good, Right
  <2> QED
    BY <2>2 DEF Goods
<1>7. client[c].inbox \in Seq(Message) /\ client[c].shown \in Display
  BY Sockets
<1>8. ClosedInv'
  <2>1. client'[c].state # "off"
    BY SocketSteps
  <2> QED
    BY <1>2, <2>1 DEF TellInv, ClosedInv, On
<1>9. GoneInv'
  <2>1. SUFFICES ASSUME NEW x \in Clients, NEW i \in DOMAIN client'[x].inbox,
                        client'[x].inbox[i].kind = "closed"
                 PROVE  /\ client'[x].inbox[i].shown.uid \in 1..uids
                        /\ ~(Open /\ row.uid = client'[x].inbox[i].shown.uid)
    BY <1>1 DEF GoneInv, Open
  <2>2. \E j \in DOMAIN client[x].inbox : client'[x].inbox[i] = client[x].inbox[j]
    <3>1. CASE client'[x].inbox = client[x].inbox
      BY <2>1, <3>1
    <3>2. CASE x = c /\ client[c].inbox # <<>> /\ client'[c].inbox = Tail(client[c].inbox)
      BY <1>7, <2>1, <3>2, AppendOld, SomeMessage
    <3> QED
      BY <1>2, <3>1, <3>2, SocketSteps
  <2> QED
    BY <2>1, <2>2 DEF TellInv, GoneInv
<1>10. ReadingInv'
  <2>1. CASE reading = None
    BY <1>1, <2>1 DEF ReadingInv
  <2>2. CASE reading # None
    <3>1. reading \in Tasks /\ reading' = reading /\ task' = task /\ row' = row
      BY <1>1, <2>2 DEF TypeOK
    <3>2. LastWord(reading)' => LastWord(reading)
      BY <1>5, <3>1 DEF LastWord
    <3>3. Owed(task[reading].row.uid)' <=> Owed(task[reading].row.uid)
      BY <1>1 DEF Owed, Dropping, Left
    <3> QED
      BY <1>3, <2>2, <3>1, <3>2, <3>3 DEF TellInv, ReadingInv
  <2> QED
    BY <2>1, <2>2
<1>11. ChannelInv'
  <2>1. SUFFICES ASSUME NEW x \in Clients PROVE Channelled(client'[x].inbox, Goods)
    BY <1>6 DEF ChannelInv
  <2>2. Channelled(client[x].inbox, Goods)
    BY DEF TellInv, ChannelInv
  <2>3. CASE client'[x].inbox = client[x].inbox
    BY <2>2, <2>3
  <2>4. CASE x = c /\ client[c].inbox # <<>> /\ client'[c].inbox = Tail(client[c].inbox)
    BY <1>7, <2>2, <2>4, ChannelTail
  <2> QED
    BY <1>2, <2>3, <2>4, SocketSteps
<1>12. DisplayInv'
  <2>1. SUFFICES ASSUME NEW x \in Clients, ~client'[x].lagged
                 PROVE  /\ On(x, "on")' => Displayed(client'[x].inbox, Goods, client'[x].shown)
                        /\ On(x, "greeting")' => Displayed(client'[x].inbox, Goods, Greeting(x)')
    BY <1>6 DEF DisplayInv
  <2>2. CASE x # c
    BY <1>2, <2>1, <2>2 DEF TellInv, DisplayInv, On
  <2>3. CASE x = c
    <3>1. CASE client'[c].state = "subscribed"
      BY <2>3, <3>1 DEF On
    <3>2. CASE /\ client'[c].state = "greeting" /\ client'[c].inbox = client[c].inbox
               /\ client'[c].shown = RowShown
      <4>1. Greeting(c)' = Shown
        BY <1>1, <3>2 DEF Greeting, Shown, CurrentShown, Visible, Open
      <4>2. Displayed(client[c].inbox, Goods, Shown)
        BY GreetedGood DEF TellInv
      <4> QED
        BY <2>3, <3>2, <4>1, <4>2 DEF On
    <3>3. CASE /\ client[c].state = "greeting" /\ client'[c].lagged = client[c].lagged
               /\ client'[c].state = "on" /\ client'[c].inbox = client[c].inbox
               /\ client'[c].shown = Greeting(c)
      BY <2>1, <2>3, <3>3 DEF On, TellInv, DisplayInv
    <3>4. CASE /\ client[c].state = "on" /\ ~client[c].lagged /\ client[c].inbox # <<>>
               /\ client'[c].state = "on" /\ client'[c].inbox = Tail(client[c].inbox)
               /\ client'[c].shown = Received(client[c].shown, Head(client[c].inbox))
      <4>1. /\ Channelled(client[c].inbox, Goods)
            /\ Displayed(client[c].inbox, Goods, client[c].shown)
        BY <3>4 DEF On, TellInv, ChannelInv, DisplayInv
      <4>2. Displayed(Tail(client[c].inbox), Goods, Received(client[c].shown, Head(client[c].inbox)))
        BY <1>7, <3>4, <4>1, ReceivedGood
      <4> QED
        BY <2>3, <3>4, <4>2 DEF On
    <3> QED
      BY <3>1, <3>2, <3>3, <3>4, SocketSteps
  <2> QED
    BY <2>2, <2>3
<1> QED
  BY <1>8, <1>9, <1>10, <1>11, <1>12 DEF TellInv

-----------------------------------------------------------------------------
(* What clients show in the end.                                           *)

\* A hazard that was met was met.
LEMMA RacedGrows ==
    ASSUME [Next]_vars
    PROVE  raced \subseteq raced'
<1>1. ASSUME NEW t \in Tasks, Call(t) PROVE raced \subseteq raced'
  BY <1>1 DEF Call, Spawn, StartIn, Stop, Switch, Resize
<1>2. ASSUME NEW t \in Tasks, TaskStep(t) PROVE raced \subseteq raced'
  BY <1>2 DEF TaskStep, Build, BuildFails, Unspawn, Reapply, Wake, Launch, Retire, Drop, Register,
              Check, Wait, Select, Apply, ReadRows, ReadCurrent, Opened, Resized
<1>3. Conclude => raced \subseteq raced'
  BY DEF Conclude
<1>4. ASSUME NEW u \in Jobs, PumpEnds(u) PROVE raced \subseteq raced'
  BY <1>4 DEF PumpEnds
<1>5. ASSUME NEW c \in Clients, ClientStep(c) PROVE raced \subseteq raced'
  BY <1>5 DEF ClientStep, Connect, GreetRows, Greet, Lag, Receive
<1> QED
  BY <1>1, <1>2, <1>3, <1>4, <1>5 DEF Next, vars, Tasks

\* Nobody is connected at first.
LEMMA ShownStart ==
    ASSUME Init
    PROVE  ShownInv
<1>1. \A c \in Clients : client[c].inbox = <<>> /\ client[c].state = "off"
  BY DEF Init, Unconnected
<1>2. ClosedInv /\ GoneInv /\ ChannelInv /\ DisplayInv
  BY <1>1 DEF ClosedInv, GoneInv, ChannelInv, DisplayInv, Channelled, On
<1>3. ReadingInv
  BY DEF Init, ReadingInv
<1> QED
  BY <1>2, <1>3 DEF ShownInv, TellInv

\* Every step keeps what displays come to.
LEMMA ShownStep ==
    ASSUME TypeOK, FrontInv, ShownInv, [Next]_vars
    PROVE  ShownInv'
<1>1. SUFFICES ASSUME raced' \intersect {"name", "failure"} = {}
               PROVE  TellInv'
  BY DEF ShownInv
<1>2. TypeOK' /\ TaskInv /\ NumberInv /\ NameInv
  BY FrontStep DEF FrontInv
<1>3. TellInv /\ "name" \notin raced
  BY <1>1, RacedGrows DEF ShownInv
<1>4. ASSUME NEW t \in Tasks, Loud(t), uids' \in {uids, uids + 1}, RowFresh PROVE TellInv'
  BY <1>2, <1>3, <1>4, LoudTells DEF TellInv
<1>5. ASSUME NEW t \in Tasks, Quietly(t), (row' = row /\ current' = current) \/ Vanishes PROVE TellInv'
  BY <1>2, <1>3, <1>5, QuietTells
<1>6. ASSUME NEW t \in Callers, Call(t) PROVE TellInv'
  <2>1. t \in Tasks
    BY DEF Tasks
  <2> QED
    BY <1>2, <1>4, <1>5, <1>6, <2>1, CallTells
<1>7. ASSUME NEW t \in Tasks, TaskStep(t) PROVE TellInv'
  <2>1. CASE ReadRows(t)
    BY <1>2, <1>3, <2>1, ReadRowsTells
  <2>2. CASE ReadCurrent(t)
    BY <1>2, <1>3, <2>2, ReadCurrentTells
  <2>3. CASE ~ReadRows(t) /\ ~ReadCurrent(t)
    BY <1>1, <1>3, <1>4, <1>5, <1>7, <2>3, TaskTells
  <2> QED
    BY <2>1, <2>2, <2>3
<1>8. ASSUME Conclude PROVE TellInv'
  BY <1>2, <1>4, <1>8, ConcludeTells DEF Tasks
<1>9. ASSUME NEW u \in Jobs, PumpEnds(u) PROVE TellInv'
  BY <1>2, <1>3, <1>9, PumpTells
<1>10. ASSUME NEW c \in Clients, ClientStep(c) PROVE TellInv'
  BY <1>2, <1>3, <1>10, SocketTells
<1>11. ASSUME UNCHANGED vars PROVE TellInv'
  BY <1>3, <1>11 DEF vars, TellInv, ClosedInv, GoneInv, ReadingInv, ChannelInv, DisplayInv, Goods, Good,
                     Right, Announcing, Left, Owed, Dropping, Shown, RowShown, CurrentShown, Visible,
                     Closing, Open, Greeting, On, LastWord, Rest
<1> QED
  BY <1>6, <1>7, <1>8, <1>9, <1>10, <1>11 DEF Next

\* Every change is announced after it is made, under one mutex, and what a client
\* misses is made up for by the whole: however calls, callbacks, pumps and sockets
\* interleave, a client that has read everything shows the table as it is.
THEOREM ClientsAgreeInTheEnd == Spec => []ClientsAgree
<1>1. Init => TypeOK /\ FrontInv /\ ShownInv
  BY FrontStart, ShownStart
<1>2. TypeOK /\ FrontInv /\ ShownInv /\ [Next]_vars => (TypeOK /\ FrontInv /\ ShownInv)'
  BY FrontStep, ShownStep
<1>3. ASSUME TypeOK, FrontInv, ShownInv PROVE ClientsAgree
  <2>1. SUFFICES ASSUME NEW c \in Clients, Quiet, On(c, "on"), client[c].inbox = <<>>,
                        ~client[c].lagged, raced \intersect {"name", "failure"} = {}
                 PROVE  client[c].shown = Shown
    BY DEF ClientsAgree
  <2>2. \A t \in Tasks : Left(t) = {}
    BY <2>1, NoneLeft DEF Quiet
  <2>3. Displayed(<<>>, Goods, client[c].shown)
    BY <1>3, <2>1 DEF ShownInv, TellInv, DisplayInv
  <2>4. After(<<>>, 0, client[c].shown) = client[c].shown /\ Unlisted(<<>>, 0)
    BY DEF After, Unlisted
  <2>5. Right(client[c].shown)
    BY <2>2, <2>3, <2>4 DEF Displayed, Goods, Good, Announcing
  <2>6. ~Owed(client[c].shown.uid)
    BY <2>1, <2>2 DEF Owed, Dropping, Quiet
  <2> QED
    BY <2>5, <2>6 DEF Right
<1> QED
  BY <1>1, <1>2, <1>3, PTL DEF Spec
=============================================================================
