-------------------------- MODULE AuthorityProofs --------------------------
(***************************************************************************)
(* Proofs about the authority, for every set of principals, resources and  *)
(* commands and every history bound.                                       *)
(*                                                                         *)
(* First the git policy, about histories of any length: what one more      *)
(* event or a whole command does to a language, that the rows partition    *)
(* the histories, and which rules protect another principal's claims.      *)
(*                                                                         *)
(* A view that a principal holds of a file is always backed by a claim the *)
(* rules protect: it is the file's last reader, or the file is dirty in    *)
(* its hands.  That is the inductive invariant; the no-surprise property   *)
(* follows from it and the 23 rules.  That dirt stays with its owner needs *)
(* to know what a truncation goes back to; that the rows partition the     *)
(* histories, and that the active claims decide what a history decides,    *)
(* holds of any history.  The row table is implemented because one event   *)
(* behind a history moves the table it stands for as the table's own step. *)
(*                                                                         *)
(* Then the commands that are put to it: published commands are            *)
(* serializable, for every set of jobs, paths and programs.  A path has had*)
(* its present content in every version since its generation, so a path on *)
(* which the live seed differs from a command's snapshot has a generation  *)
(* newer than the snapshot.  Whatever the diff finds that the command did  *)
(* not write is therefore stale, and a command that is not stale publishes *)
(* its own writes and nothing else.  Each of those on a resource is an     *)
(* event, which the policy denies to everybody but the principal that      *)
(* holds the resource dirty.                                               *)
(***************************************************************************)
EXTENDS Authority, Transactions, TLAPS, WellFoundedInduction, FiniteSetTheorems,
        SequenceTheorems

-----------------------------------------------------------------------------
(* How events move a history in and out of a language.                     *)

\* The history is last changed by a setter after e exactly when e is one, or
\* e is stable and it was before.
LEMMA AppendStateChange ==
    ASSUME NEW h \in Seq(Event), NEW e \in Event, NEW setter, NEW stable
    PROVE  LastStateChange(Append(h, e), setter, stable)
              <=> \/ e \in setter
                  \/ e \in stable /\ LastStateChange(h, setter, stable)
<1> DEFINE n == Len(h) + 1
<1>1. /\ n \in Nat
      /\ DOMAIN Append(h, e) = 1..n
      /\ DOMAIN h = 1..Len(h)
      /\ Append(h, e)[n] = e
      /\ \A i \in DOMAIN h : Append(h, e)[i] = h[i]
  OBVIOUS
<1>2. ASSUME LastStateChange(Append(h, e), setter, stable), e \notin setter
      PROVE  e \in stable /\ LastStateChange(h, setter, stable)
  <2>1. PICK i \in 1..n : /\ Append(h, e)[i] \in setter
                          /\ \A j \in 1..n : j > i => Append(h, e)[j] \in stable
    BY <1>1, <1>2 DEF LastStateChange
  <2>2. i # n
    BY <1>1, <1>2, <2>1
  <2>3. i \in DOMAIN h /\ n > i
    BY <1>1, <2>2
  <2> QED
    BY <1>1, <2>1, <2>3 DEF LastStateChange
<1>3. ASSUME e \in setter
      PROVE  LastStateChange(Append(h, e), setter, stable)
  BY <1>1, <1>3 DEF LastStateChange
<1>4. ASSUME e \in stable, LastStateChange(h, setter, stable)
      PROVE  LastStateChange(Append(h, e), setter, stable)
  <2>1. PICK i \in DOMAIN h : /\ h[i] \in setter
                              /\ \A j \in DOMAIN h : j > i => h[j] \in stable
    BY <1>4 DEF LastStateChange
  <2>2. \A j \in 1..n : j = n \/ j \in DOMAIN h
    BY <1>1
  <2> QED
    BY <1>1, <1>4, <2>1, <2>2 DEF LastStateChange
<1> QED
  BY <1>2, <1>3, <1>4

\* A setter ends a history with c behind it if it ends c, or ends the history
\* and all of c is stable.
LEMMA ConcatStateChange ==
    ASSUME NEW h \in Seq(Event), NEW c \in Seq(Event), NEW setter, NEW stable
    PROVE  LastStateChange(h \o c, setter, stable)
              <=> \/ LastStateChange(c, setter, stable)
                  \/ NeverStateChange(c, stable) /\ LastStateChange(h, setter, stable)
<1> DEFINE hc == h \o c
           m == Len(h)
           n == Len(c)
<1>1. /\ m \in Nat /\ n \in Nat /\ DOMAIN h = 1..m /\ DOMAIN c = 1..n
      /\ DOMAIN hc = 1..m + n
      /\ \A i \in 1..m : hc[i] = h[i]
      /\ \A i \in 1..n : hc[m + i] = c[i]
  OBVIOUS
<1> HIDE DEF hc
<1>2. \A j \in 1..m + n : j \in 1..m \/ (j - m \in 1..n /\ j = m + (j - m))
  BY <1>1
<1>3. \A i \in 1..n : m + i \in 1..m + n
  BY <1>1
<1>4. ASSUME LastStateChange(c, setter, stable)
      PROVE  LastStateChange(hc, setter, stable)
  <2>1. PICK i \in 1..n : c[i] \in setter /\ \A j \in 1..n : j > i => c[j] \in stable
    BY <1>1, <1>4 DEF LastStateChange
  <2>2. ASSUME NEW j \in 1..m + n, j > m + i PROVE hc[j] \in stable
    <3>1. j - m \in 1..n /\ j - m > i /\ j = m + (j - m)
      BY <1>1, <1>2, <2>1, <2>2
    <3> QED
      BY <1>1, <2>1, <3>1
  <2> QED
    BY <1>1, <1>3, <2>1, <2>2 DEF LastStateChange
<1>5. ASSUME NeverStateChange(c, stable), LastStateChange(h, setter, stable)
      PROVE  LastStateChange(hc, setter, stable)
  <2>1. PICK i \in 1..m : h[i] \in setter /\ \A j \in 1..m : j > i => h[j] \in stable
    BY <1>1, <1>5 DEF LastStateChange
  <2>2. ASSUME NEW j \in 1..m + n, j > i PROVE hc[j] \in stable
    BY <1>1, <1>2, <1>5, <2>1, <2>2 DEF NeverStateChange
  <2> QED
    BY <1>1, <2>1, <2>2 DEF LastStateChange
<1>6. ASSUME LastStateChange(hc, setter, stable)
      PROVE  \/ LastStateChange(c, setter, stable)
             \/ NeverStateChange(c, stable) /\ LastStateChange(h, setter, stable)
  <2>1. PICK i \in 1..m + n :
          hc[i] \in setter /\ \A j \in 1..m + n : j > i => hc[j] \in stable
    BY <1>1, <1>6 DEF LastStateChange
  <2>2. CASE i \in 1..m
    <3>1. \A j \in 1..n : c[j] \in stable
      BY <1>1, <1>3, <2>1, <2>2
    <3>2. \A j \in 1..m : j > i => h[j] \in stable
      BY <1>1, <2>1, <2>2
    <3> QED
      BY <1>1, <2>1, <2>2, <3>1, <3>2 DEF LastStateChange, NeverStateChange
  <2>3. CASE i - m \in 1..n /\ i = m + (i - m)
    <3>1. ASSUME NEW j \in 1..n, j > i - m PROVE c[j] \in stable
      <4>1. m + j \in 1..m + n /\ m + j > i
        BY <1>1, <2>3, <3>1
      <4> QED
        BY <1>1, <2>1, <4>1
    <3> QED
      BY <1>1, <2>1, <2>3, <3>1 DEF LastStateChange
  <2> QED
    BY <1>2, <2>1, <2>2, <2>3
<1> QED
  BY <1>4, <1>5, <1>6 DEF hc

-----------------------------------------------------------------------------
(* The row languages partition the histories.                              *)

\* A set of naturals that is not empty has a least element.
LEMMA LeastNatural ==
    ASSUME NEW S \in SUBSET Nat, S # {}
    PROVE  \E k \in S : \A l \in S : k <= l
<1> DEFINE before == {ss \in Nat \X Nat : ss[1] < ss[2]}
<1>1. IsWellFoundedOn(before, Nat)
  BY NatLessThanWellFounded DEF OpToRel
<1>2. PICK k \in S : \A l \in S : <<l, k>> \notin before
  <2> HIDE DEF before
  <2> QED
    BY <1>1, WFMin
<1>3. \A l \in S : k \in Nat /\ l \in Nat /\ ~(l < k)
  BY <1>2
<1> QED
  BY <1>3

\* The last event outside a set of stable ones, where there is one.
LEMMA LastUnstable ==
    ASSUME NEW h \in Seq(Event), NEW stable, ~NeverStateChange(h, stable)
    PROVE  \E i \in DOMAIN h : /\ h[i] \notin stable
                               /\ \A j \in DOMAIN h : j > i => h[j] \in stable
<1> DEFINE n == Len(h)
           Back == {k \in 0..n : n - k \in DOMAIN h /\ h[n - k] \notin stable}
<1>1. n \in Nat /\ DOMAIN h = 1..n
  OBVIOUS
<1>2. PICK m \in 1..n : h[m] \notin stable
  BY <1>1 DEF NeverStateChange
<1>3. n - m \in Back
  <2>1. n - m \in 0..n /\ n - (n - m) = m
    BY <1>1
  <2> QED
    BY <1>1, <1>2, <2>1
<1>4. Back \in SUBSET Nat
  BY <1>1
<1>5. PICK k \in Back : \A l \in Back : k <= l
  BY <1>3, <1>4, LeastNatural
<1>6. n - k \in DOMAIN h /\ h[n - k] \notin stable /\ k \in 0..n
  BY <1>5
<1>7. ASSUME NEW j \in 1..n, j > n - k PROVE h[j] \in stable
  <2>1. n - j \in 0..n /\ n - (n - j) = j /\ ~(k <= n - j)
    BY <1>1, <1>6, <1>7
  <2> QED
    BY <1>1, <1>5, <2>1
<1> QED
  BY <1>1, <1>6, <1>7

\* The last unstable event alone decides which setters the history ends with.
LEMMA SetByLast ==
    ASSUME NEW h \in Seq(Event), NEW stable, NEW i \in DOMAIN h,
           h[i] \notin stable, \A j \in DOMAIN h : j > i => h[j] \in stable,
           NEW setter, setter \intersect stable = {}
    PROVE  LastStateChange(h, setter, stable) <=> h[i] \in setter
<1>1. DOMAIN h \subseteq Nat
  OBVIOUS
<1>2. ASSUME NEW k \in DOMAIN h, h[k] \in setter,
             \A j \in DOMAIN h : j > k => h[j] \in stable
      PROVE  k = i
  <2>1. ~(i > k) /\ ~(k > i)
    BY <1>2
  <2> QED
    BY <1>1, <2>1
<1> QED
  BY <1>2 DEF LastStateChange

\* None of the row's setters is stable, so the languages never overlap.
LEMMA SettersUnstable ==
    ASSUME NEW p \in Principals, NEW r \in Resources
    PROVE  /\ CommitCheckoutStashOnR(r) \intersect ReadOnlyNotR(r) = {}
           /\ StageDeleteOnR(r) \intersect ReadOnlyNotR(r) = {}
           /\ EditUnstageOnROnP(p, r) \intersect ReadOnlyNotR(r) = {}
           /\ EditUnstageOnRNotP(p, r) \intersect ReadOnlyNotR(r) = {}
BY DEF CommitCheckoutStashOnR, StageDeleteOnR, EditUnstageOnROnP,
       EditUnstageOnRNotP, ReadOnlyNotR

\* An event on the resource that is not stable is in exactly one setter.
LEMMA OneSetter ==
    ASSUME NEW p \in Principals, NEW r \in Resources, NEW e \in Event,
           e \notin ReadOnlyNotR(r)
    PROVE  \/ /\ e \in CommitCheckoutStashOnR(r)
              /\ e \notin StageDeleteOnR(r)
              /\ e \notin EditUnstageOnROnP(p, r)
              /\ e \notin EditUnstageOnRNotP(p, r)
           \/ /\ e \notin CommitCheckoutStashOnR(r)
              /\ e \in StageDeleteOnR(r)
              /\ e \notin EditUnstageOnROnP(p, r)
              /\ e \notin EditUnstageOnRNotP(p, r)
           \/ /\ e \notin CommitCheckoutStashOnR(r)
              /\ e \notin StageDeleteOnR(r)
              /\ e \in EditUnstageOnROnP(p, r)
              /\ e \notin EditUnstageOnRNotP(p, r)
           \/ /\ e \notin CommitCheckoutStashOnR(r)
              /\ e \notin StageDeleteOnR(r)
              /\ e \notin EditUnstageOnROnP(p, r)
              /\ e \in EditUnstageOnRNotP(p, r)
<1>1. e.resource = r /\ e.action \in Action
  BY DEF ReadOnlyNotR, Event
<1> QED
  BY <1>1 DEF Action, ReadOnlyNotR, CommitCheckoutStashOnR, StageDeleteOnR,
              EditUnstageOnROnP, EditUnstageOnRNotP

\* Exactly one of the four rows, as RowsPartition says of the history.
LEMMA OneRow ==
    ASSUME NEW h \in Seq(Event), NEW p \in Principals, NEW r \in Resources
    PROVE  \/ /\ CleanRow(h, r) /\ ~StagedRow(h, r)
              /\ ~UnstagedSelf(h, p, r) /\ ~UnstagedOther(h, p, r)
           \/ /\ ~CleanRow(h, r) /\ StagedRow(h, r)
              /\ ~UnstagedSelf(h, p, r) /\ ~UnstagedOther(h, p, r)
           \/ /\ ~CleanRow(h, r) /\ ~StagedRow(h, r)
              /\ UnstagedSelf(h, p, r) /\ ~UnstagedOther(h, p, r)
           \/ /\ ~CleanRow(h, r) /\ ~StagedRow(h, r)
              /\ ~UnstagedSelf(h, p, r) /\ UnstagedOther(h, p, r)
<1> DEFINE stable == ReadOnlyNotR(r)
<1>1. CASE NeverStateChange(h, stable)
  BY <1>1, SettersUnstable
     DEF NeverStateChange, LastStateChange, CleanRow, StagedRow, UnstagedSelf,
         UnstagedOther
<1>2. CASE ~NeverStateChange(h, stable)
  <2>1. PICK i \in DOMAIN h : /\ h[i] \notin stable
                              /\ \A j \in DOMAIN h : j > i => h[j] \in stable
    BY <1>2, LastUnstable
  <2>2. h[i] \in Event
    OBVIOUS
  <2>3. /\ CleanRow(h, r) <=> h[i] \in CommitCheckoutStashOnR(r)
        /\ StagedRow(h, r) <=> h[i] \in StageDeleteOnR(r)
        /\ UnstagedSelf(h, p, r) <=> h[i] \in EditUnstageOnROnP(p, r)
        /\ UnstagedOther(h, p, r) <=> h[i] \in EditUnstageOnRNotP(p, r)
    BY <1>2, <2>1, SetByLast, SettersUnstable
       DEF CleanRow, StagedRow, UnstagedSelf, UnstagedOther
  <2> QED
    BY <2>1, <2>2, <2>3, OneSetter
<1> QED
  BY <1>1, <1>2

-----------------------------------------------------------------------------
(* Another principal's claims are protected.                               *)

\* The language of another principal's rules covers q's dirty resources.
LEMMA OthersDirt ==
    ASSUME NEW h \in Seq(Event), NEW q \in Principals, NEW r \in Resources,
           NEW p \in Principals \ {q}
    PROVE  UnstagedSelf(h, q, r) => UnstagedOther(h, p, r)
BY DEF UnstagedSelf, UnstagedOther, LastStateChange, EditUnstageOnROnP,
       EditUnstageOnRNotP

\* The cells that protect a foreign dirty resource.
LEMMA ForeignDirtDenied ==
    ASSUME NEW h \in Seq(Event), NEW e \in Event,
           UnstagedOther(h, e.principal, e.resource),
           e.action \in {"edit", "checkout", "stage", "stash", "unstage",
                         "commit", "delete", "clean"}
    PROVE  Denied(h, e)
<1> DEFINE rule == <<e.action, "unstaged other">>
<1>1. rule \in GitRules
  BY DEF GitRules, EditAndCheckoutRowRules, StageRowRules, StashRowRules,
         UnstageRowRules, CommitRowRules, DeleteAndCleanRowRules
<1> QED
  BY <1>1 DEF Denied, InLanguage

\* The cells that protect a foreign read claim.
LEMMA ForeignReadDenied ==
    ASSUME NEW h \in Seq(Event), NEW e \in Event,
           ReadClaimedOther(h, e.principal, e.resource),
           e.action \in {"edit", "delete", "clean", "checkout", "stash"}
    PROVE  Denied(h, e)
<1> DEFINE rule == <<e.action, "read claimed other">>
<1>1. rule \in GitRules
  BY DEF GitRules, ReadClaimRules
<1> QED
  BY <1>1 DEF Denied, InLanguage

\* A dirty resource stays with its owner whatever another principal is granted.
LEMMA DirtStays ==
    ASSUME NEW h \in Seq(Event), NEW e \in Event, ~Denied(h, e),
           NEW q \in Principals, NEW r \in Resources,
           UnstagedSelf(h, q, r), e.principal # q
    PROVE  UnstagedSelf(Append(h, e), q, r)
<1>1. e.principal \in Principals \ {q} /\ e.resource \in Resources
         /\ e.action \in Action
  BY DEF Event
<1>2. e.resource = r => UnstagedOther(h, e.principal, e.resource)
  BY <1>1, OthersDirt
<1>3. e.resource = r => e.action \in {"read", "diff", "history"}
  BY <1>1, <1>2, ForeignDirtDenied DEF Action
<1>4. e \in ReadOnlyNotR(r)
  BY <1>3 DEF ReadOnlyNotR
<1> QED
  BY <1>4, AppendStateChange DEF UnstagedSelf

-----------------------------------------------------------------------------
(* A command whose events are all granted.                                 *)

\* Every event of c is granted after the ones before it (check_events).
AllGranted(h, c) ==
    \A k \in 1..Len(c) : ~Denied(h \o SubSeq(c, 1, k - 1), c[k])

\* The events of c up to the k-th, as they follow h.
LEMMA Prefixes ==
    ASSUME NEW h \in Seq(Event), NEW c \in Seq(Event)
    PROVE  /\ h \o SubSeq(c, 1, 0) = h
           /\ h \o SubSeq(c, 1, Len(c)) = h \o c
           /\ \A k \in 1..Len(c) :
                 /\ h \o SubSeq(c, 1, k - 1) \in Seq(Event)
                 /\ h \o SubSeq(c, 1, k) = Append(h \o SubSeq(c, 1, k - 1), c[k])
<1>1. SubSeq(c, 1, 0) = <<>> /\ SubSeq(c, 1, Len(c)) = c
  OBVIOUS
<1>2. ASSUME NEW k \in 1..Len(c)
      PROVE  /\ h \o SubSeq(c, 1, k - 1) \in Seq(Event)
             /\ h \o SubSeq(c, 1, k) = Append(h \o SubSeq(c, 1, k - 1), c[k])
  <2>1. SubSeq(c, 1, k - 1) \in Seq(Event) /\ c[k] \in Event
    OBVIOUS
  <2>2. SubSeq(c, 1, k) = Append(SubSeq(c, 1, k - 1), c[k])
    OBVIOUS
  <2> QED
    BY <2>1, <2>2
<1> QED
  BY <1>1, <1>2

-----------------------------------------------------------------------------
(* How one more event moves a principal's view.                            *)

\* A principal's view after e is the one e gave it, or one it had that e
\* neither superseded nor let go of.
LEMMA AppendViews ==
    ASSUME NEW h \in Seq(Event), NEW e \in Event,
           NEW q \in Principals, NEW r \in Resources,
           Views(Append(h, e), q, r)
    PROVE  \/ /\ e.resource = r /\ e.principal = q
              /\ e.action \in {"read", "edit"}
           \/ /\ Views(h, q, r)
              /\ e.resource = r => /\ e.action = "read" => e.principal = q
                                   /\ e.principal = q =>
                                         e.action \notin {"stage", "delete",
                                             "commit", "checkout", "stash"}
<1> DEFINE n == Len(h) + 1
<1>1. /\ n \in Nat
      /\ DOMAIN Append(h, e) = 1..n
      /\ DOMAIN h = 1..Len(h)
      /\ Append(h, e)[n] = e
      /\ \A i \in DOMAIN h : Append(h, e)[i] = h[i]
  OBVIOUS
<1>2. PICK k \in 1..n :
        /\ Append(h, e)[k].resource = r
        /\ Append(h, e)[k].principal = q
        /\ Append(h, e)[k].action \in {"read", "edit"}
        /\ \A j \in 1..n :
              j > k /\ Append(h, e)[j].resource = r =>
                 /\ Append(h, e)[j].action = "read" => Append(h, e)[j].principal = q
                 /\ Append(h, e)[j].principal = q =>
                       Append(h, e)[j].action \notin {"stage", "delete", "commit",
                                                      "checkout", "stash"}
  BY <1>1 DEF Views
<1>3. CASE k = n
  BY <1>1, <1>2, <1>3
<1>4. CASE k # n
  <2>1. k \in DOMAIN h /\ n > k /\ n \in 1..n
    BY <1>1, <1>4
  <2>2. \A j \in DOMAIN h : j \in 1..n
    BY <1>1
  <2>3. Views(h, q, r)
    BY <1>1, <1>2, <2>1, <2>2 DEF Views
  <2> QED
    BY <1>1, <1>2, <2>1, <2>3
<1> QED
  BY <1>3, <1>4

-----------------------------------------------------------------------------
(* Types.                                                                  *)

\* The history reconcile keeps is a history.
LEMMA RetainedHistory ==
    ASSUME NEW h \in Seq(Event), NEW I \in SUBSET DOMAIN h,
           NEW g \in [1..Cardinality(I) -> I]
    PROVE  /\ Cardinality(I) \in Nat
           /\ [k \in 1..Cardinality(I) |-> h[g[k]]] \in Seq(Event)
<1>1. IsFiniteSet(DOMAIN h)
  BY FS_Interval
<1>2. Cardinality(I) \in Nat
  BY <1>1, FS_Subset, FS_CardinalityType
<1>3. \A k \in 1..Cardinality(I) : h[g[k]] \in Event
  OBVIOUS
<1> QED
  BY <1>2, <1>3

\* A session starts with empty, well-typed histories.
LEMMA InitType == Init => TypeOK
<1>1. <<>> \in Seq(Event)
  OBVIOUS
<1> QED
  BY <1>1 DEF Init, TypeOK

\* Submission, decision and restart each keep the types.
LEMMA TypeStep == TypeOK /\ [Next]_vars => TypeOK'
<1> SUFFICES ASSUME TypeOK, [Next]_vars PROVE TypeOK'
  OBVIOUS
<1>1. ASSUME NEW command \in Commands, Submit(command) PROVE TypeOK'
  BY <1>1, CommandsAssumption DEF TypeOK, Submit
<1>2. CASE Decide
  <2>1. Head(pending) \in Event /\ Tail(pending) \in Seq(Event)
    BY <1>2 DEF Decide, Idle, TypeOK
  <2> DEFINE checked == IF ~Denied(history, Head(pending))
                           THEN Append(history, Head(pending)) ELSE history
  <2>2. checked \in Seq(Event)
    BY <2>1 DEF TypeOK
  <2>3. SubSeq(checked, Len(committed) + 1, Len(checked)) \in Seq(Event)
    <3>1. Len(committed) + 1 \in Nat /\ Len(committed) + 1 >= 1
      BY DEF TypeOK
    <3> QED
      BY <2>2, <3>1, SubSeqProperties
  <2>4. log' \in Seq(Event)
    BY <1>2, <2>3 DEF Decide, TypeOK
  <2>5. history' \in Seq(Event)
    BY <1>2, <2>2 DEF Decide, TypeOK, Truncate
  <2>6. committed' \in Seq(Event) /\ pending' \in Seq(Event)
    BY <1>2, <2>1 DEF Decide, TypeOK
  <2>7. denied' \in BOOLEAN /\ (denied' => pending' # <<>>)
    <3>1. /\ pending' = Tail(pending)
          /\ denied' = Denials(denied \/ Denied(history, Head(pending)),
                               Tail(pending) = <<>>)
      BY <1>2 DEF Decide
    <3> QED
      BY <3>1 DEF Denials
  <2> QED
    BY <2>4, <2>5, <2>6, <2>7 DEF TypeOK
<1>3. CASE Restart
  <2>1. PICK shown \in SUBSET Resources :
          LET kept == {i \in ActiveGitCapabilityIndices(log) :
                          Corroborated(log, i, shown)}
          IN  \E g \in [1..Cardinality(kept) -> kept] :
                 /\ InOrder(g)
                 /\ history' = [k \in 1..Cardinality(kept) |-> log[g[k]]]
    BY <1>3 DEF Restart
  <2> DEFINE kept == {i \in ActiveGitCapabilityIndices(log) :
                         Corroborated(log, i, shown)}
  <2>2. PICK g \in [1..Cardinality(kept) -> kept] :
          history' = [k \in 1..Cardinality(kept) |-> log[g[k]]]
    BY <2>1
  <2>3. kept \in SUBSET DOMAIN log
    BY DEF ActiveGitCapabilityIndices
  <2> HIDE DEF kept
  <2>4. history' \in Seq(Event)
    BY <2>2, <2>3, RetainedHistory DEF TypeOK
  <2> QED
    BY <1>3, <2>4 DEF Restart, TypeOK
<1>4. CASE UNCHANGED vars
  BY <1>4 DEF vars, TypeOK
<1> QED
  BY <1>1, <1>2, <1>3, <1>4 DEF Next

\* Every variable of the authority keeps its type: histories and logs are
\* sequences of events whatever is granted, denied, truncated or reconciled.
THEOREM TypeCorrect == Spec => []TypeOK
<1> QED
  BY InitType, TypeStep, PTL DEF Spec

-----------------------------------------------------------------------------
(* Every view is backed by a claim.                                        *)

\* What backs q's view of r: q is its last reader, or r is dirty in q's hands.
Backed(h, q, r) == HoldsRead(h, q, r) \/ UnstagedSelf(h, q, r)

ViewsBacked(h) ==
    \A q \in Principals, r \in Resources : Views(h, q, r) => Backed(h, q, r)

\* A truncated history goes back to the committed one, so that one must be
\* good as well.
IInv ==
    /\ TypeOK
    /\ ViewsBacked(history)
    /\ ~Idle => /\ ViewsBacked(committed)
                /\ Len(committed) <= Len(history)

\* The languages of another principal's rules cover q's own claims.
LEMMA OthersLanguages ==
    ASSUME NEW h \in Seq(Event), NEW q \in Principals, NEW r \in Resources,
           NEW p \in Principals \ {q}
    PROVE  /\ HoldsRead(h, q, r) => ReadClaimedOther(h, p, r)
           /\ UnstagedSelf(h, q, r) => UnstagedOther(h, p, r)
BY DEF HoldsRead, ReadClaimedOther, UnstagedSelf, UnstagedOther,
       LastStateChange, ReadOnROnP, ReadOnRNotP, EditUnstageOnROnP,
       EditUnstageOnRNotP

\* A granted event leaves every view backed.
LEMMA GrantedKeepsViewsBacked ==
    ASSUME NEW h \in Seq(Event), NEW e \in Event, ~Denied(h, e),
           ViewsBacked(h)
    PROVE  ViewsBacked(Append(h, e))
<1> SUFFICES ASSUME NEW q \in Principals, NEW r \in Resources,
                    Views(Append(h, e), q, r)
             PROVE  Backed(Append(h, e), q, r)
  BY DEF ViewsBacked
<1>1. e.action \in Action /\ e.principal \in Principals
  BY DEF Event
<1>2. CASE e.resource = r /\ e.principal = q /\ e.action = "read"
  <2>1. e \in ReadOnROnP(q, r)
    BY <1>2 DEF ReadOnROnP
  <2> QED
    BY <2>1, AppendStateChange DEF Backed, HoldsRead
<1>3. CASE e.resource = r /\ e.principal = q /\ e.action \in {"edit", "unstage"}
  <2>1. e \in EditUnstageOnROnP(q, r)
    BY <1>3 DEF EditUnstageOnROnP
  <2> QED
    BY <2>1, AppendStateChange DEF Backed, UnstagedSelf
<1>4. CASE ~(e.resource = r /\ e.principal = q
                /\ e.action \in {"read", "edit", "unstage"})
  <2>1. /\ Views(h, q, r)
        /\ e.resource = r => /\ e.action = "read" => e.principal = q
                             /\ e.principal = q =>
                                   e.action \notin {"stage", "delete",
                                       "commit", "checkout", "stash"}
    BY <1>4, AppendViews
  <2>2. e \in NotReadOnR(r)
    BY <1>4, <2>1 DEF NotReadOnR
  <2>3. CASE HoldsRead(h, q, r)
    BY <2>2, <2>3, AppendStateChange DEF Backed, HoldsRead
  <2>4. CASE UnstagedSelf(h, q, r) /\ e.principal = q
    <3>1. e \in ReadOnlyNotR(r)
      BY <1>1, <1>4, <2>1, <2>4 DEF ReadOnlyNotR, Action
    <3> QED
      BY <2>4, <3>1, AppendStateChange DEF Backed, UnstagedSelf
  <2>5. CASE UnstagedSelf(h, q, r) /\ e.principal # q
    BY <2>5, DirtStays DEF Backed
  <2> QED
    BY <2>1, <2>3, <2>4, <2>5 DEF ViewsBacked, Backed
<1> QED
  BY <1>2, <1>3, <1>4

\* What reconcile retains holds no read and at most one event per resource,
\* so a view of it is an edit that still decides its row.
LEMMA RestartViewsBacked ==
    ASSUME TypeOK, Restart
    PROVE  ViewsBacked(history')
<1>1. PICK shown \in SUBSET Resources :
        LET kept == {i \in ActiveGitCapabilityIndices(log) :
                        Corroborated(log, i, shown)}
        IN  \E g \in [1..Cardinality(kept) -> kept] :
               /\ InOrder(g)
               /\ history' = [k \in 1..Cardinality(kept) |-> log[g[k]]]
  BY DEF Restart
<1> DEFINE kept == {i \in ActiveGitCapabilityIndices(log) :
                       Corroborated(log, i, shown)}
<1>2. PICK g \in [1..Cardinality(kept) -> kept] :
        /\ InOrder(g)
        /\ history' = [k \in 1..Cardinality(kept) |-> log[g[k]]]
  BY <1>1
<1>3. \A i \in kept : /\ i \in DOMAIN log
                      /\ ActiveRow(log, i)
                      /\ log[i] \in Event
  BY DEF ActiveGitCapabilityIndices, ActiveRow, ActiveRead, Corroborated, Row,
         TypeOK
<1> HIDE DEF kept
<1>4. \A k \in DOMAIN history' :
        k \in DOMAIN g /\ g[k] \in kept /\ history'[k] = log[g[k]]
  BY <1>2
<1>5. SUFFICES ASSUME NEW q \in Principals, NEW r \in Resources,
                      Views(history', q, r)
               PROVE  UnstagedSelf(history', q, r)
  BY DEF ViewsBacked, Backed
<1>6. PICK k \in DOMAIN history' :
        /\ history'[k].resource = r
        /\ history'[k].principal = q
        /\ history'[k].action \in {"read", "edit"}
  BY <1>5 DEF Views
<1>7. history'[k] \in EditUnstageOnROnP(q, r)
  BY <1>3, <1>4, <1>6 DEF ActiveRow, EditUnstageOnROnP
<1>8. ASSUME NEW j \in DOMAIN history', j > k
      PROVE  history'[j] \in ReadOnlyNotR(r)
  <2>1. g[j] > g[k] /\ g[j] \in DOMAIN log
    <3>1. DOMAIN log \subseteq Nat
      BY DEF TypeOK
    <3>2. k \in Nat /\ j \in Nat
      BY <1>2
    <3> QED
      BY <1>2, <1>3, <1>4, <1>8, <3>1, <3>2 DEF InOrder
  <2> QED
    BY <1>3, <1>4, <1>6, <2>1 DEF ActiveRow
<1> QED
  BY <1>7, <1>8 DEF UnstagedSelf, LastStateChange

\* The invariant is inductive: granting keeps views backed, truncation goes
\* back to a history that had them backed, and a restart keeps only edits.
LEMMA ViewsBackedInductive == IInv /\ [Next]_vars => IInv'
<1> SUFFICES ASSUME IInv, [Next]_vars PROVE IInv'
  OBVIOUS
<1>1. TypeOK'
  BY TypeStep DEF IInv
<1>2. ASSUME NEW command \in Commands, Submit(command) PROVE IInv'
  <2>1. history' = history /\ committed' = history
    BY <1>2 DEF Submit
  <2> QED
    BY <1>1, <2>1 DEF IInv, TypeOK, ViewsBacked
<1>3. CASE Decide
  <2> DEFINE e == Head(pending)
  <2>1. e \in Event
    BY <1>3 DEF IInv, TypeOK, Decide, Idle
  <2>2. ~Denied(history, e) => ViewsBacked(Append(history, e))
    BY <2>1, GrantedKeepsViewsBacked DEF IInv, TypeOK
  <2>3. ViewsBacked(history) /\ ViewsBacked(committed)
    BY <1>3 DEF IInv, Decide
  <2>4. \/ history' = history
        \/ history' = committed
        \/ ~Denied(history, e) /\ history' = Append(history, e)
    BY <1>3 DEF Decide, Truncate
  <2>5. ViewsBacked(history')
    BY <2>2, <2>3, <2>4
  <2>6. ~Idle' => committed' = committed /\ Len(history') >= Len(history)
    <3>1. ~Idle' => history' = history \/ history' = Append(history, e)
      BY <1>3 DEF Decide, Idle
    <3> QED
      BY <1>3, <2>1, <3>1 DEF Decide, Idle, IInv, TypeOK
  <2>7. ~Idle' => Len(committed') <= Len(history')
    BY <1>1, <1>3, <2>6 DEF IInv, Decide, TypeOK
  <2> QED
    BY <1>1, <2>3, <2>5, <2>6, <2>7 DEF IInv, ViewsBacked
<1>4. CASE Restart
  BY <1>1, <1>4, RestartViewsBacked DEF IInv, Restart, Idle, ViewsBacked
<1>5. CASE UNCHANGED vars
  BY <1>1, <1>5 DEF vars, IInv, Idle, ViewsBacked
<1> QED
  BY <1>2, <1>3, <1>4, <1>5 DEF Next

\* A granted event that rewrites a file meets no other principal's view of it.
LEMMA RewriteMeetsNoView ==
    ASSUME NEW h \in Seq(Event), NEW e \in Event, ViewsBacked(h),
           ~Denied(h, e), e.action \in Rewrites,
           NEW q \in Principals \ {e.principal}
    PROVE  ~Views(h, q, e.resource)
<1>1. e.principal \in Principals \ {q} /\ e.resource \in Resources
  BY DEF Event
<1>2. Views(h, q, e.resource) => \/ ReadClaimedOther(h, e.principal, e.resource)
                                 \/ UnstagedOther(h, e.principal, e.resource)
  BY <1>1, OthersLanguages DEF ViewsBacked, Backed
<1> QED
  BY <1>2, ForeignDirtDenied, ForeignReadDenied DEF Rewrites

\* The policy keeps the no-surprise promise for every set of principals,
\* resources and commands and through every restart.
THEOREM PolicyNeverSurprises == Spec => NoSurprise
<1> DEFINE A == \A e \in Event :
                  /\ ~Idle /\ e = Head(pending)
                  /\ history' = Append(history, e)
                  /\ e.action \in Rewrites
                  => \A q \in Principals \ {e.principal} :
                        ~Views(history, q, e.resource)
<1>1. Init => IInv
  <2>1. Init => TypeOK
    BY InitType
  <2> QED
    BY <2>1 DEF Init, IInv, Idle, ViewsBacked, Views
<1>2. IInv /\ [Next]_vars => [A]_vars
  <2> SUFFICES ASSUME IInv, [Next]_vars,
                      NEW e \in Event, ~Idle, e = Head(pending),
                      history' = Append(history, e),
                      e.action \in Rewrites,
                      NEW q \in Principals \ {e.principal}
               PROVE  ~Views(history, q, e.resource) \/ UNCHANGED vars
    OBVIOUS
  <2>1. CASE Decide
    <3>1. Len(history') = Len(history) + 1 /\ Len(history) \in Nat
      BY DEF IInv, TypeOK
    <3>2. Len(committed) <= Len(history)
      BY DEF IInv
    <3>3. history' # history /\ history' # committed
      BY <3>1, <3>2
    <3>4. ~Denied(history, e)
      BY <2>1, <3>3 DEF Decide, Truncate
    <3> QED
      BY <3>4, RewriteMeetsNoView DEF IInv, TypeOK
  <2>2. CASE ~Decide
    BY <2>2 DEF Next, Submit, Restart
  <2> QED
    BY <2>1, <2>2
<1> QED
  BY <1>1, <1>2, ViewsBackedInductive, PTL DEF Spec, NoSurprise

-----------------------------------------------------------------------------
(* A dirty resource leaves its owner's hands by the owner's events only.   *)

\* While a command is checked, all its events are of one principal, and what
\* is dirty in another's hands was so before the command: a truncation takes
\* nothing away from anybody else.
DirtInv ==
    /\ TypeOK
    /\ ~Idle =>
          /\ \A i \in DOMAIN pending : pending[i].principal = Head(pending).principal
          /\ \A q \in Principals \ {Head(pending).principal}, r \in Resources :
                UnstagedSelf(history, q, r) => UnstagedSelf(committed, q, r)

\* Another principal's event makes nothing q's.
LEMMA DirtIsOwn ==
    ASSUME NEW h \in Seq(Event), NEW e \in Event,
           NEW q \in Principals, NEW r \in Resources,
           UnstagedSelf(Append(h, e), q, r), e.principal # q
    PROVE  UnstagedSelf(h, q, r)
BY AppendStateChange DEF UnstagedSelf, EditUnstageOnROnP

\* Appending to the history and truncating it both keep the invariant.
LEMMA DirtInductive == DirtInv /\ [Next]_vars => DirtInv'
<1> SUFFICES ASSUME DirtInv, [Next]_vars PROVE DirtInv'
  OBVIOUS
<1>1. TypeOK'
  BY TypeStep DEF DirtInv
<1>2. ASSUME NEW command \in Commands, Submit(command) PROVE DirtInv'
  <2>1. history' = history /\ committed' = history /\ pending' = command
    BY <1>2 DEF Submit
  <2>2. \A i \in DOMAIN command : command[i].principal = Head(command).principal
    BY CommandsAssumption
  <2> QED
    BY <1>1, <2>1, <2>2 DEF DirtInv
<1>3. CASE Decide
  <2> DEFINE e == Head(pending)
             rest == Tail(pending)
  <2>1. pending \in Seq(Event) /\ pending # <<>> /\ e \in Event
    BY <1>3 DEF Decide, Idle, DirtInv, TypeOK
  <2>2. CASE rest = <<>>
    BY <1>1, <1>3, <2>2 DEF Decide, DirtInv, Idle
  <2>3. CASE rest # <<>>
    <3>1. /\ committed' = committed /\ pending' = rest
          /\ history' = history \/ history' = Append(history, e)
      BY <1>3, <2>3 DEF Decide
    <3>2. \A i \in DOMAIN rest : i + 1 \in DOMAIN pending /\ rest[i] = pending[i + 1]
      BY <2>1
    <3>3. 1 \in DOMAIN rest /\ Head(rest) = rest[1]
      BY <2>1, <2>3
    <3>4. \A i \in DOMAIN rest : rest[i].principal = e.principal
      BY <1>3, <3>2 DEF DirtInv, Decide
    <3>5. Head(rest).principal = e.principal
      BY <3>3, <3>4
    <3>6. ASSUME NEW q \in Principals \ {e.principal}, NEW r \in Resources,
                 UnstagedSelf(history', q, r)
          PROVE  UnstagedSelf(committed', q, r)
      <4>1. UnstagedSelf(history, q, r)
        BY <2>1, <3>1, <3>6, DirtIsOwn DEF DirtInv, TypeOK
      <4> QED
        BY <1>3, <3>1, <4>1 DEF DirtInv, Decide
    <3> QED
      BY <1>1, <3>1, <3>4, <3>5, <3>6 DEF DirtInv
  <2> QED
    BY <2>2, <2>3
<1>4. CASE Restart
  BY <1>1, <1>4 DEF DirtInv, Restart, Idle
<1>5. CASE UNCHANGED vars
  BY <1>1, <1>5 DEF vars, DirtInv, Idle
<1> QED
  BY <1>2, <1>3, <1>4, <1>5 DEF Next

\* No command takes a dirty resource from another principal, whether it is
\* granted or truncated: check_events, the truncation in conclude, and the
\* rules about foreign dirty rows.
THEOREM DirtIsKept == Spec => OwnerKeepsDirt
<1> DEFINE A == \A q \in Principals, r \in Resources :
                  /\ UnstagedSelf(history, q, r)
                  /\ ~Idle
                  /\ Head(pending).principal # q
                  => UnstagedSelf(history', q, r)
<1>1. Init => DirtInv
  BY InitType DEF Init, DirtInv, Idle
<1>2. DirtInv /\ [Next]_vars => [A]_vars
  <2> SUFFICES ASSUME DirtInv, [Next]_vars,
                      NEW q \in Principals, NEW r \in Resources,
                      UnstagedSelf(history, q, r), ~Idle,
                      Head(pending).principal # q
               PROVE  UnstagedSelf(history', q, r) \/ UNCHANGED vars
    OBVIOUS
  <2>1. CASE Decide
    <3> DEFINE e == Head(pending)
    <3>1. e \in Event
      BY DEF DirtInv, TypeOK, Idle
    <3>2. \/ history' = history
          \/ history' = committed
          \/ ~Denied(history, e) /\ history' = Append(history, e)
      BY <2>1 DEF Decide, Truncate
    <3>3. UnstagedSelf(committed, q, r)
      BY DEF DirtInv
    <3> QED
      BY <3>1, <3>2, <3>3, DirtStays DEF DirtInv, TypeOK
  <2>2. CASE ~Decide
    BY <2>2 DEF Next, Submit, Restart
  <2> QED
    BY <2>1, <2>2
<1> QED
  BY <1>1, <1>2, DirtInductive, PTL DEF Spec, OwnerKeepsDirt

-----------------------------------------------------------------------------
(* The row languages partition the histories.                              *)

\* Whatever history the authority holds, rolled back or reconciled, each
\* principal and resource is in exactly one row language.
THEOREM RowsArePartitioned == Spec => []RowsPartition
<1>1. TypeOK => RowsPartition
  <2> SUFFICES ASSUME TypeOK, NEW p \in Principals, NEW r \in Resources
               PROVE  \E row \in RowLanguages :
                         /\ InLanguage(history, p, r, row)
                         /\ \A other \in RowLanguages \ {row} :
                               ~InLanguage(history, p, r, other)
    BY DEF RowsPartition
  <2>1. /\ InLanguage(history, p, r, "clean") <=> CleanRow(history, r)
        /\ InLanguage(history, p, r, "staged") <=> StagedRow(history, r)
        /\ InLanguage(history, p, r, "unstaged self") <=> UnstagedSelf(history, p, r)
        /\ InLanguage(history, p, r, "unstaged other") <=> UnstagedOther(history, p, r)
    BY DEF InLanguage
  <2> QED
    BY <2>1, OneRow DEF TypeOK, RowLanguages
<1> QED
  BY <1>1, TypeCorrect, PTL

-----------------------------------------------------------------------------
(* What is kept of a history: the projection and reconcile's claims.       *)

\* A set of positions of a history is finite.
LEMMA FinitePositions ==
    ASSUME NEW h \in Seq(Event), NEW K \in SUBSET DOMAIN h
    PROVE  IsFiniteSet(K) /\ Cardinality(K) \in Nat /\ K \subseteq Nat
<1>1. DOMAIN h = 1..Len(h) /\ Len(h) \in Nat /\ K \subseteq Nat
  OBVIOUS
<1>2. IsFiniteSet(DOMAIN h)
  BY <1>1, FS_Interval
<1> QED
  BY <1>1, <1>2, FS_Subset, FS_CardinalityType

\* An ascending enumeration of some positions leaves none of them out.
LEMMA NoneLeftOut ==
    ASSUME NEW h \in Seq(Event), NEW K \in SUBSET DOMAIN h,
           NEW g \in [1..Cardinality(K) -> K], InOrder(g)
    PROVE  /\ Cardinality(K) \in Nat
           /\ \A i \in K : \E k \in 1..Cardinality(K) : g[k] = i
           /\ \A a, b \in 1..Cardinality(K) : g[a] < g[b] => a < b
<1> DEFINE n == Cardinality(K)
<1>1. IsFiniteSet(K) /\ n \in Nat
  BY FinitePositions
<1>2. IsFiniteSet(1..n) /\ Cardinality(1..n) = n
  BY <1>1, FS_Interval
<1>3. K \subseteq Nat
  OBVIOUS
<1>4. ASSUME NEW a \in 1..n, NEW b \in 1..n, g[a] < g[b]
      PROVE  a < b
  <2>1. g[a] \in Nat /\ g[b] \in Nat /\ a \in Nat /\ b \in Nat
    BY <1>1, <1>3
  <2>2. b < a => g[b] < g[a]
    BY DEF InOrder
  <2> QED
    BY <1>4, <2>1, <2>2
<1>5. ASSUME NEW a \in 1..n, NEW b \in 1..n, g[a] = g[b]
      PROVE  a = b
  <2>1. g[a] \in Nat /\ a \in Nat /\ b \in Nat
    BY <1>1, <1>3
  <2>2. ~(g[a] < g[b]) /\ ~(g[b] < g[a])
    BY <1>5, <2>1
  <2>3. ~(a < b) /\ ~(b < a)
    BY <2>2 DEF InOrder
  <2> QED
    BY <2>1, <2>3
<1>6. g \in Injection(1..n, K)
  BY <1>5 DEF Injection, IsInjective
<1>7. g \in Surjection(1..n, K)
  BY <1>1, <1>2, <1>6, FS_Injection
<1> QED
  BY <1>1, <1>4, <1>7 DEF Surjection

\* The events of h at the positions K that g lists, as reconcile retains them.
Kept(h, K, g) == [k \in 1..Cardinality(K) |-> h[g[k]]]

\* A kept event that is the last unstable one still is among the kept events.
LEMMA KeptLast ==
    ASSUME NEW h \in Seq(Event), NEW K \in SUBSET DOMAIN h,
           NEW g \in [1..Cardinality(K) -> K], InOrder(g), NEW stable,
           NEW i \in K, h[i] \notin stable,
           \A j \in DOMAIN h : j > i => h[j] \in stable,
           NEW setter, setter \intersect stable = {}
    PROVE  LastStateChange(Kept(h, K, g), setter, stable)
              <=> LastStateChange(h, setter, stable)
<1> DEFINE n == Cardinality(K)
           kept == Kept(h, K, g)
<1>1. /\ kept \in Seq(Event) /\ DOMAIN kept = 1..n /\ n \in Nat
      /\ \A k \in 1..n : kept[k] = h[g[k]]
  BY RetainedHistory DEF Kept
<1> HIDE DEF kept
<1>2. PICK k \in 1..n : g[k] = i
  BY NoneLeftOut
<1>3. kept[k] = h[i]
  BY <1>1, <1>2
<1>4. ASSUME NEW l \in 1..n, l > k PROVE kept[l] \in stable
  <2>1. k \in DOMAIN g /\ l \in DOMAIN g /\ k < l
    BY <1>1, <1>4
  <2>2. g[k] < g[l]
    BY <2>1 DEF InOrder
  <2>3. g[l] \in DOMAIN h /\ g[l] > i
    BY <1>2, <2>2
  <2> QED
    BY <1>1, <2>3
<1>5. LastStateChange(kept, setter, stable) <=> kept[k] \in setter
  BY <1>1, <1>3, <1>4, SetByLast
<1>6. LastStateChange(h, setter, stable) <=> h[i] \in setter
  BY SetByLast
<1> QED
  BY <1>3, <1>5, <1>6 DEF kept

\* If the claims kept are active ones, and those on a resource all are, then
\* the resource is in the row it is in by the whole history.
LEMMA KeptRows ==
    ASSUME NEW h \in Seq(Event), NEW K \in SUBSET DOMAIN h,
           NEW g \in [1..Cardinality(K) -> K], InOrder(g),
           NEW p \in Principals, NEW r \in Resources,
           \A i \in K : ActiveRow(h, i) \/ h[i].action = "read",
           \A i \in DOMAIN h : ActiveRow(h, i) /\ h[i].resource = r => i \in K
    PROVE  /\ CleanRow(Kept(h, K, g), r) <=> CleanRow(h, r)
           /\ StagedRow(Kept(h, K, g), r) <=> StagedRow(h, r)
           /\ UnstagedSelf(Kept(h, K, g), p, r) <=> UnstagedSelf(h, p, r)
           /\ UnstagedOther(Kept(h, K, g), p, r) <=> UnstagedOther(h, p, r)
<1> DEFINE stable == ReadOnlyNotR(r)
           kept == Kept(h, K, g)
<1>1. /\ kept \in Seq(Event)
      /\ DOMAIN kept = 1..Cardinality(K)
      /\ \A k \in DOMAIN kept : kept[k] = h[g[k]] /\ g[k] \in K /\ g[k] \in DOMAIN h
  BY RetainedHistory DEF Kept
<1> HIDE DEF kept
<1>2. CASE \E i \in K : h[i] \notin stable
  <2>1. PICK i \in K : h[i] \notin stable
    BY <1>2
  <2>2. h[i] \in Event /\ h[i].resource = r /\ ActiveRow(h, i)
    BY <2>1 DEF ReadOnlyNotR
  <2>3. \A j \in DOMAIN h : j > i => h[j] \in stable
    BY <2>2 DEF ActiveRow
  <2>4. /\ StagedRow(kept, r) <=> StagedRow(h, r)
        /\ UnstagedSelf(kept, p, r) <=> UnstagedSelf(h, p, r)
        /\ UnstagedOther(kept, p, r) <=> UnstagedOther(h, p, r)
    BY <2>1, <2>3, KeptLast, SettersUnstable
       DEF StagedRow, UnstagedSelf, UnstagedOther, kept
  <2> QED
    BY <1>1, <2>4, OneRow DEF kept
<1>3. CASE \A i \in K : h[i] \in stable
  <2>1. CleanRow(kept, r)
    BY <1>1, <1>3 DEF CleanRow, NeverStateChange
  <2>2. CASE NeverStateChange(h, stable)
    BY <1>1, <2>1, <2>2, OneRow DEF CleanRow, kept
  <2>3. CASE ~NeverStateChange(h, stable)
    <3>1. PICK i \in DOMAIN h : /\ h[i] \notin stable
                                /\ \A j \in DOMAIN h : j > i => h[j] \in stable
      BY <2>3, LastUnstable
    <3>2. h[i] \in Event /\ h[i].resource = r /\ i \notin K
      BY <1>3, <3>1 DEF ReadOnlyNotR
    <3>3. h[i].action \notin {"edit", "unstage", "stage", "delete"}
      BY <3>1, <3>2 DEF ActiveRow
    <3>4. h[i] \in CommitCheckoutStashOnR(r)
      BY <3>1, <3>2, <3>3 DEF CommitCheckoutStashOnR, ReadOnlyNotR, Event, Action
    <3>5. CleanRow(h, r)
      BY <3>1, <3>4 DEF CleanRow, LastStateChange
    <3> QED
      BY <1>1, <2>1, <3>5, OneRow DEF kept
  <2> QED
    BY <2>2, <2>3
<1> QED
  BY <1>2, <1>3 DEF kept

\* A setter of read claims whose last read is kept ends the kept events as it
\* ends the history.
LEMMA KeptReads ==
    ASSUME NEW h \in Seq(Event), NEW K \in SUBSET DOMAIN h,
           NEW g \in [1..Cardinality(K) -> K], InOrder(g), NEW r \in Resources,
           \A i \in DOMAIN h : ActiveRead(h, i) /\ h[i].resource = r => i \in K,
           NEW setter, setter \intersect NotReadOnR(r) = {}
    PROVE  LastStateChange(Kept(h, K, g), setter, NotReadOnR(r))
              <=> LastStateChange(h, setter, NotReadOnR(r))
<1> DEFINE stable == NotReadOnR(r)
<1>1. CASE NeverStateChange(h, stable)
  <2>1. \A k \in DOMAIN Kept(h, K, g) :
           Kept(h, K, g)[k] = h[g[k]] /\ g[k] \in DOMAIN h
    BY DEF Kept
  <2> QED
    BY <1>1, <2>1 DEF NeverStateChange, LastStateChange
<1>2. CASE ~NeverStateChange(h, stable)
  <2>1. PICK i \in DOMAIN h : /\ h[i] \notin stable
                              /\ \A j \in DOMAIN h : j > i => h[j] \in stable
    BY <1>2, LastUnstable
  <2>2. h[i].resource = r /\ h[i].action = "read"
    BY <2>1 DEF NotReadOnR
  <2>3. i \in K
    BY <2>1, <2>2 DEF ActiveRead
  <2> QED
    BY <2>1, <2>3, KeptLast
<1> QED
  BY <1>1, <1>2

\* The k-th of a set of positions in ascending order, as
\* active_git_capability_indices returns them.
Nth(I, k) == CHOOSE i \in I : Cardinality({j \in I : j <= i}) = k

\* Counting the positions up to one enumerates them in ascending order.
LEMMA NthAscends ==
    ASSUME NEW h \in Seq(Event), NEW I \in SUBSET DOMAIN h
    PROVE  /\ [k \in 1..Cardinality(I) |-> Nth(I, k)] \in [1..Cardinality(I) -> I]
           /\ InOrder([k \in 1..Cardinality(I) |-> Nth(I, k)])
<1> DEFINE n == Cardinality(I)
           Upto(i) == {j \in I : j <= i}
           rank == [i \in I |-> Cardinality(Upto(i))]
           g == [k \in 1..n |-> Nth(I, k)]
<1>1. IsFiniteSet(I) /\ n \in Nat /\ I \subseteq Nat
  BY FinitePositions
<1>2. ASSUME NEW i \in I
      PROVE  IsFiniteSet(Upto(i)) /\ rank[i] \in 1..n /\ rank[i] \in Nat
  <2>1. Upto(i) \in SUBSET I /\ i \in Upto(i)
    BY <1>1
  <2>2. IsFiniteSet(Upto(i)) /\ Cardinality(Upto(i)) <= n
    BY <1>1, <2>1, FS_Subset
  <2>3. Cardinality(Upto(i)) \in Nat /\ Cardinality(Upto(i)) # 0
    BY <2>1, <2>2, FS_CardinalityType, FS_EmptySet
  <2> QED
    BY <1>1, <2>2, <2>3
<1>3. ASSUME NEW i \in I, NEW j \in I, i < j
      PROVE  rank[i] < rank[j]
  <2>1. Upto(i) \in SUBSET Upto(j) /\ j \in Upto(j) /\ j \notin Upto(i)
    BY <1>1, <1>3
  <2>2. Cardinality(Upto(i)) <= Cardinality(Upto(j)) /\ Upto(i) # Upto(j)
    BY <1>2, <2>1, FS_Subset
  <2>3. Cardinality(Upto(i)) # Cardinality(Upto(j))
    BY <1>2, <2>1, <2>2, FS_Subset
  <2>4. rank[i] \in Nat /\ rank[j] \in Nat
    BY <1>2
  <2> QED
    BY <2>2, <2>3, <2>4
<1>4. rank \in [I -> 1..n]
  BY <1>2
<1>5. ASSUME NEW i \in I, NEW j \in I, rank[i] = rank[j]
      PROVE  i = j
  <2>1. i \in Nat /\ j \in Nat /\ rank[i] \in Nat
    <3> HIDE DEF rank, n, Upto
    <3> QED
      BY <1>1, <1>2
  <2>2. ~(i < j) /\ ~(j < i)
    <3> HIDE DEF rank
    <3> QED
      BY <1>3, <1>5, <2>1
  <2> QED
    BY <2>1, <2>2
<1>6. \A k \in 1..n : \E i \in I : rank[i] = k
  <2> HIDE DEF rank
  <2>1. rank \in Injection(I, 1..n)
    BY <1>4, <1>5 DEF Injection, IsInjective
  <2>2. IsFiniteSet(1..n) /\ Cardinality(1..n) = n
    BY <1>1, FS_Interval
  <2>3. rank \in Surjection(I, 1..n)
    BY <2>1, <2>2, FS_Injection
  <2> QED
    BY <2>3 DEF Surjection
<1>7. ASSUME NEW k \in 1..n
      PROVE  g[k] \in I /\ rank[g[k]] = k
  <2>1. \E i \in I : Cardinality({j \in I : j <= i}) = k
    BY <1>6
  <2>2. Nth(I, k) \in I /\ Cardinality({j \in I : j <= Nth(I, k)}) = k
    BY <2>1 DEF Nth
  <2> QED
    BY <2>2
<1>8. ASSUME NEW a \in 1..n, NEW b \in 1..n, a < b
      PROVE  g[a] < g[b]
  <2> HIDE DEF g, rank
  <2>1. g[a] \in Nat /\ g[b] \in Nat /\ a \in Nat /\ b \in Nat
    BY <1>1, <1>7
  <2>2. g[b] < g[a] => b < a
    BY <1>3, <1>7
  <2>3. g[b] # g[a]
    BY <1>7, <1>8, <2>1
  <2> QED
    BY <1>8, <2>1, <2>2, <2>3
<1>9. DOMAIN g = 1..n
  OBVIOUS
<1> QED
  BY <1>7, <1>8, <1>9 DEF InOrder

\* The active claims decide every candidate as the whole history does
\* (active_git_capability_indices): diagnostics may look at them alone.
THEOREM ProjectionIsEnough == Spec => []ProjectionDecides
<1>1. TypeOK => ProjectionDecides
  <2> SUFFICES ASSUME TypeOK PROVE ProjectionDecides
    OBVIOUS
  <2> DEFINE I == ActiveGitCapabilityIndices(history)
             g == [k \in 1..Cardinality(I) |-> Nth(I, k)]
             kept == Kept(history, I, g)
  <2>1. history \in Seq(Event) /\ I \in SUBSET DOMAIN history
    BY DEF TypeOK, ActiveGitCapabilityIndices
  <2>2. g \in [1..Cardinality(I) -> I] /\ InOrder(g)
    BY <2>1, NthAscends
  <2>3. kept = [k \in 1..Cardinality(I) |-> history[Nth(I, k)]]
    BY DEF Kept
  <2>4. ASSUME NEW p \in Principals, NEW r \in Resources,
               NEW language \in RowLanguages \union {"read claimed other"}
        PROVE  InLanguage(kept, p, r, language) <=> InLanguage(history, p, r, language)
    <3>1. \A i \in I : ActiveRow(history, i) \/ history[i].action = "read"
      BY DEF ActiveGitCapabilityIndices, ActiveRead
    <3>2. \A i \in DOMAIN history :
             ActiveRow(history, i) \/ ActiveRead(history, i) => i \in I
      BY DEF ActiveGitCapabilityIndices
    <3>3. ReadOnRNotP(p, r) \intersect NotReadOnR(r) = {}
      BY DEF ReadOnRNotP, NotReadOnR
    <3> HIDE DEF I, g
    <3>4. /\ CleanRow(kept, r) <=> CleanRow(history, r)
          /\ StagedRow(kept, r) <=> StagedRow(history, r)
          /\ UnstagedSelf(kept, p, r) <=> UnstagedSelf(history, p, r)
          /\ UnstagedOther(kept, p, r) <=> UnstagedOther(history, p, r)
      BY <2>1, <2>2, <3>1, <3>2, KeptRows
    <3>5. ReadClaimedOther(kept, p, r) <=> ReadClaimedOther(history, p, r)
      BY <2>1, <2>2, <3>2, <3>3, KeptReads DEF ReadClaimedOther
    <3> QED
      BY <3>4, <3>5 DEF InLanguage
  <2> HIDE DEF kept
  <2> QED
    BY <2>3, <2>4 DEF ProjectionDecides, Nth
<1> QED
  BY <1>1, TypeCorrect, PTL

-----------------------------------------------------------------------------
(* The row table is implemented.                                           *)

\* The row table that a history stands for.
TableOf(h) == [row |-> TableRow(h), reader |-> TableReader(h)]

\* A dirty resource has one owner, and no owner while it is staged.
LEMMA OneOwner ==
    ASSUME NEW h \in Seq(Event), NEW r \in Resources, NEW p \in Principals,
           UnstagedSelf(h, p, r)
    PROVE  /\ ~StagedRow(h, r)
           /\ \A q \in Principals : UnstagedSelf(h, q, r) => q = p
BY OneRow, OthersLanguages

\* A resource's row in the table.
LEMMA RowOf ==
    ASSUME NEW h \in Seq(Event), NEW r \in Resources
    PROVE  /\ StagedRow(h, r) => TableRow(h)[r] = "staged"
           /\ \A p \in Principals : UnstagedSelf(h, p, r) => TableRow(h)[r] = p
           /\ ~StagedRow(h, r) /\ (\A p \in Principals : ~UnstagedSelf(h, p, r))
                => TableRow(h)[r] = "clean"
<1>1. ASSUME NEW p \in Principals, UnstagedSelf(h, p, r)
      PROVE  TableRow(h)[r] = p
  <2>1. ~StagedRow(h, r) /\ \A q \in Principals : UnstagedSelf(h, q, r) => q = p
    BY <1>1, OneOwner
  <2>2. (CHOOSE q \in Principals : UnstagedSelf(h, q, r)) = p
    BY <1>1, <2>1
  <2> QED
    BY <1>1, <2>1, <2>2 DEF TableRow
<1> QED
  BY <1>1 DEF TableRow

\* A read claim has one holder.
LEMMA ReaderOf ==
    ASSUME NEW h \in Seq(Event), NEW r \in Resources
    PROVE  /\ \A p \in Principals : HoldsRead(h, p, r) => TableReader(h)[r] = p
           /\ (\A p \in Principals : ~HoldsRead(h, p, r))
                => TableReader(h)[r] = NoReader
<1>1. ASSUME NEW p \in Principals, HoldsRead(h, p, r)
      PROVE  TableReader(h)[r] = p
  <2>1. ASSUME NEW q \in Principals, HoldsRead(h, q, r)
        PROVE  q = p
    <3>1. PICK i \in DOMAIN h :
            /\ h[i] \in ReadOnROnP(p, r)
            /\ \A j \in DOMAIN h : j > i => h[j] \in NotReadOnR(r)
      BY <1>1 DEF HoldsRead, LastStateChange
    <3>2. PICK k \in DOMAIN h :
            /\ h[k] \in ReadOnROnP(q, r)
            /\ \A j \in DOMAIN h : j > k => h[j] \in NotReadOnR(r)
      BY <2>1 DEF HoldsRead, LastStateChange
    <3>3. ~(i > k) /\ ~(k > i)
      BY <3>1, <3>2 DEF ReadOnROnP, NotReadOnR
    <3>4. i \in Nat /\ k \in Nat
      OBVIOUS
    <3> QED
      BY <3>1, <3>2, <3>3, <3>4 DEF ReadOnROnP
  <2>2. (CHOOSE q \in Principals : HoldsRead(h, q, r)) = p
    BY <1>1, <2>1
  <2> QED
    BY <1>1, <2>2 DEF TableReader
<1> QED
  BY <1>1 DEF TableReader

\* One more event moves the table as RowTable's Apply does.
LEMMA AppendApplies ==
    ASSUME NEW h \in Seq(Event), NEW e \in Event
    PROVE  TableOf(Append(h, e)) = Table!Apply(TableOf(h), e)
<1> DEFINE g == Append(h, e)
           p == e.principal
<1>1. g \in Seq(Event) /\ p \in Principals /\ e.action \in Action
        /\ e.resource \in Resources
  BY DEF Event
<1> HIDE DEF g
<1>2. ASSUME NEW r \in Resources
      PROVE  TableRow(g)[r] =
                IF e.resource # r THEN TableRow(h)[r]
                ELSE CASE e.action \in {"edit", "unstage"} -> p
                       [] e.action \in {"stage", "delete"} -> "staged"
                       [] e.action \in {"commit", "checkout", "stash"} -> "clean"
                       [] OTHER -> TableRow(h)[r]
  <2>1. CASE e \in ReadOnlyNotR(r)
    <3>1. /\ StagedRow(g, r) <=> StagedRow(h, r)
          /\ \A q \in Principals : UnstagedSelf(g, q, r) <=> UnstagedSelf(h, q, r)
      <4>1. /\ e \notin StageDeleteOnR(r)
            /\ \A q \in Principals : e \notin EditUnstageOnROnP(q, r)
        BY <2>1 DEF ReadOnlyNotR, StageDeleteOnR, EditUnstageOnROnP
      <4> QED
        BY <2>1, <4>1, AppendStateChange DEF StagedRow, UnstagedSelf, g
    <3>2. TableRow(g)[r] = TableRow(h)[r]
      <4>1. CASE StagedRow(h, r)
        BY <1>1, <3>1, <4>1, RowOf
      <4>2. CASE \E q \in Principals : UnstagedSelf(h, q, r)
        BY <1>1, <3>1, <4>2, RowOf
      <4>3. CASE ~StagedRow(h, r) /\ \A q \in Principals : ~UnstagedSelf(h, q, r)
        BY <1>1, <3>1, <4>3, RowOf
      <4> QED
        BY <4>1, <4>2, <4>3
    <3>3. e.resource # r \/ e.action \in {"read", "diff", "history", "clean"}
      BY <2>1 DEF ReadOnlyNotR
    <3> QED
      BY <3>2, <3>3
  <2>2. CASE e \notin ReadOnlyNotR(r)
    <3>1. e.resource = r
            /\ e.action \in {"edit", "unstage", "stage", "delete", "commit",
                             "checkout", "stash"}
      BY <1>1, <2>2 DEF ReadOnlyNotR, Action
    <3>2. /\ StagedRow(g, r) <=> e.action \in {"stage", "delete"}
          /\ \A q \in Principals :
                UnstagedSelf(g, q, r) <=> q = p /\ e.action \in {"edit", "unstage"}
      <4>1. /\ e \in StageDeleteOnR(r) <=> e.action \in {"stage", "delete"}
            /\ \A q \in Principals :
                  e \in EditUnstageOnROnP(q, r)
                     <=> q = p /\ e.action \in {"edit", "unstage"}
        BY <3>1 DEF StageDeleteOnR, EditUnstageOnROnP
      <4> QED
        BY <2>2, <4>1, AppendStateChange DEF StagedRow, UnstagedSelf, g
    <3>3. CASE e.action \in {"stage", "delete"}
      BY <1>1, <3>1, <3>2, <3>3, RowOf
    <3>4. CASE e.action \in {"edit", "unstage"}
      BY <1>1, <3>1, <3>2, <3>4, RowOf
    <3>5. CASE e.action \in {"commit", "checkout", "stash"}
      BY <1>1, <3>1, <3>2, <3>5, RowOf
    <3> QED
      BY <3>1, <3>3, <3>4, <3>5
  <2> QED
    BY <2>1, <2>2
<1>3. ASSUME NEW r \in Resources
      PROVE  TableReader(g)[r] =
                IF e.resource = r /\ e.action = "read" THEN p ELSE TableReader(h)[r]
  <2>1. ASSUME NEW q \in Principals
        PROVE  HoldsRead(g, q, r) <=> IF e.resource = r /\ e.action = "read"
                                      THEN q = p ELSE HoldsRead(h, q, r)
    <3>1. /\ e \in ReadOnROnP(q, r) <=>
                e.resource = r /\ e.action = "read" /\ q = p
          /\ e \in NotReadOnR(r) <=> ~(e.resource = r /\ e.action = "read")
      BY DEF ReadOnROnP, NotReadOnR
    <3> QED
      BY <3>1, AppendStateChange DEF HoldsRead, g
  <2>2. CASE e.resource = r /\ e.action = "read"
    BY <1>1, <2>1, <2>2, ReaderOf
  <2>3. CASE ~(e.resource = r /\ e.action = "read")
    <3>1. CASE \E q \in Principals : HoldsRead(h, q, r)
      BY <1>1, <2>1, <2>3, <3>1, ReaderOf
    <3>2. CASE \A q \in Principals : ~HoldsRead(h, q, r)
      BY <1>1, <2>1, <2>3, <3>2, ReaderOf
    <3> QED
      BY <2>3, <3>1, <3>2
  <2> QED
    BY <2>2, <2>3
<1>4. /\ DOMAIN TableRow(g) = Resources /\ DOMAIN TableRow(h) = Resources
      /\ DOMAIN TableReader(g) = Resources /\ DOMAIN TableReader(h) = Resources
      /\ TableRow(g) = [r \in Resources |-> TableRow(g)[r]]
      /\ TableReader(g) = [r \in Resources |-> TableReader(g)[r]]
  BY DEF TableRow, TableReader
<1>5. TableRow(g) = Table!Apply(TableOf(h), e).row
  <2> DEFINE moved == Table!Apply(TableOf(h), e).row
  <2>1. DOMAIN moved = Resources /\ moved = [r \in Resources |-> moved[r]]
    <3> DEFINE Moved(t, v) == [t EXCEPT ![e.resource] = v]
    <3>1. ASSUME NEW t, NEW v, DOMAIN t = Resources
          PROVE  DOMAIN Moved(t, v) = Resources
                   /\ Moved(t, v) = [r \in Resources |-> Moved(t, v)[r]]
      BY <3>1
    <3>2. \E v : moved = Moved(TableRow(h), v)
      BY DEF Table!Apply, TableOf
    <3> HIDE DEF moved, Moved
    <3> QED
      BY <1>4, <3>1, <3>2
  <2>2. ASSUME NEW r \in Resources PROVE moved[r] = TableRow(g)[r]
    <3>1. moved[r] = IF e.resource # r THEN TableRow(h)[r]
                     ELSE CASE e.action \in {"edit", "unstage"} -> p
                            [] e.action \in {"stage", "delete"} -> "staged"
                            [] e.action \in {"commit", "checkout", "stash"} -> "clean"
                            [] OTHER -> TableRow(h)[r]
      BY <1>1, <1>4 DEF Table!Apply, TableOf, Table!Settles
    <3> QED
      BY <1>2, <3>1
  <2> HIDE DEF moved
  <2> QED
    BY <1>4, <2>1, <2>2 DEF moved
<1>6. TableReader(g) = Table!Apply(TableOf(h), e).reader
  BY <1>1, <1>3, <1>4 DEF Table!Apply, TableOf
<1> QED
  BY <1>5, <1>6 DEF Table!Apply, TableOf, g

\* What the rules do not deny, the row table allows.
LEMMA GrantedIsLegal ==
    ASSUME NEW h \in Seq(Event), NEW e \in Event, ~Denied(h, e)
    PROVE  Table!Legal(TableOf(h), e)
<1> DEFINE p == e.principal
           r == e.resource
           held == TableRow(h)[r]
<1>1. p \in Principals /\ r \in Resources /\ e.action \in Action
        /\ p \notin {"clean", "staged"}
  BY RowNamesAssumption DEF Event
<1>2. ASSUME NEW language, <<e.action, language>> \in GitRules
      PROVE  ~InLanguage(h, p, r, language)
  <2>1. \A rule \in GitRules :
           rule[1] = e.action => ~InLanguage(h, e.principal, e.resource, rule[2])
    BY DEF Denied
  <2> QED
    BY <1>2, <2>1
<1>3. /\ e.action \in {"edit", "checkout", "clean", "stage", "stash", "unstage",
                       "commit", "delete"} => ~UnstagedOther(h, p, r)
      /\ e.action \in {"edit", "delete", "clean", "checkout", "stash"}
           => ~ReadClaimedOther(h, p, r)
  BY ForeignDirtDenied, ForeignReadDenied
<1>4. /\ e.action \in {"stage", "stash"} => ~CleanRow(h, r) /\ ~StagedRow(h, r)
      /\ e.action \in {"unstage", "commit"} => ~UnstagedSelf(h, p, r) /\ ~CleanRow(h, r)
      /\ e.action = "delete" => ~StagedRow(h, r) /\ ~UnstagedSelf(h, p, r)
  <2>1. /\ e.action \in {"stage", "stash"} =>
             <<e.action, "clean">> \in GitRules /\ <<e.action, "staged">> \in GitRules
        /\ e.action \in {"unstage", "commit"} =>
             /\ <<e.action, "clean">> \in GitRules
             /\ <<e.action, "unstaged self">> \in GitRules
        /\ e.action = "delete" =>
             /\ <<e.action, "staged">> \in GitRules
             /\ <<e.action, "unstaged self">> \in GitRules
    BY DEF GitRules, StageRowRules, StashRowRules, UnstageRowRules,
           CommitRowRules, DeleteAndCleanRowRules
  <2> QED
    BY <1>2, <2>1 DEF InLanguage
<1>5. /\ CleanRow(h, r) => held = "clean"
      /\ StagedRow(h, r) => held = "staged"
      /\ UnstagedSelf(h, p, r) => held = p
      /\ CleanRow(h, r) \/ StagedRow(h, r) \/ UnstagedSelf(h, p, r)
            \/ UnstagedOther(h, p, r)
  <2>1. CleanRow(h, r) => ~StagedRow(h, r) /\ \A q \in Principals : ~UnstagedSelf(h, q, r)
    BY <1>1, OneRow
  <2> QED
    BY <1>1, <2>1, OneRow, RowOf
<1>6. Table!RowAllows(held, e)
  BY <1>1, <1>3, <1>4, <1>5 DEF Table!RowAllows
<1>7. ASSUME e.action \in Table!NeedsClaim
      PROVE  TableReader(h)[r] \in {NoReader, p}
  <2>1. \A q \in Principals : HoldsRead(h, q, r) => q = p
    BY <1>1, <1>3, <1>7, OthersLanguages DEF Table!NeedsClaim
  <2> QED
    BY <1>1, <2>1, ReaderOf
<1> QED
  BY <1>6, <1>7 DEF Table!Legal, TableOf

\* RowTable's tables after the events of a command are those of the history it
\* is appended to.
LEMMA AfterFollows ==
    ASSUME NEW h \in Seq(Event), NEW c \in Seq(Event)
    PROVE  Table!After(TableOf(h), c) =
              [k \in 0..Len(c) |-> TableOf(h \o SubSeq(c, 1, k))]
<1> DEFINE t == TableOf(h)
           n == Len(c)
           F == [k \in 0..n |-> TableOf(h \o SubSeq(c, 1, k))]
           Step(f) == [i \in 0..n |-> IF i = 0 THEN t
                                      ELSE Table!Apply(f[i - 1], c[i])]
           f0 == CHOOSE f : f = Step(f)
<1>1. n \in Nat
  OBVIOUS
<1>2. F = Step(F)
  <2>1. ASSUME NEW i \in 0..n PROVE F[i] = Step(F)[i]
    <3>1. CASE i = 0
      BY <3>1, Prefixes
    <3>2. CASE i # 0
      <4>1. i \in 1..n /\ i - 1 \in 0..n
        BY <1>1, <3>2
      <4>2. /\ h \o SubSeq(c, 1, i - 1) \in Seq(Event) /\ c[i] \in Event
            /\ h \o SubSeq(c, 1, i) = Append(h \o SubSeq(c, 1, i - 1), c[i])
        BY <4>1, Prefixes
      <4>3. F[i] = Table!Apply(F[i - 1], c[i])
        BY <4>1, <4>2, AppendApplies
      <4> HIDE DEF F
      <4> QED
        BY <3>2, <4>3
    <3> QED
      BY <3>1, <3>2
  <2> QED
    BY <2>1
<1> HIDE DEF F
<1>3. f0 = Step(f0)
  BY <1>2
<1>4. Table!After(t, c) = f0
  BY DEF Table!After
<1> HIDE DEF f0
<1>5. \A k \in 0..n : f0[k] = F[k]
  <2> DEFINE odd == {k \in 0..n : f0[k] # F[k]}
  <2> SUFFICES ASSUME odd # {} PROVE FALSE
    OBVIOUS
  <2>1. odd \in SUBSET Nat
    BY <1>1
  <2>2. PICK k \in odd : \A l \in odd : k <= l
    BY <2>1, LeastNatural
  <2>3. k \in 0..n /\ f0[k] # F[k]
    BY <2>2
  <2>4. k # 0
    BY <1>2, <1>3, <2>3
  <2>5. k - 1 \in 0..n /\ ~(k <= k - 1)
    BY <1>1, <2>3, <2>4
  <2>6. f0[k - 1] = F[k - 1]
    BY <2>2, <2>5
  <2> QED
    BY <1>2, <1>3, <2>3, <2>4, <2>6
<1>6. f0 = F
  <2>1. f0 = [k \in 0..n |-> f0[k]] /\ F = [k \in 0..n |-> F[k]]
    BY <1>2, <1>3
  <2> QED
    BY <1>5, <2>1
<1> QED
  BY <1>4, <1>6 DEF F

\* A command moves the rows it has an unstable event on to the same place
\* whatever history it is appended to, and no other.
LEMMA ConcatRow ==
    ASSUME NEW h \in Seq(Event), NEW g \in Seq(Event), NEW c \in Seq(Event),
           NEW r \in Resources
    PROVE  /\ NeverStateChange(c, ReadOnlyNotR(r))
                => TableRow(h \o c)[r] = TableRow(h)[r]
           /\ ~NeverStateChange(c, ReadOnlyNotR(r))
                => TableRow(h \o c)[r] = TableRow(g \o c)[r]
<1>1. h \o c \in Seq(Event) /\ g \o c \in Seq(Event)
  OBVIOUS
<1>2. ASSUME NEW a \in Seq(Event), NEW b \in Seq(Event),
             StagedRow(a, r) <=> StagedRow(b, r),
             \A p \in Principals : UnstagedSelf(a, p, r) <=> UnstagedSelf(b, p, r)
      PROVE  TableRow(a)[r] = TableRow(b)[r]
  <2>1. CASE StagedRow(a, r)
    BY <1>2, <2>1, RowOf
  <2>2. CASE \E p \in Principals : UnstagedSelf(a, p, r)
    BY <1>2, <2>2, RowOf
  <2>3. CASE ~StagedRow(a, r) /\ \A p \in Principals : ~UnstagedSelf(a, p, r)
    BY <1>2, <2>3, RowOf
  <2> QED
    BY <2>1, <2>2, <2>3
<1>3. ASSUME NeverStateChange(c, ReadOnlyNotR(r))
      PROVE  TableRow(h \o c)[r] = TableRow(h)[r]
  <2>1. ASSUME NEW setter, setter \intersect ReadOnlyNotR(r) = {}
        PROVE  ~LastStateChange(c, setter, ReadOnlyNotR(r))
    BY <1>3, <2>1 DEF NeverStateChange, LastStateChange
  <2>2. /\ StageDeleteOnR(r) \intersect ReadOnlyNotR(r) = {}
        /\ \A p \in Principals : EditUnstageOnROnP(p, r) \intersect ReadOnlyNotR(r) = {}
    BY DEF StageDeleteOnR, EditUnstageOnROnP, ReadOnlyNotR
  <2>3. /\ StagedRow(h \o c, r) <=> StagedRow(h, r)
        /\ \A p \in Principals : UnstagedSelf(h \o c, p, r) <=> UnstagedSelf(h, p, r)
    BY <1>3, <2>1, <2>2, ConcatStateChange DEF StagedRow, UnstagedSelf
  <2> QED
    BY <1>1, <1>2, <2>3
<1>4. ASSUME ~NeverStateChange(c, ReadOnlyNotR(r))
      PROVE  TableRow(h \o c)[r] = TableRow(g \o c)[r]
  <2>1. /\ StagedRow(h \o c, r) <=> StagedRow(g \o c, r)
        /\ \A p \in Principals :
              UnstagedSelf(h \o c, p, r) <=> UnstagedSelf(g \o c, p, r)
    BY <1>4, ConcatStateChange DEF StagedRow, UnstagedSelf
  <2> QED
    BY <1>1, <1>2, <2>1
<1> QED
  BY <1>3, <1>4

\* A command being checked: what is decided of it and what is pending make it
\* up, and unless an event was denied the history is the one it found with the
\* decided events behind it, each granted after those before it.
Checking ==
    ~Idle =>
        \E done \in Seq(Event) :
            /\ done \o pending \in Commands
            /\ ~denied => /\ history = committed \o done
                          /\ AllGranted(committed, done)

CheckInv == TypeOK /\ Checking

\* One more granted event.
LEMMA GrantOneMore ==
    ASSUME NEW h \in Seq(Event), NEW c \in Seq(Event), NEW e \in Event,
           AllGranted(h, c), ~Denied(h \o c, e)
    PROVE  AllGranted(h, Append(c, e))
<1> DEFINE d == Append(c, e)
<1>1. /\ Len(d) = Len(c) + 1 /\ Len(c) \in Nat
      /\ \A k \in 1..Len(c) : d[k] = c[k] /\ SubSeq(d, 1, k - 1) = SubSeq(c, 1, k - 1)
      /\ d[Len(c) + 1] = e /\ SubSeq(d, 1, Len(c)) = c
  OBVIOUS
<1> HIDE DEF d
<1>2. ASSUME NEW k \in 1..Len(d)
      PROVE  ~Denied(h \o SubSeq(d, 1, k - 1), d[k])
  <2>1. CASE k \in 1..Len(c)
    BY <1>1, <2>1 DEF AllGranted
  <2>2. CASE k = Len(c) + 1
    <3>1. k - 1 = Len(c)
      BY <1>1, <2>2
    <3> QED
      BY <1>1, <2>2, <3>1
  <2> QED
    BY <1>1, <2>1, <2>2
<1> QED
  BY <1>2 DEF AllGranted, d

\* An event behind two sequences, and the second of them again.
LEMMA Behind ==
    ASSUME NEW a \in Seq(Event), NEW b \in Seq(Event), NEW e \in Event
    PROVE  /\ Append(a \o b, e) = a \o Append(b, e)
           /\ SubSeq(a \o b, Len(a) + 1, Len(a \o b)) = b
<1>1. Append(a \o b, e) = a \o Append(b, e)
  OBVIOUS
<1>2. SubSeq(a \o b, Len(a) + 1, Len(a \o b)) = b
  <2> DEFINE ab == a \o b
             m == Len(a)
             n == Len(b)
  <2>1. /\ ab \in Seq(Event) /\ Len(ab) = m + n /\ m \in Nat /\ n \in Nat
        /\ \A i \in 1..n : ab[m + i] = b[i]
    OBVIOUS
  <2> HIDE DEF ab
  <2>2. SubSeq(ab, m + 1, m + n) \in Seq(Event)
    BY <2>1
  <2>3. Len(SubSeq(ab, m + 1, m + n)) = n
    BY <2>1
  <2>4. ASSUME NEW i \in 1..n PROVE SubSeq(ab, m + 1, m + n)[i] = b[i]
    <3>1. SubSeq(ab, m + 1, m + n)[i] = ab[m + i]
      BY <2>1
    <3> QED
      BY <2>1, <3>1
  <2>5. SubSeq(ab, m + 1, m + n) = b
    BY <2>2, <2>3, <2>4, SeqEqual
  <2> QED
    BY <2>1, <2>5 DEF ab
<1> QED
  BY <1>1, <1>2

\* Deciding an event moves it from the pending ones to the decided ones.
LEMMA MoveOne ==
    ASSUME NEW done \in Seq(Event), NEW rest \in Seq(Event), rest # <<>>
    PROVE  /\ Head(rest) \in Event /\ Tail(rest) \in Seq(Event)
           /\ Append(done, Head(rest)) \in Seq(Event)
           /\ Append(done, Head(rest)) \o Tail(rest) = done \o rest
           /\ Tail(rest) = <<>> => Append(done, Head(rest)) = done \o rest
<1>1. Head(rest) \in Event /\ Tail(rest) \in Seq(Event)
  OBVIOUS
<1>2. rest = <<Head(rest)>> \o Tail(rest)
  OBVIOUS
<1>3. Append(done, Head(rest)) \o Tail(rest) = done \o (<<Head(rest)>> \o Tail(rest))
  BY <1>1
<1>4. Append(done, Head(rest)) \o <<>> = Append(done, Head(rest))
  BY <1>1
<1>5. Append(done, Head(rest)) \o Tail(rest) = done \o rest
  BY <1>2, <1>3
<1>6. Append(done, Head(rest)) \in Seq(Event)
  BY <1>1
<1>7. ASSUME Tail(rest) = <<>> PROVE Append(done, Head(rest)) = done \o rest
  BY <1>4, <1>5, <1>7
<1> QED
  BY <1>1, <1>5, <1>6, <1>7

\* The events of a command that is checked to its end.
LEMMA CheckingStep == CheckInv /\ [Next]_vars => CheckInv'
<1> SUFFICES ASSUME CheckInv, [Next]_vars PROVE CheckInv'
  OBVIOUS
<1>1. TypeOK'
  BY TypeStep DEF CheckInv
<1>2. ASSUME NEW command \in Commands, Submit(command)
      PROVE  Checking'
  <2>1. command \in Seq(Event) /\ history \in Seq(Event)
    BY CommandsAssumption DEF CheckInv, TypeOK
  <2>2. <<>> \o command \in Commands /\ history = history \o <<>> /\ <<>> \in Seq(Event)
    BY <2>1
  <2>3. AllGranted(history, <<>>)
    BY DEF AllGranted
  <2>4. committed' = history /\ pending' = command /\ history' = history
    BY <1>2 DEF Submit
  <2> QED
    BY <2>2, <2>3, <2>4 DEF Checking
<1>3. ASSUME Decide PROVE Checking'
  <2> DEFINE e == Head(pending)
  <2>1. /\ pending \in Seq(Event) /\ pending # <<>> /\ committed \in Seq(Event)
        /\ history \in Seq(Event)
    BY <1>3 DEF CheckInv, TypeOK, Decide, Idle
  <2>2. PICK done \in Seq(Event) :
          /\ done \o pending \in Commands
          /\ ~denied => history = committed \o done /\ AllGranted(committed, done)
    BY <2>1 DEF CheckInv, Checking, Idle
  <2>3. /\ e \in Event /\ Append(done, e) \in Seq(Event)
        /\ Append(done, e) \o Tail(pending) \in Commands
    BY <2>1, <2>2, MoveOne
  <2>4. pending' = Tail(pending)
    BY <1>3 DEF Decide
  <2>5. ASSUME Tail(pending) # <<>>, ~denied'
        PROVE  ~denied /\ ~Denied(history, e) /\ history' = Append(history, e)
                 /\ committed' = committed
    BY <1>3, <2>5 DEF Decide, Denials, Truncate
  <2>6. ASSUME ~Idle', ~denied'
        PROVE  /\ history' = committed' \o Append(done, e)
               /\ AllGranted(committed', Append(done, e))
    <3>1. /\ history = committed \o done /\ AllGranted(committed, done)
          /\ ~Denied(history, e) /\ history' = Append(history, e)
          /\ committed' = committed
      BY <2>2, <2>4, <2>5, <2>6 DEF Idle
    <3>2. Append(committed \o done, e) = committed \o Append(done, e)
      BY <2>1, <2>3, Behind
    <3> QED
      BY <2>1, <2>3, <3>1, <3>2, GrantOneMore
  <2> QED
    BY <2>3, <2>4, <2>6 DEF Checking
<1>4. ASSUME Restart PROVE Checking'
  BY <1>4 DEF Restart, Checking, Idle
<1>5. ASSUME UNCHANGED vars PROVE Checking'
  BY <1>5 DEF vars, Checking, CheckInv, Idle
<1> QED
  BY <1>1, <1>2, <1>3, <1>4, <1>5 DEF Next, CheckInv

\* A whole command behind the history is RowTable's Grant, on the table and on
\* the logged rows.
LEMMA CommandIsGranted ==
    ASSUME NEW h \in Seq(Event), NEW g \in Seq(Event), NEW c \in Commands,
           AllGranted(h, c),
           Granted = h, log = g, Granted' = h \o c, log' = g \o c
    PROVE  Table!Grant(c)
<1> DEFINE f == Table!After([row |-> TableRow(Granted), reader |-> TableReader(Granted)], c)
           n == Len(c)
           moved == {r \in Resources : \E i \in 1..n :
                        /\ c[i].resource = r
                        /\ c[i].action \in
                              {"edit", "unstage", "stage", "delete"} \union Table!Settles}
<1>1. c \in Seq(Event) /\ n \in Nat
  BY CommandsAssumption
<1>2. f = [k \in 0..n |-> TableOf(h \o SubSeq(c, 1, k))]
  BY <1>1, AfterFollows DEF TableOf
<1>3. f[n] = TableOf(h \o c)
  <2>1. n \in 0..n
    BY <1>1
  <2>2. f[n] = TableOf(h \o SubSeq(c, 1, n))
    BY <1>2, <2>1
  <2> QED
    BY <1>1, <2>2, Prefixes
<1>4. ASSUME NEW i \in 1..n PROVE Table!Legal(f[i - 1], c[i])
  <2>1. i - 1 \in 0..n /\ c[i] \in Event
    BY <1>1
  <2>2. f[i - 1] = TableOf(h \o SubSeq(c, 1, i - 1))
    BY <1>2, <2>1
  <2>3. h \o SubSeq(c, 1, i - 1) \in Seq(Event)
    BY <1>1, Prefixes
  <2>4. ~Denied(h \o SubSeq(c, 1, i - 1), c[i])
    BY DEF AllGranted
  <2> QED
    BY <2>1, <2>2, <2>3, <2>4, GrantedIsLegal
<1>5. TableRow(Granted') = f[n].row /\ TableReader(Granted') = f[n].reader
  BY <1>3 DEF TableOf
<1>6. ASSUME NEW r \in Resources
      PROVE  /\ r \in moved <=> ~NeverStateChange(c, ReadOnlyNotR(r))
             /\ TableRow(log')[r] = IF r \in moved THEN f[n].row[r] ELSE TableRow(log)[r]
  <2>1. r \in moved <=> ~NeverStateChange(c, ReadOnlyNotR(r))
    <3>1. ASSUME NEW i \in 1..n
          PROVE  c[i] \notin ReadOnlyNotR(r) <=>
                    /\ c[i].resource = r
                    /\ c[i].action \in
                          {"edit", "unstage", "stage", "delete"} \union Table!Settles
      <4>1. c[i] \in Event
        BY <1>1
      <4>2. c[i].action \in Action
        BY <4>1 DEF Event
      <4> QED
        BY <4>1, <4>2 DEF ReadOnlyNotR, Action, Table!Settles
    <3>2. DOMAIN c = 1..n
      BY <1>1
    <3> QED
      BY <3>1, <3>2 DEF NeverStateChange
  <2> HIDE DEF moved
  <2> QED
    BY <1>1, <1>3, <2>1, ConcatRow DEF TableOf
<1>7. TableRow(log') = [r \in Resources |->
                           IF r \in moved THEN f[n].row[r] ELSE TableRow(log)[r]]
  <2>1. TableRow(log') = [r \in Resources |-> TableRow(log')[r]]
    BY DEF TableRow
  <2> HIDE DEF f, moved
  <2> QED
    BY <1>6, <2>1
<1> QED
  BY <1>4, <1>5, <1>7 DEF Table!Grant

\* A session starts with a clean table.
LEMMA StartsClean == Init => Table!Init
<1> SUFFICES ASSUME Init PROVE Table!Init
  OBVIOUS
<1>1. Granted = <<>> /\ log = <<>> /\ <<>> \in Seq(Event)
  BY DEF Init, Granted, Idle
<1>2. ASSUME NEW r \in Resources
      PROVE  TableRow(<<>>)[r] = "clean" /\ TableReader(<<>>)[r] = NoReader
  <2>1. \A setter, stable : ~LastStateChange(<<>>, setter, stable)
    BY DEF LastStateChange
  <2> QED
    BY <1>1, <2>1, RowOf, ReaderOf DEF StagedRow, UnstagedSelf, HoldsRead
<1>3. TableRow(<<>>) = [r \in Resources |-> TableRow(<<>>)[r]]
        /\ TableReader(<<>>) = [r \in Resources |-> TableReader(<<>>)[r]]
  BY DEF TableRow, TableReader
<1>4. TableRow(<<>>) = [r \in Resources |-> "clean"]
        /\ TableReader(<<>>) = [r \in Resources |-> NoReader]
  BY <1>2, <1>3
<1> QED
  BY <1>1, <1>4 DEF Table!Init

\* A restart takes the rows the seed still shows from the log and forgets the
\* readers (reconcile).
LEMMA RestartReleases ==
    ASSUME CheckInv, Restart
    PROVE  Table!Release
<1>1. PICK shown \in SUBSET Resources :
        LET kept == {i \in ActiveGitCapabilityIndices(log) :
                        Corroborated(log, i, shown)}
        IN  \E g \in [1..Cardinality(kept) -> kept] :
               /\ InOrder(g)
               /\ history' = [k \in 1..Cardinality(kept) |-> log[g[k]]]
  BY DEF Restart
<1> DEFINE K == {i \in ActiveGitCapabilityIndices(log) :
                    Corroborated(log, i, shown)}
<1>2. PICK g \in [1..Cardinality(K) -> K] :
        InOrder(g) /\ history' = Kept(log, K, g)
  BY <1>1 DEF Kept
<1>3. /\ log \in Seq(Event) /\ history' \in Seq(Event) /\ log' = log
      /\ Granted' = history'
  BY TypeStep DEF CheckInv, TypeOK, Restart, Next, Granted, Idle
<1>4. K \in SUBSET DOMAIN log
  BY DEF ActiveGitCapabilityIndices
<1>5. \A i \in K : /\ ActiveRow(log, i) /\ log[i].resource \in shown
                   /\ log[i].action # "read"
  BY DEF ActiveGitCapabilityIndices, ActiveRow, ActiveRead, Corroborated, Row
<1>6. ASSUME NEW i \in DOMAIN log, ActiveRow(log, i), log[i].resource \in shown
      PROVE  i \in K
  BY <1>6 DEF ActiveGitCapabilityIndices, ActiveRow, Corroborated, Row
<1> HIDE DEF K
<1>7. \A k \in DOMAIN history' : history'[k] = log[g[k]] /\ g[k] \in K
  BY <1>2 DEF Kept
<1>8. ASSUME NEW r \in Resources
      PROVE  TableRow(history')[r] = IF r \in shown THEN TableRow(log)[r] ELSE "clean"
  <2>1. CASE r \in shown
    <3>1. ASSUME NEW p \in Principals
          PROVE  /\ StagedRow(history', r) <=> StagedRow(log, r)
                 /\ UnstagedSelf(history', p, r) <=> UnstagedSelf(log, p, r)
      BY <1>2, <1>3, <1>4, <1>5, <1>6, <2>1, KeptRows
    <3>2. CASE \E p \in Principals : UnstagedSelf(log, p, r)
      BY <1>3, <2>1, <3>1, <3>2, RowOf
    <3>3. CASE StagedRow(log, r)
      <4>1. Principals # {}
        BY <1>3, <3>3 DEF StagedRow, LastStateChange, StageDeleteOnR, Event
      <4> QED
        BY <1>3, <2>1, <3>1, <3>3, <4>1, RowOf
    <3>4. CASE ~StagedRow(log, r) /\ \A p \in Principals : ~UnstagedSelf(log, p, r)
      <4>1. ~StagedRow(history', r)
        <5>1. CASE Principals = {}
          BY <1>3, <5>1 DEF StagedRow, LastStateChange, StageDeleteOnR, Event
        <5>2. CASE Principals # {}
          BY <3>1, <3>4, <5>2
        <5> QED
          BY <5>1, <5>2
      <4> QED
        BY <1>3, <2>1, <3>1, <3>4, <4>1, RowOf
    <3> QED
      BY <3>2, <3>3, <3>4
  <2>2. CASE r \notin shown
    <3>1. \A k \in DOMAIN history' : history'[k].resource # r
      BY <1>5, <1>7, <2>2
    <3>2. ~StagedRow(history', r) /\ \A p \in Principals : ~UnstagedSelf(history', p, r)
      BY <3>1 DEF StagedRow, UnstagedSelf, LastStateChange, StageDeleteOnR,
                  EditUnstageOnROnP
    <3> QED
      BY <1>3, <2>2, <3>2, RowOf
  <2> QED
    BY <2>1, <2>2
<1>9. ASSUME NEW r \in Resources PROVE TableReader(history')[r] = NoReader
  <2>1. \A p \in Principals : ~HoldsRead(history', p, r)
    BY <1>5, <1>7 DEF HoldsRead, LastStateChange, ReadOnROnP
  <2> QED
    BY <1>3, <2>1, ReaderOf
<1>10. /\ TableRow(history') = [r \in Resources |-> TableRow(history')[r]]
       /\ TableReader(history') = [r \in Resources |-> TableReader(history')[r]]
  BY DEF TableRow, TableReader
<1>11. /\ TableRow(history') = [r \in Resources |->
                                   IF r \in shown THEN TableRow(log)[r] ELSE "clean"]
       /\ TableReader(history') = [r \in Resources |-> NoReader]
  BY <1>8, <1>9, <1>10
<1> QED
  BY <1>3, <1>11 DEF Table!Release

\* Every step of the authority is a step of the table or leaves it alone.
LEMMA StepImplements == CheckInv /\ [Next]_vars => [Table!Next]_Table!vars
<1> SUFFICES ASSUME CheckInv, [Next]_vars PROVE [Table!Next]_Table!vars
  OBVIOUS
<1>1. ASSUME Granted' = Granted, log' = log
      PROVE  UNCHANGED Table!vars
  BY <1>1 DEF Table!vars
<1>2. ASSUME NEW command \in Commands, Submit(command)
      PROVE  UNCHANGED Table!vars
  <2>1. pending' # <<>>
    BY <1>2, CommandsAssumption DEF Submit
  <2> QED
    BY <1>1, <1>2, <2>1 DEF Submit, Granted, Idle
<1>3. ASSUME Decide PROVE [Table!Next]_Table!vars
  <2> DEFINE e == Head(pending)
  <2>1. /\ pending \in Seq(Event) /\ pending # <<>> /\ committed \in Seq(Event)
        /\ history \in Seq(Event) /\ log \in Seq(Event) /\ Granted = committed
    BY <1>3 DEF CheckInv, TypeOK, Decide, Idle, Granted
  <2>2. CASE Tail(pending) # <<>>
    <3>1. Granted' = committed /\ log' = log
      BY <1>3, <2>2 DEF Decide, Granted, Idle
    <3> QED
      BY <1>1, <2>1, <3>1
  <2>3. CASE Tail(pending) = <<>> /\ (denied \/ Denied(history, e))
    <3>1. Granted' = committed /\ log' = log
      BY <1>3, <2>3 DEF Decide, Granted, Idle, Truncate
    <3> QED
      BY <1>1, <2>1, <3>1
  <2>4. CASE Tail(pending) = <<>> /\ ~denied /\ ~Denied(history, e)
    <3>1. PICK done \in Seq(Event) :
            /\ done \o pending \in Commands
            /\ history = committed \o done /\ AllGranted(committed, done)
      BY <2>1, <2>4 DEF CheckInv, Checking, Idle
    <3> DEFINE c == done \o pending
    <3>2. /\ e \in Event /\ c = Append(done, e) /\ c \in Seq(Event) /\ c \in Commands
      BY <2>1, <2>4, <3>1, MoveOne
    <3> HIDE DEF c, e
    <3>3. Append(history, e) = committed \o c
      BY <2>1, <3>1, <3>2, Behind
    <3>4. AllGranted(committed, c)
      BY <2>1, <2>4, <3>1, <3>2, GrantOneMore
    <3>5. SubSeq(committed \o c, Len(committed) + 1, Len(committed \o c)) = c
      BY <2>1, <3>2, Behind
    <3>6. Granted' = committed \o c /\ log' = log \o c
      BY <1>3, <2>4, <3>3, <3>5 DEF Decide, Granted, Idle, Truncate, e
    <3>7. Table!Grant(c)
      BY <2>1, <3>2, <3>4, <3>6, CommandIsGranted
    <3> QED
      BY <3>2, <3>7 DEF Table!Next
  <2> QED
    BY <2>2, <2>3, <2>4
<1>4. ASSUME Restart PROVE Table!Next
  BY <1>4, RestartReleases DEF Table!Next
<1>5. CASE UNCHANGED vars
  BY <1>1, <1>5 DEF vars, Granted, Idle
<1> QED
  BY <1>2, <1>3, <1>4, <1>5 DEF Next

\* The authority implements the row table: check_events and the rollback of a
\* denied command apply a command's events all or not at all, each of them
\* legal after the ones before it, and a restart only releases rows or takes
\* logged ones up.
THEOREM ImplementsTable == Spec => ImplementsRowTable
<1>1. Init => CheckInv
  BY InitType DEF Init, CheckInv, Checking, Idle
<1> QED
  BY <1>1, CheckingStep, StartsClean, StepImplements, PTL
     DEF Spec, ImplementsRowTable, Table!Spec

-----------------------------------------------------------------------------
(* Transactions.                                                           *)

\* What a job's tree is, from the moment it is taken to its conclusion.
TreesTaken ==
    \A j \in Jobs :
        /\ pc[j] # "idle" => base[j] <= seq /\ snap[j] = versions[base[j]]
        /\ pc[j] = "running" => work[j] = snap[j]
        /\ pc[j] = "exited" =>
              /\ prog[j] \in Programs
              /\ \A x \in Paths \ prog[j].writes : work[j][x] = snap[j][x]

TransactionsInv ==
    /\ TransactionsTypeOK
    /\ GenerationsCoverChanges
    /\ TreesTaken

-----------------------------------------------------------------------------
(* Programs.                                                               *)

\* What a job ran is one of the programs, or nothing, so its acts and sets are
\* of their types (translate.rs).
LEMMA ProgramType ==
    ASSUME NEW program \in Programs \union {NoProgram}
    PROVE  /\ program.reads \in SUBSET Paths
           /\ program.gitReads \in SUBSET Paths
           /\ program.blind \in SUBSET Paths
           /\ program.writes \in SUBSET Paths
           /\ program.acts \in Seq(Act)
<1>1. CASE program \in Programs
  BY <1>1, ProgramsAssumption DEF Program
<1>2. CASE program = NoProgram
  <2>1. <<>> \in Seq(Act)
    OBVIOUS
  <2> QED
    BY <1>2, <2>1 DEF NoProgram
<1> QED
  BY <1>1, <1>2

\* The events of a concluded command are events, by the job that ran it.
LEMMA EventsType ==
    ASSUME TransactionsTypeOK, NEW j \in Jobs
    PROVE  /\ EventsOf(j) \in Seq(Event)
           /\ EventResources(j) \subseteq Paths
<1> DEFINE acts == prog[j].acts
<1>1. acts \in Seq(Act)
  BY ProgramType DEF TransactionsTypeOK
<1> HIDE DEF acts
<1>2. /\ Len(acts) \in Nat
      /\ DOMAIN acts = 1..Len(acts)
      /\ \A i \in 1..Len(acts) : acts[i] \in Act
  BY <1>1
<1>3. EventsOf(j) = [i \in 1..Len(acts) |-> [principal |-> j,
                        action |-> acts[i].action, resource |-> acts[i].resource]]
  BY <1>2 DEF EventsOf, acts
<1>4. \A i \in 1..Len(acts) :
         /\ acts[i].resource \in Resources
         /\ [principal |-> j, action |-> acts[i].action,
             resource |-> acts[i].resource] \in Event
  BY <1>2, JobsAssumption DEF Event, Act
<1>5. EventsOf(j) \in Seq(Event)
  BY <1>2, <1>3, <1>4
<1>6. EventResources(j) \subseteq Paths
  BY <1>2, <1>4, PathsAssumption DEF EventResources, acts
<1> QED
  BY <1>5, <1>6

-----------------------------------------------------------------------------
(* The authority's types and the trees' types.                             *)

\* A session starts with the invariant: one version, every generation 0.
LEMMA TransactionsStart == TransactionsInit => TransactionsInv
<1> SUFFICES ASSUME TransactionsInit PROVE TransactionsInv
  OBVIOUS
<1>1. <<>> \in Seq(Event)
  OBVIOUS
<1>2. TransactionsTypeOK
  BY <1>1, MaxSeqAssumption DEF TransactionsInit, TransactionsTypeOK, Tree
<1>3. GenerationsCoverChanges
  BY DEF TransactionsInit, GenerationsCoverChanges
<1>4. TreesTaken
  BY DEF TransactionsInit, TreesTaken
<1> QED
  BY <1>2, <1>3, <1>4 DEF TransactionsInv

\* A conclusion that leaves the authority alone keeps the invariant.
LEMMA FinishKeeps ==
    ASSUME TransactionsInv, NEW j \in Jobs, Finish(j), UNCHANGED <<seed, seq, generations>>,
           UNCHANGED versions, past' \in Seq(Event)
    PROVE  TransactionsInv'
<1>1. versions[0] \in Tree /\ 0 \in 0..MaxSeq
  BY MaxSeqAssumption DEF TransactionsInv, TransactionsTypeOK
<1>2. TransactionsTypeOK'
  BY <1>1 DEF TransactionsInv, TransactionsTypeOK, Finish
<1>3. GenerationsCoverChanges'
  BY DEF TransactionsInv, GenerationsCoverChanges
<1>4. TreesTaken'
  BY DEF TransactionsInv, TransactionsTypeOK, TreesTaken, Finish
<1> QED
  BY <1>2, <1>3, <1>4 DEF TransactionsInv

\* A launch takes its tree at the version it notes as base_seq.
LEMMA LaunchKeeps ==
    ASSUME TransactionsInv, NEW j \in Jobs, NEW p \in Plans, Launch(j, p)
    PROVE  TransactionsInv'
<1>1. TransactionsTypeOK'
  <2>1. seq \in 0..seq
    BY MaxSeqAssumption DEF TransactionsInv, TransactionsTypeOK
  <2> QED
    BY <2>1, PlansAssumption DEF TransactionsInv, TransactionsTypeOK, Launch, BaseSeq, authority, ghosts
<1>2. GenerationsCoverChanges'
  BY DEF TransactionsInv, GenerationsCoverChanges, Launch, authority, ghosts
<1>3. TreesTaken'
  <2> SUFFICES ASSUME NEW k \in Jobs
               PROVE  /\ pc'[k] # "idle" => base'[k] <= seq' /\ snap'[k] = versions'[base'[k]]
                      /\ pc'[k] = "running" => work'[k] = snap'[k]
                      /\ pc'[k] = "exited" =>
                            /\ prog'[k] \in Programs
                            /\ \A x \in Paths \ prog'[k].writes : work'[k][x] = snap'[k][x]
    BY DEF TreesTaken
  <2>1. CASE k = j
    <3>1. seq \in Nat
      BY MaxSeqAssumption DEF TransactionsInv, TransactionsTypeOK
    <3> QED
      BY <2>1, <3>1 DEF TransactionsInv, TransactionsTypeOK, GenerationsCoverChanges, Launch, BaseSeq,
        authority, ghosts
  <2>2. CASE k # j
    BY <2>2 DEF TransactionsInv, TransactionsTypeOK, TreesTaken, Launch, authority, ghosts
  <2> QED
    BY <2>1, <2>2
<1> QED
  BY <1>1, <1>2, <1>3 DEF TransactionsInv

\* A command changes its own tree, on the paths it wrote and no others.
LEMMA ExecuteKeeps ==
    ASSUME TransactionsInv, NEW j \in Jobs, NEW program \in Programs, Execute(j, program)
    PROVE  TransactionsInv'
<1>1. PICK written \in [program.writes -> Contents] :
        work' = [work EXCEPT ![j] = [x \in Paths |-> IF x \in program.writes
                                        THEN written[x] ELSE @[x]]]
  BY DEF Execute
<1>2. program.writes \in SUBSET Paths
  BY ProgramType
<1>3. work' \in [Jobs -> Tree]
  BY <1>1, <1>2 DEF TransactionsInv, TransactionsTypeOK, Tree
<1>4. TransactionsTypeOK'
  BY <1>3 DEF TransactionsInv, TransactionsTypeOK, Execute, authority, ghosts
<1>5. GenerationsCoverChanges'
  BY DEF TransactionsInv, GenerationsCoverChanges, Execute, authority, ghosts
<1>6. TreesTaken'
  <2> SUFFICES ASSUME NEW k \in Jobs
               PROVE  /\ pc'[k] # "idle" => base'[k] <= seq' /\ snap'[k] = versions'[base'[k]]
                      /\ pc'[k] = "running" => work'[k] = snap'[k]
                      /\ pc'[k] = "exited" =>
                            /\ prog'[k] \in Programs
                            /\ \A x \in Paths \ prog'[k].writes : work'[k][x] = snap'[k][x]
    BY DEF TreesTaken
  <2>1. CASE k = j
    BY <1>1, <2>1 DEF TransactionsInv, TransactionsTypeOK, TreesTaken, Execute, authority, ghosts
  <2>2. CASE k # j
    BY <1>1, <2>2 DEF TransactionsInv, TransactionsTypeOK, TreesTaken, Execute, authority, ghosts
  <2> QED
    BY <2>1, <2>2
<1> QED
  BY <1>4, <1>5, <1>6 DEF TransactionsInv

-----------------------------------------------------------------------------
(* What a fresh command publishes.                                         *)

\* A path no newer than the snapshot holds what the snapshot holds.
LEMMA FreshPathUnchanged ==
    ASSUME TransactionsInv, NEW j \in Jobs, pc[j] = "exited",
           NEW x \in Paths, ~(generations[x] > base[j])
    PROVE  seed[x] = snap[j][x]
<1>1. generations[x] \in Nat /\ base[j] \in Nat /\ seq \in Nat
  BY MaxSeqAssumption DEF TransactionsInv, TransactionsTypeOK
<1>2. base[j] <= seq /\ snap[j] = versions[base[j]]
  BY DEF TransactionsInv, TreesTaken
<1>3. base[j] \in generations[x]..seq
  BY <1>1, <1>2
<1> QED
  BY <1>2, <1>3 DEF TransactionsInv, GenerationsCoverChanges

\* The diff of a fresh command names only paths the command wrote.
LEMMA FreshOpsAreOwnWrites ==
    ASSUME TransactionsInv, NEW j \in Jobs, pc[j] = "exited", StalePaths(j) = {}
    PROVE  Ops(j) \subseteq prog[j].writes
<1> SUFFICES ASSUME NEW x \in Ops(j), x \notin prog[j].writes PROVE FALSE
  OBVIOUS
<1>1. x \in Paths /\ seed[x] # work[j][x]
  BY DEF Ops
<1>2. work[j][x] = snap[j][x]
  BY <1>1 DEF TransactionsInv, TreesTaken
<1>3. ~(generations[x] > base[j])
  BY DEF StalePaths
<1> QED
  BY <1>1, <1>2, <1>3, FreshPathUnchanged

\* What it declared to depend on, and what its diff covers for it, holds in
\* the live seed as it did in the snapshot.
LEMMA FreshDependenciesHold ==
    ASSUME TransactionsInv, NEW j \in Jobs, pc[j] = "exited", StalePaths(j) = {},
           NEW x \in Observed(j)
    PROVE  x \in Paths /\ seed[x] = snap[j][x]
<1> DEFINE program == prog[j]
<1>1. program \in Programs
  BY DEF TransactionsInv, TreesTaken
<1>2. /\ program.reads \in SUBSET Paths /\ program.gitReads \in SUBSET Paths
      /\ program.blind \in SUBSET Paths /\ program.writes \in SUBSET Paths
  BY <1>1, ProgramType
<1>3. x \in Paths
  BY <1>2 DEF Observed
<1>4. CASE x \in program.reads \intersect Resources
  <2>1. Requests(program, Action, x)
    BY <1>1, <1>4, ProgramsAssumption
  <2>2. x \in EventResources(j)
    BY <2>1 DEF Requests, EventResources
  <2> QED
    BY <1>3, <2>2, FreshPathUnchanged DEF StalePaths
<1>5. CASE x \in program.gitReads
  BY <1>3, <1>5, FreshPathUnchanged DEF StalePaths
<1>6. CASE program.writes # {} /\ x \notin program.writes
  <2>1. work[j][x] = snap[j][x]
    BY <1>3, <1>6 DEF TransactionsInv, TreesTaken
  <2>2. x \notin Ops(j)
    BY <1>6, FreshOpsAreOwnWrites
  <2> QED
    BY <1>3, <1>6, <2>1, <2>2 DEF Ops
<1> QED
  BY <1>3, <1>4, <1>5, <1>6 DEF Observed

\* record_commit moves seq, the seed and the generations together.
LEMMA CommitKeeps ==
    ASSUME TransactionsInv, NEW j \in Jobs, Commit(j)
    PROVE  TransactionsInv'
<1>1. seq' = seq + 1 /\ seq \in Nat /\ seq' \in 0..MaxSeq /\ MaxSeq \in Nat
  BY MaxSeqAssumption DEF TransactionsInv, TransactionsTypeOK, Commit
<1>2. past' \in Seq(Event)
  BY EventsType DEF TransactionsInv, TransactionsTypeOK, Commit
<1>3. seed' \in Tree
  BY DEF TransactionsInv, TransactionsTypeOK, Commit, Tree
<1>4. generations' \in [Paths -> 0..MaxSeq]
  BY <1>1 DEF TransactionsInv, TransactionsTypeOK, Commit, Stamp
<1>5. /\ versions' \in [0..seq' -> Tree]
      /\ versions'[seq'] = seed'
      /\ \A s \in 0..seq : versions'[s] = versions[s]
  <2>1. versions' = [s \in 0..seq' |-> IF s = seq' THEN seed' ELSE versions[s]]
    BY DEF Commit
  <2>2. versions \in [0..seq -> Tree]
    BY DEF TransactionsInv, TransactionsTypeOK
  <2>3. /\ seq' \in 0..seq'
        /\ \A s \in 0..seq' : s # seq' => s \in 0..seq
        /\ \A s \in 0..seq : s \in 0..seq' /\ s # seq'
    BY <1>1
  <2>4. versions' \in [0..seq' -> Tree]
    BY <1>3, <2>1, <2>2, <2>3
  <2> QED
    BY <2>1, <2>3, <2>4
<1>6. TransactionsTypeOK'
  <2>1. versions[0] \in Tree /\ 0 \in 0..MaxSeq
    BY <1>1 DEF TransactionsInv, TransactionsTypeOK
  <2> QED
    BY <1>1, <1>2, <1>3, <1>4, <1>5, <2>1 DEF TransactionsInv, TransactionsTypeOK, Commit, Finish
<1>7. GenerationsCoverChanges'
  <2> SUFFICES ASSUME NEW x \in Paths
               PROVE  /\ generations'[x] <= seq'
                      /\ \A s \in generations'[x]..seq' : versions'[s][x] = seed'[x]
    BY <1>5 DEF GenerationsCoverChanges
  <2>1. CASE x \in Ops(j)
    BY <1>1, <1>5, <2>1 DEF Commit, Stamp
  <2>2. CASE x \notin Ops(j)
    <3>1. generations'[x] = generations[x] /\ seed'[x] = seed[x]
      BY <2>2 DEF Commit, Stamp
    <3>2. generations[x] \in Nat /\ generations[x] <= seq
      BY <1>1 DEF TransactionsInv, TransactionsTypeOK, GenerationsCoverChanges
    <3>3. ASSUME NEW s \in generations[x]..seq' PROVE versions'[s][x] = seed[x]
      <4>1. CASE s = seq'
        BY <1>5, <3>1, <4>1
      <4>2. CASE s # seq'
        <5>1. s \in generations[x]..seq /\ s \in 0..seq
          BY <1>1, <3>2, <4>2
        <5> QED
          BY <1>5, <5>1 DEF TransactionsInv, GenerationsCoverChanges
      <4> QED
        BY <4>1, <4>2
    <3> QED
      BY <1>1, <3>1, <3>2, <3>3
  <2> QED
    BY <2>1, <2>2
<1>8. TreesTaken'
  <2> SUFFICES ASSUME NEW k \in Jobs
               PROVE  /\ pc'[k] # "idle" => base'[k] <= seq' /\ snap'[k] = versions'[base'[k]]
                      /\ pc'[k] = "running" => work'[k] = snap'[k]
                      /\ pc'[k] = "exited" =>
                            /\ prog'[k] \in Programs
                            /\ \A x \in Paths \ prog'[k].writes : work'[k][x] = snap'[k][x]
    BY DEF TreesTaken
  <2>1. CASE k = j
    BY <2>1 DEF TransactionsInv, TransactionsTypeOK, Commit, Finish
  <2>2. CASE k # j
    <3>1. /\ pc'[k] = pc[k] /\ base'[k] = base[k] /\ snap'[k] = snap[k]
          /\ work'[k] = work[k] /\ prog'[k] = prog[k]
      BY <2>2 DEF TransactionsInv, TransactionsTypeOK, Commit, Finish
    <3>2. base[k] \in Nat
      BY <1>1 DEF TransactionsInv, TransactionsTypeOK
    <3> QED
      BY <1>1, <1>5, <3>1, <3>2 DEF TransactionsInv, TreesTaken
  <2> QED
    BY <2>1, <2>2
<1> QED
  BY <1>6, <1>7, <1>8 DEF TransactionsInv

\* The invariant is inductive: one step for each action of Next.
LEMMA NextKeeps == TransactionsInv /\ [TransactionsNext]_tvars => TransactionsInv'
<1> SUFFICES ASSUME TransactionsInv, [TransactionsNext]_tvars PROVE TransactionsInv'
  OBVIOUS
<1>1. ASSUME NEW j \in Jobs, NEW p \in Plans, Launch(j, p) PROVE TransactionsInv'
  BY <1>1, LaunchKeeps
<1>2. ASSUME NEW j \in Jobs, NEW program \in Programs, Execute(j, program)
      PROVE  TransactionsInv'
  BY <1>2, ExecuteKeeps
<1>3. ASSUME NEW j \in Jobs,
             RollBack(j) \/ CommitNothing(j) \/ RefuseStale(j)
                \/ RefuseDenied(j) \/ Escape(j)
      PROVE  TransactionsInv'
  <2>1. Finish(j) /\ UNCHANGED <<authority, ghosts>>
    BY <1>3 DEF RollBack, CommitNothing, RefuseStale, RefuseDenied, Escape
  <2> QED
    BY <2>1, FinishKeeps DEF authority, ghosts, TransactionsInv, TransactionsTypeOK
<1>4. ASSUME NEW j \in Jobs, Commit(j) PROVE TransactionsInv'
  BY <1>4, CommitKeeps
<1>5. ASSUME NEW j \in Jobs, Bypassed(j) PROVE TransactionsInv'
  <2>1. past' \in Seq(Event)
    BY <1>5, EventsType DEF Bypassed, TransactionsInv, TransactionsTypeOK
  <2> QED
    BY <1>5, <2>1, FinishKeeps DEF Bypassed
<1>6. CASE UNCHANGED tvars
  BY <1>6 DEF tvars, authority, jobs, ghosts, TransactionsInv, TransactionsTypeOK,
              GenerationsCoverChanges, TreesTaken
<1> QED
  BY <1>1, <1>2, <1>3, <1>4, <1>5, <1>6 DEF TransactionsNext

\* Every variable keeps its type, generations never miss a change, and a
\* running command's tree is the version its base_seq names.
THEOREM Invariance == TransactionsSpec => []TransactionsInv
<1> QED
  BY TransactionsStart, NextKeeps, PTL DEF TransactionsSpec

\* The staleness check rests on generations, which never miss a change.
THEOREM GenerationsExact == TransactionsSpec => []GenerationsCoverChanges
<1>1. TransactionsInv => GenerationsCoverChanges
  BY DEF TransactionsInv
<1> QED
  BY <1>1, Invariance, PTL

-----------------------------------------------------------------------------
(* Refinement.                                                             *)

\* A publication is one run of its command on the live seed.
LEMMA CommitIsARun ==
    ASSUME TransactionsInv, NEW j \in Jobs, Commit(j)
    PROVE  Serial!Run(j, Observed(j), prog[j].writes)
<1> DEFINE W == prog[j].writes
           wrote == [x \in W |-> work[j][x]]
<1>1. pc[j] = "exited" /\ StalePaths(j) = {}
  BY DEF Commit, Concluding
<1>2. W \in SUBSET Paths
  BY ProgramType DEF TransactionsInv, TransactionsTypeOK
<1>3. wrote \in [W -> Contents]
  BY <1>2 DEF TransactionsInv, TransactionsTypeOK, Tree
<1>4. seed' = [x \in Paths |-> IF x \in W THEN wrote[x] ELSE seed[x]]
  <2>1. ASSUME NEW x \in Paths
        PROVE  (IF x \in Ops(j) THEN work[j][x] ELSE seed[x])
                  = (IF x \in W THEN wrote[x] ELSE seed[x])
    <3>1. CASE x \in Ops(j)
      BY <1>1, <3>1, FreshOpsAreOwnWrites
    <3>2. CASE x \notin Ops(j) /\ x \in W
      BY <2>1, <3>2 DEF Ops
    <3>3. CASE x \notin W
      BY <1>1, <3>3, FreshOpsAreOwnWrites
    <3> QED
      BY <3>1, <3>2, <3>3
  <2> QED
    BY <2>1 DEF Commit
<1>5. [x \in Observed(j) |-> snap[j][x]] = [x \in Observed(j) |-> seed[x]]
  BY <1>1, FreshDependenciesHold
<1>6. last' = [job |-> j, observed |-> [x \in Observed(j) |-> seed[x]],
               wrote |-> wrote]
  BY <1>5 DEF Commit
<1> QED
  BY <1>3, <1>4, <1>6 DEF Serial!Run

\* Published commands are serializable in the order of their sequence
\* numbers, for every set of jobs, paths, contents and programs.
THEOREM Serializable == TransactionsSpec => ImplementsSerialSeed
<1>1. TransactionsInit => Serial!Init
  BY DEF TransactionsInit, Serial!Init, Tree
<1>2. TransactionsInv /\ [TransactionsNext]_tvars => [Serial!Next]_(Serial!vars)
  <2> SUFFICES ASSUME TransactionsInv, [TransactionsNext]_tvars
               PROVE  Serial!Next \/ UNCHANGED <<seed, last>>
    BY DEF Serial!vars
  <2>1. ASSUME NEW j \in Jobs, Commit(j) PROVE Serial!Next
    <3>1. Observed(j) \in SUBSET Paths /\ prog[j].writes \in SUBSET Paths
      BY <2>1, ProgramType, FreshDependenciesHold
         DEF TransactionsInv, TransactionsTypeOK, Commit, Concluding
    <3> QED
      BY <2>1, <3>1, CommitIsARun DEF Serial!Next
  <2>2. ASSUME NEW j \in Jobs, ~Commit(j),
               \/ \E p \in Plans : Launch(j, p)
               \/ \E program \in Programs : Execute(j, program)
               \/ RollBack(j) \/ CommitNothing(j) \/ RefuseStale(j)
               \/ RefuseDenied(j) \/ Escape(j) \/ Bypassed(j)
        PROVE  UNCHANGED <<seed, last>>
    BY <2>2 DEF Launch, Execute, RollBack, CommitNothing, RefuseStale,
                RefuseDenied, Escape, Bypassed, authority, ghosts
  <2>3. CASE UNCHANGED tvars
    BY <2>3 DEF tvars, authority, ghosts
  <2> QED
    BY <2>1, <2>2, <2>3 DEF TransactionsNext
<1> QED
  BY <1>1, <1>2, Invariance, PTL DEF TransactionsSpec, ImplementsSerialSeed, Serial!Spec

-----------------------------------------------------------------------------
(* Nobody's dirty resource is overwritten.                                 *)

\* The rules deny to others every event that changes a dirty resource.
LEMMA DirtDenied ==
    ASSUME NEW h \in Seq(Event), NEW e \in Event, NEW q \in Principals,
           UnstagedSelf(h, q, e.resource), e.principal # q,
           e.action \notin {"read", "diff", "history"}
    PROVE  Denied(h, e)
<1> DEFINE rule == <<e.action, "unstaged other">>
<1>1. rule \in GitRules
  BY DEF GitRules, EditAndCheckoutRowRules, StageRowRules, StashRowRules,
         UnstageRowRules, CommitRowRules, DeleteAndCleanRowRules, Event, Action
<1>2. UnstagedOther(h, e.principal, e.resource)
  BY DEF UnstagedSelf, UnstagedOther, LastStateChange, EditUnstageOnROnP,
         EditUnstageOnRNotP, Event
<1> QED
  BY <1>1, <1>2 DEF Denied, InLanguage

\* A resource stays dirty behind events that are stable for its row.
LEMMA DirtBehind ==
    ASSUME NEW h \in Seq(Event), NEW c \in Seq(Event),
           NEW q \in Principals, NEW r \in Resources, UnstagedSelf(h, q, r),
           \A i \in 1..Len(c) : c[i] \in ReadOnlyNotR(r)
    PROVE  UnstagedSelf(h \o c, q, r)
<1> DEFINE hc == h \o c
<1>1. /\ DOMAIN h = 1..Len(h) /\ Len(h) \in Nat /\ Len(c) \in Nat
      /\ DOMAIN hc = 1..(Len(h) + Len(c))
      /\ \A i \in 1..Len(h) : hc[i] = h[i]
      /\ \A i \in 1..Len(c) : hc[Len(h) + i] = c[i]
  OBVIOUS
<1>2. PICK i \in DOMAIN h :
        /\ h[i] \in EditUnstageOnROnP(q, r)
        /\ \A j \in DOMAIN h : j > i => h[j] \in ReadOnlyNotR(r)
  BY DEF UnstagedSelf, LastStateChange
<1>3. ASSUME NEW j \in DOMAIN hc, j > i
      PROVE  hc[j] \in ReadOnlyNotR(r)
  <2>1. CASE j <= Len(h)
    BY <1>1, <1>2, <1>3, <2>1
  <2>2. CASE j > Len(h)
    <3>1. PICK k \in 1..Len(c) : j = Len(h) + k
      <4>1. j - Len(h) \in 1..Len(c) /\ j = Len(h) + (j - Len(h))
        BY <1>1, <2>2
      <4> QED
        BY <4>1
    <3> QED
      BY <1>1, <3>1
  <2> QED
    BY <1>1, <2>1, <2>2
<1>4. i \in DOMAIN hc /\ hc[i] = h[i]
  BY <1>1
<1> HIDE DEF hc
<1>5. UnstagedSelf(hc, q, r)
  BY <1>2, <1>3, <1>4 DEF UnstagedSelf, LastStateChange
<1> QED
  BY <1>5 DEF hc

\* The first event of another's command that changes q's dirty resource would
\* be denied, as the resource is dirty until then (check_events).
LEMMA DirtThroughout ==
    ASSUME NEW h \in Seq(Event), NEW c \in Seq(Event),
           \A k \in 1..Len(c) : ~Denied(h \o SubSeq(c, 1, k - 1), c[k]),
           NEW q \in Principals, NEW r \in Resources, UnstagedSelf(h, q, r),
           \A k \in 1..Len(c) : c[k].principal # q
    PROVE  \A k \in 1..Len(c) :
              c[k].resource # r \/ c[k].action \in {"read", "diff", "history"}
<1> DEFINE spares(e) == e.resource # r \/ e.action \in {"read", "diff", "history"}
           changes == {k \in 1..Len(c) : ~spares(c[k])}
<1> SUFFICES ASSUME changes # {} PROVE FALSE
  OBVIOUS
<1>1. changes \in SUBSET Nat
  OBVIOUS
<1>2. PICK k \in changes : \A l \in changes : k <= l
  <2> HIDE DEF changes
  <2> QED
    BY <1>1, LeastNatural
<1>3. k \in 1..Len(c) /\ ~spares(c[k]) /\ c[k] \in Event
  BY <1>2
<1> DEFINE earlier == SubSeq(c, 1, k - 1)
<1>4. /\ earlier \in Seq(Event) /\ Len(earlier) = k - 1
      /\ \A i \in 1..(k - 1) : earlier[i] = c[i]
  BY <1>3
<1>5. ASSUME NEW i \in 1..(k - 1) PROVE c[i] \in ReadOnlyNotR(r)
  <2>1. i \in 1..Len(c) /\ ~(k <= i)
    BY <1>3
  <2>2. spares(c[i]) /\ c[i] \in Event
    BY <1>2, <2>1
  <2> QED
    BY <2>2 DEF ReadOnlyNotR
<1> HIDE DEF earlier
<1>6. UnstagedSelf(h \o earlier, q, r) /\ h \o earlier \in Seq(Event)
  BY <1>4, <1>5, DirtBehind
<1>7. ~Denied(h \o earlier, c[k]) /\ c[k].principal # q
  BY <1>3 DEF earlier
<1> QED
  BY <1>3, <1>6, <1>7, DirtDenied

\* A command that passes has no event but reads on a resource another principal
\* has dirty (check_events).
LEMMA PassesSparesDirt ==
    ASSUME TransactionsInv, NEW j \in Jobs, Passes(j), NEW q \in Principals, j # q,
           NEW r \in Resources, UnstagedSelf(past, q, r)
    PROVE  ~Requests(prog[j], Mutating, r)
<1> DEFINE c == EventsOf(j)
<1>1. past \in Seq(Event) /\ c \in Seq(Event)
  BY EventsType DEF TransactionsInv, TransactionsTypeOK
<1>2. DOMAIN c = DOMAIN prog[j].acts /\ DOMAIN c = 1..Len(c)
  BY <1>1 DEF EventsOf
<1>3. \A k \in 1..Len(c) : ~Denied(past \o SubSeq(c, 1, k - 1), c[k])
  BY <1>2 DEF Passes
<1>4. \A k \in 1..Len(c) : /\ c[k].principal = j
                           /\ c[k].resource = prog[j].acts[k].resource
                           /\ c[k].action = prog[j].acts[k].action
  BY <1>2 DEF EventsOf
<1> HIDE DEF c
<1>5. \A k \in 1..Len(c) : c[k].principal # q
  BY <1>4
<1>6. \A k \in 1..Len(c) :
         c[k].resource # r \/ c[k].action \in {"read", "diff", "history"}
  BY <1>1, <1>3, <1>5, DirtThroughout
<1> QED
  BY <1>2, <1>4, <1>6 DEF Requests, Mutating

\* A publication leaves the content of another principal's dirty resource
\* alone, but for a write no event stands for: its diff names only what the
\* command wrote, and the rules deny the event of any other write.
LEMMA CommitSparesDirt ==
    ASSUME TransactionsInv, NEW j \in Jobs, Commit(j), NEW q \in Principals,
           NEW r \in Resources, UnstagedSelf(past, q, r), seed'[r] # seed[r]
    PROVE  j = q \/ r \in Unannounced(prog[j])
<1>1. pc[j] = "exited" /\ StalePaths(j) = {} /\ Passes(j)
  BY DEF Commit, Concluding
<1>2. r \in prog[j].writes
  <2>1. r \in Paths
    BY PathsAssumption
  <2>2. r \in Ops(j)
    BY <2>1 DEF Commit
  <2> QED
    BY <1>1, <2>2, FreshOpsAreOwnWrites
<1>3. j = q \/ ~Requests(prog[j], Mutating, r)
  BY <1>1, PassesSparesDirt
<1> QED
  BY <1>2, <1>3 DEF Unannounced

\* A publication changes a resource that another principal holds dirty only
\* where the command itself wrote it and no event says so: never by way of an
\* event, and never because its tree is older than the seed (check_events,
\* diff_trees).
THEOREM DirtIsNotClobbered == TransactionsSpec => NoClobber
<1>1. TransactionsInv /\ [TransactionsNext]_tvars =>
        [\A q \in Principals, r \in Resources :
            UnstagedSelf(past, q, r) /\ seed'[r] # seed[r]
               => \/ last'.job = q
                  \/ r \in Unannounced(prog[last'.job])]_tvars
  <2> SUFFICES ASSUME TransactionsInv, TransactionsNext, NEW q \in Principals, NEW r \in Resources,
                      UnstagedSelf(past, q, r), seed'[r] # seed[r]
               PROVE  last'.job = q \/ r \in Unannounced(prog[last'.job])
    OBVIOUS
  <2>1. PICK j \in Jobs : Commit(j)
    BY DEF TransactionsNext, Launch, Execute, RollBack, CommitNothing, RefuseStale,
           RefuseDenied, Escape, Bypassed, authority
  <2>2. j = q \/ r \in Unannounced(prog[j])
    BY <2>1, CommitSparesDirt
  <2>3. last'.job = j
    BY <2>1 DEF Commit
  <2> QED
    BY <2>2, <2>3
<1> QED
  BY <1>1, Invariance, PTL DEF TransactionsSpec, NoClobber
=============================================================================
