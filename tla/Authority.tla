----------------------------- MODULE Authority -----------------------------
(***************************************************************************)
(* The central capability authority (src/shellmux/src/authority.rs) as     *)
(* every principal meets it: one history, one command's events checked at  *)
(* a time under the authority's write lock, a denied command truncated     *)
(* away, and the history reconciled with the seed's git state when a       *)
(* session restarts (src/shellmux/src/reconcile.rs).                       *)
(*                                                                         *)
(* check_events is modelled event by event, because an event is judged     *)
(* against the granted prefix of its own command.                          *)
(***************************************************************************)
EXTENDS GitPolicy, FiniteSets

CONSTANTS
    Commands,       \* event sequences a command may request
    NoReader,       \* no principal holds the read claim
    MaxHistory      \* bound: events ever granted

ASSUME CommandsAssumption ==
    /\ Commands \subseteq Seq(Event)
    /\ \A c \in Commands :
          /\ c # <<>>
          /\ \A i \in DOMAIN c : c[i].principal = c[1].principal
ASSUME NoReaderAssumption == NoReader \notin Principals
ASSUME RowNamesAssumption == Principals \intersect {"clean", "staged"} = {}
ASSUME MaxHistoryAssumption == MaxHistory \in Nat

VARIABLES
    history,        \* AuthorityState::history, the policy's input
    log,            \* the events in history.jsonl, never rewritten
    committed,      \* the history as the command being checked found it
    pending,        \* its events still to be decided; empty when none is
    denied          \* whether one of its events was denied

vars == <<history, log, committed, pending, denied>>

TypeOK ==
    /\ history \in Seq(Event)
    /\ log \in Seq(Event)
    /\ committed \in Seq(Event)
    /\ pending \in Seq(Event)
    /\ denied \in BOOLEAN
    /\ denied => pending # <<>>

Init ==
    /\ history = <<>>
    /\ log = <<>>
    /\ committed = <<>>
    /\ pending = <<>>
    /\ denied = FALSE

Idle == pending = <<>>

\* The write lock is taken and the history's length noted.
Submit(command) ==
    /\ Idle
    /\ Len(log) + Len(command) <= MaxHistory
    /\ committed' = history
    /\ pending' = command
    /\ UNCHANGED <<history, log, denied>>

\* What a command leaves in the history once its last event is decided.
TruncateNever(h, before, refused) == h

Truncate(h, before, refused) == IF refused THEN before ELSE h

\* The denials gathered so far, of which the next command finds none.
Denials(refused, last) == refused /\ ~last

\* One turn of check_events' loop.  A denied event is not appended and the
\* scan goes on.  After the last one the caller truncates the history or
\* appends the command to the log, and releases the lock.
Decide ==
    /\ ~Idle
    /\ LET e == Head(pending)
           granted == ~Denied(history, e)
           refused == denied \/ ~granted
           checked == IF granted THEN Append(history, e) ELSE history
           last == Tail(pending) = <<>>
       IN  /\ denied' = Denials(refused, last)
           /\ history' = IF last THEN Truncate(checked, committed, refused)
                                 ELSE checked
           /\ log' = IF last /\ ~refused
                     THEN log \o SubSeq(checked, Len(committed) + 1, Len(checked))
                     ELSE log
           /\ committed' = IF last THEN <<>> ELSE committed
    /\ pending' = Tail(pending)

-----------------------------------------------------------------------------
(* Restart: history::load and reconcile.                                   *)

\* The row decided by an event: reconcile.rs, row_of.
Row(e) == IF e.action \in {"edit", "unstage"} THEN "unstaged"
          ELSE IF e.action \in {"stage", "delete"} THEN "staged"
          ELSE "none"

\* Whether the claim event i of h makes is kept.  The seed's git state, which
\* the policy does not see, may or may not show a resource dirty the way the
\* row says; no state corroborates a read.
Corroborated(h, i, shown) == Row(h[i]) # "none" /\ h[i].resource \in shown

\* Positions 1..n of the retained history, in the order of the log.
InOrder(g) == \A a, b \in DOMAIN g : a < b => g[a] < g[b]

\* The whole log is loaded and reduced to the active claims that the seed
\* corroborates; what an earlier restart dropped is looked at again.
Restart ==
    /\ Idle
    /\ \E shown \in SUBSET Resources :
          LET kept == {i \in ActiveGitCapabilityIndices(log) :
                          Corroborated(log, i, shown)}
          IN  \E g \in [1..Cardinality(kept) -> kept] :
                 /\ InOrder(g)
                 /\ history' = [k \in 1..Cardinality(kept) |-> log[g[k]]]
    /\ UNCHANGED <<log, committed, pending, denied>>

Next == (\E command \in Commands : Submit(command)) \/ Decide \/ Restart

Spec == Init /\ [][Next]_vars

-----------------------------------------------------------------------------
(* Properties.                                                             *)

RowLanguages == {"clean", "staged", "unstaged self", "unstaged other"}

\* The row languages of languages.rs classify every history the authority can
\* hold: for each principal and resource exactly one of clean, staged, dirty
\* by the principal and dirty by another holds.  rules.rs orders its cells on
\* the strength of it.
RowsPartition ==
    \A p \in Principals, r \in Resources :
        \E row \in RowLanguages :
            /\ InLanguage(history, p, r, row)
            /\ \A other \in RowLanguages \ {row} :
                  ~InLanguage(history, p, r, other)

\* active_git_capability_indices keeps all the policy looks at: the retained
\* claims are in each language of the rules exactly when the whole history is,
\* so they decide every candidate alike.  Diagnostics and reconcile rely on it.
ProjectionDecides ==
    LET I == ActiveGitCapabilityIndices(history)
        Nth(k) == CHOOSE i \in I : Cardinality({j \in I : j <= i}) = k
        projected == [k \in 1..Cardinality(I) |-> history[Nth(k)]]
    IN  \A p \in Principals, r \in Resources,
           language \in RowLanguages \union {"read claimed other"} :
              InLanguage(projected, p, r, language) <=> InLanguage(history, p, r, language)

\* What q last learnt of r is still what q believes: q read or edited it, has
\* not let go of it since, and nobody else has read it since.
Views(h, q, r) ==
    \E k \in DOMAIN h :
        /\ h[k].resource = r
        /\ h[k].principal = q
        /\ h[k].action \in {"read", "edit"}
        /\ \A j \in DOMAIN h :
              j > k /\ h[j].resource = r =>
                 /\ h[j].action = "read" => h[j].principal = q
                 /\ h[j].principal = q =>
                       h[j].action \notin {"stage", "delete", "commit",
                                           "checkout", "stash"}

\* The events that can change what a working-tree file holds.
Rewrites == {"edit", "delete", "checkout", "stash"}

\* The no-surprise oracle of marsh-trace/src/oracle.rs: no event is granted
\* that rewrites a file of which another principal holds a view.
NoSurprise ==
    [][\A e \in Event :
         /\ ~Idle /\ e = Head(pending)
         /\ history' = Append(history, e)
         /\ e.action \in Rewrites
         => \A q \in Principals \ {e.principal} : ~Views(history, q, e.resource)]_vars

\* A principal's dirty resource leaves its hands only by its own event or by
\* a restart, never by another principal's command (rules 1, 2, 5, 8, 9, 14,
\* 17 of rules.rs).
OwnerKeepsDirt ==
    [][\A q \in Principals, r \in Resources :
         /\ UnstagedSelf(history, q, r)
         /\ ~Idle
         /\ Head(pending).principal # q
         => UnstagedSelf(history', q, r)]_vars

\* The rows and read claims the committed history stands for.
TableRow(h) ==
    [r \in Resources |->
        IF StagedRow(h, r) THEN "staged"
        ELSE IF \E p \in Principals : UnstagedSelf(h, p, r)
        THEN CHOOSE p \in Principals : UnstagedSelf(h, p, r)
        ELSE "clean"]

TableReader(h) ==
    [r \in Resources |->
        IF \E p \in Principals : HoldsRead(h, p, r)
        THEN CHOOSE p \in Principals : HoldsRead(h, p, r)
        ELSE NoReader]

Granted == IF Idle THEN history ELSE committed

Table == INSTANCE RowTable WITH row <- TableRow(Granted),
                                reader <- TableReader(Granted),
                                logged <- TableRow(log)

\* check_events and the rollback of a denied command implement the row table:
\* a command moves it by all of its events or by none, each legal after the
\* ones before it, and a restart only releases rows or takes logged ones up.
ImplementsRowTable == Table!Spec
=============================================================================
