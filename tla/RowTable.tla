------------------------------ MODULE RowTable ------------------------------
(***************************************************************************)
(* What the git policy promises, without a history: every resource is in   *)
(* one row (clean, staged, or dirty in the hands of one principal) and at  *)
(* most one principal holds the read claim on it.  A command's events are  *)
(* applied all together or not at all, and a restart may release rows but  *)
(* never hands one to another principal.                                   *)
(*                                                                         *)
(* The implementation decides from past-regexes over an append-only        *)
(* history; Authority states the refinement.                               *)
(***************************************************************************)
EXTENDS Naturals, Sequences

CONSTANTS
    Principals,
    Resources,
    Commands,       \* the event sequences that may be submitted
    NoReader        \* no principal holds the read claim

VARIABLES
    row,            \* "clean", "staged", or the principal it is dirty for
    logged,         \* the row with no release: what the durable log says
    reader          \* the principal that read the resource last

vars == <<row, logged, reader>>

Settles == {"commit", "checkout", "stash"}
NeedsClaim == {"edit", "delete", "clean", "checkout", "stash"}

\* What each action asks of the row; the other actions ask nothing.
RowAllows(o, e) ==
    LET foreign == o \notin {"clean", "staged", e.principal}
    IN  /\ e.action \in {"edit", "checkout", "clean"} => ~foreign
        /\ e.action \in {"stage", "stash"} => o = e.principal
        /\ e.action \in {"unstage", "commit"} => o = "staged"
        /\ e.action = "delete" => o = "clean"

Legal(t, e) ==
    /\ RowAllows(t.row[e.resource], e)
    /\ e.action \in NeedsClaim =>
          t.reader[e.resource] \in {NoReader, e.principal}

Apply(t, e) ==
    [row |-> [t.row EXCEPT ![e.resource] =
                 CASE e.action \in {"edit", "unstage"} -> e.principal
                   [] e.action \in {"stage", "delete"} -> "staged"
                   [] e.action \in Settles -> "clean"
                   [] OTHER -> @],
     reader |-> [t.reader EXCEPT ![e.resource] =
                    IF e.action = "read" THEN e.principal ELSE @]]

\* The table after the first i events of a command.
After(t, command) ==
    LET f[i \in 0..Len(command)] ==
            IF i = 0 THEN t ELSE Apply(f[i - 1], command[i])
    IN  f

Init ==
    /\ row = [r \in Resources |-> "clean"]
    /\ logged = row
    /\ reader = [r \in Resources |-> NoReader]

\* A whole command, every event legal after the events before it.  A row that
\* an event moves is the logged row again.
Grant(command) ==
    LET f == After([row |-> row, reader |-> reader], command)
        n == Len(command)
        moved == {r \in Resources : \E i \in 1..n :
                     /\ command[i].resource = r
                     /\ command[i].action \in
                           {"edit", "unstage", "stage", "delete"} \union Settles}
    IN  /\ \A i \in 1..n : Legal(f[i - 1], command[i])
        /\ row' = f[n].row
        /\ reader' = f[n].reader
        /\ logged' = [r \in Resources |->
                         IF r \in moved THEN f[n].row[r] ELSE logged[r]]

\* A restart: the rows the seed still shows are taken from the log.
Release ==
    /\ \E shown \in SUBSET Resources :
          row' = [r \in Resources |-> IF r \in shown THEN logged[r] ELSE "clean"]
    /\ reader' = [r \in Resources |-> NoReader]
    /\ UNCHANGED logged

Next == (\E command \in Commands : Grant(command)) \/ Release

Spec == Init /\ [][Next]_vars
=============================================================================
