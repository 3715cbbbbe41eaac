------------------------------- MODULE Bypass -------------------------------
(***************************************************************************)
(* The learned purity checker and the trees it sends commands to:          *)
(* plan_for, observe, withdraw and conclude_bypass of mux.rs with          *)
(* LearnedPurity of purity.rs, composed with ReaderTrees.                  *)
(*                                                                         *)
(* The verdict map is changed under its own lock and the line recording    *)
(* the change is appended after letting go of it, under another one, so    *)
(* two conclusions of one command line may append in the other order.  A   *)
(* failed append is reported and the session goes on; half a line may be   *)
(* left behind.                                                            *)
(***************************************************************************)
EXTENDS ReaderTrees

CONSTANTS
    Keys,           \* command lines, with the directory they are run in
    AppendFaults,   \* bound: appends of meta/purity.jsonl that fail
    Kills,          \* bound: escaped commands stopped by force
    Restarts        \* bound: sessions after the first

ASSUME KeysAssumption == Keys # {}

VARIABLES
    plan,           \* Plan of each command, and whether it was withdrawn
    key,            \* what each command runs
    known,          \* [Keys -> whether the map holds the verdict Pure]
    due,            \* verdict each command has yet to append, or "none"
    lines,          \* meta/purity.jsonl, the last record of each key
    torn,           \* whether it ends in half a line
    corrupt,        \* whether it holds a complete line that does not parse
    seen,           \* what the last concluded run of each key showed
    behind,         \* keys of which a record was lost or overtaken
    shared,         \* versions an escapee left to other readers
    unseen,         \* versions an escapee left without evidence
    faults, kills, restarts

learned == <<known, due, lines, torn, corrupt, seen, behind>>
bounds == <<faults, kills, restarts>>
trees == <<shared, unseen>>
bvars == <<vars, plan, key, learned, trees, bounds>>

Verdicts == {"pure", "sandboxed"}
Lasting == [Keys -> Verdicts]

BypassTypeOK ==
    /\ TypeOK
    /\ plan \in [Readers -> {"none", "bypass", "transaction", "recording", "withdrawn"}]
    /\ key \in [Readers -> Keys]
    /\ known \in Lasting /\ lines \in Lasting /\ seen \in Lasting
    /\ due \in [Readers -> Verdicts \union {"none"}]
    /\ torn \in BOOLEAN /\ corrupt \in BOOLEAN
    /\ behind \subseteq Keys
    /\ shared \subseteq Versions /\ unseen \subseteq Versions

BypassInit ==
    /\ Init
    /\ plan = [j \in Readers |-> "none"]
    /\ key = [j \in Readers |-> CHOOSE k \in Keys : TRUE]
    /\ known = [k \in Keys |-> "sandboxed"]
    /\ lines = known /\ seen = known
    /\ due = [j \in Readers |-> "none"]
    /\ torn = FALSE /\ corrupt = FALSE
    /\ behind = {} /\ shared = {} /\ unseen = {}
    /\ faults = 0 /\ kills = 0 /\ restarts = 0

-----------------------------------------------------------------------------
(* The checker.                                                            *)

\* plan_for; Launch is a step of its own, so the verdict may change between.
PlanFor(j, k) ==
    /\ plan[j] = "none" /\ pc[j] = "idle"
    /\ key' = [key EXCEPT ![j] = k]
    /\ plan' = [plan EXCEPT ![j] =
                   IF known[k] = "pure" THEN "bypass" ELSE "transaction"]
    /\ UNCHANGED <<vars, learned, trees, bounds>>

\* Only a pure verdict reaches the map.
ObservePureOnly(j, v) ==
    LET k == key[j]
    IN  /\ seen' = [seen EXCEPT ![k] = v]
        /\ known' = [known EXCEPT ![k] = IF v = "pure" THEN v ELSE @]
        /\ due' = [due EXCEPT ![j] = IF known[k] = v THEN "none" ELSE v]
        /\ UNCHANGED <<lines, torn, corrupt, behind>>

\* LearnedPurity::observe up to the append: only a changed answer is recorded.
Observe(j, v) ==
    LET k == key[j]
    IN  /\ seen' = [seen EXCEPT ![k] = v]
        /\ known' = [known EXCEPT ![k] = v]
        /\ due' = [due EXCEPT ![j] = IF known[k] = v THEN "none" ELSE v]
        /\ UNCHANGED <<lines, torn, corrupt, behind>>

\* Others with a record of j's key still to append.
Pending(j) == {i \in Readers \ {j} : due[i] # "none" /\ key[i] = key[j]}

\* The append of what Observe left due.  Half a line is completed by the next
\* append of the session into one that does not parse.
Append(j) ==
    /\ due[j] # "none"
    /\ due' = [due EXCEPT ![j] = "none"]
    /\ plan' = [plan EXCEPT ![j] = IF @ = "recording" THEN "none" ELSE @]
    /\ \/ /\ ~torn
          /\ lines' = [lines EXCEPT ![key[j]] = due[j]]
          /\ behind' = IF known[key[j]] = due[j] /\ Pending(j) = {}
                       THEN behind \ {key[j]} ELSE behind \union {key[j]}
          /\ UNCHANGED <<torn, corrupt, faults>>
       \/ /\ torn
          /\ torn' = FALSE /\ corrupt' = TRUE
          /\ behind' = behind \union {key[j]}
          /\ UNCHANGED <<lines, faults>>
       \/ /\ faults < AppendFaults
          /\ faults' = faults + 1
          /\ torn' \in {torn, TRUE}
          /\ behind' = behind \union {key[j]}
          /\ UNCHANGED <<lines, corrupt>>
    /\ UNCHANGED <<vars, key, known, seen, trees, kills, restarts>>

-----------------------------------------------------------------------------
(* Commands.                                                               *)

\* conclude of a traced transaction, whatever else it comes to.
ConcludeTraced(j, v) ==
    /\ plan[j] = "transaction"
    /\ Observe(j, v)
    /\ plan' = [plan EXCEPT ![j] = IF due'[j] = "none" THEN "none" ELSE "recording"]
    /\ UNCHANGED <<vars, key, trees, bounds>>

\* The lease of a bypassed command, and what it does with the tree.
Bypassed(j) ==
    /\ plan[j] = "bypass"
    /\ \/ Acquire(j) \/ Escape(j) \/ Release(j) \/ DeleteReleased(j)
    /\ shared' = {v \in shared : tree'[v] # "none"}
    /\ unseen' = {v \in unseen : tree'[v] # "none"}
    /\ UNCHANGED <<plan, key, learned, bounds>>

\* A launch that fails leaves nothing to conclude.
LaunchResolved(j) ==
    /\ plan[j] = "bypass" /\ Resolve(j)
    /\ plan' = [plan EXCEPT ![j] = IF pc'[j] = "idle" THEN "none" ELSE @]
    /\ UNCHANGED <<key, learned, trees, bounds>>

\* conclude_bypass of a run that only read.
ConcludeRead(j) ==
    /\ plan[j] = "bypass" /\ Conclude(j)
    /\ plan' = [plan EXCEPT ![j] = "none"]
    /\ UNCHANGED <<key, learned, trees, bounds>>

\* A run without evidence, stopped by force: nothing is translated.
ConcludeKilled(j) ==
    /\ plan[j] = "bypass" /\ pc[j] = "released" /\ wrote[j]
    /\ kills < Kills
    /\ kills' = kills + 1
    /\ pc' = [pc EXCEPT ![j] = "idle"]
    /\ plan' = [plan EXCEPT ![j] = "none"]
    /\ unseen' = unseen \union {version[j]}
    /\ UNCHANGED <<seq, readers, tree, version, wrote, key, learned, shared,
                   faults, restarts>>

\* conclude_bypass of an escapee: the verdict is withdrawn, and the tree
\* discarded once the withdrawal was appended.
Withdraw(j) ==
    /\ plan[j] = "bypass" /\ pc[j] = "released" /\ wrote[j]
    /\ Observe(j, "sandboxed")
    /\ plan' = [plan EXCEPT ![j] = "withdrawn"]
    /\ UNCHANGED <<vars, key, trees, bounds>>

DiscardTree(j) ==
    /\ plan[j] = "withdrawn" /\ due[j] = "none"
    /\ Discard(j)
    /\ plan' = [plan EXCEPT ![j] = IF pc'[j] = "idle" THEN "none" ELSE @]
    /\ shared' = IF readers[version[j]] \in Nat \ {0}
                 THEN shared \union {version[j]} ELSE shared
    /\ UNCHANGED <<key, learned, unseen, bounds>>

DeleteTree(j) ==
    /\ plan[j] = "withdrawn" /\ DeleteDiscarded(j)
    /\ plan' = [plan EXCEPT ![j] = "none"]
    /\ shared' = shared \ {version[j]}
    /\ unseen' = unseen \ {version[j]}
    /\ UNCHANGED <<key, learned, bounds>>

\* A transaction is published.
Publish == Commit /\ UNCHANGED <<plan, key, learned, trees, bounds>>

\* The session dies and the next one restores the log: half a line is cut
\* off, the last record of a key stands, every tree is swept.  A complete
\* line that does not parse refuses the session.
Restart ==
    /\ restarts < Restarts /\ ~corrupt
    /\ restarts' = restarts + 1
    /\ readers' = [v \in Versions |-> Unlisted]
    /\ tree' = [v \in Versions |-> "none"]
    /\ pc' = [j \in Readers |-> "idle"]
    /\ plan' = [j \in Readers |-> "none"]
    /\ due' = [j \in Readers |-> "none"]
    /\ behind' = behind \union {key[j] : j \in {i \in Readers : due[i] # "none"}}
    /\ known' = lines
    /\ torn' = FALSE /\ shared' = {} /\ unseen' = {}
    /\ UNCHANGED <<seq, version, wrote, key, lines, corrupt, seen, faults, kills>>

BypassNext ==
    \/ Publish
    \/ Restart
    \/ \E j \in Readers :
          \/ \E k \in Keys : PlanFor(j, k)
          \/ Append(j)
          \/ \E v \in Verdicts : ConcludeTraced(j, v)
          \/ Bypassed(j)
          \/ LaunchResolved(j)
          \/ ConcludeRead(j)
          \/ ConcludeKilled(j)
          \/ Withdraw(j)
          \/ DiscardTree(j)
          \/ DeleteTree(j)

BypassSpec == BypassInit /\ [][BypassNext]_bvars

-----------------------------------------------------------------------------
(* Properties.                                                             *)

\* A command line is taken for pure only while the last concluded run of it
\* read and did nothing else: an escape is believed at once, in this session
\* and in those after it, unless its record was lost or overtaken (observe,
\* withdraw, restore).
TrustEarned == \A k \in Keys \ behind : known[k] = "pure" => seen[k] = "pure"

\* An escapee of version v that has not been concluded, j apart.
Concluding(j, v) ==
    \E i \in Readers \ {j} :
        /\ plan[i] \in {"bypass", "withdrawn"} /\ pc[i] # "idle"
        /\ version[i] = v /\ wrote[i]

\* A tree an escapee dirtied is handed to nobody once the escapee has been
\* concluded, except where readers it shared the tree with kept it alive, or it
\* left no evidence (discard_reader, acquire_reader).
Quarantined ==
    \A j \in Readers :
        LET v == version[j]
        IN  pc[j] = "taken" /\ tree[v] = "dirty" =>
                v \in shared \union unseen \/ Concluding(j, v)

\* "so the tree must not be handed out again" (discard_reader): neither is the
\* tree of an escapee that was stopped by force.
EveryEscapeQuarantined ==
    \A j \in Readers :
        LET v == version[j]
        IN  pc[j] = "taken" /\ tree[v] = "dirty" =>
                v \in shared \/ readers[v] > 1 \/ Concluding(j, v)

\* "instead of deleting the one a running command is reading" (mux.rs:614): nor
\* does the discard of an escapee delete such a tree.
NeverPulled ==
    [][restarts' = restarts =>
         \A v \in Versions :
            tree[v] # "none" /\ tree'[v] = "none" => Holders(v) = {}]_bvars

\* While a session lasts, superseding a version, acquiring and releasing never
\* delete a tree that a command holds a lease on: discard_reader of an escapee
\* alone may.
OnlyDiscardPulls ==
    [][restarts' = restarts =>
         \A v \in Versions :
            tree[v] # "none" /\ tree'[v] = "none" /\ Holders(v) # {} =>
               \E j \in Readers :
                  pc[j] = "discarding" /\ version[j] = v /\ pc'[j] = "idle"]_bvars
=============================================================================
