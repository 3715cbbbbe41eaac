----------------------------- MODULE GitPolicy -----------------------------
(***************************************************************************)
(* The git legality table of rust-validator (src/policy/git).              *)
(*                                                                         *)
(* The policy keeps no state of its own: it decides a candidate event from *)
(* the ordered history of granted events.  A rule pairs an action with a   *)
(* language of histories, a past-regex built on two tail shapes, and       *)
(* forbids the action while the history is in that language.               *)
(*                                                                         *)
(* A one-event test of predicates.rs is the set of events that pass it.  A *)
(* commit's message never reaches the rules, so there is one commit.       *)
(***************************************************************************)
EXTENDS Naturals, Sequences

CONSTANTS
    Principals,     \* the actors, one per job
    Resources       \* the protected working-tree paths

Action == {"read", "diff", "history", "edit", "stage", "unstage", "delete",
           "clean", "commit", "checkout", "stash"}

Event == [principal : Principals, action : Action, resource : Resources]

-----------------------------------------------------------------------------
(* One-event tests: predicates.rs.                                         *)

\* Events on another resource taken for events on this one.
ReadOnly(r) == {e \in Event : e.action \in {"read", "diff", "history", "clean"}}

ReadOnlyNotR(r) ==
    {e \in Event : \/ e.resource # r
                   \/ e.action \in {"read", "diff", "history", "clean"}}

StageDeleteOnR(r) ==
    {e \in Event : e.resource = r /\ e.action \in {"stage", "delete"}}

EditUnstageOnROnP(p, r) ==
    {e \in Event : /\ e.resource = r
                   /\ e.action \in {"edit", "unstage"}
                   /\ e.principal = p}

EditUnstageOnRNotP(p, r) ==
    {e \in Event : /\ e.resource = r
                   /\ e.action \in {"edit", "unstage"}
                   /\ e.principal # p}

CommitCheckoutStashOnR(r) ==
    {e \in Event : /\ e.resource = r
                   /\ e.action \notin {"read", "diff", "history", "edit",
                                       "stage", "unstage", "delete", "clean"}}

ReadOnRNotP(p, r) ==
    {e \in Event : e.resource = r /\ e.action = "read" /\ e.principal # p}

\* A later read that would not move the claim.
NotReadOnR(r) == {e \in Event : e.resource # r \/ e.action # "read"}

-----------------------------------------------------------------------------
(* Tail shapes and row languages: policy/language.rs, git/languages.rs.    *)

LastStateChange(h, setter, stable) ==
    \E i \in DOMAIN h : /\ h[i] \in setter
                        /\ \A j \in DOMAIN h : j > i => h[j] \in stable

NeverStateChange(h, stable) == \A i \in DOMAIN h : h[i] \in stable

CleanRow(h, r) ==
    \/ NeverStateChange(h, ReadOnlyNotR(r))
    \/ LastStateChange(h, CommitCheckoutStashOnR(r), ReadOnlyNotR(r))

StagedRow(h, r) == LastStateChange(h, StageDeleteOnR(r), ReadOnlyNotR(r))

UnstagedSelf(h, p, r) ==
    LastStateChange(h, EditUnstageOnROnP(p, r), ReadOnlyNotR(r))

UnstagedOther(h, p, r) ==
    LastStateChange(h, EditUnstageOnRNotP(p, r), ReadOnlyNotR(r))

ReadClaimedOther(h, p, r) ==
    LastStateChange(h, ReadOnRNotP(p, r), NotReadOnR(r))

\* The claim itself, which no rule asks for.
ReadOnROnP(p, r) ==
    {e \in Event : e.resource = r /\ e.action = "read" /\ e.principal = p}

HoldsRead(h, p, r) == LastStateChange(h, ReadOnROnP(p, r), NotReadOnR(r))

-----------------------------------------------------------------------------
(* The 23 deny cells: rules.rs.                                            *)

\* Rule 1 missing: a foreign dirty resource may be edited.
CheckoutRowRules == {<<"checkout", "unstaged other">>}

EditAndCheckoutRowRules ==
    {<<"edit", "unstaged other">>, <<"checkout", "unstaged other">>}

StageRowRules ==
    {<<"stage", "clean">>, <<"stage", "staged">>, <<"stage", "unstaged other">>}

StashRowRules ==
    {<<"stash", "clean">>, <<"stash", "staged">>, <<"stash", "unstaged other">>}

\* Rule 9 missing: a foreign dirty resource may be unstaged.
UnstageWithoutOwner == {<<"unstage", "clean">>, <<"unstage", "unstaged self">>}

UnstageRowRules ==
    {<<"unstage", "unstaged other">>, <<"unstage", "clean">>,
     <<"unstage", "unstaged self">>}

CommitRowRules ==
    {<<"commit", "clean">>, <<"commit", "unstaged self">>,
     <<"commit", "unstaged other">>}

DeleteAndCleanRowRules ==
    {<<"delete", "staged">>, <<"delete", "unstaged self">>,
     <<"delete", "unstaged other">>, <<"clean", "unstaged other">>}

\* Rule 20 missing: another reader's resource may be deleted.
ReadClaimRulesWithoutDelete ==
    {"edit", "clean", "checkout", "stash"} \X {"read claimed other"}

ReadClaimRules ==
    {"edit", "delete", "clean", "checkout", "stash"} \X {"read claimed other"}

GitRules ==
    EditAndCheckoutRowRules \union StageRowRules \union StashRowRules
        \union UnstageRowRules \union CommitRowRules
        \union DeleteAndCleanRowRules \union ReadClaimRules

InLanguage(h, p, r, language) ==
    \/ language = "clean" /\ CleanRow(h, r)
    \/ language = "staged" /\ StagedRow(h, r)
    \/ language = "unstaged self" /\ UnstagedSelf(h, p, r)
    \/ language = "unstaged other" /\ UnstagedOther(h, p, r)
    \/ language = "read claimed other" /\ ReadClaimedOther(h, p, r)

\* GitPolicy::decide: the first violated rule denies.
Denied(h, e) ==
    \E rule \in GitRules :
        /\ rule[1] = e.action
        /\ InLanguage(h, e.principal, e.resource, rule[2])

-----------------------------------------------------------------------------
(* The active-capability projection: capabilities.rs.                      *)

\* Whether event i of h still decides its resource's row: it left the row
\* dirty or staged and no later event on the resource changed the row.
ActiveRow(h, i) ==
    /\ h[i].action \in {"edit", "unstage", "stage", "delete"}
    /\ \A j \in DOMAIN h : j > i => h[j] \in ReadOnlyNotR(h[i].resource)

\* A read retained only until any later event on its resource.
ActiveReadUntilTouched(h, i) ==
    /\ h[i].action = "read"
    /\ \A j \in DOMAIN h : j > i => h[j].resource # h[i].resource

ActiveRead(h, i) ==
    /\ h[i].action = "read"
    /\ \A j \in DOMAIN h : j > i => h[j] \in NotReadOnR(h[i].resource)

ActiveGitCapabilityIndices(h) ==
    {i \in DOMAIN h : ActiveRow(h, i) \/ ActiveRead(h, i)}
=============================================================================
