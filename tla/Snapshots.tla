----------------------------- MODULE Snapshots -----------------------------
(***************************************************************************)
(* What the engine tells its readers: snapshots and their bounded history  *)
(* per set, content addresses, diffs (fabric_query.cpp, diff.cpp,          *)
(* detail/records.cpp) and explanations (explanation.cpp).                 *)
(*                                                                         *)
(* The engine is FabricEngine; every step of it is taken together with     *)
(* what it leaves in the snapshot history.  Texts (a withdrawal reason, a  *)
(* revocation detail, provenance, history entries) and member lineage are  *)
(* left out of the content of a snapshot.                                  *)
(***************************************************************************)
EXTENDS FabricEngine

CONSTANTS
    MaxSnapshotHistory,       \* limits.max_snapshot_history
    MaxExplanationEntries     \* limits.max_explanation_entries

ASSUME SnapshotAssumption ==
    MaxSnapshotHistory \in Nat \ {0} /\ MaxExplanationEntries \in Nat

VARIABLES
    stamped,                  \* set |-> SetRecord::authority_generation
    snapshot_history          \* set |-> its retained snapshots, oldest first

snapshot_vars == <<vars, stamped, snapshot_history>>
-----------------------------------------------------------------------------
(***************************************************************************)
(* Snapshots and their identity.                                           *)
(***************************************************************************)

\* compute_set_digest(): the fields it absorbs.  Equal digests are equal fields:
\* collisions of the 128 bits are not modelled.
Digest(r, stamp) ==
    [set |-> <<r.generation, r.membership_generation, stamp, r.lifecycle, r.currentness,
               r.admin_enabled, r.minimum, r.conditional, r.governing_epoch,
               r.superseded_by, r.supersedes>>,
     members |-> [p \in PresentPaths(r.members) |->
                    LET m == r.members[p]
                    IN  <<m.id, m.bound, m.generation, m.lifecycle, m.currentness,
                          m.admin_enabled>>]]

\* make_snapshot_locked(): the record as a value, under the id of its digest.
Snapshot(r, stamp) ==
    [snapshot_id |-> Digest(r, stamp), record |-> r, authority_generation |-> stamp,
     readiness |-> RouteReadiness(r.lifecycle, r.currentness)]

\* capture_snapshot_locked(): nothing when the last retained snapshot has the
\* same id, otherwise the oldest one makes room.
Retained(history, snapshot) ==
    IF history # <<>> /\ history[Len(history)].snapshot_id = snapshot.snapshot_id THEN history
    ELSE LET longer == Append(history, snapshot)
         IN  IF Len(longer) > MaxSnapshotHistory THEN Tail(longer) ELSE longer

\* Mutant: only what advances the generation is captured.
CapturesCommits(before, after) ==
    \/ before.lifecycle = "NONE" /\ after.lifecycle # "NONE"
    \/ before.generation # after.generation

\* Who calls it: create_set(), commit_locked(), apply_view_locked() for a member
\* that moved, fence_worker(), advance_epoch(), and supersede_set() for the
\* successor: the steps that advance the generation or the watermark of a set or
\* record its predecessor.
Captures(before, after) ==
    \/ before.lifecycle = "NONE" /\ after.lifecycle # "NONE"
    \/ before.generation # after.generation
    \/ before.watermark # after.watermark
    \/ before.supersedes # after.supersedes

Capture ==
    snapshot_history' =
        [s \in SetIds |-> IF Captures(sets[s], sets'[s])
                          THEN Retained(snapshot_history[s], Snapshot(sets'[s], stamped'[s]))
                          ELSE snapshot_history[s]]

\* The authority generation is stamped by create_set(), fence_worker(),
\* advance_epoch() and every revalidate_set() that passes its checks.
StampCreated ==
    stamped' = [s \in SetIds |-> IF ~Exists(s) /\ sets'[s].lifecycle # "NONE"
                                 THEN authority_generation ELSE stamped[s]]
StampUncurrent ==
    stamped' = [s \in SetIds |-> IF sets'[s].watermark # sets[s].watermark
                                 THEN authority_generation' ELSE stamped[s]]
StampRevalidated(t) ==
    stamped' = IF Ready(t, "revalidate_set") /\ RevalidateSetAdmissible(calls[t])
               THEN [stamped EXCEPT ![calls[t].set] = authority_generation] ELSE stamped

SnapshotInit ==
    /\ Init
    /\ stamped = [s \in SetIds |-> 0]
    /\ snapshot_history = [s \in SetIds |-> <<>>]

SnapshotNext ==
    /\ \/ \E w \in Callers, s \in SetIds : SetStep(w, s) /\ StampCreated
       \/ ViewStep /\ UNCHANGED stamped
       \/ AuthorityStep /\ StampUncurrent
       \/ \E t \in Threads, w \in Callers : StartCall(t, w) /\ UNCHANGED stamped
       \/ \E t \in Threads : CallStep(t) /\ StampRevalidated(t)
    /\ Capture

SnapshotSpec == SnapshotInit /\ [][SnapshotNext]_snapshot_vars
-----------------------------------------------------------------------------
(***************************************************************************)
(* Diffs and explanations.                                                 *)
(***************************************************************************)

\* Mutant: a diff of what commits change only.
SetFactsOfCommits(n) ==
    <<n.record.generation, n.record.membership_generation, n.record.lifecycle,
      n.record.admin_enabled, n.record.minimum, n.record.conditional,
      n.record.usable, n.record.superseded_by>>

\* The facts of a set that diff_snapshots() compares: every one of the digest but
\* "supersedes", and the usable count and the readiness.
SetFacts(n) ==
    <<n.record.generation, n.record.membership_generation, n.authority_generation,
      n.record.lifecycle, n.record.currentness, n.readiness, n.record.admin_enabled,
      n.record.minimum, n.record.conditional, n.record.governing_epoch, n.record.usable,
      n.record.superseded_by>>

\* The facts of a member it compares; an empty slot has none.
MemberFacts(m) ==
    IF Present(m)
    THEN <<m.id, m.bound, m.lifecycle, m.currentness, m.admin_enabled, m.generation, m.pending>>
    ELSE <<>>

\* The subjects of the entries of diff_snapshots(): "-" for the set, a path for
\* each member relation.  The diff is "identical" when there is none.
Diff(before, after) ==
    (IF SetFacts(before) = SetFacts(after) THEN {} ELSE {0}) \cup
    {p \in Paths : MemberFacts(before.record.members[p]) # MemberFacts(after.record.members[p])}

\* Mutant: the currentness of the inputs decides, whatever became of the member.
MemberReasonByInputs(m) ==
    CASE ~m.admin_enabled -> "MEMBER_ADMIN_DISABLED"
      [] m.admin_enabled /\ m.currentness = "CURRENT" -> "MEMBER_USABLE"
      [] OTHER -> m.currentness

\* member_reason(); the reasons that only rename a currentness keep its name.
MemberReason(m) ==
    CASE ~m.admin_enabled -> "MEMBER_ADMIN_DISABLED"
      [] m.admin_enabled /\ m.currentness = "CURRENT" ->
             IF m.lifecycle # "CURRENT" THEN "MEMBER_LIFECYCLE_NOT_CURRENT"
             ELSE IF m.pending > 0 THEN "MEMBER_PENDING_REVALIDATION" ELSE "MEMBER_USABLE"
      [] m.currentness \in {"PATH_REVALIDATION_REQUIRED", "PATH_STALE", "PATH_REJECTED",
                            "PATH_REVOKED", "PATH_RETIRED"} -> "MEMBER_PATH_STATE_NOT_USABLE"
      [] OTHER -> m.currentness

\* The reasons make_explanation_locked() gives for a set.
MinimumSatisfied(r) == r.usable >= r.minimum

LifecycleReasons(r) ==
    CASE r.lifecycle = "DECLARED"       -> {"SET_NOT_PUBLISHED"}
      [] r.lifecycle = "ACTIVE"         ->
             {"SET_PUBLISHED_AND_THRESHOLD_MET"} \cup
             (IF MinimumSatisfied(r) THEN {} ELSE {"MINIMUM_MEMBERSHIP_UNSATISFIED"})
      [] r.lifecycle = "DEGRADED"       -> {"SET_BELOW_MINIMUM", "MINIMUM_MEMBERSHIP_UNSATISFIED"}
      [] r.lifecycle = "EXHAUSTED"      ->
             {"SET_ZERO_USABLE_MEMBERS", "MINIMUM_MEMBERSHIP_UNSATISFIED"}
      [] r.lifecycle = "ADMIN_DISABLED" -> {"SET_ADMIN_DISABLED"}
      [] r.lifecycle \in {"WITHDRAWING", "WITHDRAWN"} -> {"SET_WITHDRAWN"}
      [] OTHER                          -> {r.lifecycle}

\* Members are explained in the order of their paths, and a long list is cut.
Explained(r) ==
    {p \in PresentPaths(r.members) :
        Cardinality({q \in PresentPaths(r.members) : q < p}) < MaxExplanationEntries}

Explanation(r) ==
    [reasons |-> LifecycleReasons(r) \cup
                 (IF r.currentness = "CURRENT" THEN {} ELSE {"SET_CURRENTNESS_NOT_ESTABLISHED"}) \cup
                 (IF Explained(r) = PresentPaths(r.members) THEN {} ELSE {"EXPLANATION_TRUNCATED"}),
     members |-> [p \in Explained(r) |-> MemberReason(r.members[p])]]
-----------------------------------------------------------------------------
(***************************************************************************)
(* Properties.                                                             *)
(***************************************************************************)

\* "mpf diff" compares the last two retained snapshots, so the last one must show
\* the state that routing goes by: no step changes the lifecycle, the live
\* currentness or the generation of a set and leaves the history behind, unless
\* the generation is exhausted.  The members may be ahead of it, by a set
\* revalidation that changes nothing else.
LatestShowsSet ==
    \A s \in SetIds :
        LET last == snapshot_history[s][Len(snapshot_history[s])].record
        IN  Exists(s) /\ GenerationRoom(sets[s]) =>
                /\ last.generation = sets[s].generation
                /\ last.lifecycle = sets[s].lifecycle
                /\ last.currentness = sets[s].currentness

\* Two retained snapshots with different ids differ in something that the diff
\* of their set reports, unless it is the predecessor that was recorded in between.
DiffFollowsIdentity ==
    \A s \in SetIds : \A i, j \in DOMAIN snapshot_history[s] :
        LET before == snapshot_history[s][i]
            after  == snapshot_history[s][j]
        IN  before.snapshot_id # after.snapshot_id =>
                Diff(before, after) # {} \/ before.record.supersedes # after.record.supersedes

\* explain_set() "answers why a set is in its state, which members do not count
\* and exactly why", and three answers agree: a member is explained as usable
\* exactly when it counts; a set is ready for routing exactly when the only reason
\* given for it is that its threshold is met; and it is ready or degraded exactly
\* when set_is_consumable() lets its members count.
ExplanationAgrees ==
    \A s \in SetIds :
        LET r == sets[s]
            e == Explanation(r)
            readiness == RouteReadiness(r.lifecycle, r.currentness)
        IN  Exists(s) =>
              /\ \A p \in DOMAIN e.members :
                     Usable(r.members[p]) <=>
                         e.members[p] \in {"MEMBER_USABLE", "MEMBER_PENDING_REVALIDATION"}
              /\ readiness = "READY" <=>
                     e.reasons \ {"EXPLANATION_TRUNCATED"} = {"SET_PUBLISHED_AND_THRESHOLD_MET"}
              /\ readiness \in {"READY", "DEGRADED_BUT_READY"} <=> SetIsConsumable(r)
=============================================================================
