----------------------------- MODULE Lifecycle -----------------------------
(***************************************************************************)
(* The explicit state machines of Multipath Fabric: the set lifecycle, the *)
(* member lifecycle, the classification of a Path Authority view, and the  *)
(* readiness reported to consumers (lifecycle.cpp, path_authority.cpp).    *)
(*                                                                         *)
(* Everything here is constant-level.  "NONE" stands for an absent record  *)
(* (a set that was not created, a path that is not a member, a path that   *)
(* Path Authority has no view of) and for std::nullopt as the answer of    *)
(* the member table.                                                       *)
(***************************************************************************)
EXTENDS Naturals

\* Lifecycles computed from the usable members of a published set.
Derived == {"ACTIVE", "DEGRADED", "EXHAUSTED"}

\* SetRecord::terminal(): governance is over, only REVOKE and RETIRE may follow.
TerminalSet == {"WITHDRAWN", "SUPERSEDED", "REVOKED", "RETIRED"}

SetLifecycles ==
    Derived \cup TerminalSet \cup {"DECLARED", "ADMIN_DISABLED", "WITHDRAWING"}

\* Set events that edit the membership or the declared policy of a set.
EditEvents ==
    {"MEMBER_ADDED", "MEMBER_REMOVED", "MEMBER_REPLACED", "MEMBERSHIP_RECHECK",
     "MINIMUM_CHANGED", "POLICY_CHANGED", "REVALIDATE_SET", "DEPENDENCY_INVALIDATED"}

\* The subset of the edits that a withdrawing set still tolerates.
DrainEvents == {"MEMBER_REMOVED", "MEMBERSHIP_RECHECK", "DEPENDENCY_INVALIDATED"}

SetEvents ==
    EditEvents \cup
    {"DECLARE", "PUBLISH", "ADMIN_DISABLED", "ADMIN_ENABLED", "EPOCH_ADVANCE",
     "BEGIN_WITHDRAW", "COMPLETE_WITHDRAW", "SUPERSEDE", "REVOKE", "RETIRE"}

\* kTable: what an event does to a set in lifecycle l.  The rows are grouped by
\* the events they agree on; a pair that no row names is refused.
SetTransition(l, e) ==
    CASE e = "EPOCH_ADVANCE" /\ l # "NONE"                      -> "STAY"
      [] e = "PUBLISH" /\ l = "DECLARED"                        -> "BECOME_PUBLISHED"
      [] e \in EditEvents /\ l \in Derived                      -> "RECOMPUTE"
      [] e \in EditEvents /\ l \in {"DECLARED", "ADMIN_DISABLED"} -> "STAY"
      [] e \in DrainEvents /\ l = "WITHDRAWING"                 -> "STAY"
      [] e = "ADMIN_DISABLED" /\ l \in Derived                  -> "BECOME_ADMIN_DISABLED"
      [] e = "ADMIN_ENABLED" /\ l \in Derived \cup {"ADMIN_DISABLED"} -> "RECOMPUTE"
      [] e \in {"ADMIN_DISABLED", "ADMIN_ENABLED"} /\ l = "DECLARED" -> "STAY"
      [] e = "BEGIN_WITHDRAW" /\ l = "DECLARED"                 -> "RECOMPUTE"
      [] e = "BEGIN_WITHDRAW" /\ l \in Derived \cup {"ADMIN_DISABLED"} -> "BECOME_WITHDRAWING"
      [] e = "COMPLETE_WITHDRAW" /\ l = "WITHDRAWING"           -> "BECOME_WITHDRAWN"
      [] e = "SUPERSEDE" /\ l \notin TerminalSet \cup {"NONE"}  -> "BECOME_SUPERSEDED"
      [] e = "REVOKE" /\ l \notin {"SUPERSEDED", "REVOKED", "RETIRED", "NONE"} -> "BECOME_REVOKED"
      [] e = "RETIRE" /\ l \notin {"RETIRED", "NONE"}           -> "BECOME_RETIRED"
      [] OTHER                                                  -> "REJECT"

\* transition_allowed(): the admissibility test most handlers make first.
Allowed(l, e) == SetTransition(l, e) # "REJECT"

\* derive_published_lifecycle(): the threshold rule.
DeriveLifecycle(usable, minimum, admin_enabled) ==
    IF ~admin_enabled THEN "ADMIN_DISABLED"
    ELSE IF usable >= minimum THEN "ACTIVE"
    ELSE IF usable >= 1 THEN "DEGRADED"
    ELSE "EXHAUSTED"

\* route_readiness(): what Route Fabric is told about a set.
RouteReadiness(lifecycle, currentness) ==
    CASE lifecycle \in {"RETIRED", "REVOKED", "SUPERSEDED", "ADMIN_DISABLED"} -> lifecycle
      [] lifecycle \in {"WITHDRAWN", "WITHDRAWING"}                -> "WITHDRAWN"
      [] lifecycle = "DECLARED"                                    -> "NOT_PUBLISHED"
      [] lifecycle \in Derived /\ currentness # "CURRENT"          -> "REVALIDATION_REQUIRED"
      [] lifecycle = "EXHAUSTED" /\ currentness = "CURRENT"        -> "INSUFFICIENT_MEMBERS"
      [] lifecycle = "DEGRADED" /\ currentness = "CURRENT"         -> "DEGRADED_BUT_READY"
      [] lifecycle = "ACTIVE" /\ currentness = "CURRENT"           -> "READY"
-----------------------------------------------------------------------------
\* Member lifecycle.

LiveMember     == {"PENDING", "CURRENT", "REVALIDATION_REQUIRED", "UNUSABLE"}
TerminalMember == {"WITHDRAWN", "SUPERSEDED", "RETIRED"}
MemberLifecycles == LiveMember \cup TerminalMember

\* kMemberTable: the lifecycle a member moves to, "NONE" where the table has no
\* entry.  Usable inputs promote only a member that is already CURRENT or still
\* PENDING; coming back from REVALIDATION_REQUIRED or UNUSABLE takes the
\* explicit REVALIDATED_OK.
MemberTransition(l, e) ==
    CASE e = "ADMITTED" /\ l = "PENDING"                         -> "PENDING"
      [] e = "INPUTS_USABLE" /\ l \in {"PENDING", "CURRENT"}     -> "CURRENT"
      [] e \in {"INPUTS_STALE_AUTHORITY", "REVALIDATED_STALE"} /\ l \in LiveMember
                                                                 -> "REVALIDATION_REQUIRED"
      [] e = "INPUTS_NOT_USABLE" /\ l \in LiveMember             -> "UNUSABLE"
      [] e = "REVALIDATED_OK" /\ l \in LiveMember                -> "CURRENT"
      [] e = "WITHDRAW" /\ l \in LiveMember                      -> "WITHDRAWN"
      [] e = "SUPERSEDE" /\ l \in LiveMember \cup {"WITHDRAWN"}  -> "SUPERSEDED"
      [] e = "RETIRE" /\ l \in MemberLifecycles \ {"RETIRED"}    -> "RETIRED"
      [] OTHER                                                   -> "NONE"
-----------------------------------------------------------------------------
\* Path Authority views and their classification.

PathStates ==
    {"AUTHORIZED", "CONDITIONALLY_AUTHORIZED", "REVALIDATION_REQUIRED",
     "REJECTED", "REVOKED", "STALE", "RETIRED"}

\* std::optional<PathAuthorityView>: generation and state, or NoView.
Views  == [gen : Nat, state : PathStates \cup {"NONE"}]
NoView == [gen |-> 0, state |-> "NONE"]

MemberCurrentnesses ==
    {"CURRENT", "PENDING_EVALUATION", "PATH_AUTHORITY_UNKNOWN", "STALE_PATH_AUTHORITY",
     "PATH_CONDITIONALLY_NOT_PERMITTED", "PATH_REVALIDATION_REQUIRED", "PATH_REJECTED",
     "PATH_REVOKED", "PATH_STALE", "PATH_RETIRED", "ADMIN_DISABLED", "SET_NOT_USABLE",
     "EPOCH_STALE", "AUTHORITY_FENCED"}

\* classify_path_authority(): a generation mismatch wins over any state.
Classify(view, bound, conditional) ==
    CASE view = NoView                                -> "PATH_AUTHORITY_UNKNOWN"
      [] view # NoView /\ view.gen # bound            -> "STALE_PATH_AUTHORITY"
      [] view # NoView /\ view.gen = bound ->
           CASE view.state = "AUTHORIZED"             -> "CURRENT"
             [] view.state = "CONDITIONALLY_AUTHORIZED" ->
                  IF conditional THEN "CURRENT" ELSE "PATH_CONDITIONALLY_NOT_PERMITTED"
             [] view.state = "REVALIDATION_REQUIRED"  -> "PATH_REVALIDATION_REQUIRED"
             [] view.state = "REJECTED"               -> "PATH_REJECTED"
             [] view.state = "REVOKED"                -> "PATH_REVOKED"
             [] view.state = "STALE"                  -> "PATH_STALE"
             [] view.state = "RETIRED"                -> "PATH_RETIRED"
             [] OTHER                                 -> "PATH_AUTHORITY_UNKNOWN"

\* currentness_is_revalidation_recoverable().
Recoverable ==
    {"STALE_PATH_AUTHORITY", "PATH_REVALIDATION_REQUIRED", "PATH_STALE",
     "PATH_AUTHORITY_UNKNOWN", "EPOCH_STALE", "PENDING_EVALUATION"}

\* Mutant: usable inputs always count as an explicit revalidation.
InputEventAlwaysExplicit(observed, explicit) ==
    CASE observed = "CURRENT"       -> "REVALIDATED_OK"
      [] observed \in Recoverable   -> "REVALIDATED_STALE"
      [] OTHER                      -> "INPUTS_NOT_USABLE"

\* The member event evaluate_member_locked() derives from a classification.
InputEvent(observed, explicit) ==
    CASE observed = "CURRENT" ->
           IF explicit THEN "REVALIDATED_OK" ELSE "INPUTS_USABLE"
      [] observed \in Recoverable ->
           IF explicit THEN "REVALIDATED_STALE" ELSE "INPUTS_STALE_AUTHORITY"
      [] OTHER -> "INPUTS_NOT_USABLE"
=============================================================================
