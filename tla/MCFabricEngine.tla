--------------------------- MODULE MCFabricEngine ---------------------------
(***************************************************************************)
(* Instances of FabricEngine for TLC.  Each run names the operations its   *)
(* clients call; the bounds are in the configuration files.                *)
(***************************************************************************)
EXTENDS FabricEngine, TLC

\* Threads are interchangeable, and so are sets.
ThreadSymmetry == Permutations(Threads)
SetSymmetry    == Permutations(SetIds)

\* Every operation that works on the membership and governance of sets.
GovernanceCalls ==
    {"register_publisher", "create_set", "publish_set", "set_minimum_usable_members",
     "set_admin_enabled", "withdraw_set", "complete_withdrawal", "revoke_set",
     "retire_set", "remove_member", "withdraw_member", "add_members",
     "replace_member", "set_member_admin_enabled", "revalidate_set",
     "declare_path_authority"}

\* The calls that reconcile, with everything that can change a path or a member
\* under them.
ReconcilingCalls ==
    {"register_publisher", "create_set", "publish_set", "add_members",
     "revalidate_member", "remove_member", "withdraw_member", "revoke_set",
     "declare_path_authority", "apply_path_authority", "refresh_path"}

\* The calls that reconcile, by a worker that may be lost in the middle of one.
LiveCalls ==
    {"register_publisher", "unregister_publisher", "fence_worker", "create_set",
     "add_members", "revalidate_member", "declare_path_authority"}

\* Two-phase revalidation under a bound source that changes its answers without
\* telling the engine, against everything that moves a watermark.
TicketCalls ==
    {"register_publisher", "create_set", "publish_set", "add_members",
     "begin_member_revalidation", "complete_member_revalidation",
     "abandon_member_revalidation", "withdraw_member", "set_member_admin_enabled",
     "set_conditional_authority_policy", "revalidate_set", "withdraw_set", "revoke_set",
     "advance_epoch", "refresh_path", "external_change"}

\* Sets over the same paths, which supersede one another.
SharedPathCalls ==
    {"register_publisher", "create_set", "publish_set", "add_members", "remove_member",
     "withdraw_member", "replace_member", "supersede_set", "retire_set",
     "declare_path_authority"}

\* One worker whose scope is the whole namespace.
WholeScope == {{}}
=============================================================================
