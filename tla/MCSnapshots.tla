---------------------------- MODULE MCSnapshots ----------------------------
(***************************************************************************)
(* Instances of Snapshots for TLC.                                         *)
(***************************************************************************)
EXTENDS Snapshots, TLC

\* Workers come, go and are fenced while their calls are in flight, and sets and
\* members change with and without a commit.
ReaderCalls ==
    {"register_publisher", "unregister_publisher", "fence_worker", "advance_epoch",
     "create_set", "publish_set", "add_members", "revalidate_set", "retire_set",
     "set_admin_enabled", "set_member_admin_enabled", "begin_member_revalidation",
     "declare_path_authority"}

WholeScope == {{}}
=============================================================================
