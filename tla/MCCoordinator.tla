---------------------------- MODULE MCCoordinator ----------------------------
(***************************************************************************)
(* Coordinator for TLC.                                                    *)
(***************************************************************************)
EXTENDS Coordinator

\* Scopes do not matter to sessions.
NoSets == {}
=============================================================================
