----------------------- MODULE MCReplayPreventionStore -----------------------
(***************************************************************************)
(* ReplayPreventionStore on its own for TLC: three ids, a clock that runs  *)
(* past the TTL twice.                                                     *)
(***************************************************************************)
EXTENDS ReplayPreventionStore
=============================================================================
