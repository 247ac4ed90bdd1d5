---------------------------- MODULE MCRefresh ----------------------------
(* Instances of Refresh for TLC. *)
EXTENDS Refresh, TLC

\* Requests and sessions are told apart by nothing but their names.
RefreshSymmetry == Permutations(RefreshReq) \cup Permutations(Session)
=============================================================================
