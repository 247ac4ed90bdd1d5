-------------------------- MODULE MCClientSession --------------------------
(* An instance of ClientSession for TLC. *)
EXTENDS ClientSession, TLC
=============================================================================
