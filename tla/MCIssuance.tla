----------------------------- MODULE MCIssuance -----------------------------
(* An instance of Issuance for TLC. *)
EXTENDS Issuance, TLC

NoEvents == {}

\* No event names a principal or a challenge here: all of these are interchangeable.
IssuanceSymmetry == Permutations(InitReq) \cup Permutations(Principal) \cup Permutations(Ip)
=============================================================================
