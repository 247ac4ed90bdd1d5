--------------------------- MODULE MCRemoteSigner ---------------------------
(* An instance of RemoteSigner for TLC. *)
EXTENDS RemoteSigner, TLC
=============================================================================
