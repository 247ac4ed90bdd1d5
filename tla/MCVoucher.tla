----------------------------- MODULE MCVoucher ------------------------------
(* An instance of Voucher for TLC. *)
EXTENDS Voucher, TLC

\* Logins are interchangeable.
LoginSymmetry == Permutations(Login)

Full == {"view", "redeem"}

Wire(degrade, missing, worth, listed, reduced) ==
    [degrade |-> degrade, missing |-> missing, worth |-> worth, listed |-> listed,
     given |-> reduced # {}, reduced |-> reduced]

\* Each way to answer an outage and a missing credential, a policy and a degraded grant with
\* what the registry does not declare, an operator who listed nothing as destructive, and two
\* wirings that are refused.
MCWiring ==
    {Wire(TRUE, "trust-session", Full, Destructive, {"view", "typo"}),
     Wire(FALSE, "deny", Full, {}, {}),
     Wire(TRUE, "fallback", {"view", "typo"}, {}, {"redeem"}),
     Wire(TRUE, "trust-session", Full, Destructive, {"redeem"}),
     Wire(FALSE, "trust-session", Full, {}, {"view"})}
=============================================================================
