--------------------------- MODULE MCCompletion ---------------------------
(* Instances of Completion for TLC: the events a run may present. *)
EXTENDS CompletionRefines, TLC

CONSTANTS c1, c2, p1, p2

Ev(n, p, c, ok, t) == [id |-> n, signer |-> p, cid |-> c, matches |-> ok, created |-> t]

\* One proof of one challenge.
SoleEvent == {Ev(1, p1, c1, TRUE, 0)}

\* Two rival proofs, one created too late for the challenge's window but within the clock
\* skew, and one with the wrong value.
LateEvents ==
    {Ev(1, p1, c1, TRUE, 0), Ev(2, p1, c1, TRUE, 3), Ev(3, p1, c1, FALSE, 0),
     Ev(4, p1, c1, TRUE, 0)}

\* Proofs for two challenges of two principals: two rivals, a wrong value, one by the
\* other challenge's principal, and one for the other challenge.
CrossEvents ==
    {Ev(1, p1, c1, TRUE, 0), Ev(2, p1, c1, TRUE, 0), Ev(3, p1, c1, FALSE, 0),
     Ev(4, p2, c1, TRUE, 0), Ev(5, p2, c2, TRUE, 0)}

RequestSymmetry == Permutations(CompReq)
=============================================================================
