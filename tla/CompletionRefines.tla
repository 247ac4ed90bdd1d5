------------------------- MODULE CompletionRefines -------------------------
(***************************************************************************)
(* Completion implements OneTimeLogin: with the stores' rows, the sweep,   *)
(* the awaits, the failures and the retries hidden, what is left is a      *)
(* challenge that is granted once.                                         *)
(***************************************************************************)
EXTENDS Completion

\* The unset value is no grant.
ASSUME GrantAssumption == None \notin [event : Event, sid : CompReq]

\* A grant is in the challenge's row and, after the row was swept, in the requests that
\* are about to report it or did.
GrantOf(c) ==
    LET winners == {r \in CompReq : Winner(r) /\ creq[r].event.cid = c}
    IN  IF chal[c].state = "redeemed" THEN [event |-> chal[c].event, sid |-> chal[c].sid]
        ELSE IF winners = {} THEN None
        ELSE LET r == CHOOSE w \in winners : TRUE
             IN  [event |-> creq[r].event, sid |-> creq[r].sid]

OwnerOf(c) == IF Written(c) THEN ireq[c].npub ELSE None

IsClosed(c) == Written(c) /\ chal[c].state \notin {"issued", "redeemed"}

AnswerOf(r) ==
    IF Succeeded(r)
    THEN [cid |-> creq[r].event.cid, event |-> creq[r].event, sid |-> creq[r].sid]
    ELSE None

Login ==
    INSTANCE OneTimeLogin WITH
        Challenge <- InitReq, Request <- CompReq, Session <- CompReq,
        owner  <- [c \in InitReq |-> OwnerOf(c)],
        grant  <- [c \in InitReq |-> GrantOf(c)],
        closed <- {c \in InitReq : IsClosed(c)},
        answer <- [r \in CompReq |-> AnswerOf(r)]

\* The login handlers implement OneTimeLogin: every step of issueChallenge,
\* verifyCompletion and the stores is a step of the abstract login or changes nothing it
\* shows, whatever races, is swept, fails or is retried.
RefinesLogin == Login!LoginSpec
-----------------------------------------------------------------------------
(* The inductive invariant behind the refinement: single use, and what     *)
(* makes a redemption a legitimate grant of a session of its own.          *)

\* A row belongs to the principal its init request asked for.
Asked == {"count", "count_npub", "count_ip", "create", "issued", "lost"}

OwnedRows ==
    \A c \in InitReq :
        /\ ireq[c].pc \in Asked => ireq[c].npub \in Principal
        /\ Present(c) => chal[c].npub = ireq[c].npub

\* A request past the checks of the load carries the owner's proof of the challenge.
ProofChecked ==
    \A r \in CompReq : creq[r].pc \in PastLoad =>
        creq[r].event.matches /\ creq[r].event.signer = ireq[creq[r].event.cid].npub

Drawn == {"redeem", "recheck", "log", "reload", "fetch", "done"}

\* Only a request that is done was told of a success, and none holds a session id before
\* its session is stored.
LocalsInOrder ==
    \A r \in CompReq :
        /\ Succeeded(r) => creq[r].pc = "done"
        /\ creq[r].pc \notin Drawn => creq[r].sid = None

\* Who ties session id s to challenge c: a session row, a request's locals or answer, or
\* the challenge's own row. Any of them may outlive the others.
Names(s, c) ==
    \/ sess[s].state # "absent" /\ sess[s].cid = c
    \/ \E r \in CompReq : creq[r].sid = s /\ creq[r].event # None /\ creq[r].event.cid = c
    \/ chal[c].sid = s

\* They name a session id only once the request that drew it stored it, and they all name
\* one challenge.
SessionIds ==
    \A s \in CompReq, c \in InitReq : Names(s, c) =>
        /\ creq[s].pc \in Drawn
        /\ \A d \in InitReq : Names(s, d) => c = d

LoginInv == SingleUseInv /\ OwnedRows /\ ProofChecked /\ LocalsInOrder /\ SessionIds
=============================================================================
