--------------------------- MODULE OneTimeLogin ---------------------------
(***************************************************************************)
(* What login promises, with no stores, clocks, awaits or retries: a       *)
(* challenge is issued to one principal, granted at most once, to a proof  *)
(* by that principal, and whoever is told of success is told of that one   *)
(* grant. Completion is shown to implement it by CompletionRefines.        *)
(***************************************************************************)
CONSTANTS
    Challenge, Principal, Request,
    Event,         \* the signed proofs; a record with who signed it and what it proves
    Session,
    None

VARIABLES
    owner,         \* the principal a challenge was issued to, None before
    grant,         \* the proof a challenge was granted to and the session it opened
    closed,        \* the challenges that will never be granted again
    answer         \* what each successful request was told

loginVars == <<owner, grant, closed, answer>>

LoginInit ==
    /\ owner = [c \in Challenge |-> None]
    /\ grant = [c \in Challenge |-> None]
    /\ closed = {}
    /\ answer = [r \in Request |-> None]

\* Only a proof of the challenge by its owner opens a session, and a session of its own.
Grant(c, e, s) ==
    /\ owner[c] = e.signer /\ e.cid = c /\ e.matches
    /\ c \notin closed /\ grant[c] = None
    /\ \A d \in Challenge : grant[d] # None => grant[d].sid # s
    /\ grant' = [grant EXCEPT ![c] = [event |-> e, sid |-> s]]
    /\ UNCHANGED <<owner, closed, answer>>

Answer(r, c) ==
    /\ answer[r] = None /\ grant[c] # None
    /\ answer' = [answer EXCEPT ![r] = [cid |-> c, event |-> grant[c].event, sid |-> grant[c].sid]]
    /\ UNCHANGED <<owner, grant, closed>>

Told(c) == \E r \in Request : answer[r] # None /\ answer[r].cid = c

\* Challenges expire, run out of failures or are forgotten. A grant nobody was told of
\* may be forgotten with its challenge, and is then lost for good.
Forget ==
    /\ closed' \in SUBSET Challenge /\ closed \subseteq closed'
    /\ \E lost \in SUBSET {c \in closed' : ~Told(c)} :
          grant' = [c \in Challenge |-> IF c \in lost THEN None ELSE grant[c]]
    /\ UNCHANGED answer

Close == Forget /\ UNCHANGED owner

\* Issuing one challenge is an occasion to forget others.
Issue(c, p) ==
    /\ owner[c] = None
    /\ owner' = [owner EXCEPT ![c] = p]
    /\ Forget

LoginNext ==
    \/ Close
    \/ \E c \in Challenge, p \in Principal : Issue(c, p)
    \/ \E r \in Request, c \in Challenge : Answer(r, c)
    \/ \E c \in Challenge, e \in Event, s \in Session : Grant(c, e, s)

LoginSpec == LoginInit /\ [][LoginNext]_loginVars
=============================================================================
