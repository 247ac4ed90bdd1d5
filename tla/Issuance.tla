------------------------------ MODULE Issuance ------------------------------
(***************************************************************************)
(* Challenge issuance behind the rate limiter: POST /auth/init of          *)
(* Completion, each request of it first counted by RateLimit, with the     *)
(* other endpoints' checks on the same limiter beside it.                  *)
(***************************************************************************)
EXTENDS Completion

CONSTANTS
    Junk,            \* an npub that does not decode
    Window, MaxPerWindow,
    Other            \* checks made by POST /auth/complete

ASSUME WindowAssumption == Window \in Nat \ {0} /\ MaxPerWindow \in Nat \ {0}

VARIABLES
    windows, lastPrunedAt,
    log              \* ghost: the checks made: of what, when, and with which answer

limiterVars == <<windows, lastPrunedAt, log>>

\* The completions beside them are not init requests.
ASSUME OtherAssumption == Other \cap InitReq = {}

RL == INSTANCE RateLimit WITH Name <- Principal \cup {Junk}, Key <- Principal, Address <- Ip

Time == 0..MaxTime

\* Whoever makes a check: an init request, or one of the completions beside them
Caller == InitReq \cup Other

\* What the log says of one check
CheckRecord == [ids : SUBSET RL!Identifier, at : Int, ok : BOOLEAN]

ASSUME CheckAssumption == None \notin CheckRecord

IssuanceInit ==
    /\ Init
    /\ windows = [id \in {} |-> None] /\ lastPrunedAt = -1
    /\ log = [c \in Caller |-> None]

\* checkRateLimit, and what it decided
CheckRateLimit(c, ids) ==
    /\ RL!Check(ids)
    /\ log' = [log EXCEPT ![c] = [ids |-> ids, at |-> clock, ok |-> RL!Allowed(ids)]]

\* The limiter, then the npub is decoded, then the caps (in Completion).
Admit(i) ==
    /\ ireq[i].pc = "idle"
    /\ \E p \in Principal, ip \in Opt(Ip) :
        LET ids == RL!Identifiers("init", p, None, ip) IN
        /\ RL!Allowed(ids)
        /\ InitBegin(i) /\ ireq'[i].npub = p /\ ireq'[i].ip = ip
        /\ CheckRateLimit(i, ids)

\* 429 with Retry-After; or a npub that does not decode, which has cost its sender the same.
Refuse(i) ==
    /\ ireq[i].pc = "idle"
    /\ \E p \in Principal \cup {Junk}, ip \in Opt(Ip) :
        LET ids == RL!Identifiers("init", p, None, ip) IN
        /\ RL!Allowed(ids) => p = Junk
        /\ InitRefuse(i)
        /\ CheckRateLimit(i, ids)

\* POST /auth/complete counts the address before the proof, the proved pubkey after it.
Elsewhere(n) ==
    /\ log[n] = None
    /\ \/ \E ip \in Ip : CheckRateLimit(n, RL!Identifiers("complete", None, None, ip))
       \/ \E k \in Principal : CheckRateLimit(n, RL!Identifiers("complete", None, k, None))
    /\ UNCHANGED vars

IssuanceNext ==
    \/ \E i \in InitReq : Admit(i) \/ Refuse(i)
    \/ \E i \in InitReq : (InitCount(i) \/ InitCountRest(i) \/ InitCreate(i) \/ InitFail(i)) /\ UNCHANGED limiterVars
    \/ (Tick \/ MarkExpired) /\ UNCHANGED limiterVars
    \/ \E n \in Other : Elsewhere(n)

IssuanceSpec == IssuanceInit /\ [][IssuanceNext]_<<vars, limiterVars>>

-----------------------------------------------------------------------------
(* Properties. *)

\* The checks of an identifier from one time to another
Checks(id, from, to) == {c \in Caller : log[c] # None /\ id \in log[c].ids /\ log[c].at \in from..to}

\* rateLimit.ts:46: windows are fixed, so more than the limit fits across an edge, but the
\* request that opened the first window is then out of reach: no interval of a window's
\* length lets 2 * MaxPerWindow requests of one identifier through.
RateBounded ==
    \A id \in DOMAIN windows, t \in Time :
        Cardinality({c \in Checks(id, t, t + Window - 1) : log[c].ok}) <= 2 * MaxPerWindow - 1

\* rateLimit.ts:32: nobody is locked out by strangers. A login start that is refused comes
\* from an address which itself has spent its budget in the last window.
NoLockout ==
    \A i \in InitReq, ip \in Ip :
        log[i] # None /\ ~log[i].ok /\ RL!Id("init", "ip", None, ip) \in log[i].ids =>
            Cardinality(Checks(RL!Id("init", "ip", None, ip), log[i].at - Window + 1, log[i].at)) > MaxPerWindow

-----------------------------------------------------------------------------
(* The inductive invariant behind the rate bound and the absence of lockouts. *)

\* A caller is counted once, and an init request is idle until then.
LogTypes ==
    /\ windows \in [DOMAIN windows -> [start : Int, count : Nat]]
    /\ DOMAIN windows \subseteq RL!Identifier /\ lastPrunedAt \in Int
    /\ log \in [Caller -> CheckRecord \cup {None}]
    /\ IsFiniteSet({c \in Caller : log[c] # None})
    /\ \A i \in InitReq : ireq[i].pc = "idle" => log[i] = None
    /\ \A c \in Caller : log[c] # None => log[c].at <= clock

Passed(id, from, to) == {c \in Checks(id, from, to) : log[c].ok}

\* A window counts the checks since it began, one of them at its beginning; what it lets
\* through, and what came through in a window's length before it, is bounded.
WindowCounts(id) ==
    LET s == windows[id].start IN
    /\ s <= clock
    /\ Checks(id, s, s) # {}
    /\ windows[id].count = Cardinality(Checks(id, s, clock))
    /\ \A c \in Caller : log[c] # None /\ id \in log[c].ids => log[c].at < s + Window
    /\ Cardinality(Passed(id, s, clock)) <= MaxPerWindow
    /\ Cardinality(Passed(id, s + 1, clock)) <= MaxPerWindow - 1
    /\ Cardinality(Passed(id, s - Window + 1, s - 1)) <= MaxPerWindow - 1

\* An identifier without a window was not checked in this tick, and little in the last
\* ones: the window that was pruned had begun too long ago.
NoWindow(id) ==
    /\ \A c \in Caller : log[c] # None /\ id \in log[c].ids => log[c].at < clock
    /\ Cardinality(Passed(id, clock - Window + 1, clock)) <= MaxPerWindow - 1

\* A login start counted for a npub at an address is counted for the address.
AddressCounted ==
    \A c \in Caller, n \in Principal \cup {Junk}, ip \in Ip :
        log[c] # None /\ RL!Id("init", "npub", n, ip) \in log[c].ids
        => RL!Id("init", "ip", None, ip) \in log[c].ids

RateInv ==
    /\ LogTypes /\ AddressCounted
    /\ \A id \in RL!Identifier :
          /\ id \in DOMAIN windows => WindowCounts(id)
          /\ id \notin DOMAIN windows => NoWindow(id)
          /\ \A t \in Time : Cardinality(Passed(id, t, t + Window - 1)) <= 2 * MaxPerWindow - 1

-----------------------------------------------------------------------------
(* The inductive invariant behind the caps. *)

Issued == {c \in InitReq : Written(c)}

\* The requests that were counted and found to fit, by address and by npub
FitIp(ip) == {i \in InitReq : ireq[i].pc \in {"create", "count_npub"} /\ ireq[i].ip = ip}

FitNpub(p, ip) ==
    {i \in InitReq : ireq[i].pc \in {"create", "count_ip"} /\ ireq[i].npub = p /\ ireq[i].ip = ip}

\* The rows outstanding and the requests that will add one are together within the cap
\* and those in flight: a request counts as of its own `now', which is not later.
CapInv ==
    /\ IsFiniteSet(Issued) /\ IsFiniteSet(InFlight) /\ Cardinality(InFlight) <= MaxInFlight
    /\ \A i \in InFlight : ireq[i].now <= clock
    /\ \A ip \in Ip :
          /\ MaxPerIp > 0 =>
                Cardinality(OutstandingForIp(ip, clock) \cup FitIp(ip)) <= MaxPerIp + MaxInFlight - 1
          /\ MaxPerNpub > 0 => \A p \in Principal :
                Cardinality(OutstandingForNpub(p, ip, clock) \cup FitNpub(p, ip))
                    <= MaxPerNpub + MaxInFlight - 1
=============================================================================
