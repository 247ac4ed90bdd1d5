----------------------------- MODULE RateLimit ------------------------------
(***************************************************************************)
(* The in-memory rate limiter (nap-server/src/rateLimit.ts): fixed windows *)
(* per identifier, pruned at most once a tick. A check runs without an     *)
(* await, so it is one step of whoever makes it.                           *)
(***************************************************************************)
EXTENDS Integers, FiniteSets

CONSTANTS
    Name,            \* what a request gives as its npub, decodable or not
    Key,             \* pubkeys a request has proved
    Address,         \* client addresses, where the adapter reports one
    Window,          \* windowSeconds
    MaxPerWindow,
    None

VARIABLES
    clock,
    windows,         \* the identifiers counted, each with its window
    lastPrunedAt     \* -1 before the first check

\* What a caller is counted by, per endpoint
Identifier ==
    [scope : {"init", "complete"}, by : {"npub", "pubkey", "ip"}, who : Name \cup Key \cup {None},
     ip : Address \cup {None}]

Id(scope, by, who, ip) == [scope |-> scope, by |-> by, who |-> who, ip |-> ip]

\* Mutant of Identifiers: a principal's budget is counted across all addresses.
Identifiers_GlobalNpub(scope, npub, pubkey, ip) ==
    {Id(scope, "npub", n, None) : n \in {npub} \ {None}}
    \cup {Id(scope, "pubkey", k, None) : k \in {pubkey} \ {None}}
    \cup {Id(scope, "ip", None, a) : a \in {ip} \ {None}}

\* The npub is only claimed, so its budget is scoped to the address, when there is one.
Identifiers(scope, npub, pubkey, ip) ==
    {Id(scope, "npub", n, ip) : n \in {npub} \ {None}}
    \cup {Id(scope, "pubkey", k, None) : k \in {pubkey} \ {None}}
    \cup {Id(scope, "ip", None, a) : a \in {ip} \ {None}}

\* The window of an identifier is over, or was never begun.
Over(id) == IF id \in DOMAIN windows THEN clock - windows[id].start >= Window ELSE TRUE

\* Mutant of Pruned: a sweep that forgets windows still running.
Pruned_Eager == {id \in DOMAIN windows : clock <= lastPrunedAt}

\* prune: what is left of the map, at most once a tick
Pruned == {id \in DOMAIN windows : clock > lastPrunedAt => ~Over(id)}

\* hit: a window begins with the request that opens it.
Hit(id) ==
    IF id \notin Pruned \/ Over(id) THEN [start |-> clock, count |-> 1]
    ELSE [windows[id] EXCEPT !.count = @ + 1]

Within(id) == Hit(id).count <= MaxPerWindow

\* Every identifier is counted, not just up to the first that is over its budget.
Counted(ids) == ids

Allowed(ids) == \A id \in ids : Within(id)

\* check
Check(ids) ==
    /\ windows' = [id \in Pruned \cup Counted(ids) |-> IF id \in Counted(ids) THEN Hit(id) ELSE windows[id]]
    /\ lastPrunedAt' = IF clock > lastPrunedAt THEN clock ELSE lastPrunedAt
=============================================================================
