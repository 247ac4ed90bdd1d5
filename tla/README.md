# A TLA+ model of NAP

NAP (Nostr Authentication Protocol, v2) logs a user in by challenge and response: `POST
/auth/init` issues a challenge, the client signs a NIP-98 event over it, `POST /auth/complete`
redeems the challenge for an opaque session, `POST /auth/refresh` rotates the session's tokens and
`POST /auth/logout` ends it. The repository is a TypeScript workspace: the server
(`nap-server`), two HTTP adapters with guards, in-memory and Postgres stores, browser clients, a
signer that works across origins, a NIP-46 remote signer and a voucher extension.

This directory models the parts of that system in which concurrent requests, tabs, windows or
calls share state, checks them with TLC on small instances, and proves every safety property it
checks with TLAPS for every instance: only liveness rests on the instances alone.

    tlc -workers 2 -config complete_memory.cfg MCCompletion
    tlapm CompletionProofs.tla

## 1. The system and its parts

| Part | State | Operations | How it meets the others | In the model |
| --- | --- | --- | --- | --- |
| Challenge issuance and completion, `nap-server/server.ts` | none of its own; a request's locals across its awaits | `issueChallenge`, `verifyCompletion` | calls the rate limiter, the stores, the ACL resolver and the audit logger, all asynchronous | `Completion`, `OneTimeLogin`, `CompletionRefines` |
| Challenge stores, `memory.ts`, `nap-store-postgres` | challenge rows with state, expiry, redemption columns, failure count | `create`, `get`, `redeem`, `recordFailure`, `countOutstanding`, `markExpired`, in-memory sweep | shared by all requests, and with Postgres by all processes | `Completion` |
| Session stores | session rows; in memory four index maps onto shared objects | `createForChallenge`, `getBy…`, `rotateRefreshToken`, `revokeBy…`, sweep | shared by logins, refreshes, logouts, guards, operators | `Completion`, `Refresh` |
| Refresh, `server.ts` | request locals | `refreshSession` | session store, ACL resolver | `Refresh` |
| Rate limiter, `rateLimit.ts` | windows per identifier | `check`, prune | called first by every endpoint | `RateLimit`, composed with issuance in `Issuance` |
| ACL, `acl.ts` | ACL rows | `resolve`, auto-provisioning, `createRevokingAclStore` | resolver called by login, refresh and guards; revokes sessions | `Guards` |
| Adapters, express and fastify | none | `loadSession`, `/session`, `/logout`, `requirePermission`, `requireRole`, `requireStepUp`, `requireSession` | session store, ACL resolver | `Guards`; logout in `Refresh`; the routes a browser calls in `ClientSession` |
| Browser session, `nap-client-web/session.ts` | locked, shut down, identity, key holder, idle timers; per tab | login, step-up, resume, lock, unlock, shutdown, reunlock, logout, destroy | tabs through a BroadcastChannel and one cookie | `ClientSession` |
| Cross-origin signer and client | grants, remembered consents, pending requests | connect, sign, revoke, disconnect | two windows through `postMessage`; the wallet's other tabs through its bus | `CrossOrigin` |
| NIP-46 signer | one connection, stored pairing | connect, restore, disconnect, sign | relays, a bunker, timeouts | `RemoteSigner` |
| Voucher resolver, mint client | keyset cache | resolve, check state | the mint over HTTP; its `expires_at` bounds sessions | `Voucher` |
| Audience resolution, codecs, URL and header parsing, metrics, curve arithmetic, key storage, React bindings | none, or none a decision reads | | | not modelled (section 6) |

What is hard about it, and where it is listed: `PROJECT.json`, `hazards`. In short, a handler
awaits up to eight times and uses at the end what it read at the beginning; Postgres may serve two
processes; a store call may take effect and still be reported as failed; answers get lost and are
retried; the in-memory sweep forgets rows at any write; comparisons with one expiry disagree about
equality; an operator edits the row a guard is reading; tabs learn of a lock when a message gets
to them, in the middle of a login or not; a popup reloads and forgets what it granted; a bunker
answers late or never; a mint fails in one of several calls.

## 2. How the models read the code

*A step is the code between two awaits.* JavaScript does not interleave inside such a segment, so
one action stands for one segment and a request's `pc` names the await it is suspended in. Where a
store call is one segment in memory and several queries in Postgres, the model has one step for
the first and several for the second (`RedeemMemory`; `RedeemPostgres` and `RedeemRecheck`).
`Backend` selects the store.

*Failures.* `CompleteThrow`, `RefreshThrow`, `GuardThrow` and `Fail` end a request or a call at
any await, with what it wrote kept: a throwing store, resolver, logger or fetch, or the death of a
process over Postgres. `InitFail`, `LoseCreate`, `RecordFailure` and `"lost"` are writes that took
effect although the caller was told otherwise.

*Time.* In the server's modules `clock` counts the seconds of `options.clock`, and `Tick`
advances it between any two steps. In the browser's modules nothing compares instants, so a
timeout or an expiry is a step that may happen at any time while its timer is armed.

*Data.* A challenge is named by the init request that created it, a session by the completion that
created it, and tokens by the request that minted them: all are fresh random values in the code.
A signed event is what `verifyCompletion` reads of it: signer, challenge id, whether it carries
the challenge's value, `created_at`, and an identity. A proof that does not verify at all is
`CompleteReject`.

*History.* A property about what was so earlier needs a record of it. Variables and fields marked
`ghost` are only that; no guard reads them.

### Completion

| Variable | Code |
| --- | --- |
| `chal`, `sess` | the challenge and session tables |
| `chalSwept`, `sessSwept` | `lastSweptAt` of the in-memory stores |
| `ireq`, `creq` | init and completion requests: await, locals, outcome |
| `acl`, `admin` | whether each principal is admitted; suspensions between their two writes |

| Step of `verifyCompletionUnpadded` | Action |
| --- | --- |
| body, limiter, proof, clock skew (642-684) | `CompleteReject`, `CompleteBegin` |
| second limiter check, on the proved key (686) | `CompleteRateLimited` |
| load the challenge and check it (715-764) | `LoadChallenge`, `ChallengeCheck` |
| spend the failure budget (334-360) | `RecordFailure` |
| resolve the ACL (766) | `ResolveAcl` |
| store the session (782) | `CreateSession`; `LoseCreate` and `ReuseSession` over Postgres |
| redeem (800) | `RedeemMemory`; `RedeemPostgres`, `RedeemRecheck` |
| log and answer (807) | `LogSuccess` |
| already redeemed: is it a retry? (825-857) | `ReloadChallenge`, `FetchSession` |

`issueChallengeUnpadded` is `InitBegin` to `InitFail`; `MarkExpired`, `Logout`, `Suspend`,
`RevokeByPrincipal`, `Unsuspend` and `GuardedRead` (the sweep every guarded request triggers) are
the rest of the deployment.

`OneTimeLogin` is the promise behind all this, without stores, clocks or awaits: a challenge is
issued to one principal, granted at most once, to a proof of it by that principal and with a
session of its own, and whoever is told of success is told of that one grant. `CompletionRefines`
maps `Completion` to it. The owner of a challenge is that of its row once the row was written; the
grant is in the row, and after a sweep in the requests that won or are about to say so; a
challenge whose row is expired, failed or gone is closed. A grant nobody was told of may be
forgotten with its row.

### Issuance and RateLimit

`RateLimit` is the limiter: `Identifiers` is what a caller is counted by (a claimed npub only
together with its address), `Hit` and `Pruned` are the fixed windows and their sweep, and `Check`
counts every identifier, also after one of them was refused. A check has no await, so it is a part
of its caller's step. `Issuance` puts it in front of `Completion`'s init requests (`Admit`,
`Refuse`) with checks by the completion endpoint beside them (`Elsewhere`).

### Refresh

In memory a handler holds a *reference*: after an await it sees what others did to its session,
and it may hold one the sweep has dropped. So `sess` keeps every record and `byId`, `byAccess` and
`byRefresh` are the maps that find them. Over Postgres a handler holds the copy `snap`.
`Held(r)` is the record it goes on with.

`RefreshLookup`, `RefreshCheck`, `RevokeReused`, `ResolveAcl`, `RevokeAll`, `RefreshRotate` and
`RefreshAnswer` are the segments of `refreshSessionUnpadded`; `LogoutLookup`, `LogoutCheck` and
`LogoutRevoke` those of the logout handlers. Of a completion two awaits matter here: `LoginResolve`
reads the ACL and `LoginStore` stores the session, with suspensions and failures (`LoginThrow`) in
between (the rest is Completion's). `RetryLogin` is a completion retry, which is answered with the
tokens the session has by then. `straddled` (ghost) are the sessions stored for a principal who was
suspended at that moment. `known` holds the tokens some answer carried: only those are presented.

### Guards

`row` is the ACL table and `sess` the session store. Logins and guarded requests are `task`s: both
read the ACL through `createRegistryAclResolver` (`AclGet`; `AclProvision` and `AclReget` where an
unknown principal is provisioned), and `Resolve` applies the registry and the overrides. A guard
has a `shape`: permission, role, step-up or session, with a resolver or on the session's snapshot.
`GuardLookup` is `loadSession`, `GuardCheck` what is decided on the session alone, `GuardDecide`
what is decided on the ACL, `GuardRevoke` the revocation that a suspension found there causes. The
operator's calls go through `createRevokingAclStore`: `OpSuspend`, `OpUnsuspend`, and `OpUpsert`,
`OpWrite`, `OpRevoke` for the read, the write and the revocation of `upsert`. `Deploy` starts a
release that no longer declares a role. The two adapters have the same guards, written twice; the
model was read against both, and `map` in `PROJECT.json` names one or the other.

### ClientSession

`tab` holds what `createNapSession` closes over, `inbox` the BroadcastChannel messages on their
way to each tab, `call` the calls under way with their await, `cookie` the account of the server's
session, which all tabs share, and `who` the account the signer signs for. `LoginStart` to
`LoginAnswer` are the segments of `authenticate`, which login and step-up share; `Start` with
`ServerAnswer`, `LogoutAnswer`, `ResumeAnswer` and `ResumeVerify` are logout and resume;
`Reunlocked` is the end of a re-unlock; `Lock`, `Unlock`, `LockTimer`, `ShutdownTimer`, `Activity`
and `Destroy` are synchronous, and `Deliver` is `Received`, the listener. `kind` says whether the
signer is a key held in the page or a remote one without a key to evict.

### CrossOrigin

The relying page (`client`, `req`) and the signer page (`popup`, `conn`, `sign`) exchange
`toSigner` and `toClient`; messages to a document that has gone are `Lost`. `HandleConnect`,
`ConnUnlock`, `ConnNpub`, `ConnStore` and `ConnConsent` are the awaits of `handleConnect`, each of
which may fail (the consent store's too), and `HandleSign`, `SignPrompt` and `Sign` those of
`handleSign`. `OnReady`, `OnConnected`, `OnSigned`, `OnError` and `OnRevoked` are the client's
listener, `ConnectTimeout`, `RequestTimeout` and `ClosedPoll` its timers. The user reloads or
closes the popup (`Leave`), revokes and forgets; the wallet's other tabs lock or change the
account (`WalletLock`) and say so on the bus (`OnSessionBus`).

### RemoteSigner

`current` is the connection `createNip46Signer` keeps, `record` the stored pairing, `conn` every
connection ever opened, with its sockets and its key. A `connect()` first tries to restore
(`Load`, `Restored`, `Forget`), then pairs by token (`Parse`) or by a connection URI (`Paired`,
with `Noise` from whoever else answers it), and saves (`Save`); each failure has its clean-up
(`Unpaired`, `Closed`). `disconnect()` is `DisconnectStart`, `DisconnectClose`, `DisconnectClear`.
The store may reject each of its calls: `Load` and `Save` end the connect, `Forget` too, and
`DisconnectClear` ends a disconnect that has dropped the connection and left the record (`last` =
"kept"). `Ask`, `Answered` and `WithTimeout` are a request over the connection.

### Voucher

`login` is a completion inside `createVoucherAclResolver.resolve`: the local checks in their order
(`Admissible`), then the mint's keys, then the voucher's state (`StateAnswer`). A request for keys
is answered by the mint in one step (`MintAnswers`) and arrives in another (`KeysAnswer`, twice if
a fresh copy is needed), no later than `FetchTimeout` after it was sent: keys may be withdrawn,
and other answers overtake it, on its way. `MintFails` at either call is answered by the
availability policy (`Decide`). `cache` is the mint client's keyset copy, `config` the wiring an
operator chooses: what an outage grants (`reduced`) is compared with the destructive permissions
only if the operator lists them (`listed`). Only the permissions are modelled; roles stand for
those they expand into. `session` is what the server makes of the decision, `GuardAllows` and
`Refresh` what happens to it later, when nobody presents the voucher. The mint spends vouchers and
rotates keysets at any time.

## 3. Properties and runs

Each property is matched with a mutant of the code it is about (a dropped guard, an off-by-one, a
swapped order) under which TLC finds it violated: the `…_…` operators beside each definition.

**`complete_memory`** - two completions choose among five proofs of two challenges (two rivals, a
wrong value, one by a stranger, one for the other challenge) over the in-memory stores. One second
of validity and a clock that passes it give requests before, at and after every deadline; issuing
the second challenge sweeps the first in the middle of its completions. **`complete_postgres`** -
two completions of one challenge, four proofs (one created outside its window), an operator who
suspends and unsuspends. Two completions are enough for the races of the two-query operations.

| Property | Says |
| --- | --- |
| `RefinesLogin` (memory) | the handlers and stores implement `OneTimeLogin`: one grant per challenge, to its owner's proof, and every success is told of that grant |
| `BudgetCountsOwnFailures` (memory) | an open challenge counted exactly the failures of its own key, and has room for another |
| `TerminalStatesAreFinal` (memory) | nothing rewrites a redeemed, expired or failed challenge |
| `OneProofPerChallenge` (Postgres) | all completions that succeed on a challenge carried one event and got one session |
| `OneSessionPerChallenge` (Postgres) | no challenge ever has two session rows |

**`issuance`** - four init requests, at most two at once, from two addresses or none, against a
window of two seconds with a limit of two and caps of one per principal and two per address.

| Property | Says |
| --- | --- |
| `RateBounded` | however windows, their edge and pruning fall, no interval of a window's length lets twice the limit through |
| `NoLockout` | a login start is refused only at an address that has spent its own budget: strangers cannot spend it for a principal |
| `OutstandingBounded` | the caps are overshot by at most the other requests in flight |

**`refresh_memory`** and **`refresh_postgres`** - three refreshes and a logout of one session,
with a suspension that may fall inside the login; in memory the session expires and is evicted
under them, over Postgres a lifetime ceiling binds. Three refreshes are what it takes to rotate,
rotate again and present the first token.

| Property | Says |
| --- | --- |
| `OneRotationPerToken` (Postgres) | of all refreshes that present a token at most one rotates |
| `CeilingHolds` (Postgres) | no access token outlives the ceiling, however often it was refreshed |
| `RetiredTokenIsCaught` (memory) | the token a session was last rotated off is never called unknown |
| `ReuseMeansTwoUses` (memory) | the replay alarm is raised only if the token was really spent twice |
| `ReplayEndsLineage` (memory) | after the alarm no token of the session works, rotations in flight included |
| `SuspensionSurvivesRefresh` (memory) | a refresh in flight cannot carry a session across a suspension: what works is a session whose login straddled it, and that only until its first refresh |

`CeilingHolds` is checked with a session TTL below the ceiling: only `refreshSession` reads
`maxSessionLifetimeSeconds`, so a login's own TTL is not clamped to it (`server.ts:791`). The
properties of the two modules that are proved (section 4) hold over both stores; the runs check
each where its race is longest.

**`guards`** - one principal, known, unknown or already suspended, two logins, one guarded request
of four kinds, two operator calls, a release that drops a role.

| Property | Says |
| --- | --- |
| `SuspendedIsOut` | a guard that re-reads the ACL never admits a principal who was suspended before the request and throughout it, unless the suspension never stood in the table |
| `LiveAuthority` | what a request is admitted on stood while it was judged: the ACL's own grant, and the presented session's own fresh step-up |
| `NoPunishmentWithoutCause` | unreadable, missing or undeclared rows deny, and revoke nothing |
| `RoleChangeEndsSessions` | when the operator's calls are through, a session that works has the role of its owner's row, unless its login read the row before the change or two writers edited it at once |

**`browser`** - two tabs, two overlapping calls, two accounts, three moves by users, signers and
the server.

| Property | Says |
| --- | --- |
| `LockMeansNoKey` | locked means no key and unlocked means a key, whatever was under way, except in sessions a logout overtook |
| `LockedHasSession` | no order of messages and answers leaves a tab locked without a session, which login refuses to leave, except after an expiry learnt by `resume()` |
| `NoSilentSwap` | only `resume()`, which takes the cookie's word, replaces one account by another |
| `UnattendedSessionLocks` | a session from a login is locked in the end if nobody is there (liveness) |

**`cross_origin`** - one relying page and its popup, three scopes it may ask for (one outside the
policy), two accounts, two signatures, three moves by users and wallet, and a wallet that supplies
both of the optional callbacks `onSign` and `ensureUnlocked` or neither.

| Property | Says |
| --- | --- |
| `OneCompletionPerConsent` | two completion proofs asked for at once do not both ride the consent to the connection |
| `NothingBeyondConsent` | a signature is by the expected account, and the user said yes to that account and that item |
| `NoSignatureAfterRevocation` | a signature being asked for or made when its grant was revoked does not leave the page |
| `GrantDiesWithTheKey` | once the page was told of a lock there is no grant, save from a connection the lock overtook, if the wallet supplies `ensureUnlocked` |
| `EveryRequestSettles` | every `signEvent` settles, whatever became of the popup (liveness) |
| `RevocationReachesClient` | a page whose grant is gone learns of it without asking (liveness) |

**`nip46`** - two overlapping calls of connect and disconnect, one request, five connections, five
moves, each way to pair, with and without a store.

| Property | Says |
| --- | --- |
| `OnlyAcknowledgedPairings` | what is used and stored is a pairing the bunker acknowledged, whoever else answered |
| `NothingLeaks` | an open connection is the signer's, a running call's, or one that another `connect()` replaced |
| `StoreAgrees` | a call that overlapped no other leaves the store naming the pairing in use, or nothing in use and nothing stored after a disconnect, unless the store would not forget |
| `EverythingSettles` | every call and every request settles, whatever the bunker does (liveness) |

**`voucher`** - two logins by the owner or a thief of one voucher, which expires with the session
or never, two keysets, five wirings (two are refused), two ticks of the clock: enough for an
answer to travel a tick, a copy to live another, and two answers to arrive in the wrong order.

| Property | Says |
| --- | --- |
| `FullGrantIsEarned` | the full grant rests on a genuine, unexpired voucher, locked to the key that logged in and unspent during the login; until refreshed, the session ends with it |
| `OutageGrantsLess` | only a mint that did not answer yields the degraded grant, and that has nothing the operator listed as destructive, at login, at guards or after refreshes |
| `KeysAreRecent` | a key the mint withdrew is honoured no longer than the cache's TTL and the time an answer may be under way |

Besides these `guards`, `browser`, `cross_origin`, `nip46` and `voucher` check their module's type
invariant. That of `Completion` and of `Refresh` is proved only. The inductive invariants of
section 4 were all checked with TLC on these instances before they were proved; they are not
properties of the runs, since each implies the ones that are.

Runs that show a disagreement between the code and what the repository says of it:

| Run | Shows |
| --- | --- |
| `redeem_at_expiry` | over Postgres, the first completion at the second `expires_at` is answered "already redeemed" |
| `retry_after_expiry` | the proof that won, sent again after the challenge expired but while its result is kept, is answered "expired" |

**Bounds.** `MaxTime` ends the clock, `MaxInFlight` bounds concurrent init requests, `Suspendable`
the principals an operator acts on, `MaxMoves` what users, signers and wallets do of their own
accord, `MaxConn` and `MaxReq` connections and signatures; the sets of requests are finite. The
moves are not bounded for what the programs themselves do: timers, deliveries and answers are free.
Deadlock is checked over `Completion`, `Refresh` and `Guards`, whose last states are explicit; in
the other runs a state without a successor is one in which users, clock and requests are used up.
Symmetry is over requests, logins and operator calls (and, where no event names them, challenges,
sessions, principals or addresses), which nothing distinguishes; runs with liveness properties use
none.

**Fairness.** Safety is checked without any: a request that is never resumed is a behaviour of the
model. For liveness, `FairSpec` states weak fairness of what a browser does by itself:

* `ClientSession` - posted messages are delivered, an armed idle timer fires, and every promise a
  call awaits settles, with an answer or with a failure. It is not assumed that users act.
* `CrossOrigin` - timers and the poll of `popup.closed` run, messages to a live document are
  delivered, an opened page loads, and the wallet's bus is heard. Nothing is assumed of the steps
  that wait for the user or for the signer: a prompt may stay open for ever.
* `RemoteSigner` - the timers of `withTimeout` fire and the browser's own promises (storage,
  cryptography, fetch, closing a socket) settle. The bunker need never answer.

## 4. Proofs

Each of the eight `...Proofs` modules is about one component and holds for all values of the
constants that the component's assumptions allow: any number of requests, principals, tabs,
logins, vouchers or messages, any positive TTLs and limits, either store. The assumptions say what
the code takes for granted: TTLs and limits are numbers of the right sign, a registry's roles and
permissions are strings it declares, the requests of one kind are not those of another, and the
unset value `None` is told from whatever it stands beside, as `null` is in the code. TLC evaluates
them at the start of each run. No theorem rests on the sets being finite, except that one which
counts requests counts those that exist.

A safety property is seldom inductive. Each component has an inductive invariant, stated in the
component's module after its properties, with its initial case, one lemma per action (or per kind
of action) and one part of the invariant after the other; the properties are its consequences.
Action properties are proved of a single step from a state in which the invariant holds.

| Module | Inductive invariant | Properties proved |
| --- | --- | --- |
| `CompletionProofs` | `SingleUseInv`, `LoginInv`, `BudgetInv` | `TypeOK`, `OneProofPerChallenge`, `TerminalStatesAreFinal`, `OneSessionPerChallenge`, `RefinesLogin`, `BudgetCountsOwnFailures` |
| `IssuanceProofs` | `CapInv`, `RateInv` | `OutstandingBounded`, `RateBounded`, `NoLockout` |
| `RefreshProofs` | `LineageInv`, `SuspensionInv`, `CeilingInv`, `CaughtInv` | `TypeOK`, `OneRotationPerToken`, `ReuseMeansTwoUses`, `ReplayEndsLineage`, `IndexesAgree`, `SuspensionSurvivesRefresh`, `CeilingHolds`, `RetiredTokenIsCaught` |
| `GuardsProofs` | `GuardInv` | `TypeOK`, `NoPunishmentWithoutCause`, `RoleChangeEndsSessions`, `SuspendedIsOut`, `LiveAuthority` |
| `ClientSessionProofs` | `ClientInv` | `TypeOK`, `LockMeansNoKey`, `LockedHasSession`, `NoSilentSwap` |
| `CrossOriginProofs` | `CrossInv` | `TypeOK`, `OneCompletionPerConsent`, `NothingBeyondConsent`, `NoSignatureAfterRevocation`, `GrantDiesWithTheKey` |
| `RemoteSignerProofs` | `RemoteInv` | `TypeOK`, `OnlyAcknowledgedPairings`, `NothingLeaks`, `StoreAgrees` |
| `VoucherProofs` | `VoucherInv` | `TypeOK`, `FullGrantIsEarned`, `OutageGrantsLess`, `KeysAreRecent` |

**Login** (`CompletionProofs`). `OneProofPerChallenge` speaks of requests that have finished, while
the danger is a request about to finish, and a row that the sweep removes takes the evidence with
it. `SingleUseInv` adds what is missing:

* `LocalsHeld` - a request past an await holds what that await produced.
* `FreshIds` - a challenge id is written once, so a swept row never comes back as a new one.
* `RedeemedRows` - event and session columns are set together, on redeemed rows only.
* `LoadedInTime` - a request past the load saw a row that is not late at the `now` it still uses.
  This is why the in-memory `redeem`, which would write `expired` over any late row, never does
  so to a redeemed one.
* `WinnersAgree` - whoever has won, or holds the winning session and is about to answer, agrees
  with the row while it exists, and with every other winner always.

The refinement needs to know in addition that a grant is a legitimate one, which `LoginInv` says:
a row is its init request's (`OwnedRows`), a request past the checks carries the owner's proof
(`ProofChecked`), only a finished request was told of success (`LocalsInOrder`), and a session id
that a row, a request or a challenge mentions was drawn by a request that stored it and is tied to
one challenge (`SessionIds`) - also when the session's row, the challenge's or the request that
drew it is gone. `Refines` then takes the actions one by one: `InitCreate` is the abstract issue,
the three redeems are the grant, the answers are answers, the sweep may close or forget a challenge
nobody was told of, and all else shows nothing of itself. The two stores go through the same
lemmas once each redeem is reduced to what it does to one row (`Redeemed`) and one request
(`Become`).

**Issuance and the limiter** (`IssuanceProofs`). `IssuanceIsLogin` (`IssuanceSpec => Spec`) shows
first that every theorem about `Completion` holds behind the limiter. `CapInv` counts the rows
outstanding together with the requests that were found to fit and have not written yet: the count
a request makes is of its own moment, and what others add until it writes is bounded by those in
flight. `RateInv` describes each window exactly (`WindowCounts`: what it counted, what it let
through, what came through in a window's length before it) and what may be said of an identifier
that has none, because it was never seen or was pruned (`NoWindow`); the bound on an arbitrary
interval follows since at most two windows meet it. These are the proofs that count: they cite
the library's facts on finite sets.

**Refresh** (`RefreshProofs`). The compare-and-swap is not enough by itself: that the token it
finds current was never spent before has to be known of every session, at all times. `LineageInv`
says

* `OwnTokens` - a session's tokens were minted for it (by its login, or by a request that rotated
  it), the current one is spent by nobody and the one before it was. Tokens of different sessions
  therefore differ, which is also what the sweep's `delete` calls rely on.
* `OwnLocals` - a request presents a token that was minted, holds a session that exists, and if it
  concluded a replay, from however old a copy, the token was spent.
* `ReplayRevokes` - a replay's session is revoked or forgotten. `ReplayEndsLineage` alone is not
  inductive: an expired session that is not revoked could be rotated by a request in flight, and
  would work again.

All steps but `LoginStore` and `RefreshRotate` are *quiet*: they mint no token, and `QuietStep`
deals with them together. `SuspensionInv` strengthens the suspension property from "does not work"
to "revoked or forgotten" for the same reason; `CeilingInv` adds that a request past the check
carries a `now` before the ceiling, which is what makes the one-second floor of
`clampTtlToDecision` safe. `CaughtInv` adds that a request that has looked its token up presents a
token of the session it holds. `CeilingIsAWall` has the hypothesis `SessionTtl <= MaxLifetime`,
since a login is not clamped to the ceiling.

**Guards** (`GuardsProofs`). `GuardInv` follows what a request or a call has in its hands across
its awaits: a decision that was read grants only what stood in the row since the request began, and
denies if the principal was suspended all along (`TasksInOrder`); a row behind a session is never
taken away (`RowsStand`); an upsert compares with the role that stands, unless another writer came
between (`OpsInOrder`); a session that was right when it was made is right, or about to be revoked
(`RoleKept`).

**Browser** (`ClientSessionProofs`). `ClientInv` says how far each call has come and what it knows
(`CallsInOrder`), and, without the exception for tabs that have no session, that key and lock
exclude each other (`KeyOrLock`): a tab without a session may be given one by a call in flight.

**Cross-origin** (`CrossOriginProofs`). `CrossInv` is about the channel as much as about its ends:
one connection asks once and gets one grant (`OneGrantPerConnect`), and from the policy to the
signed event each stage has what the one before it checked, in the signer page (`PageWithin`), in
the messages (`MessagesWithin`) and in the relying page (`ClientWithin`). `OneRide` is why the
consent covers one proof: it is claimed before anything is awaited. `RevokedFindsNone` is why the
single test after the signature is enough: a grant that was taken away is not followed by another
on the same page. The queues are arbitrary sequences.

**NIP-46** (`RemoteSignerProofs`). `RemoteInv` gives every open connection exactly one holder
(`Holders`, `Held`), orders acknowledgement before storing and using (`AckedFirst`), and carries
what a call that overlaps no other knows of the store through its stages (`AloneIsAlone`,
`Agreed`).

**Voucher** (`VoucherProofs`). Each stage of a login knows what the stages before it checked
(`StagesPassed`), keys on their way were published after they were asked for, and a copy ends a
TTL after they arrived, which was in time (`CopyIsRecent`), and a session is what its login earned
and keeps no more than that through guards and refreshes (`SessionEarned`).

Only model-checked: the four liveness properties (`UnattendedSessionLocks`,
`EveryRequestSettles`, `RevocationReachesClient`, `EverythingSettles`), which need fairness and
`ENABLED`, and the two disagreements with the documentation, which TLC refutes. Induction over data
is out of the prover's reach as well; no definition that is proved about needs it.

## 5. What the models brought to light

The exceptions in the properties above are places where the code does something a reader might not
expect. None is a claim that the code is wrong: most are races the design accepts.

Server:

* A retry of the winning proof inside the result-cache window but after the challenge's expiry is
  answered "expired" (`server.ts:722`); the RFC's section 13.3 asks for the success (run
  `retry_after_expiry`).
* A login that resolved its ACL before a suspension stores its session after it (`server.ts:768`,
  `782`), while `acl.ts:197` speaks of ending the principal's sessions. A guard with a resolver and
  a refresh keep that session out; a guard without one does not. `SuspensionSurvivesRefresh` excepts
  exactly these sessions.
* A logout with an expired access token revokes nothing, and the refresh token works on (express
  `adapter.ts:661`, `671`).
* Rotation remembers one retired token: the one before that is taken for a made-up one
  (`memory.ts:300`), also when one party rotated both times; `nap-core/types.ts:181` argues that
  whoever rotated past it had tripped the check.
* `suspend()` of a principal without a row does nothing, and auto-provisioning that read "no row"
  writes the default over a row an operator has written since (`acl.ts:123`). `upsert` decides on
  a role it read before its write (`acl.ts:228`).

Browser session: a lock that arrives while `login()` awaits `getNpub` is cleared without a word
when the login goes on (`session.ts:303`); `resume()` that finds a locked session expired leaves
the tab locked without one; a logout that overtakes a login leaves a session without its key; a
re-unlock in flight is not stopped by a logout, a lock or `destroy()`.

Cross-origin signer: a connection that a lock overtakes still records its grant, and so does one to
a locked wallet that supplies no `ensureUnlocked`; a grant names the account it was made for and is
ended by an account switch only when the bus says so; the grant's expiry is not looked at again
after the prompt or the signature; a "grant expired" error for a request that has timed out
meanwhile does not end the client's grant.

NIP-46: of two overlapping `connect()`s the first connection is replaced and stays open; a
`disconnect()` that overtakes a `connect()` is undone by it; a failing restore clears the record
another call has just stored; a `disconnect()` whose `store.clear()` rejects has dropped the
connection but left the record (`signer.ts:249`); `parseBunkerInput` and `bunker.close()` have no
timeout of their own.

Voucher: of two overlapping keyset fetches the older may overwrite the newer
(`mintClient.ts:243`), and the TTL counts from an answer's arrival, which `KeysAreRecent` allows
for; without `destructivePermissions` nothing is known of the degraded grant; a refreshed session
may outlive its voucher, as `types.ts:217` says; an issuer key written in compressed form never
matches the allowlist (`resolver.ts:271`); an `expires_at` tag that is not a number means no
expiry.

## 6. Not modelled

* Audience resolution, URL, header and body parsing, codecs: functions of strings, without state,
  fixed by the repository's test vectors. What they refuse is `CompleteReject`, `WellFormed` or
  `GuardNoSession`.
* Curve arithmetic, canonical bytes and signatures: out of TLC's reach. Whether they verify is a
  fact of a proof, a credential or a keyset.
* Metrics and audit logging: nothing reads them; that they may throw is modelled.
* Key storage, browser-extension signers, React bindings: thin wrappers; their outcomes are steps
  of `ClientSession` and `RemoteSigner`. `lockRecovery` and the callbacks to an application are
  left out.
* The padding of response times, and several relying pages at one signer popup.

## 7. Plan

1. The session life cycle as an abstract specification - a token family that ends once - which
   `Refresh` implements as `Completion` implements `OneTimeLogin`.
2. What the liveness properties rest on and can be proved: that a pending request has a timer
   armed, that an unattended tab has an idle timer or a lock, as invariants.
3. A relation between the modules: the session a completion hands out is one that `Refresh` and
   `Guards` start from.
