# Verification of authorizer

TLA+ specifications, TLC models and TLAPS proofs for the authentication server in
`src/`. They cover the parts of the server where concurrency, partial failure and long call
sequences meet: the authorization-code flow, refresh-token rotation, the session stores and the
cache below them, mailed links, the TOTP factor, and shutdown.

## The system

| part | state | operations | interacts with |
|---|---|---|---|
| token endpoint (`http_handlers/token.go`, `token/auth_token.go`) | session-store entries `session_`, `access_`, `refresh_<nonce>`, family records, claims in the tokens | code grant, refresh grant, replay handling | session store, user rows, authorization endpoint |
| session stores (`memory_store/in_memory`, `db`, `redis`) | user sessions, MFA sessions, OAuth states, cache | set, get, delete, claim, sweep, expiry, eviction | every handler |
| logout and revocation (`http_handlers/logout.go`, `revoke_refresh_token.go`) | none of their own | delete the three entries of a nonce | session store |
| password reset, deactivation, user administration (`service/`) | user row, verification requests, OTPs | stamp or remove the row, sweep the user's sessions, directly or detached | session store, `asyncutil` |
| authorization endpoint and code (`http_handlers/authorize.go`, `codestate`) | OAuth states, code state | issue a code, roll the browser session over, redeem | stores, login, token endpoint |
| login, signup, MFA, OTP, TOTP (`service/`, `authenticators/`) | MFA sessions with a purpose, OTP rows, attempt counters, TOTP secrets | challenge, verify, lock out, enrol | stores, cache |
| single-use claims and counters (`memory_store/*/cache.go`) | cache entries with expiry | `SetCacheNX`, `IncrementCache`, `DeleteCacheByPrefix` | TOTP, SAML, client assertions, lockouts |
| token exchange and delegation (`token/delegated_access_token.go`) | claims | narrow, validate against the originating session | session store |
| SAML, social login, SSO, SCIM, consent | states, user rows | callbacks, provisioning | stores, login |
| API surfaces, storage drivers, mail, SMS, configuration | | transport, I/O | everything |

`PROJECT.json` lists every part with its status, and every hazard at its line.

What makes it hard: several requests present one token at once; a handler is a sequence of
store calls, any of which can fail or be the last before a crash; a store error cannot be told
from a missing entry; administrators, resets and detached sweeps act between two calls of a
handler; rows are read early and written back whole; entries expire or are evicted by themselves; a retry must be told
from a replay.

What has to be right: one redeemable token per lineage, no token exchanged twice, a lineage that
has ended stays ended, replay handling takes nothing from clients that did nothing wrong, a
rotated token stays bound to its grant, and a revoked user gets nothing new. A code is exchanged once and only by the client it was made
for. Attempts are counted before they are compared, and what is single-use is won once. A mailed link
proves one address for one purpose. A verified factor is one the user has shown. A process that is asked to stop finishes its
work and ends.

## Modules

### `RefreshRotation`

One user, several requests in flight. Every call a handler makes to the store or the database is
one step of that request; between two steps anything else may happen. `req[r]` holds the
handler's next call (`pc`) and its locals: the presented nonce `cur`, the nonce being deleted
`victim`, the minted nonce `fresh`.

| action | code |
|---|---|
| `RefreshValidate` | `ValidateRefreshToken` and the checks after it; a store error looks like a missing entry |
| `HandleReuse`, `Tolerated` | `handleRefreshTokenReuse`: no family, no record, live nonce, grace window, revoke |
| `ClaimRefreshToken` | the atomic delete; lost: 400, error: 503 with the entry gone or not |
| `RetireOldSession`, `DeleteUserSession` | the three best-effort deletes, after a claim or for a logout, revocation or replay |
| `CodeGrant` | the code grant after redemption |
| `LoadUserAndMint` | `GetUserByID`, the revoked check, `CreateAuthToken` |
| `PersistSession` | session, access and refresh entries (an error ends the request), then the family record (best effort) and the answer |
| `Crash` | the process dies between two calls |
| `Logout`, `RevokeToken` | the two HTTP handlers |
| `ResetPassword`, `RevokeAccess`, `EnableAccess`, `DeleteUser`, `Sweep` | the service operations; `Sweep` is the detached goroutine |
| `Expire`, `Lapse`, `LapseRecord`, `Tick` | expiry, eviction and the clock |

Left out: session keys (a function of the claims), token values and hashes, what a grant is bound
to beyond its identity, grants without `offline_access` (they have no refresh token).
`DeactivateAccount` has the effect of `RevokeAccess`. The sweep is one step as in the database and
in-memory stores; a Redis sweep deletes key by key, which the model covers as a run of
`Lapse` steps. Two pending sweeps count as one, for the same reason. `swept` is a history
variable.

`TokenLineage` is the abstract specification of rotation: a usable token is exchanged, the exchange mints one successor of the
same family and grant, the successor becomes usable, and the right to go on can get lost at any point but is never found again. The
mapping takes a token with its refresh entry as usable (`Usable`), one a request has claimed and not yet minted for as spent (`Spent`), and a
minted one whose refresh entry is still to be stored as fresh (`Fresh`). Deletes, crashes, logouts and sweeps are `Lose` steps.

### `SessionStore` and `SessionMap`

The in-memory store with its two maps, `store` (key to expiry) and `keyIndex` (expiry to key).
Every operation holds one mutex and is one action, including the read operations that delete
expired entries and one round of `clean`. `Set` on a full store with an empty index panics: gin recovers,
nothing has changed.

`SessionMap` is what the handlers assume of any store: entries come only through a set, may vanish,
and a set costs at most one other entry. `SessionStore` is shown to implement it. `RefreshRotation`
makes the same assumption, with `Lapse` and `LapseRecord` for entries that vanish.

### `AuthorizationCode`

`parked` maps a state parameter to the authorize blob, `codes` a code to the code blob; both are records with the
fields of `codestate`, an absent field being `Empty`. `live` is the set of session tokens in the store, `cookie` what each browser
holds. Every store call of a handler is a step.

| action | code |
|---|---|
| `Authorize`, `SignInFirst`, `ForceReauth` | `AuthorizeHandler` up to the session check: park the request, send the browser to the login page |
| `RenderConsent`, `Consent`, `PassConsent` | the page for self-asserted clients, its POST, the approval the next `/authorize` consumes |
| `Rollover`, `BindCode`, `Persist`, `Respond` | the rest of `AuthorizeHandler`: old session deleted, code state and new session stored, cookie set |
| `Session`, `GetState`, `RemoveState`, `BindCode`, `Persist`, `Retire` | the session query: new session first, old one last |
| `SignIn`, `OAuthCallback`, `Withhold` | the sign-ins that complete a parked request; a signup or callback whose session the MFA gate withholds has removed it by then, a login has not read it yet |
| `BindFails`, `PersistFails` | a store error, with what each handler then does |
| `TakeCode`, `Exchange`, `RefuseSession` | the code grant: `GetAndRemoveState`, the binding checks (`Matches`), the session check |
| `Logout`, `ExpireParked`, `ExpireCode` | logout and the ten minutes of a state |

The blobs lose what the code loses: the hybrid branch and the social callback do not store the resource, so the audience of
a grant is the requested resource or none. A session is keyed by user and nonce, as in the store. Abstracted: credential, MFA and client
checks (a sign-in may be by any user, a token request may present anything the checks compare), the method of a PKCE challenge,
response modes, session expiry. The composition with `RefreshRotation` is by its action `CodeGrant`: what `Exchange`
answers with is the start of a lineage there.

`OneTimeCode` is the abstract specification of the flow: a code is generated for one request; a completed sign-in makes it redeemable with a
session no code had before; redeeming uses that up in the same step and leads to an answer with what the request asked
for. The mapping reads the code blobs as tickets (`Ticket`), the session tokens not yet created as unused (`Unused`) and the token
requests between `TakeCode` and `Exchange` as holders of a grant (`Taken`). Whatever a store error, expiry or a failed check takes away is a `Lose` step.

### `Cache`

One key of the shared cache, on the in-memory map or on the SQL table, used as an attempt counter (`VerifyOTP`,
`Login`), by the admin lockout or as a single-use claim (TOTP passcode, SAML assertion, client assertion). Which of these
is chosen in `Init`, together with whether the handlers share a process. Every access to the map or the table is a step:
`Load` and `Swap` for the compare-and-swap loops, `Get` and `Judge` for `GetCache`, `Lock`, `ReadRow`, `Drop` and `Insert` for the table,
`CompareFails` and `CompareSucceeds` for what the caller does with its slot, `CleanExpired` and `Tick`. A failing
statement is a branch of the step and sets `faulted`. The other ghosts tell apart what the properties allow: `recycled` (a
mark of the key has expired), `evicted` (`GetCache` deleted an entry it had not read), `admitted`, `held` and `clash`.

`AttemptLimiter` is what the interface comment of `IncrementCache` promises: counting an attempt and learning its slot is one step on one
counter. The in-memory store, used as an attempt counter, implements it (`AttemptsAreAtomic`): the successful compare-and-swap is the attempt, and the clock reading
it judges by may be old while the count never is. The table does not: its increment is three statements, which a second process or a
failing statement can split, and there `BudgetHolds` says what is left.

### `VerificationRequest`

Account rows and the table of mailed links. A handler reads (`SignUp`, `MagicLinkLogin`, `ForgotPassword`,
`ResendVerifyEmail`, `LoginUnverified`, `InviteMembers`, `VerifyEmail`, `VerifyEmailHandler`, `ResetPassword`, `ChangeEmail`, `EditUser`, `DeleteUser`), then
continues in steps: `AddUser`, `CreateUser`, `Unlink`, `Mint` for a new link; `Consume` or `ResetLookup`, `Save`, `Withhold` or `PassGate`, `Spend`
for a redemption; `Erase` and `Cleanup` for a deletion. Each storage call may fail. `UpdateUser` writes the whole row the handler read;
`AddVerificationRequest` replaces the token under its key and keeps the row's ID; `DeleteVerificationRequest` deletes by that ID.

Ghosts: `expect` is the row as it would be if every write touched its own columns only, `stale` the accounts for which a
handler saved over a newer row, `owed` the links not used, replaced or withdrawn, `raced` those deleted by a
handler that had read another token under the same ID, or by the clean-up of a deleted account. These exceptions are what the code does:
whole-row saves and deletes by ID lose updates when handlers overlap. The properties say that nothing else does. gorm's `Save` of a deleted
row, which inserts it again, is modelled as external behaviour. Invitations are one address at a time; the
clean-up loop is one step; the e-mail leg only, with verification and magic links enabled.

### `Totp`

The authenticator row of one user, the staged re-enrolment and the used-passcode marks in the cache. An enrolment is a number standing
for its secret and its recovery codes. `Generate` continues as `StagePending`, `AddAuthenticator` and `Create`, or
`Overwrite`; `VerifyOTP` as `GetPending`, `Promote`, `ClearPending` when the passcode confirms what is staged, else as `Validate`,
`Reserve`, `Mark`, and for a recovery code `ReadCodes`, `Consume` or `Retry`. `Fail`, `ReserveFailsOpen`, `ExpirePending` and the
administrator's `ResetMfa` interfere.

What the code does under overlap, and the properties therefore allow: two promotions of one staged
enrolment write its recovery codes twice (`written`); a confirmation reserves no passcode (`promoted`); `Validate` writes back the secret
it read first (`reverted`); `Generate` overwrites a row it had read as unverified; the clean-up after a promotion deletes
whatever is staged by then; `AddAuthenticator` does nothing when a row has appeared meanwhile, so that the displayed
secret is not the stored one. Left out: undecryptable secrets and key rotation, MFA-session checks, a deployment without a
cache.

### `Shutdown`

`server.Run` from the signal to the exit (`CloseHTTP`, `HTTPDrained` or `DrainTimeout`, `MetricsDrained`, `Wait`, `Exit`), the gRPC
listener's goroutine (`GracefulStop`, `GrpcDrained`), which nobody waits for, `asyncutil` (`Go`, `Begin`, `End` also for a panic, `CountDown`), and the second interrupt (`Kill`).
What runs when the process ends is lost. Requests through the REST gateway are HTTP requests.

### MC modules

Finite instances with symmetry; in `MCAuthorizationCode` users are interchangeable up to who is signed in first, which `MCSpec` fixes. `MCRefreshRotation` also defines `TokenSpec`, the
specification without administrators and evictions, to reach longer chains. `MCAuthorizationCode` gives the two requests: a hybrid one
of a registered client with a secret, and a PKCE one of a self-asserted client, with the same state parameter and redirect URI.

## Runs

| run | question | result |
|---|---|---|
| `rotation_races` | two requests, three generations of one lineage, clock around the grace window, one fault or crash; a refinement of `TokenLineage` | holds |
| `rotation_admin` | the same with revoke, enable, delete, reset, late sweeps, lapses; two generations | holds |
| `rotation_legacy` | a token without a family, two families, two grants | holds |
| `reset_sweep` | does a completed reset leave nothing of the old lineages? | violated |
| `session_store` | four keys, two entries allowed, expiry, every operation | holds |
| `store_size` | is the bound kept? | violated |
| `store_victim` | has a full store always a victim? | violated |
| `auth_code` | two handlers, two requests that share a state parameter, two users, three sessions, store errors and expiry; a refinement of `OneTimeCode` | holds |
| `verification` | two handlers, two addresses, two accounts, three links, four requests | holds |
| `cache` | two handlers, both back ends, three uses, one and several processes, failing statements, expiry at the second; in memory a refinement of `AttemptLimiter` | holds, with liveness |
| `totp` | two handlers, two enrolments of two codes, four sign-ins, faults, MFA reset | holds |
| `shutdown` | two HTTP requests and one RPC, two detached functions, panics, timeout, second interrupt | holds, with liveness |

The three violations are disagreements between code and comments:

* `reset_sweep`: a rotation that claimed its token before the sweep stores the successor after it.
* `store_size`: deletes leave entries in `keyIndex`; an eviction that picks one removes nothing, and since
  the test is `==` no later set evicts while the store is above the bound.
* `store_victim`: entries expiring in the same second share an index slot; once an eviction or `clean` has taken that
  slot a full store can have an empty index, and `sortedKeys[0]` panics.

`ExactIndexKeepsBound` shows the other side: while the index names exactly the stored entries, the bound holds and
the victim is the entry that expires first.

What the other runs show:

* `rotation_admin`: an entry of a token somebody holds is never written again once it has left the store
  (`EndedSessionStaysEnded`). Late writes of a rotation, as in `reset_sweep`, are always of a nonce nobody holds yet, so they start a
  session and revive none; a delegated token, which is accepted on the access entry of its subject's session, ends with it for good.
* `auth_code`: what a sign-in stored under a code is exchanged at most once (`CodeIsRedeemedOnce`), for the request that generated the code
  (`GrantKeepsItsBinding`), although two sign-ins can both read and complete one parked request, since `GetState` and `RemoveState` are two calls.
  An approval serves one `/authorize` (`ConsentIsPerRequest`). A cookie names a live session unless its replacement is under
  way or a store error cut the rollover short (`BrowserKeepsItsSession`); it assumes fresh nonces, since sessions of one user with
  one nonce overwrite each other.
* `cache`: the budget holds under any interleaving on one process without faults (`BudgetHolds`); the admin lockout overshoots by at most the
  requests in flight (`OvershootIsBounded`); a claim is exclusive until a mark of the key has expired (`ClaimIsExclusive`); after that, on the
  table, a claimant's delete can remove the row of another claimant. Every call returns (`CallReturns`).
* `verification`: links serve their purpose only (`PurposeIsBound`), an address is verified only by a link to it or by an
  administrator, even under stale saves (`VerifiedMeansProved`), stays verified (`ProofIsKept`), links open until used (`LinkOpensUntilUsed`),
  columns keep their last value (`ColumnsAreKept`), the last three up to the races named above.
* `totp`: `RecoveryCodeIsSpentOnce`, `PasscodeIsUsedOnce`, `VerifiedMeansConfirmed`, `LiveSecretIsKept`, `RowIsOneEnrolment`, and that the
  recovery-code loop has enough attempts (`AttemptsSuffice`).
* `shutdown`: the counter is exact, HTTP work is drained, and an interrupt ends the process unless some detached function never returns.

### Bounds

Two requests are enough for every pairwise race. Three nonces are an original token, its successor and the
successor's successor: the shortest chain with a replay that is not of the immediate predecessor.
`GraceWindow = 1` with `MaxTime = 2` puts a replay inside, at and beyond the window. One fault can hit any single
call; the proofs cover any number. Two entries of four keys let the store be below, at and above its bound.
Nonces and families are never reused (they are UUIDs), so a finite instance ends: the runs do not check deadlock.

In the other modules two handlers are again enough for every pairwise race. `auth_code`: three sessions are the initial one and
two rollovers or sign-ins, two codes let a second request replace the first under the same state parameter. To keep
the run short only the user who is not signed in at first comes through the social callback (`NoSocialAccount`); without that bound the instance has 1.7
million states and holds as well. `cache`: a budget
of one is full after one attempt, a lifetime of one second within a clock of three puts reads before, at and after expiry, four
calls let a third claimant meet two racing ones. `verification`: a second account is a re-signup with the same or a freed address;
three links are a link, its replacement and one of another purpose. `totp`: two enrolments are the live one
and a re-enrolment; an instance with three was run once and holds as well
(16.8 million states, too long to keep). `shutdown`: two HTTP requests, one drained and one not, an RPC, and work of each. Calls, tokens, codes and enrolments are
bounded in the guards, so these runs end too, and do not check deadlock.

### Fairness

Only two runs assume any. `Shutdown`: weak fairness of `Run` (the main goroutine) and of `Begin` and `CountDown` (a started goroutine gets
to run, a deferred call runs): the Go scheduler does not starve a ready goroutine. None for `Respond` and `End`, because nothing
bounds a handler or a detached function; hence the exception in `InterruptTerminates`. Weak fairness is enough for the poll of
`Wait` because finitely many functions are started; were the gRPC listener to start work for ever, the poll could miss every zero.
`Cache`: weak fairness of each handler's next step. A compare-and-swap loop then returns because a round is lost only to a handler that
won, and calls are finite in number.

## Proofs

Every safety property of every passing run is a theorem, for all values of the constants. Only the two
liveness properties are left to TLC. Each inductive invariant was checked with TLC, on the instance of its run or a
similar one, before it was proved; the invariants are not kept as runs.

### Refresh rotation

`RefreshRotationInvariant` states the inductive invariant `IInv` and proves it for the start and for most steps, `RefreshRotationProofs`
for the others, and concludes, for every set of requests, nonces, families, grants and legacy tokens, every grace
window and every number of faults, from `ConstantAssumption` only:

| theorem | statement |
|---|---|
| `TypeCorrect` | `Spec => []TypeOK` |
| `RotationIsLinear` | `Spec => []OneLiveTokenPerFamily` |
| `RedemptionIsSingleUse` | `Spec => []SingleSuccessor` |
| `RotationKeepsGrant` | `Spec => []FamilyKeepsGrant` |
| `RevocationsAreJustified` | `Spec => []RevocationIsJustified` |
| `DeadFamiliesStayDead` | `Spec => DeadFamilyStaysDead` |
| `EndedSessionsStayEnded` | `Spec => EndedSessionStaysEnded` |
| `RevokedUsersGetNothingNew` | `Spec => RevokedUserGetsNothingNew` |
| `RolloversAreComplete` | `Spec => []RolloverIsComplete` |
| `ReplaysHitLiveToken` | `Spec => ReplayHitsLiveToken` |
| `RotationIsLineage` | `Spec => ImplementsLineage` |

None of these is inductive. The argument is about the right to continue a lineage. The store holds it as a
refresh entry; `ClaimRefreshToken` moves it to the one request whose delete removed the entry; minting moves it to
the new nonce; storing the refresh entry gives it back. `IInv` says that a token with this right has a single holder
(`Exclusive`), is the newest of its family and has no successor (`TipOK`), that a request's locals fit its next call
(`LocalsOK`, which type correctness needs as well), that a family record describes the rotation that
wrote it (`RecordsOK`) and that a revocation under way had a reason when it was decided (`RevokingOK`).
One lemma per group of actions shows that it is preserved; three frame lemmas carry the conjuncts an action does not
touch. `EndedSessionsStayEnded` and `RevokedUsersGetNothingNew` need only `LocalsOK` and one more lemma, `OnlyFreshEntriesEnter`: what a
step adds to the store belongs to a token that a request has minted and not yet answered with.

`RolloversAreComplete` and `ReplaysHitLiveToken` speak of behaviours without a fault and need a second invariant on top of `IInv`, `RolloverInv`: while
nothing has failed, only the newest token of a family has entries (`EntriesOK`), those of a consumed token go call by call
(`RetiredAt`), and the record of a family with a redeemable token names no other token, unless the request that stored it is about to write
the record (`RecordCurrent`); a token somebody presents has been handed out, and one about to be is the newest (`TipAt`).

`RotationIsLineage` is the refinement of `TokenLineage`, one lemma per group of actions. It needs `IInv` in two places: that a claimed token has a
single holder makes minting remove it from `Spent`, and that a family is new where the code generates one makes the step a
`Start` or founds the family of a legacy token. Every other step is shown to be a `Lose` step or a stutter.

### Session store

`SessionStoreProofs`, from `SizeAssumption` (there is a longest lifetime), for any keys, bound, lifetimes and clock:

| theorem | statement | why |
|---|---|---|
| `TypeCorrect` | `Spec => []TypeOK` | with a finite store (`Typed`) |
| `StoreIsSessionMap` | `Spec => ImplementsSessionMap` | the refinement, step by step: `Set` writes one key and removes at most one other (`SetShape`), which is a `Put`; every other operation only removes (`Removes`), which is a `Drop` or a stutter |
| `ExactIndexAlwaysKeepsBound` | `Spec => ExactIndexKeepsBound` | an index that names exactly the stored entries has a least expiry whose entry is there, so an eviction makes room (`EvictionBound`) |

The refinement needs nothing of the index: whatever it holds, the store is the map the handlers take it for.

### Authorization code

`AuthorizationCodeProofs`, from `FlowAssumption`, for every set of clients, requests, states, users,
browsers and handlers and all bounds:

| theorem | statement | why |
|---|---|---|
| `ConsentIsAlwaysPerRequest` | `Spec => []ConsentIsPerRequest` | an unused approval has been given and not acted on (`ConsentInv`) |
| `GrantAlwaysKeepsItsBinding` | `Spec => []GrantKeepsItsBinding` | wherever a code travels (parked, in a handler, stored, taken, granted) it carries the fields of its request (`Binding`) |
| `CodeIsAlwaysRedeemedOnce` | `Spec => []CodeIsRedeemedOnce` | a session token is in one place: with the handler that will bind it, in one blob, or with the one token request that took it (`InOnePlace`), and not redeemed before (`Unredeemed`) |
| `BrowserAlwaysKeepsItsSession` | `Spec => []BrowserKeepsItsSession` | no two browsers have the same cookie, a handler's new token is nobody's cookie and replaced by nobody, and the token a handler replaces is at most its own browser's cookie (`Owned`); so the only sessions that end are ones whose browser loses its cookie or waits for the response, and what is handed out is live (`Keeps`) |

| `FlowIsOneTimeCode` | `Spec => ImplementsOneTimeCode` | the refinement, step by step: `/authorize` asks, `BindCode` issues (`Owned`: its session token was not created before), `TakeCode` redeems (`Binding`: the grant is for the request), `Exchange` answers (`InOnePlace`: nobody else holds that grant), and every other step hands nothing to anybody (`HandsNothing`) |

All but the first rest on `Typed`, the types and that a handler past its arrival holds what its next step uses. `BrowserAlwaysKeepsItsSession` assumes fresh
nonces in the state it speaks of; a token is written once, so they were fresh in every state before (`FreshBefore`).

### Cache

`CacheProofs`, from `CacheAssumption`, for any finite number of handlers, calls and attempts, any lifetime and any clock:

| theorem | statement | why |
|---|---|---|
| `BudgetAlwaysHolds` | `Spec => []BudgetHolds` | the entry's value is never below the comparisons let through, or the row is being rewritten and the holder of the mutex carries the count (`CountInv`, `CarryOf`) |
| `OvershootIsAlwaysBounded` | `Spec => []OvershootIsBounded` | once the counter is spent nobody joins those who may still raise it, and each raises it once: the count and their number stay below the bound together (`RoomLeft`); a write adds at most one (`AddsOne`) |
| `ClaimIsAlwaysExclusive` | `Spec => []ClaimIsExclusive` | the winner's mark is in place until it expires, and a handler about to write has read what is still there (`MarkInv`, `ClaimOf`) |
| `AttemptsAreAlwaysAtomic` | `Spec => AttemptsAreAtomic` | a swap succeeds only on the entry the handler loaded, so what it writes follows from the counter as it is (`SwapIsAttempt`); loads and lost rounds are stutters |
| `MutexHolderAlwaysRuns` | `Spec => []HolderRuns` | `incrementMutex` is held only between `Lock` and the end of the insert; with it nobody waits for a handler that has returned, compares or waits itself, the safety half of `CallReturns` |

### Verification requests

`VerificationRequestProofs`, from `LinkAssumption`, for any addresses, passwords and handlers and any number of
accounts, links and requests:

| theorem | statement | why |
|---|---|---|
| `PurposeIsAlwaysBound` | `Spec => []PurposeIsBound` | a handler redeems only links of the purposes its endpoint takes (`Typed`) |
| `VerifiedAlwaysMeansProved` | `Spec => []VerifiedMeansProved` | the row a handler read, and the flag it will write, are backed by a proof (`ProvedInv`) |
| `ProofIsAlwaysKept` | `Spec => []ProofIsKept` | an accepted link, or one waiting at the multi-factor gate, has had its flag saved (`KeptInv`) |
| `ColumnsAreAlwaysKept` | `Spec => []ColumnsAreKept` | a save that finds the row it read changes its own columns only |
| `LinksOpenUntilUsed` | `Spec => []LinkOpensUntilUsed` | a token a handler read, if it is still there, is under the row ID the handler read (`LinksInv`) |

`Typed` carries most of the work: at each label it says what a handler has read and may write, and which links exist.

### TOTP

`TotpProofs`, from `TotpAssumption`, for any finite sets of recovery codes and passcodes and any number of handlers,
enrolments and sign-ins:

| theorem | statement | why |
|---|---|---|
| `RecoveryCodesAreSpentOnce` | `Spec => []RecoveryCodeIsSpentOnce` | an unspent code of the row was redeemed less often than its enrolment was written (`CodesInv`) |
| `PasscodesAreUsedOnce` | `Spec => []PasscodeIsUsedOnce` | an accepted passcode is marked, confirmed an enrolment, or met a failing cache (`PasscodesInv`) |
| `VerifiedIsAlwaysConfirmed` | `Spec => []VerifiedMeansConfirmed` | what a handler will write as verified was confirmed (`Typed`) |
| `RowIsAlwaysOneEnrolment` | `Spec => []RowIsOneEnrolment` | `Typed` |
| `LiveSecretIsAlwaysKept` | `Spec => LiveSecretIsKept` | only a promotion, a stale save of a secret that was confirmed, or a `Generate` that had read no verified row gives a row another secret (`RowSteps`) |
| `AttemptsAlwaysSuffice` | `Spec => []AttemptsSuffice` | a round of the redemption is lost only to another redemption, so the rounds lost are at most the codes consumed (`RoundsInv`); an enrolment is written by its `Generate` or by promotions, never by both (`WritesInv`) |

### Shutdown

`ShutdownProofs`, from `ShutdownAssumption`, for any requests and any finite set of detached functions: `CounterIsAlwaysExact`
(`Spec => []CounterIsExact`) and `HttpWorkIsAlwaysDrained` (`Spec => []HttpWorkIsDrained`). The invariant `Drained` adds that after `httpSrv.Shutdown`
returned in time no HTTP request runs, so that none can start work once `Wait` has read zero. `WaitIsAlwaysExact` (`Spec => []WaitIsExact`) is the
safety half of `InterruptTerminates`: the poll of `Wait` can end exactly when no function is owed its decrement.

### Only model-checked

The liveness properties `CallReturns` and `InterruptTerminates`; what they need of the mutex and of the counter is proved
(`MutexHolderAlwaysRuns`, `WaitIsAlwaysExact`), that the scheduler then brings about the end is not. Liveness under fairness, `ENABLED`, induction over data and `RECURSIVE`
operators are out of the prover's reach; no module of the project declares a `RECURSIVE` operator. The three violated properties have counterexamples and no theorems.

## Not modelled

* Transport adapters and generated code (half of the repository's lines), storage drivers other than
  the SQL statements the modules use, mail and SMS, cryptography and XML signatures, configuration, the embedded authorization
  engine, webhooks and audit output: pure I/O, pure functions or code outside this repository. They have no
  state machine to check, and most of the implementation's lines are of this kind; the modules therefore cover a small share of
  all lines, and most of the lines that change state concurrently.
* The purposes of MFA sessions, the OTP rows of e-mail and SMS and the phone leg of sign-up and reset. A sign-in that the MFA
  gate withholds is modelled only as one that issues nothing.
* Token exchange: a computation on claims and scopes that writes no shared state. It reads one entry, the access entry of
  the originating session, when a delegated token is minted and again when it is used. `EndedSessionStaysEnded` says what that
  check relies on: an entry that has left the store is not written again.
* Passkey ceremonies (a state read once, then a library), SCIM, organizations and trusted issuers (row edits by one actor), account
  linking in the social callback, SSO variants, rate limiting.
* The Redis cache and the NoSQL storage providers: Redis does each cache operation in one command or script; the others
  have statements of their own.

`PROJECT.json` gives the status of each part, with the reason.
