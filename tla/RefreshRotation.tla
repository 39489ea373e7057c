---------------------------- MODULE RefreshRotation ----------------------------
(***************************************************************************)
(* The refresh side of the OAuth token endpoint (http_handlers/token.go):  *)
(* rotation of refresh tokens, replay detection over token families, and   *)
(* the operations that end sessions while a rotation is in flight.         *)
(*                                                                         *)
(* One user is modelled.  A session-store entry "<type>_<nonce>" of that   *)
(* user is a pair <<kind, nonce>>; the session key of every entry follows  *)
(* from the token's claims, so it is left out.  A family record            *)
(* "refresh_family_<id>" is record[id].  Every call to the store or to the *)
(* database is one step; a request is the sequence of calls its handler    *)
(* makes.  What a grant is bound to (client, resource, scope, roles,       *)
(* auth_time) is one opaque value; its scope includes offline_access, so   *)
(* every mint has a refresh token.  A request that the handler rejects     *)
(* before it touches the store changes nothing and is not an action.       *)
(***************************************************************************)
EXTENDS Integers

CONSTANTS
    Requests,      \* handler invocations that can be in flight at once
    Nonces,        \* values of uuid.New() used as token nonces
    Families,      \* values of uuid.New() used as family ids
    Grants,        \* what a grant can be bound to
    LegacyNonces,  \* refresh tokens issued before family tracking
    NoNonce,       \* the empty nonce
    NoFamily,      \* a missing family_id claim
    GraceWindow,   \* refreshReuseGraceWindow
    MaxTime,       \* bound on the clock
    MaxFaults      \* bound on store faults and crashes

ASSUME ConstantAssumption ==
    /\ LegacyNonces \subseteq Nonces
    /\ NoNonce \notin Nonces
    /\ NoFamily \notin Families
    /\ GraceWindow \in Nat
    /\ MaxTime \in Nat
    /\ MaxFaults \in Nat

VARIABLES
    store,     \* live session-store entries
    record,    \* refreshFamilyRecord of each family
    token,     \* claims of every token minted so far
    issuedAt,  \* when a token was handed to its client, -1 before that
    expired,   \* refresh tokens past their exp claim
    req,       \* the local state of each request
    user,      \* the user's row: "active", "revoked" or "deleted"
    sweeping,  \* a detached DeleteAllUserSessions has not run yet
    now,       \* the clock, in seconds
    faults,    \* store faults and crashes so far
    swept      \* families clients held at the last completed password reset

vars == <<store, record, token, issuedAt, expired, req,
          user, sweeping, now, faults, swept>>

(* What the handlers of the token endpoint leave alone. *)
others == <<expired, user, sweeping, now, swept>>

Kinds == {"session", "access", "refresh"}

Labels == {"idle", "claim", "reuse",
           "del_session", "del_access", "del_refresh",
           "ret_session", "ret_access", "ret_refresh",
           "load", "put_session", "put_access", "put_refresh", "put_family"}

Claims == [fam : Families \cup {NoFamily}, grant : Grants,
           parent : Nonces \cup {NoNonce}, gen : Nat]

FamilyRecord == [live : Nonces \cup {NoNonce}, prev : Nonces \cup {NoNonce}, at : Nat]

NoRecord == [live |-> NoNonce, prev |-> NoNonce, at |-> 0]

(* pc is the next call of the handler, cur the nonce that was presented,   *)
(* victim the nonce whose entries are being deleted, fresh the nonce that  *)
(* was minted.                                                             *)
Request == [pc : Labels, cur : Nonces \cup {NoNonce},
            victim : Nonces \cup {NoNonce}, fresh : Nonces \cup {NoNonce}]

NoRequest == [pc |-> "idle", cur |-> NoNonce, victim |-> NoNonce, fresh |-> NoNonce]

TypeOK ==
    /\ store \subseteq Kinds \X Nonces
    /\ record \in [Families -> FamilyRecord]
    /\ token \in [Nonces -> Claims]
    /\ issuedAt \in [Nonces -> Nat \cup {-1}]
    /\ expired \subseteq Nonces
    /\ req \in [Requests -> Request]
    /\ user \in {"active", "revoked", "deleted"}
    /\ sweeping \in BOOLEAN
    /\ now \in Nat
    /\ faults \in Nat
    /\ swept \subseteq Families

-----------------------------------------------------------------------------
(* Tokens.  gen counts the rotations of a lineage; it is 0 for a nonce no  *)
(* token has been minted with.                                             *)

Minted(n) == token[n].gen > 0

FamilyUsed(f) == \E n \in Nonces : Minted(n) /\ token[n].fam = f

HandedOut(n) == issuedAt[n] >= 0

Presentable(n) == HandedOut(n) /\ n \notin expired

(* A store or database call that fails, or a handler that dies. *)
Fault == faults < MaxFaults /\ faults' = faults + 1

NoFault == UNCHANGED faults

Idle(r) == req[r].pc = "idle"

At(r, l) == req[r].pc = l

Begin(r, l, n, v) ==
    req' = [req EXCEPT ![r] = [pc |-> l, cur |-> n, victim |-> v, fresh |-> NoNonce]]

(* The handler returns; its locals are gone. *)
Done(r) == req' = [req EXCEPT ![r] = NoRequest]

Goto(r, l) ==
    IF l = "idle" THEN Done(r)
                  ELSE req' = [req EXCEPT ![r] = [req[r] EXCEPT !.pc = l]]

Init ==
    /\ store = {"refresh"} \X LegacyNonces
    /\ record = [f \in Families |-> NoRecord]
    /\ \E g \in Grants :
          token = [n \in Nonces |->
                     [fam |-> NoFamily, grant |-> g, parent |-> NoNonce,
                      gen |-> IF n \in LegacyNonces THEN 1 ELSE 0]]
    /\ issuedAt = [n \in Nonces |-> IF n \in LegacyNonces THEN 0 ELSE -1]
    /\ expired = {}
    /\ req = [r \in Requests |-> NoRequest]
    /\ user = "active"
    /\ sweeping = FALSE
    /\ now = 0
    /\ faults = 0
    /\ swept = {}

-----------------------------------------------------------------------------
(* The refresh_token grant.                                                *)

(* ValidateRefreshToken: the token's signature and expiry hold, its client *)
(* presents it, and the store is asked for its entry.  A store error looks *)
(* exactly like a missing entry.                                           *)
RefreshValidate(r, n) ==
    /\ Idle(r)
    /\ Presentable(n)
    /\ \/ <<"refresh", n>> \in store /\ Begin(r, "claim", n, NoNonce) /\ NoFault
       \/ <<"refresh", n>> \notin store /\ Begin(r, "reuse", n, NoNonce) /\ NoFault
       \/ Begin(r, "reuse", n, NoNonce) /\ Fault
    /\ UNCHANGED <<store, record, token, issuedAt>>
    /\ UNCHANGED others

(* Mutation of Tolerated: the grace window is missing. *)
ToleratedWithoutGrace(n) ==
    token[n].fam # NoFamily =>
        LET rec == record[token[n].fam]
        IN  rec.live = NoNonce \/ n = rec.live

(* What handleRefreshTokenReuse lets pass without revoking anything: a     *)
(* token without a family, a family without a record, the live nonce       *)
(* itself, and the immediate predecessor inside the grace window.          *)
Tolerated(n) ==
    token[n].fam # NoFamily =>
        LET rec == record[token[n].fam]
        IN  \/ rec.live = NoNonce
            \/ n = rec.live
            \/ n = rec.prev /\ now - rec.at <= GraceWindow

(* handleRefreshTokenReuse up to its call of DeleteUserSession.  An error  *)
(* of the record lookup looks like a missing record.                       *)
HandleReuse(r) ==
    LET n == req[r].cur
    IN  /\ At(r, "reuse")
        /\ \/ Tolerated(n) /\ Done(r) /\ NoFault
           \/ /\ ~Tolerated(n)
              /\ Begin(r, "del_session", n, record[token[n].fam].live)
              /\ NoFault
           \/ token[n].fam # NoFamily /\ Done(r) /\ Fault
        /\ UNCHANGED <<store, record, token, issuedAt>>
        /\ UNCHANGED others

(* Mutation of ClaimRefreshToken: the handler goes on although its delete  *)
(* removed nothing.                                                        *)
ClaimIgnoresLoss(r) ==
    /\ At(r, "claim")
    /\ store' = store \ {<<"refresh", req[r].cur>>}
    /\ Begin(r, "ret_session", req[r].cur, req[r].cur)
    /\ UNCHANGED <<record, token, issuedAt, faults>>
    /\ UNCHANGED others

(* Mutation of ClaimRefreshToken: the handler goes on after an error. *)
ClaimFailsOpen(r) ==
    LET n == req[r].cur
        entry == <<"refresh", n>>
    IN  /\ At(r, "claim")
        /\ \/ entry \in store /\ Begin(r, "ret_session", n, n) /\ NoFault
           \/ entry \notin store /\ Done(r) /\ NoFault
           \/ Begin(r, "ret_session", n, n) /\ Fault
        /\ store' = store \ {entry}
        /\ UNCHANGED <<record, token, issuedAt>>
        /\ UNCHANGED others

(* ClaimRefreshToken: one delete that reports whether it removed the       *)
(* entry.  After an error the entry may or may not be gone.                *)
ClaimRefreshToken(r) ==
    LET n == req[r].cur
        entry == <<"refresh", n>>
    IN  /\ At(r, "claim")
        /\ \/ /\ entry \in store
              /\ store' = store \ {entry}
              /\ Begin(r, "ret_session", n, n)
              /\ NoFault
           \/ entry \notin store /\ Done(r) /\ NoFault /\ UNCHANGED store
           \/ store' \in {store, store \ {entry}} /\ Done(r) /\ Fault
        /\ UNCHANGED <<record, token, issuedAt>>
        /\ UNCHANGED others

(* One of the three deletes of DeleteUserSession.  An error is logged and  *)
(* the next delete is tried.                                               *)
DeleteEntry(r, from, kind, to) ==
    /\ At(r, from)
    /\ Goto(r, to)
    /\ \/ store' = store \ {<<kind, req[r].victim>>} /\ NoFault
       \/ UNCHANGED store /\ Fault
    /\ UNCHANGED <<record, token, issuedAt>>
    /\ UNCHANGED others

-----------------------------------------------------------------------------
(* The part of TokenHandler the authorization_code and refresh_token       *)
(* grants share: load the user, mint, persist, answer.                     *)

(* The authorization_code grant once its code has been redeemed.  The user *)
(* can log in again at any time, so the browser session it needs is there. *)
CodeGrant(r) ==
    /\ Idle(r)
    /\ Begin(r, "load", NoNonce, NoNonce)
    /\ UNCHANGED <<store, record, token, issuedAt, faults>>
    /\ UNCHANGED others

(* Mutation of NewClaims: a rotation binds to what the request asks for. *)
NewClaimsRebound(n, f, g) ==
    IF n = NoNonce
      THEN [fam |-> f, grant |-> g, parent |-> NoNonce, gen |-> 1]
      ELSE [fam |-> IF token[n].fam = NoFamily THEN f ELSE token[n].fam,
            grant |-> g, parent |-> n, gen |-> token[n].gen + 1]

(* The claims of the token CreateAuthToken mints after n was consumed: a   *)
(* code grant starts a family; a rotation carries the family and the grant *)
(* of n, or starts a family when n has none.                               *)
NewClaims(n, f, g) ==
    IF n = NoNonce
      THEN [fam |-> f, grant |-> g, parent |-> NoNonce, gen |-> 1]
      ELSE [fam |-> IF token[n].fam = NoFamily THEN f ELSE token[n].fam,
            grant |-> token[n].grant, parent |-> n, gen |-> token[n].gen + 1]

(* Mutation of LoadUserAndMint: the stores are given an empty nonce. *)
MintWithoutNonce(r) ==
    /\ At(r, "load")
    /\ user = "active"
    /\ req' = [req EXCEPT ![r] = [pc |-> "put_access", cur |-> req[r].cur,
                                  victim |-> NoNonce, fresh |-> NoNonce]]
    /\ UNCHANGED <<store, record, token, issuedAt, faults>>
    /\ UNCHANGED others

(* Mutation of LoadUserAndMint: revoked_timestamp is not looked at. *)
MintForRevoked(r) ==
    /\ At(r, "load")
    /\ user # "deleted"
    /\ \E m \in Nonces, f \in Families, g \in Grants :
          /\ ~Minted(m)
          /\ req[r].cur = NoNonce => ~FamilyUsed(f)
          /\ token' = [token EXCEPT ![m] = NewClaims(req[r].cur, f, g)]
          /\ req' = [req EXCEPT ![r] = [pc |-> "put_access", cur |-> req[r].cur,
                                        victim |-> NoNonce, fresh |-> m]]
    /\ UNCHANGED <<store, record, issuedAt, faults>>
    /\ UNCHANGED others

(* Mutation of LoadUserAndMint: a rotation keeps the nonce of the token it *)
(* consumed.                                                               *)
MintKeepsNonce(r) ==
    LET n == req[r].cur
    IN  /\ At(r, "load")
        /\ user = "active"
        /\ \E m \in IF n = NoNonce THEN {k \in Nonces : ~Minted(k)} ELSE {n},
              f \in Families, g \in Grants :
              /\ n = NoNonce => ~FamilyUsed(f)
              /\ token' = [token EXCEPT ![m] = NewClaims(n, f, g)]
              /\ req' = [req EXCEPT ![r] = [pc |-> "put_access", cur |-> n,
                                           victim |-> NoNonce, fresh |-> m]]
        /\ UNCHANGED <<store, record, issuedAt, faults>>
        /\ UNCHANGED others

(* GetUserByID, the revoked check, and CreateAuthToken with a new nonce.   *)
(* The browser session is only written by the refresh grant.               *)
LoadUserAndMint(r) ==
    LET n == req[r].cur
    IN  /\ At(r, "load")
        /\ \/ /\ user = "active"
              /\ \E m \in Nonces, f \in Families, g \in Grants :
                    /\ ~Minted(m)
                    /\ n = NoNonce \/ token[n].fam = NoFamily => ~FamilyUsed(f)
                    /\ token' = [token EXCEPT ![m] = NewClaims(n, f, g)]
                    /\ req' = [req EXCEPT ![r] =
                                 [pc |-> IF n = NoNonce THEN "put_access" ELSE "put_session",
                                  cur |-> n, victim |-> NoNonce, fresh |-> m]]
              /\ NoFault
           \/ user # "active" /\ Done(r) /\ NoFault /\ UNCHANGED token
           \/ Done(r) /\ Fault /\ UNCHANGED token
        /\ UNCHANGED <<store, record, issuedAt>>
        /\ UNCHANGED others

(* SetUserSession of the session and of the access entry.  An error ends   *)
(* the request with 503; what was written before stays.                    *)
PutEntry(r, from, kind, to) ==
    LET entry == <<kind, req[r].fresh>>
    IN  /\ At(r, from)
        /\ \/ store' = store \cup {entry} /\ Goto(r, to) /\ NoFault
           \/ store' \in {store, store \cup {entry}} /\ Done(r) /\ Fault
        /\ UNCHANGED <<record, token, issuedAt>>
        /\ UNCHANGED others

(* SetUserSession of the refresh entry.  A code grant writes no family     *)
(* record: it answers at once.                                             *)
PutRefresh(r) ==
    LET m == req[r].fresh
        entry == <<"refresh", m>>
    IN  /\ At(r, "put_refresh")
        /\ \/ /\ req[r].cur = NoNonce
              /\ store' = store \cup {entry}
              /\ issuedAt' = [issuedAt EXCEPT ![m] = now]
              /\ Done(r) /\ NoFault
           \/ /\ req[r].cur # NoNonce
              /\ store' = store \cup {entry}
              /\ Goto(r, "put_family") /\ NoFault /\ UNCHANGED issuedAt
           \/ /\ store' \in {store, store \cup {entry}}
              /\ Done(r) /\ Fault /\ UNCHANGED issuedAt
        /\ UNCHANGED <<record, token>>
        /\ UNCHANGED others

(* Mutation of PutFamily: live and previous nonce are swapped. *)
PutFamilySwapped(r) ==
    /\ At(r, "put_family")
    /\ record' = [record EXCEPT ![token[req[r].fresh].fam] =
                    [live |-> req[r].cur, prev |-> req[r].fresh, at |-> now]]
    /\ issuedAt' = [issuedAt EXCEPT ![req[r].fresh] = now]
    /\ Done(r)
    /\ UNCHANGED <<store, token, faults>>
    /\ UNCHANGED others

(* setRefreshFamilyRecord, best effort, and the 200 response.  The write   *)
(* replaces the record by a delete and an insert: an error leaves the old  *)
(* record, none, or the new one.                                           *)
PutFamily(r) ==
    LET m == req[r].fresh
        f == token[m].fam
        new == [live |-> m, prev |-> req[r].cur, at |-> now]
    IN  /\ At(r, "put_family")
        /\ \/ record' = [record EXCEPT ![f] = new] /\ NoFault
           \/ /\ \E rec \in {record[f], NoRecord, new} : record' = [record EXCEPT ![f] = rec]
              /\ Fault
        /\ issuedAt' = [issuedAt EXCEPT ![m] = now]
        /\ Done(r)
        /\ UNCHANGED <<store, token>>
        /\ UNCHANGED others

(* The process serving a request dies between two calls. *)
Crash(r) ==
    /\ ~Idle(r)
    /\ Done(r)
    /\ Fault
    /\ UNCHANGED <<store, record, token, issuedAt>>
    /\ UNCHANGED others

-----------------------------------------------------------------------------
(* Operations that end sessions.                                           *)

(* LogoutHandler: the cookie is decrypted, not looked up, so a logout      *)
(* deletes the entries of its nonce whether or not they still exist.       *)
Logout(r, n) ==
    /\ Idle(r)
    /\ HandedOut(n)
    /\ Begin(r, "del_session", n, n)
    /\ UNCHANGED <<store, record, token, issuedAt, faults>>
    /\ UNCHANGED others

(* RevokeRefreshTokenHandler: the client's own token, only when the store  *)
(* still has an entry for it.                                              *)
RevokeToken(r, n) ==
    /\ Idle(r)
    /\ Presentable(n)
    /\ <<"refresh", n>> \in store \/ <<"access", n>> \in store
    /\ Begin(r, "del_session", n, n)
    /\ UNCHANGED <<store, record, token, issuedAt, faults>>
    /\ UNCHANGED others

(* DeleteAllUserSessions: every entry of the user, family records too. *)
DeleteAllUserSessions ==
    /\ store' = {}
    /\ record' = [f \in Families |-> NoRecord]

(* ResetPassword stores the new password, then sweeps before it answers;   *)
(* an error of the sweep is only logged.                                   *)
ResetPassword ==
    /\ user # "deleted"
    /\ \/ /\ DeleteAllUserSessions
          /\ swept' = {f \in Families : \E n \in Nonces : HandedOut(n) /\ token[n].fam = f}
          /\ NoFault
       \/ UNCHANGED <<store, record, swept>> /\ Fault
    /\ UNCHANGED <<token, issuedAt, expired, req, user, sweeping, now>>

(* RevokeAccess stamps revoked_timestamp and detaches the sweep. *)
RevokeAccess ==
    /\ user # "deleted"
    /\ user' = "revoked"
    /\ sweeping' = TRUE
    /\ UNCHANGED <<store, record, token, issuedAt, expired, req, now, faults, swept>>

EnableAccess ==
    /\ user # "deleted"
    /\ user' = "active"
    /\ UNCHANGED <<store, record, token, issuedAt, expired, req, sweeping, now, faults, swept>>

(* DeleteUser removes the row and detaches the sweep. *)
DeleteUser ==
    /\ user # "deleted"
    /\ user' = "deleted"
    /\ sweeping' = TRUE
    /\ UNCHANGED <<store, record, token, issuedAt, expired, req, now, faults, swept>>

(* The detached goroutine runs; its error is dropped. *)
Sweep ==
    /\ sweeping
    /\ sweeping' = FALSE
    /\ \/ DeleteAllUserSessions /\ NoFault
       \/ UNCHANGED <<store, record>> /\ Fault
    /\ UNCHANGED <<token, issuedAt, expired, req, user, now, swept>>

-----------------------------------------------------------------------------
(* Time.                                                                   *)

(* exp of token n passes.  Its refresh entry and the family record written *)
(* with the same expiry go; lifetimes are equal, so a parent goes first.   *)
Expire(n) ==
    /\ Minted(n) /\ n \notin expired
    /\ \A r \in Requests : req[r].fresh # n
    /\ token[n].parent \in expired \cup {NoNonce}
    /\ expired' = expired \cup {n}
    /\ store' = store \ {<<"refresh", n>>}
    /\ record' = [f \in Families |->
                    IF record[f].live = n THEN NoRecord ELSE record[f]]
    /\ UNCHANGED <<token, issuedAt, req,
                   user, sweeping, now, faults, swept>>

(* An entry leaves the store by itself: an access or session entry reaches *)
(* its own, shorter, expiry, or a full in-memory store evicts it.          *)
Lapse(kind, n) ==
    /\ <<kind, n>> \in store
    /\ store' = store \ {<<kind, n>>}
    /\ UNCHANGED <<record, token, issuedAt, expired, req,
                   user, sweeping, now, faults, swept>>

(* A full in-memory store evicts a family record. *)
LapseRecord(f) ==
    /\ record[f] # NoRecord
    /\ record' = [record EXCEPT ![f] = NoRecord]
    /\ UNCHANGED <<store, token, issuedAt, expired, req,
                   user, sweeping, now, faults, swept>>

Tick ==
    /\ now < MaxTime
    /\ now' = now + 1
    /\ UNCHANGED <<store, record, token, issuedAt, expired, req, user, sweeping, faults, swept>>

-----------------------------------------------------------------------------

DeleteUserSession(r) ==
    \/ DeleteEntry(r, "del_session", "session", "del_access")
    \/ DeleteEntry(r, "del_access", "access", "del_refresh")
    \/ DeleteEntry(r, "del_refresh", "refresh", "idle")

(* Mutation of RetireOldSession: the access entry is not deleted. *)
RetireSkipsAccess(r) ==
    \/ DeleteEntry(r, "ret_session", "session", "ret_refresh")
    \/ DeleteEntry(r, "ret_refresh", "refresh", "load")

RetireOldSession(r) ==
    \/ DeleteEntry(r, "ret_session", "session", "ret_access")
    \/ DeleteEntry(r, "ret_access", "access", "ret_refresh")
    \/ DeleteEntry(r, "ret_refresh", "refresh", "load")

PersistSession(r) ==
    \/ PutEntry(r, "put_session", "session", "put_access")
    \/ PutEntry(r, "put_access", "access", "put_refresh")
    \/ PutRefresh(r)
    \/ PutFamily(r)

Handler(r) ==
    \/ \E n \in Nonces : RefreshValidate(r, n) \/ Logout(r, n) \/ RevokeToken(r, n)
    \/ HandleReuse(r)
    \/ ClaimRefreshToken(r)
    \/ CodeGrant(r)
    \/ LoadUserAndMint(r)
    \/ DeleteUserSession(r)
    \/ RetireOldSession(r)
    \/ PersistSession(r)
    \/ Crash(r)

Administration == ResetPassword \/ RevokeAccess \/ EnableAccess \/ DeleteUser \/ Sweep

Time ==
    \/ Tick
    \/ \E n \in Nonces : Expire(n)
    \/ \E n \in Nonces, kind \in Kinds : Lapse(kind, n)
    \/ \E f \in Families : LapseRecord(f)

Next == (\E r \in Requests : Handler(r)) \/ Administration \/ Time

Spec == Init /\ [][Next]_vars

-----------------------------------------------------------------------------
(* Properties.                                                             *)

Live(n) == <<"refresh", n>> \in store

SameFamily(m, n) == /\ Minted(m) /\ Minted(n)
                    /\ token[m].fam = token[n].fam
                    /\ token[m].fam # NoFamily

(* Request r has consumed the token it presented and not yet stored the    *)
(* refresh entry of its successor.                                         *)
Rotating(r) ==
    /\ req[r].cur # NoNonce
    /\ req[r].pc \in {"ret_session", "ret_access", "ret_refresh", "load",
                  "put_session", "put_access", "put_refresh"}

(* Request r has decided that its token is a replay and is revoking the    *)
(* live session of the family.                                             *)
Revoking(r) ==
    /\ req[r].pc \in {"del_session", "del_access", "del_refresh"}
    /\ req[r].cur # req[r].victim

(* Whatever redemptions, retries, faults and revocations interleave, a     *)
(* token family has at most one redeemable refresh token: rotation with    *)
(* ClaimRefreshToken never forks a lineage.                                *)
OneLiveTokenPerFamily ==
    \A m, n \in Nonces : Live(m) /\ Live(n) /\ SameFamily(m, n) => m = n

(* Where the right to continue a lineage is: in the store, with a request  *)
(* that has consumed the token, or with one that has minted it and not yet *)
(* stored it.                                                              *)
Usable == {n \in Nonces : Live(n)}

Spent ==
    {n \in Nonces : \E r \in Requests :
        /\ req[r].pc \in {"ret_session", "ret_access", "ret_refresh", "load"}
        /\ req[r].cur = n}

Fresh ==
    {n \in Nonces : \E r \in Requests :
        /\ req[r].pc \in {"put_session", "put_access", "put_refresh"}
        /\ req[r].fresh = n}

Lineage == INSTANCE TokenLineage WITH
    claims <- token, usable <- Usable, spent <- Spent, fresh <- Fresh

(* The endpoint hands that right on from the store to the one request that *)
(* removed the refresh entry, to the nonce it mints and back to the store  *)
(* (token.go, from ClaimRefreshToken to the refresh entry of the           *)
(* successor): seen from outside it is the abstract lineage.               *)
ImplementsLineage == Lineage!Spec

(* No refresh token is ever exchanged twice: of all requests that present  *)
(* one token, at most one mints a successor.                               *)
SingleSuccessor ==
    \A m, n \in Nonces :
        /\ Minted(m) /\ Minted(n)
        /\ token[m].parent # NoNonce
        /\ token[m].parent = token[n].parent
        => m = n

(* A refreshed token stays bound to what the original grant was bound to:  *)
(* every token of a family carries one and the same grant.                 *)
FamilyKeepsGrant ==
    \A m, n \in Nonces : SameFamily(m, n) => token[m].grant = token[n].grant

(* handleRefreshTokenReuse takes away a token somebody can still use only  *)
(* from the lineage of the replayed token, only when the replayed token is *)
(* an older one of it, and, when it is the immediate predecessor, only     *)
(* after the grace window that followed the rotation.                      *)
RevocationIsJustified ==
    \A r \in Requests :
        LET n == req[r].cur
            v == req[r].victim
        IN  Revoking(r) /\ Live(v) =>
              /\ SameFamily(n, v)
              /\ ~Live(n)
              /\ token[n].gen < token[v].gen
              /\ token[v].parent = n => now - issuedAt[v] > GraceWindow

(* With a store that answers every call, a family has at most one session  *)
(* entry and one access entry: the rollover leaves nothing of the old      *)
(* nonce behind.                                                           *)
RolloverIsComplete ==
    faults = 0 =>
        \A k \in Kinds, m, n \in Nonces :
            <<k, m>> \in store /\ <<k, n>> \in store /\ SameFamily(m, n) => m = n

FamilyLive(f) == \E n \in Nonces : token[n].fam = f /\ Live(n)

FamilyPending(f) ==
    \E r \in Requests :
        \/ Rotating(r) /\ token[req[r].cur].fam = f
        \/ req[r].fresh # NoNonce /\ token[req[r].fresh].fam = f

FamilyDead(f) == FamilyUsed(f) /\ ~FamilyLive(f) /\ ~FamilyPending(f)

(* Once a family has no redeemable token and no request about to store one *)
(* (it was logged out, revoked, swept, or it expired) it stays so: neither *)
(* a retry nor a late write of a handler brings the lineage back.          *)
DeadFamilyStaysDead ==
    [][\A f \in Families : FamilyDead(f) => FamilyDead(f)']_vars

(* A session never comes back: once the session, access or refresh entry   *)
(* of a token somebody holds has left the store (logout, revocation, reset,*)
(* sweep, rotation, expiry or eviction), no handler that was already under *)
(* way writes it again.  delegationSessionIsLive accepts a delegated token *)
(* on the existence of its subject's access entry alone, so a delegation   *)
(* that has ended with its session has ended for good.                     *)
EndedSessionStaysEnded ==
    [][\A kind \in Kinds, n \in Nonces :
          HandedOut(n) /\ <<kind, n>> \notin store => <<kind, n>> \notin store']_vars

(* With a store that answers every call, a replay that is judged genuine   *)
(* aims at the family's redeemable token, if there is one, except in the   *)
(* gap where a rotation has stored it and not yet the family record.       *)
ReplayHitsLiveToken ==
    [][\A r \in Requests, m \in Nonces :
          /\ faults = 0
          /\ req[r].pc = "reuse" /\ req'[r].pc = "del_session"
          /\ Live(m) /\ SameFamily(m, req[r].cur)
          => \/ req'[r].victim = m
             \/ \E q \in Requests : req[q].pc = "put_family" /\ req[q].fresh = m]_vars

(* Once a user is revoked or deleted and the requests that had passed the  *)
(* check before are answered, nothing enters the session store and nobody  *)
(* comes to hold a new token until the user is enabled again.              *)
RevokedUserGetsNothingNew ==
    [][/\ user # "active" /\ user' # "active"
       /\ \A r \in Requests : req[r].fresh = NoNonce
       => /\ store' \subseteq store
          /\ \A r \in Requests : req'[r].fresh = NoNonce]_vars

(* "A password reset must terminate every pre-existing session and refresh *)
(* token before the caller is told it succeeded": after a reset nothing of *)
(* a family that existed before it is in the store.                        *)
ResetTerminatesSessions ==
    \A e \in store : token[e[2]].fam \notin swept

=============================================================================
