--------------------------- MODULE AuthorizationCode ---------------------------
(***************************************************************************)
(* The authorization-code flow: GET /authorize (http_handlers/             *)
(* authorize.go), the consent page of self-asserted clients (consent.go),  *)
(* the sign-ins that complete a parked /authorize request (login.go,       *)
(* signup.go, auth_response.go, session.go, oauth_callback.go) and the     *)
(* authorization_code grant of POST /oauth/token (token.go).               *)
(*                                                                         *)
(* Two keyed stores carry the flow.  `parked' maps the client's state      *)
(* parameter to what /authorize was asked for; `codes' maps an issued code *)
(* to what it is bound to.  Both hold the positional blobs of              *)
(* codestate/codestate.go, here records whose absent fields are Empty.     *)
(* The browser session store is the set `live' of session tokens, keyed by *)
(* user and nonce.  Each request is a handler whose store calls are        *)
(* separate steps, so two tabs, a retry and a token request interleave.    *)
(*                                                                         *)
(* A PKCE challenge is named by the verifier it is made from.  Credential  *)
(* and MFA checks of the sign-ins, and client authentication, happen       *)
(* before the steps modelled here.                                         *)
(***************************************************************************)
EXTENDS Integers, FiniteSets

CONSTANTS
    Requests,      \* what clients ask of /authorize: records, see RequestType
    States,        \* values of the state parameter
    Clients, Redirects, Challenges, Resources, Nonces,
    SelfAsserted,  \* clients that nobody at the deployment vouched for
    Users, Browsers,
    Handlers,      \* requests being served at one time
    MaxCode,       \* bound on the /authorize requests of a behaviour
    MaxSession,    \* bound on the session tokens of a behaviour
    Empty          \* an absent field

(* A request that passed the checks at the head of the handler.            *)
RequestType ==
    [state : States, type : {"code", "hybrid", "implicit"}, client : Clients,
     redirect : Redirects, challenge : Challenges \cup {Empty},
     resource : Resources \cup {Empty}, nonce : Nonces]

ASSUME FlowAssumption ==
    /\ Requests \subseteq RequestType
    /\ \A q \in Requests : q.client \in SelfAsserted =>
          q.challenge # Empty /\ q.type # "implicit"
    /\ MaxCode \in Nat
    /\ MaxSession \in Nat \ {0}
    /\ Empty \notin Clients \cup Redirects \cup Challenges \cup Resources
    /\ Empty \notin Nonces \cup Users \cup Browsers \cup Requests

VARIABLES
    parked,    \* state parameter |-> authorize blob
    codes,     \* code |-> code blob
    token,     \* session token |-> the user and nonce it names
    live,      \* session tokens the session store holds
    cookie,    \* browser |-> its session token, 0 when it has none
    pending,   \* code of the /authorize request |-> consent page shown for it
    consented, \* <<user, request>> pairs with an unused approval
    pc,        \* where a handler stands
    local,     \* a handler's local variables
    minted,    \* code |-> the /authorize request that generated it
    nextCode,  \* codes generated so far
    nextSession, \* session tokens created so far
    redeemed,  \* session token |-> exchanges of the code blob that names it
    grants,    \* exchanges that were answered with tokens
    approvals, \* <<user, request>> |-> approvals given, less those acted on
    disturbed  \* browsers whose last rollover was cut short by a store error

stores == <<parked, codes, live>>
ghosts == <<minted, redeemed, grants, approvals, disturbed>>
counters == <<nextCode, nextSession>>
vars == <<parked, codes, token, live, cookie, pending, consented, pc, local,
          minted, nextCode, nextSession, redeemed, grants, approvals, disturbed>>

Codes    == 1..MaxCode
Sessions == 1..MaxSession

(* codestate.Authorize, and a key that is not in the store.  The blob of a *)
(* flow without a code is the bare nonce.                                  *)
NoEntry == [code |-> 0, challenge |-> Empty, nonce |-> Empty,
            redirect |-> Empty, resource |-> Empty, client |-> Empty]

EncodeAuthorize(q, c) ==
    IF q.type = "implicit"
    THEN [NoEntry EXCEPT !.nonce = q.nonce]
    ELSE [code |-> c, challenge |-> q.challenge, nonce |-> q.nonce,
          redirect |-> q.redirect, resource |-> q.resource,
          client |-> q.client]

(* codestate.Code, and a key that is not in the store.                     *)
NoBlob == [session |-> 0, challenge |-> Empty, nonce |-> Empty,
           redirect |-> Empty, resource |-> Empty, client |-> Empty]

(* Mutation of EncodeCode: the writer leaves out the trailing client.      *)
EncodeCodeClientless(e, t) ==
    [session |-> t, challenge |-> e.challenge, nonce |-> e.nonce,
     redirect |-> e.redirect, resource |-> e.resource, client |-> Empty]

EncodeCode(e, t) ==
    [session |-> t, challenge |-> e.challenge, nonce |-> e.nonce,
     redirect |-> e.redirect, resource |-> e.resource, client |-> e.client]

(* What /authorize itself binds to the code: the hybrid branch leaves the  *)
(* resource out.                                                           *)
DirectEntry(q, c) ==
    IF q.type = "hybrid"
    THEN [EncodeAuthorize(q, c) EXCEPT !.resource = Empty]
    ELSE EncodeAuthorize(q, c)

Idle == [kind |-> "none", browser |-> Empty, user |-> Empty, state |-> Empty,
         request |-> Empty, code |-> 0, old |-> 0, fresh |-> 0,
         entry |-> NoEntry, grant |-> Empty]

EntryType ==
    [code : 0..MaxCode, challenge : Challenges \cup {Empty},
     nonce : Nonces \cup {Empty}, redirect : Redirects \cup {Empty},
     resource : Resources \cup {Empty}, client : Clients \cup {Empty}]

BlobType ==
    [session : 0..MaxSession, challenge : Challenges \cup {Empty},
     nonce : Nonces \cup {Empty}, redirect : Redirects \cup {Empty},
     resource : Resources \cup {Empty}, client : Clients \cup {Empty}]

GrantType ==
    [code : Codes, session : 0..MaxSession, client : Clients,
     redirect : Redirects \cup {Empty}, verifier : Challenges \cup {Empty},
     secret : BOOLEAN, nonce : Nonces \cup {Empty},
     aud : Resources \cup {Empty}]

LocalType ==
    [kind : {"none", "authorize", "session", "signin", "callback", "token"},
     browser : Browsers \cup {Empty}, user : Users \cup {Empty},
     state : States \cup {Empty}, request : Requests \cup {Empty},
     code : 0..MaxCode, old : 0..MaxSession, fresh : 0..MaxSession,
     entry : EntryType, grant : GrantType \cup {Empty}]

Labels == {"idle", "check", "rollover", "read", "remove", "bind", "persist",
           "retire", "respond", "validate"}

TypeOK ==
    /\ parked \in [States -> EntryType]
    /\ codes \in [Codes -> BlobType]
    /\ token \in [Sessions -> [user : Users \cup {Empty},
                               nonce : Nonces \cup {Empty} \cup (0..MaxSession)]]
    /\ live \subseteq Sessions
    /\ cookie \in [Browsers -> 0..MaxSession]
    /\ pending \in [Codes -> [user : Users \cup {Empty},
                              request : Requests \cup {Empty}] \cup {Empty}]
    /\ pc \in [Handlers -> Labels]
    /\ local \in [Handlers -> LocalType]
    /\ minted \in [Codes -> Requests \cup {Empty}]
    /\ nextCode \in 0..MaxCode
    /\ nextSession \in 0..MaxSession
    /\ redeemed \in [Sessions -> Nat]
    /\ approvals \in [Users \X Requests -> Int]

(* One user has signed in already, in one browser.                         *)
Init ==
    /\ parked = [s \in States |-> NoEntry]
    /\ codes = [c \in Codes |-> NoBlob]
    /\ \E u \in Users, b \in Browsers :
          /\ token = [t \in Sessions |->
                         IF t = 1 THEN [user |-> u, nonce |-> 1]
                         ELSE [user |-> Empty, nonce |-> Empty]]
          /\ cookie = [x \in Browsers |-> IF x = b THEN 1 ELSE 0]
    /\ live = {1}
    /\ pending = [c \in Codes |-> Empty]
    /\ consented = {}
    /\ pc = [h \in Handlers |-> "idle"]
    /\ local = [h \in Handlers |-> Idle]
    /\ minted = [c \in Codes |-> Empty]
    /\ nextCode = 0
    /\ nextSession = 1
    /\ redeemed = [t \in Sessions |-> 0]
    /\ grants = {}
    /\ approvals = [p \in Users \X Requests |-> 0]
    /\ disturbed = {}

-----------------------------------------------------------------------------
(* The session store: a session token is stored under its user and nonce.  *)

SameKey(t) == {x \in live : token[x] = token[t]}

DeleteUserSession(t) == live' = live \ SameKey(t)

SetUserSession(t) == live' = (live \ SameKey(t)) \cup {t}

(* ValidateBrowserSession: the token is the one its key holds.             *)
IsValid(t) == t \in live

(* Session tokens are numbered when their handler knows it will create one; *)
(* the bound on them bounds the sign-ins of a behaviour.                    *)
NewSession ==
    /\ nextSession < MaxSession
    /\ nextSession' = nextSession + 1

Goto(h, label) == pc' = [pc EXCEPT ![h] = label]

Finish(h) ==
    /\ Goto(h, "idle")
    /\ local' = [local EXCEPT ![h] = Idle]

-----------------------------------------------------------------------------
(* GET /authorize                                                          *)

(* The request arrives with the browser's cookie; a flow with a code       *)
(* generates one.  The request is parked under its state parameter,        *)
(* whoever parked something there before.                                  *)
Authorize(h, b, q) ==
    /\ pc[h] = "idle"
    /\ nextCode < MaxCode
    /\ nextCode' = nextCode + 1
    /\ minted' = [minted EXCEPT ![nextCode'] = q]
    /\ parked' = [parked EXCEPT ![q.state] = EncodeAuthorize(q, nextCode')]
    /\ local' = [local EXCEPT ![h] =
                    [Idle EXCEPT !.kind = "authorize", !.browser = b,
                                 !.request = q, !.code = nextCode',
                                 !.old = cookie[b],
                                 !.entry = DirectEntry(q, nextCode')]]
    /\ Goto(h, "check")
    /\ UNCHANGED <<codes, token, live, cookie, pending, consented,
                   nextSession, redeemed, grants, approvals,
                   disturbed>>

(* No session: the browser goes to the login page, or prompt=none answers  *)
(* login_required.                                                         *)
SignInFirst(h) ==
    /\ pc[h] = "check"
    /\ ~IsValid(local[h].old)
    /\ Finish(h)
    /\ UNCHANGED <<stores, token, cookie, pending, consented, counters,
                   ghosts>>

(* prompt=login, or a session older than max_age: the session is revoked   *)
(* for real and the browser's cookie deleted.                              *)
ForceReauth(h) ==
    /\ pc[h] = "check"
    /\ local[h].old # 0
    /\ DeleteUserSession(local[h].old)
    /\ cookie' = [cookie EXCEPT ![local[h].browser] = 0]
    /\ Finish(h)
    /\ UNCHANGED <<parked, codes, token, pending, consented, counters, ghosts>>

NeedsConsent(q) == q.client \in SelfAsserted

(* The consent page is shown, unless prompt=none answers consent_required. *)
RenderConsent(h) ==
    LET q == local[h].request  u == token[local[h].old].user IN
    /\ pc[h] = "check"
    /\ IsValid(local[h].old)
    /\ NeedsConsent(q)
    /\ <<u, q>> \notin consented
    /\ \/ pending' = [pending EXCEPT ![local[h].code] =
                         [user |-> u, request |-> q]]
       \/ UNCHANGED pending
    /\ Finish(h)
    /\ UNCHANGED <<stores, token, cookie, consented, counters, ghosts>>

(* The session is valid and an approval, where one is needed, is consumed. *)
PassConsent(h) ==
    LET q == local[h].request  u == token[local[h].old].user IN
    /\ pc[h] = "check"
    /\ IsValid(local[h].old)
    /\ IF NeedsConsent(q)
       THEN /\ <<u, q>> \in consented
            /\ consented' = consented \ {<<u, q>>}
            /\ approvals' = [approvals EXCEPT ![<<u, q>>] = @ - 1]
       ELSE UNCHANGED <<consented, approvals>>
    /\ NewSession
    /\ local' = [local EXCEPT ![h].user = u, ![h].fresh = nextSession + 1]
    /\ Goto(h, "rollover")
    /\ UNCHANGED <<stores, token, cookie, pending, nextCode, minted, redeemed,
                   grants, disturbed>>

(* "rollover the session for security": the old session goes first.  An    *)
(* error is only logged.                                                   *)
Rollover(h) ==
    /\ pc[h] = "rollover"
    /\ \/ DeleteUserSession(local[h].old)
       \/ UNCHANGED live
    /\ Goto(h, "bind")
    /\ UNCHANGED <<parked, codes, token, cookie, pending, consented, local,
                   counters, ghosts>>

-----------------------------------------------------------------------------
(* POST /oauth/consent                                                     *)

(* Mutation of Consent: the approval is not tied to the session it was     *)
(* shown to.                                                               *)
ConsentByAnyone(b, c) ==
    LET p == pending[c]  t == cookie[b] IN
    /\ p # Empty
    /\ pending' = [pending EXCEPT ![c] = Empty]
    /\ \/ /\ IsValid(t)
          /\ consented' = consented \cup {<<p.user, p.request>>}
          /\ approvals' =
                [approvals EXCEPT ![<<token[t].user, p.request>>] = @ + 1]
       \/ UNCHANGED <<consented, approvals>>
    /\ UNCHANGED <<stores, token, cookie, pc, local, counters, minted,
                   redeemed, grants, disturbed>>

(* The pending page is consumed first; the approval counts only when the   *)
(* submitting browser's session is of the user it was shown to.  The       *)
(* browser is then sent back to /authorize, an Authorize step of its own.  *)
Consent(b, c) ==
    LET p == pending[c]  t == cookie[b] IN
    /\ p # Empty
    /\ pending' = [pending EXCEPT ![c] = Empty]
    /\ \/ /\ IsValid(t)
          /\ token[t].user = p.user
          /\ consented' = consented \cup {<<p.user, p.request>>}
          /\ approvals' =
                [approvals EXCEPT ![<<token[t].user, p.request>>] = @ + 1]
       \/ UNCHANGED <<consented, approvals>>
    /\ UNCHANGED <<stores, token, cookie, pc, local, counters, minted,
                   redeemed, grants, disturbed>>

-----------------------------------------------------------------------------
(* Sign-ins that complete a parked request                                 *)

(* Mutation of Session: the old session is deleted before the new one      *)
(* exists.                                                                 *)
SessionOldFirst(h, b, s) ==
    /\ pc[h] = "idle"
    /\ IsValid(cookie[b])
    /\ local' = [local EXCEPT ![h] =
                    [Idle EXCEPT !.kind = "session", !.browser = b,
                                 !.user = token[cookie[b]].user,
                                 !.state = s, !.old = cookie[b],
                                 !.fresh = nextSession + 1]]
    /\ NewSession
    /\ DeleteUserSession(cookie[b])
    /\ Goto(h, "read")
    /\ UNCHANGED <<parked, codes, token, cookie, pending, consented, nextCode,
                   ghosts>>

(* The session query of a signed-in browser, with the state parameter of a *)
(* parked request.                                                         *)
Session(h, b, s) ==
    /\ pc[h] = "idle"
    /\ IsValid(cookie[b])
    /\ local' = [local EXCEPT ![h] =
                    [Idle EXCEPT !.kind = "session", !.browser = b,
                                 !.user = token[cookie[b]].user,
                                 !.state = s, !.old = cookie[b],
                                 !.fresh = nextSession + 1]]
    /\ NewSession
    /\ Goto(h, "read")
    /\ UNCHANGED <<stores, token, cookie, pending, consented, nextCode,
                   ghosts>>

(* A login or a signup whose credentials have been checked.                *)
SignIn(h, b, s, u) ==
    /\ pc[h] = "idle"
    /\ local' = [local EXCEPT ![h] =
                    [Idle EXCEPT !.kind = "signin", !.browser = b, !.user = u,
                                 !.state = s, !.fresh = nextSession + 1]]
    /\ NewSession
    /\ Goto(h, "read")
    /\ UNCHANGED <<stores, token, cookie, pending, consented, nextCode,
                   ghosts>>

(* GetState: a read that leaves the parked request where it is.            *)
GetState(h) ==
    LET e == parked[local[h].state] IN
    /\ pc[h] = "read"
    /\ local' = [local EXCEPT ![h].entry = e]
    /\ Goto(h, IF e = NoEntry THEN "bind" ELSE "remove")
    /\ UNCHANGED <<stores, token, cookie, pending, consented, counters,
                   ghosts>>

(* RemoveState, a call of its own: another sign-in may have read the same  *)
(* entry, and another /authorize may have replaced it.                     *)
RemoveState(h) ==
    /\ pc[h] = "remove"
    /\ parked' = [parked EXCEPT ![local[h].state] = NoEntry]
    /\ local' = [local EXCEPT ![h].state = Empty]
    /\ Goto(h, "bind")
    /\ UNCHANGED <<codes, token, live, cookie, pending, consented, counters,
                   ghosts>>

(* The social callback takes the entry in one call and drops its resource. *)
(* The MFA gate may then withhold the session, and the code with it.       *)
OAuthCallback(h, b, s, u) ==
    /\ pc[h] = "idle"
    /\ parked' = [parked EXCEPT ![s] = NoEntry]
    /\ \/ /\ NewSession
          /\ local' = [local EXCEPT ![h] =
                 [Idle EXCEPT !.kind = "callback", !.browser = b, !.user = u,
                              !.fresh = nextSession + 1,
                              !.entry = [parked[s] EXCEPT !.resource = Empty]]]
          /\ Goto(h, "bind")
       \/ UNCHANGED <<pc, local, nextSession>>
    /\ UNCHANGED <<codes, token, live, cookie, pending, consented, nextCode,
                   ghosts>>

(* The handler was a signup, which evaluates its MFA gate after it removed  *)
(* the parked request; a login does before it reads it.                     *)
Withhold(h) ==
    /\ pc[h] = "bind"
    /\ local[h].kind = "signin"
    /\ Finish(h)
    /\ UNCHANGED <<stores, token, cookie, pending, consented, counters,
                   ghosts>>

-----------------------------------------------------------------------------
(* Issuing the code and the session                                        *)

(* The nonce of the new session: the request's own in /authorize, in the   *)
(* social callback and for a flow without a code; a new one otherwise.     *)
SessionNonce(l, t) ==
    LET keeps == \/ l.kind \in {"authorize", "callback"}
                 \/ l.kind = "signin" /\ l.entry.code = 0
    IN IF keeps /\ l.entry.nonce # Empty THEN l.entry.nonce ELSE t

HasCode(h) == local[h].entry.code # 0

(* The session token is created and the code bound to it.                  *)
BindCode(h) ==
    LET t == local[h].fresh IN
    /\ pc[h] = "bind"
    /\ token' = [token EXCEPT ![t] = [user |-> local[h].user,
                                      nonce |-> SessionNonce(local[h], t)]]
    /\ codes' = IF HasCode(h)
                THEN [codes EXCEPT ![local[h].entry.code] =
                         EncodeCode(local[h].entry, t)]
                ELSE codes
    /\ local' = [local EXCEPT ![h] =
                    [Idle EXCEPT !.kind = local[h].kind, !.fresh = t,
                                 !.browser = local[h].browser,
                                 !.old = local[h].old]]
    /\ Goto(h, "persist")
    /\ UNCHANGED <<parked, live, cookie, pending, consented, counters, ghosts>>

Cut(h) ==
    disturbed' = IF local[h].kind = "authorize"
                 THEN disturbed \cup {local[h].browser} ELSE disturbed

(* SetState of the code fails: the handler returns the error.  /authorize  *)
(* has deleted the old session by now, the session query has not.          *)
BindFails(h) ==
    /\ pc[h] = "bind"
    /\ HasCode(h)
    /\ Cut(h)
    /\ Finish(h)
    /\ UNCHANGED <<stores, token, cookie, pending, consented, counters, minted,
                   redeemed, grants, approvals>>

AfterPersist(h) ==
    Goto(h, IF local[h].kind = "session" THEN "retire" ELSE "respond")

Persist(h) ==
    /\ pc[h] = "persist"
    /\ SetUserSession(local[h].fresh)
    /\ AfterPersist(h)
    /\ UNCHANGED <<parked, codes, token, cookie, pending, consented, local,
                   counters, ghosts>>

(* SetUserSession fails.  /authorize returns the error; everyone else      *)
(* drops it and answers with a session the store does not know.            *)
PersistFails(h) ==
    /\ pc[h] = "persist"
    /\ disturbed' = disturbed \cup {local[h].browser}
    /\ IF local[h].kind = "authorize"
       THEN Finish(h)
       ELSE AfterPersist(h) /\ UNCHANGED local
    /\ UNCHANGED <<stores, token, cookie, pending, consented, counters, minted,
                   redeemed, grants, approvals>>

(* The session query deletes the session it replaced, last.                *)
Retire(h) ==
    /\ pc[h] = "retire"
    /\ \/ DeleteUserSession(local[h].old)
       \/ UNCHANGED live
    /\ Goto(h, "respond")
    /\ UNCHANGED <<parked, codes, token, cookie, pending, consented, local,
                   counters, ghosts>>

(* The response reaches the browser.                                       *)
Respond(h) ==
    /\ pc[h] = "respond"
    /\ cookie' = [cookie EXCEPT ![local[h].browser] = local[h].fresh]
    /\ Finish(h)
    /\ UNCHANGED <<stores, token, pending, consented, counters, ghosts>>

(* The logout mutation.                                                    *)
Logout(b) ==
    /\ IsValid(cookie[b])
    /\ DeleteUserSession(cookie[b])
    /\ cookie' = [cookie EXCEPT ![b] = 0]
    /\ UNCHANGED <<parked, codes, token, pending, consented, pc, local,
                   counters, ghosts>>

-----------------------------------------------------------------------------
(* POST /oauth/token, grant_type=authorization_code                        *)

(* What the authenticated client sends with the code.                      *)
Presented ==
    [client : Clients, redirect : Redirects \cup {Empty},
     verifier : Challenges \cup {Empty}, resource : Resources \cup {Empty},
     secret : BOOLEAN]

(* The checks of the grant against the stored blob.  An empty stored       *)
(* client, redirect_uri or resource is not enforced; a verifier is         *)
(* required exactly when a challenge was stored, and a secret when none    *)
(* was.                                                                    *)
Matches(blob, p) ==
    /\ blob.client # Empty => p.client = blob.client
    /\ blob.redirect # Empty => p.redirect = blob.redirect
    /\ blob.resource # Empty => p.resource = blob.resource
    /\ p.verifier = blob.challenge
    /\ blob.challenge = Empty => p.secret

(* Mutation of GetAndRemoveState: the code is read and left in the store.  *)
GetAndKeepState(c) == codes' = codes

GetAndRemoveState(c) == codes' = [codes EXCEPT ![c] = NoBlob]

(* The tokens an exchange is answered with: they carry the stored session, *)
(* nonce, and resource as their audience.                                  *)
Grant(c, p) ==
    [code |-> c, session |-> codes[c].session, client |-> p.client,
     redirect |-> p.redirect, verifier |-> p.verifier,
     secret |-> p.verifier = Empty /\ p.secret, nonce |-> codes[c].nonce,
     aud |-> codes[c].resource]

(* The code is taken out of the store in one call, then checked: a request *)
(* that fails a check has used the code up.                                *)
TakeCode(h, c) ==
    /\ pc[h] = "idle"
    /\ codes[c] # NoBlob
    /\ GetAndRemoveState(c)
    /\ \/ \E p \in Presented :
             /\ Matches(codes[c], p)
             /\ local' = [local EXCEPT ![h] = [Idle EXCEPT !.kind = "token",
                                                 !.grant = Grant(c, p)]]
             /\ Goto(h, "validate")
       \/ /\ ~ \A p \in Presented : Matches(codes[c], p)
          /\ UNCHANGED <<pc, local>>
    /\ UNCHANGED <<parked, live, token, cookie, pending, consented, counters,
                   ghosts>>

(* The session stored with the code must still be live.                    *)
Exchange(h) ==
    LET g == local[h].grant IN
    /\ pc[h] = "validate"
    /\ IsValid(g.session)
    /\ redeemed' = [redeemed EXCEPT ![g.session] = @ + 1]
    /\ grants' = grants \cup {g}
    /\ Finish(h)
    /\ UNCHANGED <<stores, token, cookie, pending, consented, counters, minted,
                   approvals, disturbed>>

RefuseSession(h) ==
    /\ pc[h] = "validate"
    /\ ~IsValid(local[h].grant.session)
    /\ Finish(h)
    /\ UNCHANGED <<stores, token, cookie, pending, consented, counters,
                   ghosts>>

(* Entries of the state store live for ten minutes.                        *)
ExpireParked(s) ==
    /\ parked[s] # NoEntry
    /\ parked' = [parked EXCEPT ![s] = NoEntry]
    /\ UNCHANGED <<codes, live, token, cookie, pending, consented, pc, local,
                   counters, ghosts>>

ExpireCode(c) ==
    /\ codes[c] # NoBlob
    /\ codes' = [codes EXCEPT ![c] = NoBlob]
    /\ UNCHANGED <<parked, live, token, cookie, pending, consented, pc, local,
                   counters, ghosts>>

Step(h) ==
    \/ SignInFirst(h) \/ ForceReauth(h) \/ RenderConsent(h) \/ PassConsent(h)
    \/ Rollover(h) \/ GetState(h) \/ RemoveState(h) \/ Withhold(h)
    \/ BindCode(h) \/ BindFails(h) \/ Persist(h) \/ PersistFails(h)
    \/ Retire(h) \/ Respond(h) \/ Exchange(h) \/ RefuseSession(h)

Arrive(h) ==
    \/ \E b \in Browsers, q \in Requests : Authorize(h, b, q)
    \/ \E b \in Browsers, s \in States : Session(h, b, s)
    \/ \E b \in Browsers, s \in States, u \in Users :
          SignIn(h, b, s, u) \/ OAuthCallback(h, b, s, u)
    \/ \E c \in Codes : TakeCode(h, c)

Next ==
    \/ \E h \in Handlers : Arrive(h) \/ Step(h)
    \/ \E b \in Browsers, c \in Codes : Consent(b, c)
    \/ \E b \in Browsers : Logout(b)
    \/ \E s \in States : ExpireParked(s)
    \/ \E c \in Codes : ExpireCode(c)

Spec == Init /\ [][Next]_vars

-----------------------------------------------------------------------------
(* What a completed sign-in stored under its code is exchanged for tokens  *)
(* at most once, however token requests, retries and expiry interleave     *)
(* (the single-use rule at the head of the grant in token.go).  The        *)
(* session token names the blob: each one is created for one SetState.     *)
CodeIsRedeemedOnce == \A t \in Sessions : redeemed[t] <= 1

(* Tokens go only to the client, redirect URI, PKCE verifier or secret,    *)
(* nonce and audience of the very /authorize request that generated the    *)
(* code, whichever sign-in completed it and whatever else was parked under *)
(* the same state parameter in between.  The audience may be missing: the  *)
(* hybrid branch and the social callback do not store it.                  *)
GrantKeepsItsBinding ==
    \A g \in grants :
       LET q == minted[g.code] IN
       /\ q # Empty
       /\ g.client = q.client
       /\ g.redirect = q.redirect
       /\ g.verifier = q.challenge
       /\ q.challenge = Empty => g.secret
       /\ g.nonce = q.nonce
       /\ g.aud \in {q.resource, Empty}

(* The places a right to tokens passes through: a session token not yet    *)
(* created, the blob of a code, a token request that took the blob.        *)
Unused == {t \in Sessions : token[t].user = Empty}

Ticket == {<<c, codes[c].session>> : c \in {d \in Codes : codes[d] # NoBlob}}

Taken == {local[h].grant : h \in {x \in Handlers : pc[x] = "validate"}}

Lifecycle == INSTANCE OneTimeCode WITH
    Grants <- GrantType, asked <- minted, unused <- Unused, ticket <- Ticket,
    held <- Taken

(* The parked request, the handlers that complete it, the state store and  *)
(* the token endpoint (authorize.go, login.go, session.go,                 *)
(* oauth_callback.go, token.go) together behave as the one-time code: a    *)
(* step of any of them generates a code, makes it redeemable, redeems it,  *)
(* answers, or loses the right to.                                         *)
ImplementsOneTimeCode == Lifecycle!Spec

(* /authorize serves a self-asserted client no more often than the same    *)
(* user approved the same request on the consent page.                     *)
ConsentIsPerRequest ==
    \A p \in Users \X Requests : approvals[p] >= 0

(* A browser's cookie names a live session, unless a response that will    *)
(* replace it is on its way, or a store error cut a rollover short.  The   *)
(* clients' nonces are fresh: two sessions of a user under one nonce       *)
(* overwrite each other.  (session.go: "doing new then old avoids any      *)
(* moment where the user has no valid session token".)                     *)
Replacing(h, b) ==
    /\ local[h].browser = b
    /\ \/ local[h].kind = "authorize" /\ pc[h] \in {"bind", "persist", "respond"}
       \/ local[h].kind = "session" /\ pc[h] = "respond"

FreshNonces ==
    \A x, y \in Sessions :
       token[x] = token[y] /\ token[x].user # Empty => x = y

BrowserKeepsItsSession ==
    FreshNonces =>
       \A b \in Browsers :
          \/ cookie[b] = 0
          \/ IsValid(cookie[b])
          \/ b \in disturbed
          \/ \E h \in Handlers : Replacing(h, b)
=============================================================================
