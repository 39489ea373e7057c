------------------------ MODULE AuthorizationCodeProofs ------------------------
(***************************************************************************)
(* Proofs about AuthorizationCode: consent is per request, tokens go only  *)
(* to the request that generated the code, what a sign-in stored under a   *)
(* code is exchanged at most once, a browser keeps a live session, and the *)
(* flow implements OneTimeCode.                                            *)
(***************************************************************************)
EXTENDS AuthorizationCode, TLAPS

(* Handlers past their arrival name a state parameter while they need one, *)
(* and the session token reserved for them.                                *)
LocalOK ==
    \A h \in Handlers :
       /\ pc[h] \in {"read", "remove"} => local[h].state \in States
       /\ pc[h] \in {"read", "remove", "rollover", "bind", "persist",
                     "retire", "respond"} => local[h].fresh \in Sessions
       /\ pc[h] = "validate" => local[h].grant \in GrantType

Typed == TypeOK /\ LocalOK

-----------------------------------------------------------------------------
(* Consent                                                                 *)

(* An approval that can still be used has been given and not acted on.     *)
ConsentInv ==
    \A p \in Users \X Requests :
       /\ approvals[p] \in Nat
       /\ p \in consented => approvals[p] >= 1

(* consented and approvals change only when an approval is given or used.  *)
LEMMA ConsentFrame ==
    ASSUME Next,
           ~ \E b \in Browsers, c \in Codes : Consent(b, c),
           ~ \E h \in Handlers : PassConsent(h)
    PROVE  UNCHANGED <<consented, approvals>>
<1>1. ASSUME NEW h \in Handlers, Arrive(h)
      PROVE  UNCHANGED <<consented, approvals>>
  BY <1>1, Zenon DEF Arrive, Authorize, Session, SignIn, OAuthCallback, TakeCode,
              ghosts
<1>2. ASSUME NEW h \in Handlers, Step(h)
      PROVE  UNCHANGED <<consented, approvals>>
  <2>1. CASE SignInFirst(h) \/ ForceReauth(h) \/ RenderConsent(h)
             \/ Rollover(h) \/ GetState(h) \/ RemoveState(h) \/ Withhold(h)
    BY <2>1 DEF SignInFirst, ForceReauth, RenderConsent, Rollover, GetState,
                RemoveState, Withhold, ghosts
  <2>2. CASE BindCode(h) \/ BindFails(h) \/ Persist(h) \/ PersistFails(h)
             \/ Retire(h) \/ Respond(h) \/ Exchange(h) \/ RefuseSession(h)
    BY <2>2 DEF BindCode, BindFails, Persist, PersistFails, Retire, Respond,
                Exchange, RefuseSession, ghosts
  <2> QED
    BY <1>2, <2>1, <2>2 DEF Step
<1> QED
  BY <1>1, <1>2 DEF Next, Logout, ExpireParked, ExpireCode, ghosts

(* One user's approval of one request lets one /authorize pass.            *)
THEOREM ConsentIsAlwaysPerRequest == Spec => []ConsentIsPerRequest
<1> DEFINE Fn == approvals \in [Users \X Requests -> Int]
<1>1. Init => Fn /\ ConsentInv
  BY DEF Init, ConsentInv
<1>2. Fn /\ ConsentInv /\ [Next]_vars => Fn' /\ ConsentInv'
  <2> SUFFICES ASSUME Fn, ConsentInv, [Next]_vars PROVE Fn' /\ ConsentInv'
    OBVIOUS
  <2>1. ASSUME NEW b \in Browsers, NEW c \in Codes, Consent(b, c)
        PROVE  Fn' /\ ConsentInv'
    BY <2>1 DEF Consent, ConsentInv
  <2>2. ASSUME NEW h \in Handlers, PassConsent(h)
        PROVE  Fn' /\ ConsentInv'
    BY <2>2 DEF PassConsent, ConsentInv
  <2>3. CASE UNCHANGED <<consented, approvals>>
    BY <2>3 DEF ConsentInv
  <2>4. CASE UNCHANGED vars
    BY <2>3, <2>4 DEF vars
  <2> QED
    BY <2>1, <2>2, <2>3, <2>4, ConsentFrame
<1>3. ConsentInv => ConsentIsPerRequest
  BY DEF ConsentInv, ConsentIsPerRequest
<1> QED
  BY <1>1, <1>2, <1>3, PTL DEF Spec
-----------------------------------------------------------------------------
(* Types                                                                   *)

(* The empty values of the model are typed.                                *)
LEMMA IdleType == Idle \in LocalType /\ NoEntry \in EntryType /\ NoBlob \in BlobType
BY FlowAssumption DEF Idle, LocalType, NoEntry, EntryType, NoBlob, BlobType

(* What /authorize parks and binds is typed.                               *)
LEMMA EncodeType ==
    ASSUME NEW q \in Requests, NEW c \in Codes
    PROVE  /\ EncodeAuthorize(q, c) \in EntryType
           /\ DirectEntry(q, c) \in EntryType
BY FlowAssumption DEF EncodeAuthorize, DirectEntry, NoEntry, EntryType,
                      RequestType, Codes

(* The types hold at the start.                                            *)
LEMMA TypedInit == Init => Typed
<1> SUFFICES ASSUME Init PROVE Typed
  OBVIOUS
<1>1. PICK u \in Users, b \in Browsers :
         /\ token = [t \in Sessions |-> IF t = 1 THEN [user |-> u, nonce |-> 1]
                                        ELSE [user |-> Empty, nonce |-> Empty]]
         /\ cookie = [x \in Browsers |-> IF x = b THEN 1 ELSE 0]
  BY DEF Init
<1> QED
  BY <1>1, FlowAssumption, IdleType
     DEF Init, Typed, TypeOK, LocalOK, Labels, Sessions, Codes

(* The steps that begin a request keep the types.                          *)
LEMMA TypedArrive ==
    ASSUME Typed, NEW h \in Handlers, Arrive(h)
    PROVE  Typed'
<1>1. ASSUME NEW b \in Browsers, NEW q \in Requests, Authorize(h, b, q)
      PROVE  Typed'
  <2> DEFINE c == nextCode + 1
  <2>1. c \in Codes
    BY <1>1, FlowAssumption DEF Authorize, Typed, TypeOK, Codes
  <2>2. q.state \in States
    BY FlowAssumption DEF RequestType
  <2> DEFINE r == [Idle EXCEPT !.kind = "authorize", !.browser = b,
                               !.request = q, !.code = c, !.old = cookie[b],
                               !.entry = DirectEntry(q, c)]
  <2>4. cookie[b] \in 0..MaxSession /\ c \in 0..MaxCode
    BY <2>1 DEF Typed, TypeOK, Codes
  <2>5. r \in LocalType
    BY <2>1, <2>4, EncodeType, IdleType, Zenon DEF LocalType, Idle
  <2>6. nextCode' = c /\ local' = [local EXCEPT ![h] = r]
    BY <1>1 DEF Authorize
  <2>3. local' \in [Handlers -> LocalType]
    BY <2>5, <2>6 DEF Typed, TypeOK
  <2> QED
    BY <1>1, <2>1, <2>2, <2>3, EncodeType
       DEF Authorize, Typed, TypeOK, LocalOK, Goto, Labels, Codes
<1>2. ASSUME NEW b \in Browsers, NEW s \in States, Session(h, b, s)
      PROVE  Typed'
  <2> DEFINE r == [Idle EXCEPT !.kind = "session", !.browser = b,
                               !.user = token[cookie[b]].user, !.state = s,
                               !.old = cookie[b],
                               !.fresh = nextSession + 1]
  <2>2. nextSession + 1 \in Sessions /\ nextSession + 1 \in 0..MaxSession
    BY <1>2, FlowAssumption DEF Session, NewSession, Typed, TypeOK, Sessions
  <2>3. cookie[b] \in 0..MaxSession /\ token[cookie[b]].user \in Users \cup {Empty}
    BY <1>2 DEF Session, IsValid, Typed, TypeOK
  <2>4. r \in LocalType /\ r.state = s /\ r.fresh = nextSession + 1
    BY <2>2, <2>3, IdleType, Zenon DEF LocalType, Idle
  <2>5. local' = [local EXCEPT ![h] = r]
    BY <1>2 DEF Session
  <2>1. local' \in [Handlers -> LocalType] /\ nextSession + 1 \in Sessions
        /\ local'[h].state = s /\ local'[h].fresh = nextSession + 1
    BY <2>2, <2>4, <2>5 DEF Typed, TypeOK
  <2> QED
    BY <1>2, <2>1 DEF Session, NewSession, Typed, TypeOK, LocalOK, Goto, Labels,
                      stores, ghosts, Sessions
<1>3. ASSUME NEW b \in Browsers, NEW s \in States, NEW u \in Users,
             SignIn(h, b, s, u)
      PROVE  Typed'
  <2> DEFINE r == [Idle EXCEPT !.kind = "signin", !.browser = b,
                               !.user = u, !.state = s,
                               !.fresh = nextSession + 1]
  <2>2. nextSession + 1 \in Sessions /\ nextSession + 1 \in 0..MaxSession
    BY <1>3, FlowAssumption DEF SignIn, NewSession, Typed, TypeOK, Sessions
  <2>4. r \in LocalType /\ r.state = s /\ r.fresh = nextSession + 1
    BY <2>2, IdleType, Zenon DEF LocalType, Idle
  <2>5. local' = [local EXCEPT ![h] = r]
    BY <1>3 DEF SignIn
  <2>1. local' \in [Handlers -> LocalType] /\ nextSession + 1 \in Sessions
        /\ local'[h].state = s /\ local'[h].fresh = nextSession + 1
    BY <2>2, <2>4, <2>5 DEF Typed, TypeOK
  <2> QED
    BY <1>3, <2>1 DEF SignIn, NewSession, Typed, TypeOK, LocalOK, Goto, Labels,
                      stores, ghosts, Sessions
<1>4. ASSUME NEW b \in Browsers, NEW s \in States, NEW u \in Users,
             OAuthCallback(h, b, s, u)
      PROVE  Typed'
  <2>1. parked' \in [States -> EntryType]
    BY <1>4, IdleType DEF OAuthCallback, Typed, TypeOK
  <2>6. parked[s] \in EntryType
    BY DEF Typed, TypeOK
  <2>2. [parked[s] EXCEPT !.resource = Empty] \in EntryType
    BY <2>6 DEF EntryType
  <2>5. UNCHANGED <<codes, token, live, cookie, pending, minted, nextCode,
                    redeemed, approvals>>
    BY <1>4 DEF OAuthCallback, ghosts
  <2>3. CASE UNCHANGED <<pc, local, nextSession>>
    BY <2>1, <2>3, <2>5 DEF Typed, TypeOK, LocalOK
  <2> DEFINE r == [Idle EXCEPT !.kind = "callback", !.browser = b, !.user = u,
                               !.fresh = nextSession + 1,
                               !.entry = [parked[s] EXCEPT !.resource = Empty]]
  <2>4. CASE NewSession /\ local' = [local EXCEPT ![h] = r] /\ Goto(h, "bind")
    <3>1. /\ nextSession + 1 \in Sessions /\ nextSession + 1 \in 0..MaxSession
          /\ nextSession' = nextSession + 1
      BY <2>4, FlowAssumption DEF NewSession, Typed, TypeOK, Sessions
    <3>2. r \in LocalType /\ r.fresh = nextSession + 1
      BY <2>2, <3>1, IdleType, Zenon DEF LocalType, Idle
    <3>3. local' \in [Handlers -> LocalType] /\ local'[h].fresh \in Sessions
      BY <2>4, <3>1, <3>2 DEF Typed, TypeOK
    <3> QED
      BY <2>1, <2>4, <2>5, <3>1, <3>3
         DEF Typed, TypeOK, LocalOK, Goto, Labels, Sessions
  <2> QED
    BY <1>4, <2>3, <2>4 DEF OAuthCallback
<1>5. ASSUME NEW c \in Codes, TakeCode(h, c) PROVE Typed'
  <2>1. codes' \in [Codes -> BlobType]
    BY <1>5, IdleType, Zenon DEF TakeCode, GetAndRemoveState, Typed, TypeOK
  <2>2. CASE UNCHANGED <<pc, local>>
    BY <1>5, <2>1, <2>2, Zenon DEF TakeCode, Typed, TypeOK, LocalOK, counters, ghosts
  <2>3. ASSUME NEW p \in Presented, Goto(h, "validate"),
               local' = [local EXCEPT ![h] = [Idle EXCEPT !.kind = "token",
                                                 !.grant = Grant(c, p)]]
        PROVE  Typed'
    <3>1. Grant(c, p) \in GrantType
      BY DEF Grant, GrantType, Presented, Typed, TypeOK, BlobType
    <3>2. local' \in [Handlers -> LocalType] /\ local'[h].grant = Grant(c, p)
      BY <2>3, <3>1, IdleType, Zenon DEF Typed, TypeOK, LocalType, Idle
    <3> QED
      BY <1>5, <2>1, <2>3, <3>1, <3>2, Zenon
         DEF TakeCode, Typed, TypeOK, LocalOK, Goto, Labels, counters, ghosts
  <2> QED
    BY <1>5, <2>2, <2>3, Zenon DEF TakeCode
<1> QED
  BY <1>1, <1>2, <1>3, <1>4, <1>5 DEF Arrive

(* A handler that is done is typed.                                        *)
LEMMA FinishType ==
    ASSUME Typed, NEW h \in Handlers, Finish(h)
    PROVE  /\ pc' \in [Handlers -> Labels]
           /\ local' \in [Handlers -> LocalType]
           /\ LocalOK'
<1>1. pc' \in [Handlers -> Labels] /\ local' \in [Handlers -> LocalType]
  BY IdleType DEF Typed, TypeOK, Finish, Goto, Labels
<1> QED
  BY <1>1 DEF Typed, TypeOK, LocalOK, Finish, Goto

(* The steps that end their handler's request.                             *)
LEMMA TypedEnd ==
    ASSUME Typed, NEW h \in Handlers,
           \/ SignInFirst(h) \/ ForceReauth(h) \/ RenderConsent(h)
           \/ Withhold(h) \/ BindFails(h) \/ Respond(h) \/ Exchange(h)
           \/ RefuseSession(h)
    PROVE  Typed'
<1>1. CASE SignInFirst(h) \/ Withhold(h) \/ BindFails(h) \/ RefuseSession(h)
  <2>1. Finish(h)
    BY <1>1 DEF SignInFirst, Withhold, BindFails, RefuseSession
  <2>2. UNCHANGED <<parked, codes, token, live, cookie, pending, minted,
                    nextCode, nextSession, redeemed, approvals>>
    BY <1>1, Zenon DEF SignInFirst, Withhold, BindFails, RefuseSession, stores,
                counters, ghosts
  <2> QED
    BY <2>1, <2>2, FinishType, Zenon DEF Typed, TypeOK
<1>2. CASE ForceReauth(h)
  <2>2. cookie \in [Browsers -> 0..MaxSession] /\ 0 \in 0..MaxSession
    BY FlowAssumption, SMTT(30) DEF Typed, TypeOK
  <2>3. cookie' \in [Browsers -> 0..MaxSession]
    BY <1>2, <2>2, Zenon DEF ForceReauth
  <2>1. cookie' \in [Browsers -> 0..MaxSession] /\ live' \subseteq Sessions
    BY <1>2, <2>3, Zenon DEF ForceReauth, DeleteUserSession, Typed, TypeOK
  <2> QED
    BY <1>2, <2>1, FinishType, Zenon
       DEF ForceReauth, Typed, TypeOK, counters, ghosts
<1>3. CASE RenderConsent(h)
  <2>1. /\ local[h].request \in Requests \cup {Empty}
        /\ token[local[h].old].user \in Users \cup {Empty}
    BY <1>3, Zenon DEF RenderConsent, IsValid, Typed, TypeOK, LocalType
  <2>2. pending' \in [Codes -> [user : Users \cup {Empty},
                                request : Requests \cup {Empty}] \cup {Empty}]
    <3> DEFINE P == [user : Users \cup {Empty}, request : Requests \cup {Empty}]
               x == [user |-> token[local[h].old].user, request |-> local[h].request]
    <3>1. x \in P
      BY <2>1, Zenon
    <3>2. pending \in [Codes -> P \cup {Empty}]
      BY Zenon DEF Typed, TypeOK
    <3>3. pending' = [pending EXCEPT ![local[h].code] = x] \/ pending' = pending
      BY <1>3, Zenon DEF RenderConsent
    <3> HIDE DEF P, x
    <3>4. pending' \in [Codes -> P \cup {Empty}]
      BY <3>1, <3>2, <3>3, Zenon
    <3> QED
      BY <3>4, Zenon DEF P
  <2> QED
    BY <1>3, <2>2, FinishType, Zenon
       DEF RenderConsent, Typed, TypeOK, stores, counters, ghosts
<1>4. CASE Respond(h)
  <2>1. local[h].fresh \in 0..MaxSession
    BY Zenon DEF Typed, TypeOK, LocalType
  <2> QED
    BY <1>4, <2>1, FinishType, Zenon
       DEF Respond, Typed, TypeOK, stores, counters, ghosts
<1>5. CASE Exchange(h)
  <2>1. redeemed' \in [Sessions -> Nat]
    <3> DEFINE t == local[h].grant.session
    <3>1. /\ redeemed \in [Sessions -> Nat]
          /\ redeemed' = [redeemed EXCEPT ![t] = redeemed[t] + 1]
      BY <1>5, Zenon DEF Exchange, Typed, TypeOK
    <3> HIDE DEF t
    <3>2. t \in Sessions => redeemed[t] + 1 \in Nat
      BY <3>1, SMT
    <3> QED
      BY <3>1, <3>2, Zenon
  <2> QED
    BY <1>5, <2>1, FinishType, Zenon
       DEF Exchange, Typed, TypeOK, stores, counters
<1> QED
  BY <1>1, <1>2, <1>3, <1>4, <1>5, Zenon

(* The steps after which the handler goes on.                              *)
LEMMA TypedGoOn ==
    ASSUME Typed, NEW h \in Handlers,
           \/ PassConsent(h) \/ Rollover(h) \/ GetState(h) \/ RemoveState(h)
           \/ BindCode(h) \/ Persist(h) \/ PersistFails(h) \/ Retire(h)
    PROVE  Typed'
<1>1. CASE PassConsent(h)
  <2>1. /\ nextSession + 1 \in Sessions /\ nextSession + 1 \in 0..MaxSession
        /\ nextSession' = nextSession + 1
    <3>1. /\ nextSession \in 0..MaxSession /\ nextSession < MaxSession
          /\ nextSession' = nextSession + 1
      BY <1>1, Zenon DEF PassConsent, NewSession, Typed, TypeOK
    <3> QED
      BY <3>1, FlowAssumption, SMT DEF Sessions
  <2>2. token[local[h].old].user \in Users \cup {Empty}
    BY <1>1 DEF PassConsent, IsValid, Typed, TypeOK
  <2>3. /\ local' \in [Handlers -> LocalType]
        /\ local'[h].fresh = nextSession + 1
        /\ \A g \in Handlers \ {h} : local'[g] = local[g]
    <3>1. local[h] \in LocalType
      BY DEF Typed, TypeOK
    <3> DEFINE r == [local[h] EXCEPT !.user = token[local[h].old].user,
                                     !.fresh = nextSession + 1]
    <3>2. r \in LocalType /\ r.fresh = nextSession + 1
      BY <2>1, <2>2, <3>1, Zenon DEF LocalType
    <3>3. local' = [local EXCEPT ![h] = r]
      BY <1>1, Zenon DEF PassConsent, Typed, TypeOK
    <3> QED
      BY <3>2, <3>3 DEF Typed, TypeOK
  <2>5. approvals \in [Users \X Requests -> Int]
    BY Zenon DEF Typed, TypeOK
  <2>4. approvals' \in [Users \X Requests -> Int]
    <3> DEFINE p == <<token[local[h].old].user, local[h].request>>
    <3>1. \/ approvals' = approvals
          \/ approvals' = [approvals EXCEPT ![p] = approvals[p] - 1]
      BY <1>1, Zenon DEF PassConsent
    <3> HIDE DEF p
    <3>2. p \in Users \X Requests => approvals[p] - 1 \in Int
      BY <2>5, SMT
    <3> QED
      BY <2>5, <3>1, <3>2, Zenon
  <2> QED
    BY <1>1, <2>1, <2>3, <2>4, Zenon
       DEF PassConsent, Typed, TypeOK, LocalOK, Goto, Labels, stores, Sessions
<1>2. CASE Rollover(h) \/ Persist(h) \/ Retire(h)
  <2>1. live' \subseteq Sessions
    BY <1>2, Zenon DEF Rollover, Persist, Retire, DeleteUserSession, SetUserSession,
                Typed, TypeOK, LocalOK
  <2>2. /\ pc' \in [Handlers -> Labels]
        /\ pc[h] \in {"rollover", "persist", "retire"}
        /\ pc'[h] \in {"bind", "retire", "respond"}
        /\ \A g \in Handlers \ {h} : pc'[g] = pc[g]
    BY <1>2, Zenon DEF Rollover, Persist, Retire, AfterPersist, Goto, Labels, Typed,
                TypeOK
  <2>3. UNCHANGED <<parked, codes, token, cookie, pending, minted, local,
                    nextCode, nextSession, redeemed, approvals>>
    BY <1>2, Zenon DEF Rollover, Persist, Retire, counters, ghosts
  <2> QED
    BY <2>1, <2>2, <2>3, Zenon DEF Typed, TypeOK, LocalOK
<1>3. CASE GetState(h)
  <2>1. parked[local[h].state] \in EntryType
    BY <1>3 DEF GetState, Typed, TypeOK, LocalOK
  <2> DEFINE r == [local[h] EXCEPT !.entry = parked[local[h].state]]
  <2>2. r \in LocalType /\ r.state = local[h].state /\ r.fresh = local[h].fresh
    <3>1. local[h] \in LocalType
      BY DEF Typed, TypeOK
    <3> QED
      BY <2>1, <3>1 DEF LocalType
  <2>3. local' = [local EXCEPT ![h] = r]
    BY <1>3 DEF GetState, Typed, TypeOK
  <2> QED
    BY <1>3, <2>2, <2>3
       DEF GetState, Typed, TypeOK, LocalOK, Goto, Labels, stores, counters,
           ghosts
<1>4. CASE RemoveState(h)
  <2>1. parked' \in [States -> EntryType]
    BY <1>4, IdleType, Zenon DEF RemoveState, Typed, TypeOK
  <2> DEFINE r == [local[h] EXCEPT !.state = Empty]
  <2>2. r \in LocalType /\ r.fresh = local[h].fresh
    <3>1. local[h] \in LocalType
      BY DEF Typed, TypeOK
    <3> QED
      BY <3>1 DEF LocalType
  <2>3. local' = [local EXCEPT ![h] = r]
    BY <1>4 DEF RemoveState, Typed, TypeOK
  <2> QED
    BY <1>4, <2>1, <2>2, <2>3
       DEF RemoveState, Typed, TypeOK, LocalOK, Goto, Labels, counters, ghosts
<1>5. CASE BindCode(h)
  <2>1. /\ local[h] \in LocalType /\ local[h].fresh \in Sessions
        /\ local[h].entry \in EntryType
    BY <1>5, Zenon DEF BindCode, Typed, TypeOK, LocalOK, LocalType
  <2>2. SessionNonce(local[h], local[h].fresh)
           \in Nonces \cup {Empty} \cup (0..MaxSession)
    BY <2>1 DEF SessionNonce, EntryType, Sessions
  <2>3. token' \in [Sessions -> [user : Users \cup {Empty},
                               nonce : Nonces \cup {Empty} \cup (0..MaxSession)]]
    BY <1>5, <2>1, <2>2, Zenon DEF BindCode, Typed, TypeOK, LocalType
  <2>4. EncodeCode(local[h].entry, local[h].fresh) \in BlobType
    BY <2>1, SMTT(30) DEF EncodeCode, BlobType, EntryType, Sessions
  <2>5. codes' \in [Codes -> BlobType]
    BY <1>5, <2>4, Zenon DEF BindCode, Typed, TypeOK
  <2> DEFINE r == [Idle EXCEPT !.kind = local[h].kind, !.fresh = local[h].fresh,
                               !.browser = local[h].browser,
                               !.old = local[h].old]
  <2>6. r \in LocalType /\ r.fresh = local[h].fresh
    BY <2>1, IdleType, Zenon DEF LocalType, Idle
  <2>7. local' = [local EXCEPT ![h] = r]
    BY <1>5 DEF BindCode
  <2>8. UNCHANGED <<parked, live, cookie, pending, minted, nextCode,
                    nextSession, redeemed, approvals>>
    BY <1>5 DEF BindCode, counters, ghosts
  <2> HIDE DEF r
  <2> QED
    BY <1>5, <2>1, <2>3, <2>5, <2>6, <2>7, <2>8
       DEF BindCode, Typed, TypeOK, LocalOK, Goto, Labels
<1>6. CASE PersistFails(h)
  <2>1. UNCHANGED <<parked, codes, token, live, cookie, pending, minted,
                    nextCode, nextSession, redeemed, approvals>>
    BY <1>6, Zenon DEF PersistFails, stores, counters
  <2>2. CASE Finish(h)
    BY <2>1, <2>2, FinishType, Zenon DEF Typed, TypeOK
  <2>3. CASE AfterPersist(h) /\ UNCHANGED local
    BY <1>6, <2>1, <2>3, Zenon
       DEF PersistFails, AfterPersist, Goto, Labels, Typed, TypeOK, LocalOK
  <2> QED
    BY <1>6, <2>2, <2>3, Zenon DEF PersistFails
<1> QED
  BY <1>1, <1>2, <1>3, <1>4, <1>5, <1>6

(* Every state of a behaviour is well typed.                               *)
LEMMA TypedNext == Typed /\ [Next]_vars => Typed'
<1> SUFFICES ASSUME Typed, [Next]_vars PROVE Typed'
  OBVIOUS
<1>1. ASSUME NEW h \in Handlers, Arrive(h) \/ Step(h) PROVE Typed'
  BY <1>1, TypedArrive, TypedEnd, TypedGoOn DEF Step
<1>2. ASSUME NEW b \in Browsers, NEW c \in Codes, Consent(b, c) PROVE Typed'
  <2>1. approvals \in [Users \X Requests -> Int]
    BY Zenon DEF Typed, TypeOK
  <2>2. approvals' \in [Users \X Requests -> Int]
    BY <1>2, <2>1 DEF Consent
  <2>3. pending' \in [Codes -> [user : Users \cup {Empty},
                                request : Requests \cup {Empty}] \cup {Empty}]
    BY <1>2, Zenon DEF Consent, Typed, TypeOK
  <2> QED
    BY <1>2, <2>2, <2>3, Zenon
       DEF Consent, Typed, TypeOK, LocalOK, stores, counters
<1>3. ASSUME NEW b \in Browsers, Logout(b) PROVE Typed'
  <2>1. cookie \in [Browsers -> 0..MaxSession] /\ cookie' = [cookie EXCEPT ![b] = 0]
    BY <1>3, Zenon DEF Logout, Typed, TypeOK
  <2>2. 0 \in 0..MaxSession
    BY FlowAssumption, SMT
  <2>3. cookie' \in [Browsers -> 0..MaxSession]
    BY <2>1, <2>2, Zenon
  <2>4. live' \subseteq Sessions
    BY <1>3, Zenon DEF Logout, DeleteUserSession, Typed, TypeOK
  <2> QED
    BY <1>3, <2>3, <2>4, Zenon DEF Logout, Typed, TypeOK, LocalOK, counters, ghosts
<1>4. ASSUME NEW s \in States, ExpireParked(s) PROVE Typed'
  BY <1>4, IdleType, Zenon
     DEF ExpireParked, Typed, TypeOK, LocalOK, counters, ghosts
<1>5. ASSUME NEW c \in Codes, ExpireCode(c) PROVE Typed'
  BY <1>5, IdleType, Zenon
     DEF ExpireCode, Typed, TypeOK, LocalOK, counters, ghosts
<1>6. CASE UNCHANGED vars
  BY <1>6, Zenon DEF vars, Typed, TypeOK, LocalOK
<1> QED
  BY <1>1, <1>2, <1>3, <1>4, <1>5, <1>6 DEF Next

-----------------------------------------------------------------------------
(* Binding                                                                 *)

(* What a parked entry or a stored blob x shares with the request q that   *)
(* generated its code.                                                     *)
Bound(x, q) ==
    /\ q \in Requests
    /\ x.challenge = q.challenge
    /\ x.nonce = q.nonce
    /\ x.redirect = q.redirect
    /\ x.client = q.client
    /\ x.resource \in {q.resource, Empty}

EntryBound(e, m) == e.code # 0 => Bound(e, m[e.code])

BlobBound(x, q) == x # NoBlob => Bound(x, q)

GrantBound(g, q) ==
    /\ q \in Requests
    /\ g.client = q.client
    /\ g.redirect = q.redirect
    /\ g.verifier = q.challenge
    /\ q.challenge = Empty => g.secret
    /\ g.nonce = q.nonce
    /\ g.aud \in {q.resource, Empty}

(* Wherever a code travels, its binding travels with it: from the parked   *)
(* request to the handler that completes it, to the stored blob, to the    *)
(* token request that took it, to the tokens.                              *)
Binding ==
    /\ \A c \in Codes : c > nextCode => minted[c] = Empty
    /\ \A s \in States : EntryBound(parked[s], minted)
    /\ \A h \in Handlers : EntryBound(local[h].entry, minted)
    /\ \A c \in Codes : BlobBound(codes[c], minted[c])
    /\ \A h \in Handlers :
          pc[h] = "validate" => GrantBound(local[h].grant,
                                           minted[local[h].grant.code])
    /\ \A g \in grants : g \in GrantType /\ GrantBound(g, minted[g.code])

(* The steps that bind nothing: what they leave of each store was there.   *)
BindsNothing ==
    /\ UNCHANGED <<minted, nextCode, grants>>
    /\ \A s \in States : parked'[s] \in {parked[s], NoEntry}
    /\ \A c \in Codes : codes'[c] \in {codes[c], NoBlob}
    /\ \A h \in Handlers :
          /\ local'[h].entry \in {local[h].entry, NoEntry}
          /\ pc'[h] = "validate" => pc[h] = "validate" /\ local'[h] = local[h]

(* A step that binds nothing new keeps what is bound.                      *)
LEMMA BindingKept ==
    ASSUME Binding, BindsNothing
    PROVE  Binding'
<1>5. EntryBound(NoEntry, minted)
  BY SMT DEF EntryBound, NoEntry
<1>6. minted' = minted
  BY Zenon DEF BindsNothing
<1>1. \A s \in States : EntryBound(parked'[s], minted')
  BY <1>5, <1>6, Zenon DEF Binding, BindsNothing
<1>2. \A h \in Handlers : EntryBound(local'[h].entry, minted')
  BY <1>5, <1>6, Zenon DEF Binding, BindsNothing
<1>3. \A c \in Codes : BlobBound(codes'[c], minted'[c])
  BY <1>6, Zenon DEF Binding, BindsNothing, BlobBound
<1>4. \A h \in Handlers :
          pc'[h] = "validate" => GrantBound(local'[h].grant,
                                            minted'[local'[h].grant.code])
  BY DEF Binding, BindsNothing
<1> QED
  BY <1>1, <1>2, <1>3, <1>4 DEF Binding, BindsNothing

(* A handler that is done has bound nothing.                               *)
LEMMA FinishBindsNothing ==
    ASSUME Typed, NEW h \in Handlers, Finish(h),
           UNCHANGED <<minted, nextCode, grants, parked, codes>>
    PROVE  BindsNothing
BY DEF BindsNothing, Finish, Goto, Idle, Typed, TypeOK

(* The steps that leave entries, blobs and grants alone.                   *)
LEMMA StepBindsNothing ==
    ASSUME Typed, NEW h \in Handlers, Step(h),
           ~GetState(h), ~BindCode(h), ~Exchange(h)
    PROVE  BindsNothing
<1>1. CASE SignInFirst(h) \/ ForceReauth(h) \/ RenderConsent(h) \/ Withhold(h)
           \/ BindFails(h) \/ Respond(h) \/ RefuseSession(h)
  <2>1. Finish(h) /\ UNCHANGED <<minted, nextCode, grants, parked, codes>>
    BY <1>1 DEF SignInFirst, ForceReauth, RenderConsent, Withhold, BindFails,
                Respond, RefuseSession, stores, counters, ghosts
  <2> QED
    BY <2>1, FinishBindsNothing
<1>2. CASE Rollover(h) \/ Persist(h) \/ Retire(h)
  <2>1. /\ UNCHANGED <<minted, nextCode, grants, parked, codes, local>>
        /\ \E x \in {"bind", "retire", "respond"} : Goto(h, x)
    BY <1>2 DEF Rollover, Persist, Retire, AfterPersist, counters, ghosts
  <2> QED
    BY <2>1 DEF BindsNothing, Goto, Typed, TypeOK
<1>3. CASE PersistFails(h)
  <2>1. UNCHANGED <<minted, nextCode, grants, parked, codes>>
    BY <1>3 DEF PersistFails, stores, counters
  <2>2. CASE Finish(h)
    BY <2>1, <2>2, FinishBindsNothing
  <2>3. CASE AfterPersist(h) /\ UNCHANGED local
    BY <2>1, <2>3, Zenon DEF AfterPersist, BindsNothing, Goto, Typed, TypeOK
  <2> QED
    BY <1>3, <2>2, <2>3 DEF PersistFails
<1>4. CASE PassConsent(h)
  <2>1. local[h] \in LocalType /\ local \in [Handlers -> LocalType]
    BY DEF Typed, TypeOK
  <2>2. \A g \in Handlers : local'[g].entry = local[g].entry
    BY <1>4, <2>1 DEF PassConsent, LocalType
  <2>3. \A g \in Handlers : pc'[g] = "validate" => pc[g] = "validate" /\ g # h
    BY <1>4 DEF PassConsent, Goto, Typed, TypeOK
  <2> QED
    BY <1>4, <2>1, <2>2, <2>3 DEF PassConsent, BindsNothing, stores
<1>5. CASE RemoveState(h)
  <2>1. local[h] \in LocalType /\ local \in [Handlers -> LocalType]
    BY DEF Typed, TypeOK
  <2>2. \A g \in Handlers : local'[g].entry = local[g].entry
    BY <1>5, <2>1 DEF RemoveState, LocalType
  <2>3. \A g \in Handlers : pc'[g] = "validate" => pc[g] = "validate" /\ g # h
    BY <1>5 DEF RemoveState, Goto, Typed, TypeOK
  <2>4. \A s \in States : parked'[s] \in {parked[s], NoEntry}
    BY <1>5 DEF RemoveState, Typed, TypeOK
  <2> QED
    BY <1>5, <2>1, <2>2, <2>3, <2>4
       DEF RemoveState, BindsNothing, counters, ghosts
<1> QED
  BY <1>1, <1>2, <1>3, <1>4, <1>5 DEF Step

(* What /authorize parks and binds is bound to its request.                *)
LEMMA EncodeBound ==
    ASSUME NEW q \in Requests, NEW c \in Codes, NEW m, m[c] = q
    PROVE  /\ EntryBound(EncodeAuthorize(q, c), m)
           /\ EntryBound(DirectEntry(q, c), m)
BY DEF EntryBound, Bound, EncodeAuthorize, DirectEntry, NoEntry

(* A new /authorize request takes a code nobody holds.                     *)
LEMMA AuthorizeBinds ==
    ASSUME Typed, Binding, NEW h \in Handlers, NEW b \in Browsers,
           NEW q \in Requests, Authorize(h, b, q)
    PROVE  Binding'
<1> DEFINE c == nextCode + 1
<1>1. c \in Codes /\ c > nextCode /\ nextCode' = c
  BY FlowAssumption DEF Authorize, Typed, TypeOK, Codes
<1>2. minted[c] \notin Requests
  BY <1>1, FlowAssumption DEF Binding
<1>3. minted' = [minted EXCEPT ![c] = q] /\ minted'[c] = q
      /\ \A d : d # c => minted'[d] = minted[d]
  BY <1>1 DEF Authorize, Typed, TypeOK
<1> HIDE DEF c
<1>4. \A x : Bound(x, minted[c]) => FALSE
  BY <1>2 DEF Bound
<1>5. \A e : EntryBound(e, minted) => EntryBound(e, minted')
  BY <1>3, <1>4 DEF EntryBound
<1>6. \A d \in Codes : d > nextCode' => minted'[d] = Empty
  BY <1>1, <1>3 DEF Binding, Codes, Typed, TypeOK
<1>7. EntryBound(EncodeAuthorize(q, c), minted') /\ EntryBound(DirectEntry(q, c), minted')
  BY <1>1, <1>3, EncodeBound, Zenon
<1>8. \A s \in States : EntryBound(parked'[s], minted')
  BY <1>1, <1>5, <1>7, Zenon DEF Authorize, Binding, Typed, TypeOK
<1>9. local'[h].entry = DirectEntry(q, c) /\ pc'[h] = "check"
      /\ \A g \in Handlers : g # h => local'[g] = local[g] /\ pc'[g] = pc[g]
  BY <1>1 DEF Authorize, Goto, Idle, Typed, TypeOK
<1>10. \A g \in Handlers : EntryBound(local'[g].entry, minted')
  BY <1>5, <1>7, <1>9 DEF Binding
<1>11. \A d \in Codes : BlobBound(codes'[d], minted'[d])
  BY <1>3, <1>4 DEF Authorize, Binding, BlobBound
<1>12. \A g, d : GrantBound(g, minted[d]) => minted'[d] = minted[d]
  BY <1>2, <1>3 DEF GrantBound
<1>13. \A g \in Handlers :
          pc'[g] = "validate" => GrantBound(local'[g].grant,
                                            minted'[local'[g].grant.code])
  BY <1>9, <1>12 DEF Binding
<1>14. \A g \in grants' : g \in GrantType /\ GrantBound(g, minted'[g.code])
  BY <1>12 DEF Authorize, Binding
<1> QED
  BY <1>6, <1>8, <1>10, <1>11, <1>13, <1>14 DEF Binding

(* The steps that move a binding on: from the parked request to a handler  *)
(* (GetState, OAuthCallback), ...                                          *)
LEMMA ReadBinds ==
    ASSUME Typed, Binding, NEW h \in Handlers, NEW s \in States,
           NEW r, r.entry \in {parked[s], NoEntry} \/ EntryBound(r.entry, minted),
           local' = [local EXCEPT ![h] = r], pc'[h] # "validate",
           \A g \in Handlers \ {h} : pc'[g] = pc[g],
           \A x \in States : parked'[x] \in {parked[x], NoEntry},
           UNCHANGED <<codes, minted, nextCode, grants>>
    PROVE  Binding'
<1>1. EntryBound(NoEntry, minted)
  BY DEF EntryBound, NoEntry
<1>2. EntryBound(r.entry, minted)
  BY <1>1 DEF Binding
<1>3. \A g \in Handlers : EntryBound(local'[g].entry, minted')
  BY <1>2, Zenon DEF Binding, Typed, TypeOK
<1>4. \A x \in States : EntryBound(parked'[x], minted')
  BY <1>1, Zenon DEF Binding
<1>5. \A g \in Handlers :
          pc'[g] = "validate" => GrantBound(local'[g].grant,
                                            minted'[local'[g].grant.code])
  BY DEF Binding, Typed, TypeOK
<1> QED
  BY <1>3, <1>4, <1>5 DEF Binding

(* ... from the handler to the code store, ...                             *)
LEMMA BindBinds ==
    ASSUME Typed, Binding, NEW h \in Handlers, BindCode(h)
    PROVE  Binding'
<1> DEFINE e == local[h].entry
<1>1. e \in EntryType /\ EntryBound(e, minted)
  BY DEF Typed, TypeOK, LocalType, Binding
<1>2. HasCode(h) => e.code \in Codes /\ Bound(e, minted[e.code])
  <2>1. HasCode(h) => e.code # 0
    BY Zenon DEF HasCode
  <2>2. e.code \in 0..MaxCode
    <3>1. \A x \in EntryType : x.code \in 0..MaxCode
      BY SMT DEF EntryType
    <3> QED
      BY <1>1, <3>1, Zenon
  <2>3. HasCode(h) => e.code \in Codes
    BY <2>1, <2>2, FlowAssumption, SMT DEF Codes
  <2> QED
    BY <1>1, <2>1, <2>3, Zenon DEF EntryBound
<1>3. \A t : HasCode(h) => Bound(EncodeCode(e, t), minted[e.code])
  BY <1>2 DEF EncodeCode, Bound
<1> HIDE DEF e
<1>4. \A c \in Codes : BlobBound(codes'[c], minted'[c])
  BY <1>2, <1>3 DEF BindCode, Binding, BlobBound, Typed, TypeOK, e, ghosts
<1>5. local'[h].entry = NoEntry /\ pc'[h] = "persist"
      /\ \A g \in Handlers : g # h => local'[g] = local[g] /\ pc'[g] = pc[g]
  BY DEF BindCode, Goto, Idle, Typed, TypeOK
<1>6. \A g \in Handlers : EntryBound(local'[g].entry, minted')
  BY <1>5 DEF BindCode, Binding, EntryBound, NoEntry, ghosts
<1>7. \A g \in Handlers :
          pc'[g] = "validate" => GrantBound(local'[g].grant,
                                            minted'[local'[g].grant.code])
  BY <1>5 DEF BindCode, Binding, ghosts
<1> QED
  BY <1>4, <1>6, <1>7 DEF BindCode, Binding, ghosts, counters

(* ... from the code store to a token request that presents what the blob  *)
(* asks for, ...                                                           *)
LEMMA TakeBinds ==
    ASSUME Typed, Binding, NEW h \in Handlers, NEW c \in Codes, TakeCode(h, c)
    PROVE  Binding'
<1>1. BlobBound(codes[c], minted[c]) /\ codes[c] # NoBlob
  BY Zenon DEF Binding, TakeCode
<1>2. Bound(codes[c], minted[c])
  BY <1>1 DEF BlobBound
<1>3. \A d \in Codes : BlobBound(codes'[d], minted'[d])
  BY Zenon DEF TakeCode, GetAndRemoveState, Binding, BlobBound, Typed, TypeOK, ghosts
<1>4. CASE UNCHANGED <<pc, local>>
  BY <1>3, <1>4, Zenon DEF TakeCode, Binding, counters, ghosts
<1>5. ASSUME NEW p \in Presented, Matches(codes[c], p), Goto(h, "validate"),
             local' = [local EXCEPT ![h] = [Idle EXCEPT !.kind = "token",
                                               !.grant = Grant(c, p)]]
      PROVE  Binding'
  <2>1. GrantBound(Grant(c, p), minted[c]) /\ Grant(c, p).code = c
    BY <1>2, <1>5, FlowAssumption
       DEF GrantBound, Grant, Bound, Matches, Presented, RequestType
  <2> DEFINE r == [Idle EXCEPT !.kind = "token", !.grant = Grant(c, p)]
  <2>5. r.entry = NoEntry /\ r.grant = Grant(c, p)
    BY DEF Idle
  <2>6. local' = [local EXCEPT ![h] = r]
    BY <1>5
  <2> HIDE DEF r
  <2>2. /\ local'[h].entry = NoEntry /\ local'[h].grant = Grant(c, p)
        /\ \A g \in Handlers : g # h => local'[g] = local[g] /\ pc'[g] = pc[g]
    BY <1>5, <2>5, <2>6, Zenon DEF Goto, Typed, TypeOK
  <2>7. minted' = minted
    BY Zenon DEF TakeCode, ghosts
  <2>3. \A g \in Handlers : EntryBound(local'[g].entry, minted')
    <3>1. NoEntry.code = 0
      BY SMT DEF NoEntry
    <3> QED
      BY <2>2, <2>7, <3>1, Zenon DEF Binding, EntryBound
  <2>4. \A g \in Handlers :
          pc'[g] = "validate" => GrantBound(local'[g].grant,
                                            minted'[local'[g].grant.code])
    <3>1. GrantBound(local'[h].grant, minted'[local'[h].grant.code])
      BY <2>1, <2>2, <2>7, Zenon
    <3>2. ASSUME NEW g \in Handlers, g # h, pc'[g] = "validate"
          PROVE  GrantBound(local'[g].grant, minted'[local'[g].grant.code])
      BY <2>2, <2>7, <3>2, Zenon DEF Binding
    <3> QED
      BY <3>1, <3>2, Zenon
  <2> QED
    BY <1>3, <2>3, <2>4, Zenon DEF TakeCode, Binding, counters, ghosts
<1> QED
  BY <1>4, <1>5, Zenon DEF TakeCode

(* ... and from the token request to the tokens.                           *)
LEMMA ExchangeBinds ==
    ASSUME Typed, Binding, NEW h \in Handlers, Exchange(h)
    PROVE  Binding'
<1>1. /\ local[h].grant \in GrantType
      /\ GrantBound(local[h].grant, minted[local[h].grant.code])
  BY Zenon DEF Exchange, Typed, LocalOK, Binding
<1>2. local'[h].entry = NoEntry /\ pc'[h] = "idle"
      /\ \A g \in Handlers : g # h => local'[g] = local[g] /\ pc'[g] = pc[g]
  BY Zenon DEF Exchange, Finish, Goto, Idle, Typed, TypeOK
<1>3. UNCHANGED <<parked, codes, minted, nextCode>>
  BY Zenon DEF Exchange, stores, counters
<1>4. \A g \in grants' : g \in GrantType /\ GrantBound(g, minted'[g.code])
  BY <1>1, <1>3, Zenon DEF Exchange, Binding
<1>5. \A g \in Handlers : EntryBound(local'[g].entry, minted')
  <2>1. NoEntry.code = 0
    BY SMT DEF NoEntry
  <2> QED
    BY <1>2, <1>3, <2>1, Zenon DEF Binding, EntryBound
<1>6. \A g \in Handlers :
          pc'[g] = "validate" => GrantBound(local'[g].grant,
                                            minted'[local'[g].grant.code])
  BY <1>2, <1>3, SMT DEF Binding
<1> QED
  BY <1>3, <1>4, <1>5, <1>6, Zenon DEF Binding

(* Every step keeps the binding.                                           *)
LEMMA BindingNext == Typed /\ Binding /\ [Next]_vars => Binding'
<1> SUFFICES ASSUME Typed, Binding, [Next]_vars PROVE Binding'
  OBVIOUS
<1>1. ASSUME NEW h \in Handlers, Arrive(h) PROVE Binding'
  <2>1. ASSUME NEW b \in Browsers, NEW s \in States,
               \/ Session(h, b, s)
               \/ \E u \in Users : SignIn(h, b, s, u)
        PROVE  Binding'
    <3>1. UNCHANGED <<minted, nextCode, grants, parked, codes>>
      BY <2>1, Zenon DEF Session, SignIn, stores, ghosts
    <3>2. local'[h].entry = NoEntry /\ pc'[h] = "read"
          /\ \A g \in Handlers : g # h => local'[g] = local[g] /\ pc'[g] = pc[g]
      <4>1. PICK r : local' = [local EXCEPT ![h] = r] /\ r.entry = NoEntry
        <5>1. CASE Session(h, b, s)
          <6> DEFINE r == [Idle EXCEPT !.kind = "session", !.browser = b,
                                       !.user = token[cookie[b]].user,
                                       !.state = s, !.old = cookie[b],
                                       !.fresh = nextSession + 1]
          <6>1. local' = [local EXCEPT ![h] = r] /\ r.entry = NoEntry
            BY <5>1 DEF Session, Idle
          <6> QED
            BY <6>1, Zenon
        <5>2. ASSUME NEW u \in Users, SignIn(h, b, s, u)
              PROVE  \E r : local' = [local EXCEPT ![h] = r] /\ r.entry = NoEntry
          <6> DEFINE r == [Idle EXCEPT !.kind = "signin", !.browser = b,
                                       !.user = u, !.state = s,
                                       !.fresh = nextSession + 1]
          <6>1. local' = [local EXCEPT ![h] = r] /\ r.entry = NoEntry
            BY <5>2 DEF SignIn, Idle
          <6> QED
            BY <6>1, Zenon
        <5> QED
          BY <2>1, <5>1, <5>2
      <4>2. pc' = [pc EXCEPT ![h] = "read"]
        BY <2>1, Zenon DEF Session, SignIn, Goto
      <4> QED
        BY <4>1, <4>2 DEF Typed, TypeOK
    <3>3. BindsNothing
      BY <3>1, <3>2 DEF BindsNothing
    <3> QED
      BY <3>3, BindingKept
  <2>2. ASSUME NEW b \in Browsers, NEW s \in States, NEW u \in Users,
               OAuthCallback(h, b, s, u)
        PROVE  Binding'
    <3>1. UNCHANGED <<minted, nextCode, grants, codes>>
      BY <2>2 DEF OAuthCallback, ghosts
    <3>2. \A x \in States : parked'[x] \in {parked[x], NoEntry}
      BY <2>2 DEF OAuthCallback, Typed, TypeOK
    <3>3. CASE UNCHANGED <<pc, local>>
      <4>1. BindsNothing
        BY <3>1, <3>2, <3>3 DEF BindsNothing
      <4> QED
        BY <4>1, BindingKept
    <3> DEFINE e == [parked[s] EXCEPT !.resource = Empty]
               r == [Idle EXCEPT !.kind = "callback", !.browser = b,
                                 !.user = u, !.fresh = nextSession + 1,
                                 !.entry = e]
    <3>4. CASE local' = [local EXCEPT ![h] = r] /\ Goto(h, "bind")
      <4>1. parked[s] \in EntryType /\ EntryBound(parked[s], minted)
        BY DEF Typed, TypeOK, Binding
      <4>2. EntryBound(e, minted)
        BY <4>1 DEF EntryBound, Bound, EntryType
      <4> HIDE DEF e
      <4>3. r.entry = e
        BY DEF Idle
      <4> HIDE DEF r
      <4>4. pc'[h] # "validate" /\ \A g \in Handlers \ {h} : pc'[g] = pc[g]
        BY <3>4 DEF Goto, Typed, TypeOK
      <4> QED
        BY <3>1, <3>2, <3>4, <4>2, <4>3, <4>4, ReadBinds, Zenon
    <3> QED
      BY <2>2, <3>3, <3>4 DEF OAuthCallback
  <2> QED
    BY <1>1, <2>1, <2>2, AuthorizeBinds, TakeBinds DEF Arrive
<1>2. ASSUME NEW h \in Handlers, Step(h) PROVE Binding'
  <2>1. CASE GetState(h)
    <3>1. local[h].state \in States /\ parked[local[h].state] \in EntryType
      BY <2>1 DEF GetState, Typed, TypeOK, LocalOK
    <3> DEFINE r == [local[h] EXCEPT !.entry = parked[local[h].state]]
    <3>2. r.entry = parked[local[h].state]
      <4>1. local[h] \in LocalType
        BY DEF Typed, TypeOK
      <4> QED
        BY <4>1 DEF LocalType
    <3>3. local' = [local EXCEPT ![h] = r]
      BY <2>1 DEF GetState, Typed, TypeOK
    <3> HIDE DEF r
    <3>4. pc'[h] # "validate" /\ \A g \in Handlers \ {h} : pc'[g] = pc[g]
      BY <2>1 DEF GetState, Goto, Typed, TypeOK
    <3>5. UNCHANGED <<parked, codes, minted, nextCode, grants>>
      BY <2>1 DEF GetState, stores, counters, ghosts
    <3> QED
      BY <3>1, <3>2, <3>3, <3>4, <3>5, ReadBinds, Zenon
  <2> QED
    BY <1>2, <2>1, BindBinds, ExchangeBinds, StepBindsNothing, BindingKept
<1>3. ASSUME \/ \E b \in Browsers, c \in Codes : Consent(b, c)
             \/ \E b \in Browsers : Logout(b)
             \/ \E s \in States : ExpireParked(s)
             \/ \E c \in Codes : ExpireCode(c)
      PROVE  Binding'
  <2>1. BindsNothing
    BY <1>3, Zenon DEF Consent, Logout, ExpireParked, ExpireCode, BindsNothing,
                stores, counters, ghosts, Typed, TypeOK
  <2> QED
    BY <2>1, BindingKept
<1>4. CASE UNCHANGED vars
  <2>1. BindsNothing
    BY <1>4 DEF vars, BindsNothing
  <2> QED
    BY <2>1, BindingKept
<1> QED
  BY <1>1, <1>2, <1>3, <1>4 DEF Next

(* Nothing is bound at the start.                                          *)
LEMMA BindingInit == Init => Binding
<1> SUFFICES ASSUME Init PROVE Binding
  OBVIOUS
<1>1. Idle.entry = NoEntry /\ NoEntry.code = 0
  BY Zenon DEF Idle, NoEntry
<1>2. /\ \A s \in States : EntryBound(parked[s], minted)
      /\ \A h \in Handlers : EntryBound(local[h].entry, minted)
  BY <1>1, Zenon DEF Init, EntryBound
<1>3. \A c \in Codes : BlobBound(codes[c], minted[c]) /\ minted[c] = Empty
  BY Zenon DEF Init, BlobBound
<1>4. grants = {} /\ \A h \in Handlers : pc[h] = "idle"
  BY DEF Init
<1> QED
  BY <1>2, <1>3, <1>4 DEF Binding

(* The token endpoint answers a code only with what the /authorize request *)
(* that generated it asked for, for any number of clients, browsers, users *)
(* and concurrent requests.                                                *)
THEOREM GrantAlwaysKeepsItsBinding == Spec => []GrantKeepsItsBinding
<1>1. Binding => GrantKeepsItsBinding
  BY FlowAssumption DEF Binding, GrantBound, GrantKeepsItsBinding
<1> QED
  BY <1>1, TypedInit, TypedNext, BindingInit, BindingNext, PTL DEF Spec
-----------------------------------------------------------------------------
(* Redemption                                                              *)

(* The session token handler h may still bind to a code, or redeem.        *)
Held(h) ==
    IF pc[h] \in {"rollover", "read", "remove", "bind"} THEN local[h].fresh
    ELSE IF pc[h] = "validate" THEN local[h].grant.session
    ELSE 0

Stored(c) == codes[c].session

(* A session token is in one place: with the handler that will bind it, in *)
(* the blob of one code, with the token request that took the blob, or     *)
(* used up.                                                                *)
InOnePlace ==
    /\ \A h \in Handlers : Held(h) <= nextSession
    /\ \A c \in Codes : Stored(c) <= nextSession
    /\ \A g, h \in Handlers : Held(g) # 0 /\ Held(g) = Held(h) => g = h
    /\ \A c, d \in Codes : Stored(c) # 0 /\ Stored(c) = Stored(d) => c = d
    /\ \A h \in Handlers, c \in Codes : Held(h) # 0 => Held(h) # Stored(c)

(* What can still be redeemed has not been.                                *)
Unredeemed ==
    /\ \A h \in Handlers : Held(h) # 0 => redeemed[Held(h)] = 0
    /\ \A c \in Codes : Stored(c) # 0 => redeemed[Stored(c)] = 0
    /\ \A t \in Sessions : t > nextSession => redeemed[t] = 0
    /\ \A t \in Sessions : redeemed[t] <= 1

(* Held and stored tokens are typed.                                       *)
LEMMA HeldType ==
    ASSUME Typed
    PROVE  /\ \A h \in Handlers : Held(h) \in 0..MaxSession
           /\ \A c \in Codes : Stored(c) \in 0..MaxSession
<1>1. ASSUME NEW h \in Handlers PROVE Held(h) \in 0..MaxSession
  <2>1. local[h].fresh \in 0..MaxSession
    BY DEF Typed, TypeOK, LocalType
  <2>2. pc[h] = "validate" => local[h].grant.session \in 0..MaxSession
    BY DEF Typed, LocalOK, GrantType
  <2> QED
    BY <2>1, <2>2, FlowAssumption DEF Held
<1>2. ASSUME NEW c \in Codes PROVE Stored(c) \in 0..MaxSession
  BY DEF Stored, Typed, TypeOK, BlobType
<1> QED
  BY <1>1, <1>2

(* The same, for arithmetic.                                               *)
LEMMA TokensAreNumbers ==
    ASSUME Typed
    PROVE  /\ nextSession \in Nat
           /\ \A h \in Handlers : Held(h) \in Nat
           /\ \A c \in Codes : Stored(c) \in Nat
<1>1. nextSession \in 0..MaxSession
  BY Zenon DEF Typed, TypeOK
<1> QED
  BY <1>1, HeldType, FlowAssumption, SMT

(* The steps that move no token, or let one go.                            *)
MovesNone ==
    /\ UNCHANGED <<nextSession, redeemed>>
    /\ \A h \in Handlers : Held(h)' \in {Held(h), 0}
    /\ \A c \in Codes : Stored(c)' \in {Stored(c), 0}

(* Such a step keeps every token in its place.                             *)
LEMMA NoneMoved ==
    ASSUME Typed, InOnePlace, Unredeemed, MovesNone
    PROVE  InOnePlace' /\ Unredeemed'
<1>1. nextSession \in Nat /\ (\A h \in Handlers : Held(h) \in Nat)
      /\ \A c \in Codes : Stored(c) \in Nat
  BY TokensAreNumbers, Zenon
<1>2. InOnePlace'
  BY <1>1 DEF InOnePlace, MovesNone
<1>3. Unredeemed'
  BY DEF Unredeemed, MovesNone
<1> QED
  BY <1>2, <1>3, Zenon

(* A handler takes the next token.                                         *)
LEMMA NextTaken ==
    ASSUME Typed, InOnePlace, Unredeemed, NEW h \in Handlers, NewSession,
           Held(h)' = nextSession + 1,
           \A g \in Handlers : g # h => Held(g)' = Held(g),
           UNCHANGED <<codes, redeemed>>
    PROVE  InOnePlace' /\ Unredeemed'
<1>1. /\ nextSession \in Nat /\ nextSession' = nextSession + 1
      /\ \A g \in Handlers : Held(g) \in Nat
      /\ \A c \in Codes : Stored(c) \in Nat /\ Stored(c)' = Stored(c)
  BY TokensAreNumbers, Zenon DEF NewSession, Stored
<1>2. nextSession + 1 \in Sessions
  BY <1>1, FlowAssumption DEF NewSession, Sessions
<1>3. InOnePlace'
  BY <1>1 DEF InOnePlace
<1>4. Unredeemed'
  BY <1>1, <1>2 DEF Unredeemed, Sessions
<1> QED
  BY <1>3, <1>4, Zenon

(* Handler and code store swap a token.                                    *)
LEMMA Handed ==
    ASSUME Typed, InOnePlace, Unredeemed, NEW h \in Handlers, NEW c \in Codes,
           \/ Held(h)' = 0 /\ Stored(c)' = Held(h)
           \/ Held(h)' = Stored(c) /\ Stored(c)' = 0,
           \A g \in Handlers : g # h => Held(g)' = Held(g),
           \A d \in Codes : d # c => Stored(d)' = Stored(d),
           UNCHANGED <<nextSession, redeemed>>
    PROVE  InOnePlace' /\ Unredeemed'
<1>1. nextSession \in Nat /\ (\A g \in Handlers : Held(g) \in Nat)
      /\ \A d \in Codes : Stored(d) \in Nat
  BY TokensAreNumbers, Zenon
<1>2. InOnePlace'
  BY <1>1 DEF InOnePlace
<1>3. Unredeemed'
  BY DEF Unredeemed
<1> QED
  BY <1>2, <1>3, Zenon

(* A handler's token is used up.                                           *)
LEMMA UsedUp ==
    ASSUME Typed, InOnePlace, Unredeemed, NEW h \in Handlers, Exchange(h)
    PROVE  InOnePlace' /\ Unredeemed'
<1>1. nextSession \in Nat /\ nextSession' = nextSession
      /\ (\A g \in Handlers : Held(g) \in Nat)
      /\ \A c \in Codes : Stored(c) \in Nat /\ Stored(c)' = Stored(c)
  BY TokensAreNumbers, Zenon DEF Exchange, stores, counters, Stored
<1>2. Held(h)' = 0 /\ \A g \in Handlers : g # h => Held(g)' = Held(g)
  BY Zenon DEF Exchange, Finish, Goto, Held, Typed, TypeOK
<1>3. Held(h) = local[h].grant.session /\ Held(h) \in Sessions
  BY DEF Exchange, IsValid, Held, Typed, TypeOK
<1>4. Held(h) # 0
  BY <1>3 DEF Sessions
<1>5. redeemed' = [redeemed EXCEPT ![Held(h)] = redeemed[Held(h)] + 1]
  BY <1>3, Zenon DEF Exchange
<1>6. redeemed[Held(h)] = 0 /\ redeemed \in [Sessions -> Nat]
  BY <1>4 DEF Unredeemed, Typed, TypeOK
<1>7. redeemed'[Held(h)] = 1
      /\ \A t \in Sessions : t # Held(h) => redeemed'[t] = redeemed[t]
  BY <1>3, <1>5, <1>6
<1>8. InOnePlace'
  BY <1>1, <1>2 DEF InOnePlace
<1>9. \A t \in Sessions : redeemed'[t] <= 1 /\ (t > nextSession' => redeemed'[t] = 0)
  BY <1>1, <1>3, <1>7 DEF Unredeemed, InOnePlace, Sessions
<1>10. \A g \in Handlers : Held(g)' # 0 => redeemed'[Held(g)'] = 0
  <2> SUFFICES ASSUME NEW g \in Handlers, Held(g)' # 0
               PROVE  redeemed'[Held(g)'] = 0
    OBVIOUS
  <2>1. g # h /\ Held(g)' = Held(g) /\ Held(g) # Held(h) /\ Held(g) \in Sessions
    BY <1>2, HeldType DEF InOnePlace, Sessions
  <2> QED
    BY <1>7, <2>1 DEF Unredeemed
<1>11. \A c \in Codes : Stored(c)' # 0 => redeemed'[Stored(c)'] = 0
  <2> SUFFICES ASSUME NEW c \in Codes, Stored(c)' # 0
               PROVE  redeemed'[Stored(c)'] = 0
    OBVIOUS
  <2>1. Stored(c)' = Stored(c) /\ Stored(c) # Held(h) /\ Stored(c) \in Sessions
    BY <1>1, <1>4, HeldType DEF InOnePlace, Sessions
  <2> QED
    BY <1>7, <2>1 DEF Unredeemed
<1> QED
  BY <1>8, <1>9, <1>10, <1>11, Zenon DEF Unredeemed

(* The steps that begin a request keep every token in its place.           *)
LEMMA ArriveMoves ==
    ASSUME Typed, InOnePlace, Unredeemed, NEW h \in Handlers, Arrive(h)
    PROVE  InOnePlace' /\ Unredeemed'
<1>1. pc[h] = "idle" /\ Held(h) = 0
  BY Zenon DEF Arrive, Authorize, Session, SignIn, OAuthCallback, TakeCode, Held
<1>2. ASSUME NEW b \in Browsers, NEW q \in Requests, Authorize(h, b, q)
      PROVE  MovesNone
  <2>1. Held(h)' = 0 /\ \A g \in Handlers : g # h => Held(g)' = Held(g)
    BY <1>2, Zenon DEF Authorize, Goto, Held, Typed, TypeOK
  <2> QED
    BY <1>2, <2>1 DEF Authorize, MovesNone, Stored
<1>3. ASSUME NEW r, NEW x \in {"read", "bind"}, r.fresh = nextSession + 1,
             local' = [local EXCEPT ![h] = r], Goto(h, x)
      PROVE  Held(h)' = nextSession + 1
             /\ \A g \in Handlers : g # h => Held(g)' = Held(g)
  BY <1>3 DEF Goto, Held, Typed, TypeOK
<1>4. ASSUME NEW b \in Browsers, NEW s \in States, Session(h, b, s)
      PROVE  InOnePlace' /\ Unredeemed'
  <2> DEFINE r == [Idle EXCEPT !.kind = "session", !.browser = b,
                               !.user = token[cookie[b]].user, !.state = s,
                               !.old = cookie[b], !.fresh = nextSession + 1]
  <2>1. r.fresh = nextSession + 1 /\ local' = [local EXCEPT ![h] = r]
    BY <1>4 DEF Session, Idle
  <2> HIDE DEF r
  <2>2. NewSession /\ Goto(h, "read") /\ UNCHANGED <<codes, redeemed>>
    BY <1>4 DEF Session, stores, ghosts
  <2> QED
    BY <1>3, <2>1, <2>2, NextTaken, Zenon
<1>5. ASSUME NEW b \in Browsers, NEW s \in States, NEW u \in Users,
             SignIn(h, b, s, u)
      PROVE  InOnePlace' /\ Unredeemed'
  <2> DEFINE r == [Idle EXCEPT !.kind = "signin", !.browser = b, !.user = u,
                               !.state = s, !.fresh = nextSession + 1]
  <2>1. r.fresh = nextSession + 1 /\ local' = [local EXCEPT ![h] = r]
    BY <1>5 DEF SignIn, Idle
  <2> HIDE DEF r
  <2>2. NewSession /\ Goto(h, "read") /\ UNCHANGED <<codes, redeemed>>
    BY <1>5 DEF SignIn, stores, ghosts
  <2> QED
    BY <1>3, <2>1, <2>2, NextTaken, Zenon
<1>6. ASSUME NEW b \in Browsers, NEW s \in States, NEW u \in Users,
             OAuthCallback(h, b, s, u)
      PROVE  InOnePlace' /\ Unredeemed'
  <2>1. UNCHANGED <<codes, redeemed>>
    BY <1>6 DEF OAuthCallback, ghosts
  <2>2. CASE UNCHANGED <<pc, local, nextSession>>
    <3>1. MovesNone
      BY <2>1, <2>2 DEF MovesNone, Held, Stored
    <3> QED
      BY <3>1, NoneMoved, Zenon
  <2> DEFINE r == [Idle EXCEPT !.kind = "callback", !.browser = b, !.user = u,
                               !.fresh = nextSession + 1,
                               !.entry = [parked[s] EXCEPT !.resource = Empty]]
  <2>3. r.fresh = nextSession + 1
    BY DEF Idle
  <2> HIDE DEF r
  <2>4. CASE NewSession /\ local' = [local EXCEPT ![h] = r] /\ Goto(h, "bind")
    BY <1>3, <2>1, <2>3, <2>4, NextTaken, Zenon
  <2> QED
    BY <1>6, <2>2, <2>4 DEF OAuthCallback, r
<1>7. ASSUME NEW c \in Codes, TakeCode(h, c) PROVE InOnePlace' /\ Unredeemed'
  <2>1. Stored(c)' = 0 /\ \A d \in Codes : d # c => Stored(d)' = Stored(d)
    BY <1>7, Zenon DEF TakeCode, GetAndRemoveState, Stored, NoBlob, Typed, TypeOK
  <2>2. UNCHANGED <<nextSession, redeemed>>
    BY <1>7, Zenon DEF TakeCode, counters, ghosts
  <2>3. CASE UNCHANGED <<pc, local>>
    <3>1. \A g \in Handlers : Held(g)' = Held(g)
      BY <2>3 DEF Held
    <3>2. MovesNone
      BY <2>1, <2>2, <3>1 DEF MovesNone
    <3> QED
      BY <3>2, NoneMoved
  <2>4. ASSUME NEW p \in Presented, Goto(h, "validate"),
               local' = [local EXCEPT ![h] = [Idle EXCEPT !.kind = "token",
                                                 !.grant = Grant(c, p)]]
        PROVE  InOnePlace' /\ Unredeemed'
    <3> DEFINE r == [Idle EXCEPT !.kind = "token", !.grant = Grant(c, p)]
    <3>1. r.grant.session = Stored(c)
      BY DEF Idle, Grant, Stored
    <3>2. local' = [local EXCEPT ![h] = r]
      BY <2>4
    <3> HIDE DEF r
    <3>3. Held(h)' = Stored(c) /\ \A g \in Handlers : g # h => Held(g)' = Held(g)
      BY <2>4, <3>1, <3>2, Zenon DEF Goto, Held, Typed, TypeOK
    <3> QED
      BY <2>1, <2>2, <3>3, Handed
  <2> QED
    BY <1>7, <2>3, <2>4, Zenon DEF TakeCode
<1> QED
  BY <1>2, <1>4, <1>5, <1>6, <1>7, NoneMoved DEF Arrive

(* So do the steps of a handler.                                           *)
LEMMA StepMoves ==
    ASSUME Typed, InOnePlace, Unredeemed, NEW h \in Handlers, Step(h)
    PROVE  InOnePlace' /\ Unredeemed'
<1>1. ASSUME UNCHANGED <<codes, nextSession, redeemed>>, Finish(h)
      PROVE  InOnePlace' /\ Unredeemed'
  <2>1. MovesNone
    BY <1>1 DEF MovesNone, Finish, Goto, Held, Stored, Typed, TypeOK
  <2> QED
    BY <2>1, NoneMoved, Zenon
<1>2. CASE SignInFirst(h) \/ ForceReauth(h) \/ RenderConsent(h) \/ Withhold(h)
           \/ BindFails(h) \/ Respond(h) \/ RefuseSession(h)
  <2>1. UNCHANGED <<codes, nextSession, redeemed>> /\ Finish(h)
    BY <1>2, Zenon DEF SignInFirst, ForceReauth, RenderConsent, Withhold, BindFails,
                Respond, RefuseSession, stores, counters, ghosts
  <2> QED
    BY <1>1, <2>1, Zenon
<1>3. CASE PassConsent(h)
  <2> DEFINE r == [local[h] EXCEPT !.user = token[local[h].old].user,
                                   !.fresh = nextSession + 1]
  <2>1. local[h] \in LocalType
    BY Zenon DEF Typed, TypeOK
  <2>2. r.fresh = nextSession + 1
    BY <2>1 DEF LocalType
  <2>3. local' = [local EXCEPT ![h] = r]
    BY <1>3, Zenon DEF PassConsent, Typed, TypeOK
  <2> HIDE DEF r
  <2>4. Held(h)' = nextSession + 1
        /\ \A g \in Handlers : g # h => Held(g)' = Held(g)
    BY <1>3, <2>2, <2>3 DEF PassConsent, Goto, Held, Typed, TypeOK
  <2>5. NewSession /\ UNCHANGED <<codes, redeemed>>
    BY <1>3 DEF PassConsent, stores
  <2> QED
    BY <2>4, <2>5, NextTaken, Zenon
<1>4. CASE Rollover(h) \/ Persist(h) \/ Retire(h)
  <2>1. /\ UNCHANGED <<codes, nextSession, redeemed, local>>
        /\ \/ pc[h] = "rollover" /\ Goto(h, "bind")
           \/ \E x \in {"retire", "respond"} : Goto(h, x)
    BY <1>4, Zenon DEF Rollover, Persist, Retire, AfterPersist, counters, ghosts
  <2>2. MovesNone
    BY <2>1, Zenon DEF MovesNone, Goto, Held, Stored, Typed, TypeOK
  <2> QED
    BY <2>2, NoneMoved
<1>5. CASE GetState(h) \/ RemoveState(h)
  <2>1. local[h] \in LocalType
    BY Zenon DEF Typed, TypeOK
  <2>6. local \in [Handlers -> LocalType]
    BY Zenon DEF Typed, TypeOK
  <2>2. \A g \in Handlers : local'[g].fresh = local[g].fresh
                            /\ local'[g].grant = local[g].grant
    <3>1. CASE GetState(h)
      BY <2>1, <2>6, <3>1 DEF GetState, LocalType
    <3>2. CASE RemoveState(h)
      BY <2>1, <2>6, <3>2 DEF RemoveState, LocalType
    <3> QED
      BY <1>5, <3>1, <3>2
  <2>3. pc[h] \in {"read", "remove"} /\ \E x \in {"bind", "remove"} : Goto(h, x)
    BY <1>5 DEF GetState, RemoveState
  <2>4. UNCHANGED <<codes, nextSession, redeemed>>
    BY <1>5, Zenon DEF GetState, RemoveState, stores, counters, ghosts
  <2>5. MovesNone
    BY <2>2, <2>3, <2>4 DEF MovesNone, Goto, Held, Stored, Typed, TypeOK
  <2> QED
    BY <2>5, NoneMoved
<1>6. CASE BindCode(h)
  <2>1. Held(h) = local[h].fresh /\ Held(h)' = 0
        /\ \A g \in Handlers : g # h => Held(g)' = Held(g)
    BY <1>6 DEF BindCode, Goto, Held, Typed, TypeOK
  <2>2. UNCHANGED <<nextSession, redeemed>>
    BY <1>6, Zenon DEF BindCode, counters, ghosts
  <2>3. CASE HasCode(h)
    <3>4. local[h].entry.code \in Codes
      <4>1. local[h] \in LocalType /\ local[h].entry.code # 0
        BY <2>3, Zenon DEF HasCode, Typed, TypeOK
      <4>2. local[h].entry.code \in 0..MaxCode
        BY <4>1, SMT DEF LocalType, EntryType
      <4> QED
        BY <4>1, <4>2, FlowAssumption, SMT DEF Codes
    <3>1. PICK c \in Codes : c = local[h].entry.code
      BY <3>4
    <3>2. codes' = [codes EXCEPT ![c] = EncodeCode(local[h].entry, local[h].fresh)]
      BY <1>6, <2>3, <3>1, Zenon DEF BindCode
    <3>3. Stored(c)' = Held(h) /\ \A d \in Codes : d # c => Stored(d)' = Stored(d)
      BY <2>1, <3>1, <3>2, Zenon DEF Stored, EncodeCode, Typed, TypeOK
    <3> QED
      BY <2>1, <2>2, <3>1, <3>3, Handed, Zenon
  <2>4. CASE ~HasCode(h)
    <3>1. MovesNone
      BY <1>6, <2>1, <2>2, <2>4, Zenon DEF BindCode, MovesNone, Stored
    <3> QED
      BY <3>1, NoneMoved
  <2> QED
    BY <2>3, <2>4
<1>7. CASE PersistFails(h)
  <2>1. UNCHANGED <<codes, nextSession, redeemed>>
    BY <1>7 DEF PersistFails, stores, counters
  <2>2. CASE Finish(h)
    BY <1>1, <2>1, <2>2, Zenon
  <2>3. CASE AfterPersist(h) /\ UNCHANGED local
    <3>1. MovesNone
      BY <2>1, <2>3, Zenon DEF AfterPersist, MovesNone, Goto, Held, Stored, Typed, TypeOK
    <3> QED
      BY <3>1, NoneMoved
  <2> QED
    BY <1>7, <2>2, <2>3, Zenon DEF PersistFails
<1> QED
  BY <1>2, <1>3, <1>4, <1>5, <1>6, <1>7, UsedUp DEF Step

(* No session token but the first is anywhere at the start.                *)
LEMMA PlacesInit == Init => InOnePlace /\ Unredeemed
<1> SUFFICES ASSUME Init PROVE InOnePlace /\ Unredeemed
  OBVIOUS
<1>1. /\ \A h \in Handlers : Held(h) = 0
      /\ \A c \in Codes : Stored(c) = 0
  BY Zenon DEF Init, Held, Stored, NoBlob
<1>2. nextSession = 1 /\ \A t \in Sessions : redeemed[t] = 0
  BY DEF Init
<1> QED
  BY <1>1, <1>2 DEF InOnePlace, Unredeemed

(* Every step keeps each session token in one place.                       *)
LEMMA PlacesNext ==
    Typed /\ InOnePlace /\ Unredeemed /\ [Next]_vars => InOnePlace' /\ Unredeemed'
<1> SUFFICES ASSUME Typed, InOnePlace, Unredeemed, [Next]_vars
             PROVE  InOnePlace' /\ Unredeemed'
  OBVIOUS
<1>1. CASE \/ \E b \in Browsers, c \in Codes : Consent(b, c)
           \/ \E b \in Browsers : Logout(b)
           \/ \E s \in States : ExpireParked(s)
           \/ \E c \in Codes : ExpireCode(c)
           \/ UNCHANGED vars
  <2>1. UNCHANGED <<nextSession, redeemed, pc, local>>
    BY <1>1, Zenon DEF Consent, Logout, ExpireParked, ExpireCode, vars, counters,
                ghosts
  <2>2. codes' = codes \/ \E c \in Codes : codes' = [codes EXCEPT ![c] = NoBlob]
    BY <1>1, Zenon DEF Consent, Logout, ExpireParked, ExpireCode, vars, stores
  <2>3. \A d \in Codes : Stored(d)' \in {Stored(d), 0}
    <3>1. NoBlob.session = 0
      BY SMT DEF NoBlob
    <3>2. codes \in [Codes -> BlobType]
      BY Zenon DEF Typed, TypeOK
    <3> QED
      BY <2>2, <3>1, <3>2, Zenon DEF Stored
  <2>4. MovesNone
    BY <2>1, <2>3 DEF MovesNone, Held
  <2> QED
    BY <2>4, NoneMoved
<1> QED
  BY <1>1, ArriveMoves, StepMoves DEF Next

(* The token endpoint exchanges what a completed sign-in stored under its  *)
(* code at most once, for any number of concurrent requests.               *)
THEOREM CodeIsAlwaysRedeemedOnce == Spec => []CodeIsRedeemedOnce
<1>1. Unredeemed => CodeIsRedeemedOnce
  BY DEF Unredeemed, CodeIsRedeemedOnce
<1> QED
  BY <1>1, PlacesInit, PlacesNext, TypedInit, TypedNext, PTL DEF Spec

-----------------------------------------------------------------------------
(* Browser sessions                                                        *)

(* The session tokens that are numbered.                                   *)
Made == 1..nextSession

(* A handler has a session token of its own: before the token is created,  *)
(* and after.                                                              *)
Early == {"rollover", "read", "remove", "bind"}
Late == {"persist", "retire", "respond"}
Has(h) == pc[h] \in Early \cup Late

(* What a handler knows of its own token, of the one it replaces, and of   *)
(* its browser.                                                            *)
Carries(h) ==
    LET l == local[h] IN
    /\ Has(h) => /\ l.fresh \in Made /\ l.browser \in Browsers
                 /\ \A b \in Browsers : cookie[b] # l.fresh
    /\ pc[h] \in Early => token[l.fresh].user = Empty /\ l.user \in Users
    /\ pc[h] \in Late => token[l.fresh].user # Empty
    /\ l.old # 0 => /\ l.old \in Made /\ token[l.old].user # Empty
                    /\ \A b \in Browsers : cookie[b] = l.old => b = l.browser
    /\ pc[h] \in {"check", "rollover"} => l.kind = "authorize" /\ l.browser \in Browsers
    /\ pc[h] = "rollover" => l.old # 0
    /\ pc[h] = "retire" => l.kind = "session"
    /\ l.kind = "session" => l.old # 0

(* Nobody replaces or hands out the token of another handler.              *)
Distinct ==
    \A g, h \in Handlers :
        Has(h) => /\ local[g].old # local[h].fresh
                  /\ Has(g) /\ local[g].fresh = local[h].fresh => g = h

Cookies ==
    /\ \A b \in Browsers : cookie[b] # 0 =>
           /\ cookie[b] \in Made /\ token[cookie[b]].user # Empty
    /\ \A b, c \in Browsers : cookie[b] # 0 /\ cookie[b] = cookie[c] => b = c

Spare == \A t \in Sessions \ Made : token[t].user = Empty

Owned == Cookies /\ Spare /\ Distinct /\ \A h \in Handlers : Carries(h)

(* What is handed out is live, unless the store refused it.                *)
HandedOut ==
    \A h \in Handlers : pc[h] \in {"retire", "respond"} =>
        local[h].fresh \in live \/ local[h].browser \in disturbed

Kept(b) ==
    \/ cookie[b] = 0
    \/ IsValid(cookie[b])
    \/ b \in disturbed
    \/ \E h \in Handlers : Replacing(h, b)

Keeps == HandedOut /\ \A b \in Browsers : Kept(b)

KeptInv == FreshNonces => Keeps

(* Only handler h moved.                                                   *)
Others(h) ==
    \A g \in Handlers \ {h} : pc'[g] = pc[g] /\ local'[g] = local[g]

(* A replaced token is one that was replaced before, or a browser's.       *)
OldFrom(h) ==
    \/ local'[h].old \in {0, local[h].old}
    \/ \E b \in Browsers : local'[h].old = cookie[b]

(* The numbered tokens, and the one that is numbered next.                 *)
LEMMA MadeFacts ==
    ASSUME Typed
    PROVE  /\ Made \subseteq Sessions /\ 0 \notin Made /\ 0 \notin Sessions
           /\ nextSession + 1 \notin Made
           /\ NewSession => /\ nextSession + 1 \in Sessions
                            /\ Made' = Made \cup {nextSession + 1}
<1>1. nextSession \in 0..MaxSession /\ MaxSession \in Nat
  BY FlowAssumption, Zenon DEF Typed, TypeOK
<1> QED
  BY <1>1, SMT DEF Made, Sessions, NewSession

(* What a move of one handler does.                                        *)
LEMMA MovedTo ==
    ASSUME Typed, NEW h \in Handlers, NEW x, NEW r, Goto(h, x),
           local' = [local EXCEPT ![h] = r]
    PROVE  pc'[h] = x /\ local'[h] = r /\ Others(h)
  BY Zenon DEF Typed, TypeOK, Goto, Others

(* The same, when the handler keeps its variables.                         *)
LEMMA StayedAs ==
    ASSUME Typed, NEW h \in Handlers, NEW x, Goto(h, x), local' = local
    PROVE  pc'[h] = x /\ local'[h] = local[h] /\ Others(h)
  BY Zenon DEF Typed, TypeOK, Goto, Others

(* A handler at rest replaces nothing.                                     *)
LEMMA IdleFields == Idle.old = 0 /\ Idle.kind = "none" /\ Idle.browser = Empty
  BY SMT DEF Idle

(* What a handler carries survives the steps of the others, while no       *)
(* browser gets its tokens.                                                *)
LEMMA CarriesOn ==
    ASSUME NEW h \in Handlers, Carries(h), pc'[h] = pc[h], local'[h] = local[h],
           Made \subseteq Made', 0 \notin Made,
           \A t \in Made : token[t].user # Empty => token'[t].user # Empty,
           pc[h] \in Early => token'[local[h].fresh].user = token[local[h].fresh].user,
           \A b \in Browsers : \/ cookie'[b] \in {cookie[b], 0}
                               \/ /\ Has(h) => cookie'[b] # local[h].fresh
                                  /\ cookie'[b] # local[h].old
    PROVE  Carries(h)'
<1> USE DEF Carries, Has
<1>1. Has(h)' <=> Has(h)
  BY Zenon
<1>2. Has(h) => /\ local'[h].fresh \in Made' /\ local'[h].browser \in Browsers
                /\ \A b \in Browsers : cookie'[b] # local'[h].fresh
  BY Zenon
<1>3. local'[h].old # 0 =>
          /\ local'[h].old \in Made' /\ token'[local'[h].old].user # Empty
          /\ \A b \in Browsers : cookie'[b] = local'[h].old => b = local'[h].browser
  BY Zenon
<1>4. pc'[h] \in Early => token'[local'[h].fresh].user = Empty /\ local'[h].user \in Users
  BY Zenon
<1>5. pc'[h] \in Late => token'[local'[h].fresh].user # Empty
  BY Zenon
<1> QED
  BY <1>1, <1>2, <1>3, <1>4, <1>5, Zenon

(* A step that creates no token and gives no browser a new one.            *)
LEMMA OwnedQuiet ==
    ASSUME Typed, Owned, NEW h \in Handlers, Others(h), UNCHANGED <<token, nextSession>>,
           \A b \in Browsers : cookie'[b] \in {cookie[b], 0},
           Carries(h)', OldFrom(h),
           Has(h)' => Has(h) /\ local'[h].fresh = local[h].fresh
    PROVE  Owned'
<1>1. Made' = Made /\ 0 \notin Made
  BY MadeFacts, Zenon DEF Made
<1>2. Cookies' /\ Spare'
  BY <1>1, Zenon DEF Owned, Cookies, Spare
<1>3. \A g \in Handlers : Carries(g)'
  <2> SUFFICES ASSUME NEW g \in Handlers, g # h PROVE Carries(g)'
    BY Zenon
  <2>1. pc'[g] = pc[g] /\ local'[g] = local[g] /\ Carries(g)
    BY Zenon DEF Others, Owned
  <2> QED
    BY <1>1, <2>1, CarriesOn, Zenon
<1>4. Distinct'
  <2> SUFFICES ASSUME NEW f \in Handlers, NEW g \in Handlers, Has(g)'
               PROVE  /\ local'[f].old # local'[g].fresh
                      /\ Has(f)' /\ local'[f].fresh = local'[g].fresh => f = g
    BY Zenon DEF Distinct
  <2>1. Has(g) /\ local'[g].fresh = local[g].fresh
    BY Zenon DEF Has, Others
  <2>2. Has(f)' => Has(f) /\ local'[f].fresh = local[f].fresh
    BY Zenon DEF Has, Others
  <2>3. /\ local[f].old # local[g].fresh /\ local[g].fresh \in Made
        /\ Has(f) /\ local[f].fresh = local[g].fresh => f = g
        /\ \A b \in Browsers : cookie[b] # local[g].fresh
    BY <2>1, Zenon DEF Owned, Distinct, Carries
  <2>4. local'[f].old # local'[g].fresh
    <3>1. CASE f = h
      BY <1>1, <2>1, <2>3, <3>1, Zenon DEF OldFrom
    <3>2. CASE f # h
      BY <2>1, <2>3, <3>2, Zenon DEF Others
    <3> QED
      BY <3>1, <3>2, Zenon
  <2> QED
    BY <2>1, <2>2, <2>3, <2>4, Zenon
<1> QED
  BY <1>2, <1>3, <1>4, Zenon DEF Owned

(* A handler is given the next token.                                      *)
LEMMA OwnedReserve ==
    ASSUME Typed, Owned, NEW h \in Handlers, Others(h), UNCHANGED <<token, cookie>>,
           NewSession, local'[h].fresh = nextSession + 1, Carries(h)', OldFrom(h)
    PROVE  Owned'
<1>1. /\ Made' = Made \cup {nextSession + 1} /\ 0 \notin Made
      /\ nextSession + 1 \notin Made /\ 0 # nextSession + 1
  BY MadeFacts, Zenon
<1>2. Cookies' /\ Spare'
  BY <1>1, Zenon DEF Owned, Cookies, Spare
<1>3. \A g \in Handlers : Carries(g)'
  <2> SUFFICES ASSUME NEW g \in Handlers, g # h PROVE Carries(g)'
    BY Zenon
  <2>1. pc'[g] = pc[g] /\ local'[g] = local[g] /\ Carries(g)
    BY Zenon DEF Others, Owned
  <2> QED
    BY <1>1, <2>1, CarriesOn, Zenon
<1>4. Distinct'
  <2> SUFFICES ASSUME NEW f \in Handlers, NEW g \in Handlers, Has(g)'
               PROVE  /\ local'[f].old # local'[g].fresh
                      /\ Has(f)' /\ local'[f].fresh = local'[g].fresh => f = g
    BY Zenon DEF Distinct
  <2>1. local'[f].old \in Made \cup {0}
    <3>1. CASE f = h
      BY <3>1, Zenon DEF OldFrom, Owned, Carries, Cookies
    <3>2. CASE f # h
      BY <3>2, Zenon DEF Others, Owned, Carries
    <3> QED
      BY <3>1, <3>2, Zenon
  <2>2. CASE g = h
    <3>1. f # h /\ Has(f)' => local'[f].fresh \in Made
      BY Zenon DEF Others, Owned, Carries, Has
    <3> QED
      BY <1>1, <2>1, <2>2, <3>1, Zenon
  <2>3. CASE g # h
    <3>1. Has(g) /\ local'[g] = local[g] /\ local[g].fresh \in Made
      BY <2>3, Zenon DEF Others, Owned, Carries, Has
    <3>2. CASE f = h
      <4>1. local[h].old # local[g].fresh /\ \A b \in Browsers : cookie[b] # local[g].fresh
        BY <3>1, Zenon DEF Owned, Distinct, Carries
      <4> QED
        BY <1>1, <3>1, <3>2, <4>1, Zenon DEF OldFrom
    <3>3. CASE f # h
      <4>1. pc'[f] = pc[f] /\ local'[f] = local[f]
        BY <3>3, Zenon DEF Others
      <4>2. Has(f)' => Has(f)
        BY <4>1, Zenon DEF Has
      <4>3. /\ local[f].old # local[g].fresh
            /\ Has(f) /\ local[f].fresh = local[g].fresh => f = g
        BY <3>1, Zenon DEF Owned, Distinct
      <4> QED
        BY <3>1, <4>1, <4>2, <4>3, Zenon
    <3> QED
      BY <3>2, <3>3, Zenon
  <2> QED
    BY <2>2, <2>3, Zenon
<1> QED
  BY <1>2, <1>3, <1>4, Zenon DEF Owned

(* A handler that is done owns nothing.                                    *)
LEMMA FinishedAs ==
    ASSUME Typed, NEW h \in Handlers, Finish(h)
    PROVE  /\ Others(h) /\ Carries(h)' /\ ~Has(h)' /\ OldFrom(h)
           /\ pc'[h] = "idle" /\ local'[h].old = 0
<1>1. pc'[h] = "idle" /\ local'[h] = Idle /\ Others(h)
  BY MovedTo, Zenon DEF Finish
<1> QED
  BY <1>1, IdleFields, Zenon DEF Carries, Has, Early, Late, OldFrom

(* The token is created.                                                   *)
LEMMA OwnedBind ==
    ASSUME Typed, Owned, NEW h \in Handlers, BindCode(h)
    PROVE  Owned' /\ Others(h) /\ pc'[h] = "persist"
           /\ local'[h].kind = local[h].kind /\ local'[h].browser = local[h].browser
<1> DEFINE t == local[h].fresh
           u == local[h].user
           x == [user |-> u, nonce |-> SessionNonce(local[h], t)]
           r == [Idle EXCEPT !.kind = local[h].kind, !.fresh = t,
                             !.browser = local[h].browser, !.old = local[h].old]
<1>1. /\ token' = [token EXCEPT ![t] = x] /\ local' = [local EXCEPT ![h] = r]
      /\ pc[h] = "bind" /\ Goto(h, "persist") /\ UNCHANGED <<cookie, nextSession>>
  BY Zenon DEF BindCode, counters
<1>0. cookie' = cookie
  BY <1>1, Zenon
<1>2. x.user = u
  BY Zenon
<1>3. r.kind = local[h].kind /\ r.fresh = t /\ r.browser = local[h].browser
      /\ r.old = local[h].old
  BY SMT DEF Idle
<1> HIDE DEF x, r
<1>4. pc'[h] = "persist" /\ local'[h] = r /\ Others(h)
  BY <1>1, MovedTo, Zenon
<1>5. Carries(h) /\ Has(h) /\ pc[h] \in Early
  BY <1>1, Zenon DEF Owned, Has, Early
<1>6. t \in Made /\ u \in Users /\ token[t].user = Empty /\ local[h].browser \in Browsers
      /\ \A b \in Browsers : cookie[b] # t
  BY <1>5, Zenon DEF Carries
<1>7. Made' = Made /\ 0 \notin Made /\ Made \subseteq Sessions
  BY <1>1, MadeFacts, Zenon DEF Made
<1>8. /\ token'[t].user = u /\ u # Empty
      /\ \A s \in Sessions \ {t} : token'[s] = token[s]
  <2>1. DOMAIN token = Sessions
    BY Zenon DEF Typed, TypeOK
  <2> HIDE DEF u, t
  <2> QED
    BY <1>1, <1>2, <1>6, <1>7, <2>1, FlowAssumption, Zenon
<1> HIDE DEF t, u
<1>9. \A s \in Made : token[s].user # Empty => token'[s].user # Empty
  BY <1>7, <1>8, Zenon
<1>10. Cookies' /\ Spare'
  <2>1. Cookies'
    BY <1>1, <1>7, <1>9, Zenon DEF Owned, Cookies
  <2>2. Spare'
    BY <1>6, <1>7, <1>8, Zenon DEF Owned, Spare
  <2> QED
    BY <2>1, <2>2, Zenon
<1>11. Carries(h)'
  <2>1. Has(h)' /\ pc'[h] \in Late /\ pc'[h] \notin Early
    BY <1>4, Zenon DEF Has, Late, Early
  <2>2. local'[h].old # 0 =>
            /\ local'[h].old \in Made' /\ token'[local'[h].old].user # Empty
            /\ \A b \in Browsers : cookie'[b] = local'[h].old => b = local'[h].browser
    <3>1. local[h].old # 0 =>
              /\ local[h].old \in Made /\ token[local[h].old].user # Empty
              /\ \A b \in Browsers : cookie[b] = local[h].old => b = local[h].browser
      BY <1>5, Zenon DEF Carries
    <3>2. local'[h].old = local[h].old /\ local'[h].browser = local[h].browser
      BY <1>3, <1>4, Zenon
    <3> QED
      BY <1>0, <1>7, <1>9, <3>1, <3>2, Zenon
  <2>3. local'[h].kind = "session" => local'[h].old # 0
    BY <1>3, <1>4, <1>5, Zenon DEF Carries
  <2>4. /\ local'[h].fresh \in Made' /\ local'[h].browser \in Browsers
        /\ \A b \in Browsers : cookie'[b] # local'[h].fresh
        /\ token'[local'[h].fresh].user # Empty
    <3>1. local'[h].fresh = t /\ local'[h].browser = local[h].browser
      BY <1>3, <1>4, Zenon
    <3> QED
      BY <1>0, <1>6, <1>7, <1>8, <3>1, Zenon
  <2> QED
    BY <1>4, <2>1, <2>2, <2>3, <2>4, Zenon DEF Carries
<1>12. ASSUME NEW g \in Handlers, g # h PROVE Carries(g)'
  <2>1. pc'[g] = pc[g] /\ local'[g] = local[g] /\ Carries(g)
    BY <1>4, <1>12, Zenon DEF Others, Owned
  <2>2. pc[g] \in Early => token'[local[g].fresh].user = token[local[g].fresh].user
    <3> SUFFICES ASSUME pc[g] \in Early
                 PROVE  token'[local[g].fresh].user = token[local[g].fresh].user
      BY Zenon
    <3>1. Has(g) /\ local[g].fresh \in Made
      BY <2>1, Zenon DEF Has, Carries
    <3>2. local[g].fresh # t
      BY <1>5, <1>12, <3>1, Zenon DEF Owned, Distinct, t
    <3> QED
      BY <1>7, <1>8, <3>1, <3>2, Zenon
  <2> QED
    BY <1>1, <1>7, <1>9, <2>1, <2>2, CarriesOn, Zenon
<1>13. Distinct'
  <2>1. \A g \in Handlers : Has(g)' <=> Has(g)
    BY <1>4, <1>5, Zenon DEF Others, Has, Late
  <2>2. \A g \in Handlers : local'[g].old = local[g].old /\ local'[g].fresh = local[g].fresh
    BY <1>3, <1>4, Zenon DEF Others, t
  <2> SUFFICES ASSUME NEW f \in Handlers, NEW g \in Handlers, Has(g)'
               PROVE  /\ local'[f].old # local'[g].fresh
                      /\ Has(f)' /\ local'[f].fresh = local'[g].fresh => f = g
    BY Zenon DEF Distinct
  <2>3. /\ local[f].old # local[g].fresh
        /\ Has(f) /\ local[f].fresh = local[g].fresh => f = g
    BY <2>1, Zenon DEF Owned, Distinct
  <2> QED
    BY <2>1, <2>2, <2>3, Zenon
<1> QED
  BY <1>3, <1>4, <1>10, <1>11, <1>12, <1>13, Zenon DEF Owned

(* The browser gets the token.                                             *)
LEMMA OwnedRespond ==
    ASSUME Typed, Owned, NEW h \in Handlers, Respond(h)
    PROVE  Owned'
<1> DEFINE t == local[h].fresh
           a == local[h].browser
<1>1. /\ pc[h] = "respond" /\ cookie' = [cookie EXCEPT ![a] = t] /\ Finish(h)
      /\ UNCHANGED <<token, nextSession>>
  BY Zenon DEF Respond, counters
<1>2. Has(h) /\ pc[h] \in Late /\ Carries(h)
  BY <1>1, Zenon DEF Has, Late, Owned
<1>3. t \in Made /\ token[t].user # Empty /\ a \in Browsers /\ \A b \in Browsers : cookie[b] # t
  BY <1>2, Zenon DEF Carries
<1>4. /\ Others(h) /\ Carries(h)' /\ ~Has(h)' /\ local'[h].old = 0
  BY <1>1, FinishedAs, Zenon
<1>5. Made' = Made /\ 0 \notin Made
  BY <1>1, MadeFacts, Zenon DEF Made
<1>6. \A g \in Handlers \ {h} : /\ Has(g) => local[g].fresh # t
                                /\ local[g].old # t
  BY <1>2, Zenon DEF Owned, Distinct
<1> HIDE DEF t, a
<1>7. cookie'[a] = t /\ \A b \in Browsers \ {a} : cookie'[b] = cookie[b]
  BY <1>1, <1>3, Zenon DEF Typed, TypeOK
<1>8. Cookies' /\ Spare'
  <2>1. ASSUME NEW b \in Browsers, cookie'[b] # 0
        PROVE  cookie'[b] \in Made /\ token[cookie'[b]].user # Empty
    BY <1>3, <1>7, <2>1, Zenon DEF Owned, Cookies
  <2>2. ASSUME NEW b \in Browsers, NEW c \in Browsers, cookie'[b] # 0,
               cookie'[b] = cookie'[c]
        PROVE  b = c
    BY <1>3, <1>7, <2>2, Zenon DEF Owned, Cookies
  <2>3. Cookies'
    BY <1>1, <1>5, <2>1, <2>2, Zenon DEF Cookies
  <2>4. Spare'
    BY <1>1, <1>5, Zenon DEF Owned, Spare
  <2> QED
    BY <2>3, <2>4, Zenon
<1>9. ASSUME NEW g \in Handlers, g # h PROVE Carries(g)'
  <2>1. pc'[g] = pc[g] /\ local'[g] = local[g] /\ Carries(g)
    BY <1>4, <1>9, Zenon DEF Others, Owned
  <2>2. \A b \in Browsers : \/ cookie'[b] \in {cookie[b], 0}
                            \/ /\ Has(g) => cookie'[b] # local[g].fresh
                               /\ cookie'[b] # local[g].old
    BY <1>6, <1>7, <1>9, Zenon
  <2> QED
    BY <1>1, <1>5, <2>1, <2>2, CarriesOn, Zenon
<1>10. Distinct'
  <2> SUFFICES ASSUME NEW f \in Handlers, NEW g \in Handlers, Has(g)'
               PROVE  /\ local'[f].old # local'[g].fresh
                      /\ Has(f)' /\ local'[f].fresh = local'[g].fresh => f = g
    BY Zenon DEF Distinct
  <2>1. g # h /\ Has(g) /\ local'[g] = local[g] /\ local[g].fresh \in Made
    BY <1>4, Zenon DEF Others, Has, Owned, Carries
  <2>2. CASE f = h
    BY <1>4, <1>5, <2>1, <2>2, Zenon
  <2>3. CASE f # h
    <3>1. pc'[f] = pc[f] /\ local'[f] = local[f]
      BY <1>4, <2>3, Zenon DEF Others
    <3>2. Has(f)' => Has(f)
      BY <3>1, Zenon DEF Has
    <3>3. /\ local[f].old # local[g].fresh
          /\ Has(f) /\ local[f].fresh = local[g].fresh => f = g
      BY <2>1, Zenon DEF Owned, Distinct
    <3> QED
      BY <2>1, <3>1, <3>2, <3>3, Zenon
  <2> QED
    BY <2>2, <2>3, Zenon
<1> QED
  BY <1>4, <1>8, <1>9, <1>10, Zenon DEF Owned

(* No handler moves.                                                       *)
LEMMA OwnedStill ==
    ASSUME Typed, Owned, UNCHANGED <<pc, local, token, nextSession>>,
           \A b \in Browsers : cookie'[b] \in {cookie[b], 0}
    PROVE  Owned'
<1>1. Made' = Made /\ 0 \notin Made
  BY MadeFacts, Zenon DEF Made
<1>2. Cookies' /\ Spare'
  BY <1>1, Zenon DEF Owned, Cookies, Spare
<1>3. \A g \in Handlers : Carries(g)'
  BY <1>1, CarriesOn, Zenon DEF Owned
<1>4. Distinct'
  BY Zenon DEF Owned, Distinct, Has
<1> QED
  BY <1>2, <1>3, <1>4, Zenon DEF Owned

(* Ownership holds at the start.                                           *)
LEMMA OwnedInit == Init => Owned
<1> SUFFICES ASSUME Init PROVE Owned
  OBVIOUS
<1>1. PICK u \in Users, b \in Browsers :
         /\ token = [t \in Sessions |-> IF t = 1 THEN [user |-> u, nonce |-> 1]
                                        ELSE [user |-> Empty, nonce |-> Empty]]
         /\ cookie = [x \in Browsers |-> IF x = b THEN 1 ELSE 0]
  BY Zenon DEF Init
<1>2. 1 \in Sessions /\ 1 \in Made /\ 1 # 0
  BY FlowAssumption, SMT DEF Init, Made, Sessions
<1>3. token[1].user # Empty /\ \A t \in Sessions \ Made : token[t].user = Empty
  BY <1>1, <1>2, FlowAssumption, Zenon
<1>4. Cookies /\ Spare
  BY <1>1, <1>2, <1>3, Zenon DEF Cookies, Spare
<1>5. \A h \in Handlers : pc[h] = "idle" /\ local[h] = Idle
  BY Zenon DEF Init
<1>6. \A h \in Handlers : Carries(h) /\ ~Has(h)
  BY <1>5, IdleFields, Zenon DEF Carries, Has, Early, Late
<1> QED
  BY <1>4, <1>6, Zenon DEF Owned, Distinct

(* Under fresh nonces a session is stored under a key of its own.          *)
LEMMA KeyIsOwn ==
    ASSUME Typed, FreshNonces, NEW t \in Sessions, token[t].user # Empty
    PROVE  /\ DeleteUserSession(t) => live \ {t} \subseteq live'
           /\ SetUserSession(t) => live \subseteq live' /\ t \in live'
<1>1. live \subseteq Sessions
  BY Zenon DEF Typed, TypeOK
<1>2. SameKey(t) \subseteq {t}
  BY <1>1, Zenon DEF SameKey, FreshNonces
<1> QED
  BY <1>2, Zenon DEF DeleteUserSession, SetUserSession

(* A step of one handler, which may take one token out of the store.       *)
LEMMA KeptStep ==
    ASSUME Owned, Keeps, NEW h \in Handlers, Others(h), NEW t,
           disturbed \subseteq disturbed', live \ {t} \subseteq live',
           \A g \in Handlers \ {h} : Has(g) => local[g].fresh # t,
           pc'[h] \in {"retire", "respond"} =>
               local'[h].fresh \in live' \/ local'[h].browser \in disturbed',
           \A b \in Browsers :
               \/ cookie'[b] = 0 \/ cookie'[b] \in live' \/ b \in disturbed'
               \/ Replacing(h, b)'
               \/ cookie'[b] = cookie[b] /\ cookie[b] # t /\ ~Replacing(h, b)
    PROVE  Keeps'
<1>1. HandedOut'
  <2> SUFFICES ASSUME NEW g \in Handlers, g # h, pc'[g] \in {"retire", "respond"}
               PROVE  local'[g].fresh \in live' \/ local'[g].browser \in disturbed'
    BY Zenon DEF HandedOut
  <2>1. pc'[g] = pc[g] /\ local'[g] = local[g] /\ Has(g)
    BY Zenon DEF Others, Has, Late
  <2>2. local[g].fresh \in live \/ local[g].browser \in disturbed
    BY <2>1, Zenon DEF Keeps, HandedOut
  <2> QED
    BY <2>1, <2>2, Zenon
<1>2. ASSUME NEW b \in Browsers PROVE Kept(b)'
  <2>1. CASE cookie'[b] = 0 \/ cookie'[b] \in live' \/ b \in disturbed' \/ Replacing(h, b)'
    BY <2>1, Zenon DEF Kept, IsValid
  <2>2. CASE cookie'[b] = cookie[b] /\ cookie[b] # t /\ ~Replacing(h, b)
    <3>1. ASSUME NEW g \in Handlers, Replacing(g, b) PROVE Replacing(g, b)'
      BY <2>2, <3>1, Zenon DEF Others, Replacing
    <3>2. Kept(b)
      BY Zenon DEF Keeps
    <3> QED
      BY <2>2, <3>1, <3>2, Zenon DEF Kept, IsValid
  <2> QED
    BY <2>1, <2>2, Zenon
<1> QED
  BY <1>1, <1>2, Zenon DEF Keeps

(* A step of one handler that takes nothing out of the store.              *)
LEMMA KeptQuiet ==
    ASSUME Typed, Owned, Keeps, NEW h \in Handlers, Others(h), UNCHANGED cookie,
           disturbed \subseteq disturbed', live \subseteq live',
           pc'[h] \in {"retire", "respond"} =>
               local'[h].fresh \in live' \/ local'[h].browser \in disturbed',
           \A b \in Browsers : Replacing(h, b) => Replacing(h, b)' \/ b \in disturbed'
    PROVE  Keeps'
<1>1. \A g \in Handlers : Has(g) => local[g].fresh # 0
  BY MadeFacts, Zenon DEF Owned, Carries
<1>2. \A b \in Browsers :
          \/ cookie'[b] = 0 \/ cookie'[b] \in live' \/ b \in disturbed'
          \/ Replacing(h, b)'
          \/ cookie'[b] = cookie[b] /\ cookie[b] # 0 /\ ~Replacing(h, b)
  BY Zenon
<1>3. live \ {0} \subseteq live'
  BY Zenon
<1> QED
  BY <1>1, <1>2, <1>3, KeptStep, Zenon

(* What every step has to keep.                                            *)
KeepsAll == Owned' /\ (FreshNonces /\ Keeps => Keeps')

(* A request ends, and with it the promise to replace a cookie, unless the *)
(* store failed.                                                           *)
LEMMA EndKeeps ==
    ASSUME Typed, Owned, NEW h \in Handlers, Finish(h),
           UNCHANGED <<token, cookie, nextSession, live>>,
           disturbed \subseteq disturbed',
           \A b \in Browsers : Replacing(h, b) => b \in disturbed'
    PROVE  KeepsAll
<1>1. /\ Others(h) /\ Carries(h)' /\ ~Has(h)' /\ OldFrom(h) /\ pc'[h] = "idle"
  BY FinishedAs, Zenon
<1>2. Owned'
  BY <1>1, OwnedQuiet, Zenon
<1>3. Keeps => Keeps'
  BY <1>1, KeptQuiet, Zenon
<1> QED
  BY <1>2, <1>3, Zenon DEF KeepsAll

(* A token is reserved.                                                    *)
LEMMA ReserveKeeps ==
    ASSUME Typed, Owned, NEW h \in Handlers, NEW x \in Early, NEW r, Goto(h, x),
           local' = [local EXCEPT ![h] = r], NewSession,
           UNCHANGED <<token, cookie, live, disturbed>>,
           pc[h] \in {"idle", "check"}, r.fresh = nextSession + 1,
           r.browser \in Browsers, r.user \in Users,
           r.old \in {0, local[h].old, cookie[r.browser]},
           r.old = local[h].old => r.old = 0 \/ r.browser = local[h].browser,
           x = "rollover" => r.kind = "authorize" /\ r.old # 0,
           r.kind = "session" => r.old # 0
    PROVE  KeepsAll
<1>1. pc'[h] = x /\ local'[h] = r /\ Others(h)
  BY MovedTo, Zenon
<1>2. OldFrom(h)
  BY <1>1, Zenon DEF OldFrom
<1>3. /\ nextSession + 1 \in Sessions /\ nextSession + 1 \notin Made
      /\ Made' = Made \cup {nextSession + 1} /\ 0 # nextSession + 1
  BY MadeFacts, Zenon
<1>4. token[nextSession + 1].user = Empty
      /\ \A b \in Browsers : cookie[b] # nextSession + 1
  BY <1>3, Zenon DEF Owned, Spare, Cookies
<1>5. r.old # 0 => /\ r.old \in Made /\ token[r.old].user # Empty
                   /\ \A b \in Browsers : cookie[b] = r.old => b = r.browser
  <2>1. CASE r.old = local[h].old /\ r.old # 0
    <3>1. Carries(h) /\ r.browser = local[h].browser
      BY <2>1, Zenon DEF Owned
    <3> QED
      BY <2>1, <3>1, Zenon DEF Carries
  <2>2. CASE r.old = cookie[r.browser]
    BY <2>2, Zenon DEF Owned, Cookies
  <2> QED
    BY <2>1, <2>2, Zenon
<1>6. pc'[h] \notin Late /\ pc'[h] \in Early /\ pc'[h] # "check"
  BY <1>1, Zenon DEF Early, Late
<1>7. Carries(h)'
  <2>1. /\ r.fresh \in Made' /\ token'[r.fresh].user = Empty
        /\ \A b \in Browsers : cookie'[b] # r.fresh
    BY <1>3, <1>4, Zenon
  <2>2. r.old # 0 => /\ r.old \in Made' /\ token'[r.old].user # Empty
                     /\ \A b \in Browsers : cookie'[b] = r.old => b = r.browser
    BY <1>3, <1>5, Zenon
  <2>3. pc'[h] # "retire" /\ (pc'[h] = "rollover" => r.kind = "authorize" /\ r.old # 0)
    BY <1>1, Zenon DEF Early
  <2> QED
    BY <1>1, <1>6, <2>1, <2>2, <2>3, Zenon DEF Carries
<1>8. Owned'
  BY <1>1, <1>2, <1>7, OwnedReserve, Zenon
<1>9. Keeps => Keeps'
  <2>1. \A b \in Browsers : ~Replacing(h, b)
    BY Zenon DEF Replacing
  <2>2. pc'[h] \notin {"retire", "respond"}
    BY <1>6, Zenon DEF Late
  <2> QED
    BY <1>1, <2>1, <2>2, KeptQuiet, Zenon
<1> QED
  BY <1>8, <1>9, Zenon DEF KeepsAll

(* A handler that holds no token starts on a request that creates none.    *)
LEMMA StartKeeps ==
    ASSUME Typed, Owned, NEW h \in Handlers, NEW x \in {"check", "validate"}, NEW r,
           Goto(h, x), local' = [local EXCEPT ![h] = r], pc[h] = "idle",
           UNCHANGED <<token, cookie, live, disturbed, nextSession>>,
           x = "check" => /\ r.kind = "authorize" /\ r.browser \in Browsers
                          /\ r.old = cookie[r.browser],
           x = "validate" => r.old = 0 /\ r.kind = "token"
    PROVE  KeepsAll
<1>1. pc'[h] = x /\ local'[h] = r /\ Others(h)
  BY MovedTo, Zenon
<1>2. OldFrom(h) /\ ~Has(h)' /\ pc'[h] \notin Early /\ pc'[h] \notin Late
  BY <1>1, Zenon DEF OldFrom, Has, Early, Late
<1>3. Made' = Made
  BY Zenon DEF Made
<1>4. r.old # 0 => /\ r.old \in Made /\ token[r.old].user # Empty
                   /\ \A b \in Browsers : cookie[b] = r.old => b = r.browser
  BY Zenon DEF Owned, Cookies
<1>5. Carries(h)'
  <2>1. r.old # 0 => /\ r.old \in Made' /\ token'[r.old].user # Empty
                     /\ \A b \in Browsers : cookie'[b] = r.old => b = r.browser
    BY <1>3, <1>4, Zenon
  <2>2. /\ pc'[h] # "rollover" /\ pc'[h] # "retire" /\ r.kind # "session"
        /\ pc'[h] = "check" => r.kind = "authorize" /\ r.browser \in Browsers
    BY <1>1, Zenon
  <2> QED
    BY <1>1, <1>2, <2>1, <2>2, Zenon DEF Carries
<1>6. Owned'
  BY <1>1, <1>2, <1>5, OwnedQuiet, Zenon
<1>7. Keeps => Keeps'
  <2>1. \A b \in Browsers : ~Replacing(h, b)
    BY Zenon DEF Replacing
  <2> QED
    BY <1>1, <2>1, KeptQuiet, Zenon
<1> QED
  BY <1>6, <1>7, Zenon DEF KeepsAll

(* No handler moves.                                                       *)
LEMMA StillKeeps ==
    ASSUME Typed, Owned,
           UNCHANGED <<pc, local, token, cookie, live, disturbed, nextSession>>
    PROVE  KeepsAll
<1>1. Owned'
  BY OwnedStill, Zenon
<1>2. Keeps => Keeps'
  BY Zenon DEF Keeps, HandedOut, Kept, IsValid, Replacing
<1> QED
  BY <1>1, <1>2, Zenon DEF KeepsAll

(* The steps that begin a request.                                         *)
LEMMA ArriveKeeps ==
    ASSUME Typed, Owned, NEW h \in Handlers, Arrive(h)
    PROVE  KeepsAll
<1>1. ASSUME NEW b \in Browsers, NEW q \in Requests, Authorize(h, b, q)
      PROVE  KeepsAll
  <2> DEFINE r == [Idle EXCEPT !.kind = "authorize", !.browser = b, !.request = q,
                               !.code = nextCode', !.old = cookie[b],
                               !.entry = DirectEntry(q, nextCode')]
  <2>1. r.kind = "authorize" /\ r.browser = b /\ r.old = cookie[b]
    BY SMT DEF Idle
  <2>2. /\ pc[h] = "idle" /\ Goto(h, "check") /\ local' = [local EXCEPT ![h] = r]
        /\ UNCHANGED <<token, cookie, live, disturbed, nextSession>>
    BY <1>1, Zenon DEF Authorize
  <2> HIDE DEF r
  <2> QED
    BY <2>1, <2>2, StartKeeps, Zenon
<1>2. ASSUME NEW b \in Browsers, NEW s \in States, Session(h, b, s)
      PROVE  KeepsAll
  <2> DEFINE u == token[cookie[b]].user
             r == [Idle EXCEPT !.kind = "session", !.browser = b, !.user = u,
                               !.state = s, !.old = cookie[b], !.fresh = nextSession + 1]
  <2>1. /\ r.kind = "session" /\ r.browser = b /\ r.user = u
        /\ r.old = cookie[b] /\ r.fresh = nextSession + 1
    BY SMT DEF Idle
  <2>2. /\ pc[h] = "idle" /\ Goto(h, "read") /\ local' = [local EXCEPT ![h] = r]
        /\ NewSession /\ UNCHANGED <<token, cookie, live, disturbed>>
    BY <1>2, Zenon DEF Session, stores, ghosts
  <2>3. cookie[b] \in Sessions /\ cookie[b] # 0
    BY <1>2, MadeFacts, Zenon DEF Session, IsValid, Typed, TypeOK
  <2>4. u \in Users
    BY <2>3, Zenon DEF Owned, Cookies, Typed, TypeOK
  <2>5. "read" \in Early /\ "read" # "rollover"
    BY Zenon DEF Early
  <2>6. local[h].old # 0 => \A c \in Browsers : cookie[c] = local[h].old => c = local[h].browser
    BY Zenon DEF Owned, Carries
  <2> HIDE DEF r, u
  <2> QED
    BY <2>1, <2>2, <2>3, <2>4, <2>5, <2>6, ReserveKeeps, Zenon
<1>3. ASSUME NEW b \in Browsers, NEW s \in States, NEW u \in Users, SignIn(h, b, s, u)
      PROVE  KeepsAll
  <2> DEFINE r == [Idle EXCEPT !.kind = "signin", !.browser = b, !.user = u,
                               !.state = s, !.fresh = nextSession + 1]
  <2>1. /\ r.kind = "signin" /\ r.browser = b /\ r.user = u
        /\ r.old = 0 /\ r.fresh = nextSession + 1
    BY SMT DEF Idle
  <2>2. /\ pc[h] = "idle" /\ Goto(h, "read") /\ local' = [local EXCEPT ![h] = r]
        /\ NewSession /\ UNCHANGED <<token, cookie, live, disturbed>>
    BY <1>3, Zenon DEF SignIn, stores, ghosts
  <2>3. "read" \in Early /\ "read" # "rollover"
    BY Zenon DEF Early
  <2> HIDE DEF r
  <2> QED
    BY <2>1, <2>2, <2>3, ReserveKeeps, Zenon
<1>4. ASSUME NEW b \in Browsers, NEW s \in States, NEW u \in Users,
             OAuthCallback(h, b, s, u)
      PROVE  KeepsAll
  <2> DEFINE r == [Idle EXCEPT !.kind = "callback", !.browser = b, !.user = u,
                               !.fresh = nextSession + 1,
                               !.entry = [parked[s] EXCEPT !.resource = Empty]]
  <2>1. /\ r.kind = "callback" /\ r.browser = b /\ r.user = u
        /\ r.old = 0 /\ r.fresh = nextSession + 1
    BY SMT DEF Idle
  <2>2. /\ pc[h] = "idle" /\ UNCHANGED <<token, cookie, live, disturbed>>
        /\ \/ NewSession /\ Goto(h, "bind") /\ local' = [local EXCEPT ![h] = r]
           \/ UNCHANGED <<pc, local, nextSession>>
    BY <1>4, Zenon DEF OAuthCallback, ghosts
  <2>3. "bind" \in Early /\ "bind" # "rollover"
    BY Zenon DEF Early
  <2> HIDE DEF r
  <2>4. CASE NewSession /\ Goto(h, "bind") /\ local' = [local EXCEPT ![h] = r]
    BY <2>1, <2>2, <2>3, <2>4, ReserveKeeps, Zenon
  <2>5. CASE UNCHANGED <<pc, local, nextSession>>
    BY <2>2, <2>5, StillKeeps, Zenon
  <2> QED
    BY <2>2, <2>4, <2>5, Zenon
<1>5. ASSUME NEW c \in Codes, TakeCode(h, c) PROVE KeepsAll
  <2>1. pc[h] = "idle" /\ UNCHANGED <<token, cookie, live, disturbed, nextSession>>
    BY <1>5, Zenon DEF TakeCode, counters, ghosts
  <2>2. CASE UNCHANGED <<pc, local>>
    BY <2>1, <2>2, StillKeeps, Zenon
  <2>3. ASSUME NEW p \in Presented, Goto(h, "validate"),
               local' = [local EXCEPT ![h] = [Idle EXCEPT !.kind = "token",
                                                 !.grant = Grant(c, p)]]
        PROVE  KeepsAll
    <3> DEFINE r == [Idle EXCEPT !.kind = "token", !.grant = Grant(c, p)]
    <3>1. r.old = 0 /\ r.kind = "token"
      BY SMT DEF Idle
    <3>2. local' = [local EXCEPT ![h] = r]
      BY <2>3, Zenon
    <3> HIDE DEF r
    <3> QED
      BY <2>1, <2>3, <3>1, <3>2, StartKeeps, Zenon
  <2> QED
    BY <1>5, <2>2, <2>3, Zenon DEF TakeCode
<1> QED
  BY <1>1, <1>2, <1>3, <1>4, <1>5, Zenon DEF Arrive

(* The steps after which the request is over.                              *)
LEMMA EndStepKeeps ==
    ASSUME Typed, Owned, NEW h \in Handlers,
           \/ SignInFirst(h) \/ RenderConsent(h) \/ Withhold(h) \/ BindFails(h)
           \/ Exchange(h) \/ RefuseSession(h)
    PROVE  KeepsAll
<1>1. CASE SignInFirst(h) \/ RenderConsent(h) \/ Withhold(h) \/ Exchange(h) \/ RefuseSession(h)
  <2>1. Finish(h) /\ UNCHANGED <<token, cookie, nextSession, live, disturbed>>
    BY <1>1, Zenon DEF SignInFirst, RenderConsent, Withhold, Exchange, RefuseSession,
                       stores, counters, ghosts
  <2>2. pc[h] \in {"check", "validate"} \/ local[h].kind = "signin"
    BY <1>1, Zenon DEF SignInFirst, RenderConsent, Withhold, Exchange, RefuseSession
  <2>3. \A b \in Browsers : ~Replacing(h, b)
    BY <2>2, Zenon DEF Replacing
  <2> QED
    BY <2>1, <2>3, EndKeeps, Zenon
<1>2. CASE BindFails(h)
  <2>1. Finish(h) /\ UNCHANGED <<token, cookie, nextSession, live>> /\ pc[h] = "bind" /\ Cut(h)
    BY <1>2, Zenon DEF BindFails, stores, counters
  <2>2. disturbed \subseteq disturbed'
    BY <2>1, Zenon DEF Cut
  <2>3. \A b \in Browsers : Replacing(h, b) => b \in disturbed'
    BY <2>1, Zenon DEF Replacing, Cut
  <2> QED
    BY <2>1, <2>2, <2>3, EndKeeps, Zenon
<1> QED
  BY <1>1, <1>2, Zenon

(* prompt=login ends the session and takes the browser's cookie.           *)
LEMMA ReauthKeeps ==
    ASSUME Typed, Owned, NEW h \in Handlers, ForceReauth(h)
    PROVE  KeepsAll
<1> DEFINE t == local[h].old
           a == local[h].browser
<1>1. /\ pc[h] = "check" /\ t # 0 /\ DeleteUserSession(t) /\ Finish(h)
      /\ cookie' = [cookie EXCEPT ![a] = 0]
      /\ UNCHANGED <<token, nextSession, disturbed>>
  BY Zenon DEF ForceReauth, counters, ghosts
<1>2. /\ Others(h) /\ Carries(h)' /\ ~Has(h)' /\ OldFrom(h) /\ pc'[h] = "idle"
  BY <1>1, FinishedAs, Zenon
<1>3. /\ t \in Made /\ token[t].user # Empty /\ a \in Browsers
      /\ \A b \in Browsers : cookie[b] = t => b = a
  BY <1>1, Zenon DEF Owned, Carries
<1>4. \A g \in Handlers : Has(g) => local[g].fresh # t
  BY Zenon DEF Owned, Distinct
<1> HIDE DEF t, a
<1>5. cookie'[a] = 0 /\ \A b \in Browsers \ {a} : cookie'[b] = cookie[b]
  BY <1>1, <1>3, Zenon DEF Typed, TypeOK
<1>6. Owned'
  BY <1>1, <1>2, <1>5, OwnedQuiet, Zenon
<1>7. ASSUME FreshNonces, Keeps PROVE Keeps'
  <2>1. live \ {t} \subseteq live'
    BY <1>1, <1>3, <1>7, MadeFacts, KeyIsOwn, Zenon
  <2>2. \A b \in Browsers : ~Replacing(h, b)
    BY <1>1, Zenon DEF Replacing
  <2>3. \A b \in Browsers :
            \/ cookie'[b] = 0 \/ cookie'[b] \in live' \/ b \in disturbed'
            \/ Replacing(h, b)'
            \/ cookie'[b] = cookie[b] /\ cookie[b] # t /\ ~Replacing(h, b)
    BY <1>3, <1>5, <2>2, Zenon
  <2>4. disturbed \subseteq disturbed' /\ pc'[h] \notin {"retire", "respond"}
    BY <1>1, <1>2, Zenon
  <2> QED
    BY <1>2, <1>4, <1>7, <2>1, <2>3, <2>4, KeptStep, Zenon
<1> QED
  BY <1>6, <1>7, Zenon DEF KeepsAll

(* /authorize reserves the token of the rollover.                          *)
LEMMA PassConsentKeeps ==
    ASSUME Typed, Owned, NEW h \in Handlers, PassConsent(h)
    PROVE  KeepsAll
<1> DEFINE u == token[local[h].old].user
           r == [local[h] EXCEPT !.user = u, !.fresh = nextSession + 1]
<1>1. /\ pc[h] = "check" /\ Goto(h, "rollover") /\ NewSession
      /\ UNCHANGED <<token, cookie, live, disturbed>> /\ IsValid(local[h].old)
  BY Zenon DEF PassConsent, stores
<1>2. local' = [local EXCEPT ![h] = r]
  BY Zenon DEF PassConsent, Typed, TypeOK
<1>3. local[h] \in LocalType
  BY Zenon DEF Typed, TypeOK
<1>4. /\ r.fresh = nextSession + 1 /\ r.user = u /\ r.old = local[h].old
      /\ r.browser = local[h].browser /\ r.kind = local[h].kind
  BY <1>3, SMT DEF LocalType
<1>5. local[h].old \in Sessions /\ local[h].old # 0
  BY <1>1, MadeFacts, Zenon DEF IsValid, Typed, TypeOK
<1>6. local[h].kind = "authorize" /\ local[h].browser \in Browsers /\ u # Empty
  BY <1>1, <1>5, Zenon DEF Owned, Carries
<1>7. u \in Users
  BY <1>5, <1>6, Zenon DEF Typed, TypeOK
<1>8. "rollover" \in Early
  BY Zenon DEF Early
<1> HIDE DEF r, u
<1> QED
  BY <1>1, <1>2, <1>4, <1>5, <1>6, <1>7, <1>8, ReserveKeeps, Zenon

(* The steps of a handler between the reservation and the creation of its  *)
(* token, and after it, that change neither.                               *)
LEMMA OwnedGoOn ==
    ASSUME Typed, Owned, NEW h \in Handlers, Others(h), Has(h),
           UNCHANGED <<token, cookie, nextSession>>,
           \/ pc[h] \in Early /\ pc'[h] \in Early \ {"rollover"}
           \/ pc[h] \in Late /\ pc'[h] \in Late,
           local'[h].fresh = local[h].fresh, local'[h].old = local[h].old,
           local'[h].browser = local[h].browser, local'[h].kind = local[h].kind,
           local'[h].user = local[h].user,
           pc'[h] = "retire" => local[h].kind = "session"
    PROVE  Owned'
<1>1. Carries(h) /\ Made' = Made
  BY Zenon DEF Owned, Made
<1>2. pc'[h] \notin {"check", "rollover"} /\ Has(h)'
  BY Zenon DEF Late, Early, Has
<1>3. /\ local[h].fresh \in Made /\ local[h].browser \in Browsers
      /\ \A b \in Browsers : cookie[b] # local[h].fresh
      /\ pc[h] \in Early => token[local[h].fresh].user = Empty /\ local[h].user \in Users
      /\ pc[h] \in Late => token[local[h].fresh].user # Empty
  BY <1>1, Zenon DEF Carries
<1>4. /\ local[h].old # 0 => /\ local[h].old \in Made /\ token[local[h].old].user # Empty
                             /\ \A b \in Browsers : cookie[b] = local[h].old => b = local[h].browser
      /\ local[h].kind = "session" => local[h].old # 0
  BY <1>1, Zenon DEF Carries
<1>5. /\ pc'[h] \in Early => pc[h] \in Early
      /\ pc'[h] \in Late => pc[h] \in Late
  BY Zenon DEF Early, Late
<1>6. Carries(h)'
  BY <1>1, <1>2, <1>3, <1>4, <1>5, Zenon DEF Carries
<1>7. OldFrom(h)
  BY Zenon DEF OldFrom
<1> QED
  BY <1>2, <1>6, <1>7, OwnedQuiet, Zenon

(* The old session goes while its replacement is on its way.               *)
LEMMA DropKeeps ==
    ASSUME Typed, Owned, NEW h \in Handlers, Rollover(h) \/ Retire(h)
    PROVE  KeepsAll
<1> DEFINE t == local[h].old
<1>1. /\ DeleteUserSession(t) \/ live' = live
      /\ local' = local /\ UNCHANGED <<token, cookie, nextSession, disturbed>>
  BY Zenon DEF Rollover, Retire, counters, ghosts
<1>2. \/ pc[h] = "rollover" /\ Goto(h, "bind")
      \/ pc[h] = "retire" /\ Goto(h, "respond")
  BY Zenon DEF Rollover, Retire
<1>3. /\ Others(h) /\ local'[h] = local[h]
      /\ \/ pc[h] = "rollover" /\ pc'[h] = "bind"
         \/ pc[h] = "retire" /\ pc'[h] = "respond"
  BY <1>1, <1>2, StayedAs, Zenon
<1>4. /\ Has(h) /\ pc'[h] # "retire"
      /\ \/ pc[h] \in Early /\ pc'[h] \in Early \ {"rollover"}
         \/ pc[h] \in Late /\ pc'[h] \in Late
  BY <1>3, Zenon DEF Has, Early, Late
<1>5. Owned'
  BY <1>1, <1>3, <1>4, OwnedGoOn, Zenon
<1>6. Carries(h) /\ t # 0
  BY <1>3, Zenon DEF Owned, Carries
<1>7. /\ t \in Made /\ token[t].user # Empty
      /\ \A b \in Browsers : cookie[b] = t => b = local[h].browser
  BY <1>6, Zenon DEF Carries
<1>8. \/ pc[h] = "rollover" /\ local[h].kind = "authorize"
      \/ pc[h] = "retire" /\ local[h].kind = "session"
  BY <1>3, <1>6, Zenon DEF Carries
<1>9. /\ Replacing(h, local[h].browser)'
      /\ \A b \in Browsers : ~Replacing(h, b)
  BY <1>3, <1>8, Zenon DEF Replacing
<1>10. \A g \in Handlers : Has(g) => local[g].fresh # t
  BY Zenon DEF Owned, Distinct
<1>11. ASSUME FreshNonces, Keeps PROVE Keeps'
  <2>1. live \ {t} \subseteq live'
    BY <1>1, <1>7, <1>11, MadeFacts, KeyIsOwn, Zenon
  <2>2. pc'[h] \in {"retire", "respond"} =>
            local'[h].fresh \in live' \/ local'[h].browser \in disturbed'
    <3>1. pc'[h] \in {"retire", "respond"} => pc[h] = "retire"
      BY <1>3, Zenon
    <3>2. pc[h] = "retire" => local[h].fresh \in live \/ local[h].browser \in disturbed
      BY <1>11, Zenon DEF Keeps, HandedOut
    <3>3. local[h].fresh # t
      BY <1>4, <1>10, Zenon
    <3> QED
      BY <1>1, <1>3, <2>1, <3>1, <3>2, <3>3, Zenon
  <2>3. \A b \in Browsers :
            \/ cookie'[b] = 0 \/ cookie'[b] \in live' \/ b \in disturbed'
            \/ Replacing(h, b)'
            \/ cookie'[b] = cookie[b] /\ cookie[b] # t /\ ~Replacing(h, b)
    BY <1>1, <1>7, <1>9, Zenon
  <2>4. disturbed \subseteq disturbed'
    BY <1>1, Zenon
  <2> HIDE DEF t
  <2> QED
    BY <1>3, <1>10, <1>11, <2>1, <2>2, <2>3, <2>4, KeptStep, Zenon
<1> QED
  BY <1>5, <1>11, Zenon DEF KeepsAll

(* The parked request is looked up and removed.                            *)
LEMMA LookupKeeps ==
    ASSUME Typed, Owned, NEW h \in Handlers, GetState(h) \/ RemoveState(h)
    PROVE  KeepsAll
<1>1. local[h] \in LocalType
  BY Zenon DEF Typed, TypeOK
<1>2. PICK r, x : /\ x \in {"bind", "remove"} /\ Goto(h, x)
                  /\ local' = [local EXCEPT ![h] = r]
                  /\ r.fresh = local[h].fresh /\ r.old = local[h].old
                  /\ r.browser = local[h].browser /\ r.kind = local[h].kind
                  /\ r.user = local[h].user
  <2>1. CASE GetState(h)
    <3> DEFINE r == [local[h] EXCEPT !.entry = parked[local[h].state]]
               x == IF parked[local[h].state] = NoEntry THEN "bind" ELSE "remove"
    <3>1. /\ r.fresh = local[h].fresh /\ r.old = local[h].old
          /\ r.browser = local[h].browser /\ r.kind = local[h].kind
          /\ r.user = local[h].user
      BY <1>1, SMT DEF LocalType
    <3>2. local' = [local EXCEPT ![h] = r] /\ Goto(h, x) /\ x \in {"bind", "remove"}
      BY <2>1, Zenon DEF GetState, Typed, TypeOK
    <3> HIDE DEF r, x
    <3> QED
      BY <3>1, <3>2, Zenon
  <2>2. CASE RemoveState(h)
    <3> DEFINE r == [local[h] EXCEPT !.state = Empty]
    <3>1. /\ r.fresh = local[h].fresh /\ r.old = local[h].old
          /\ r.browser = local[h].browser /\ r.kind = local[h].kind
          /\ r.user = local[h].user
      BY <1>1, SMT DEF LocalType
    <3>2. local' = [local EXCEPT ![h] = r] /\ Goto(h, "bind")
      BY <2>2, Zenon DEF RemoveState, Typed, TypeOK
    <3> HIDE DEF r
    <3> QED
      BY <3>1, <3>2, Zenon
  <2> QED
    BY <2>1, <2>2, Zenon
<1>3. /\ pc[h] \in {"read", "remove"}
      /\ UNCHANGED <<token, cookie, nextSession, live, disturbed>>
  BY Zenon DEF GetState, RemoveState, stores, counters, ghosts
<1>4. pc'[h] = x /\ local'[h] = r /\ Others(h)
  BY <1>2, MovedTo, Zenon
<1>5. /\ Has(h) /\ pc[h] \in Early /\ pc'[h] \in Early \ {"rollover"}
      /\ pc'[h] \notin {"retire", "respond"} /\ \A b \in Browsers : ~Replacing(h, b)
  BY <1>2, <1>3, <1>4, Zenon DEF Has, Early, Replacing
<1>6. Owned'
  BY <1>2, <1>3, <1>4, <1>5, OwnedGoOn, Zenon
<1>7. Keeps => Keeps'
  BY <1>3, <1>4, <1>5, KeptQuiet, Zenon
<1> QED
  BY <1>6, <1>7, Zenon DEF KeepsAll

(* The token is created; the store still holds what it held.               *)
LEMMA BindKeeps ==
    ASSUME Typed, Owned, NEW h \in Handlers, BindCode(h)
    PROVE  KeepsAll
<1>1. /\ Owned' /\ Others(h) /\ pc'[h] = "persist"
      /\ local'[h].kind = local[h].kind /\ local'[h].browser = local[h].browser
  BY OwnedBind, Zenon
<1>2. pc[h] = "bind" /\ UNCHANGED <<cookie, live, disturbed>>
  BY Zenon DEF BindCode, ghosts
<1>3. \A b \in Browsers : Replacing(h, b) => Replacing(h, b)'
  BY <1>1, <1>2, Zenon DEF Replacing
<1>4. Keeps => Keeps'
  BY <1>1, <1>2, <1>3, KeptQuiet, Zenon
<1> QED
  BY <1>1, <1>4, Zenon DEF KeepsAll

(* The session is stored, or the browser is disturbed.                     *)
LEMMA PersistKeeps ==
    ASSUME Typed, Owned, NEW h \in Handlers, Persist(h) \/ PersistFails(h)
    PROVE  KeepsAll
<1>1. /\ pc[h] = "persist" /\ UNCHANGED <<token, cookie, nextSession>>
      /\ disturbed \subseteq disturbed'
  BY Zenon DEF Persist, PersistFails, stores, counters, ghosts
<1>2. Has(h) /\ pc[h] \in Late
  BY <1>1, Zenon DEF Has, Late
<1>3. local[h].fresh \in Sessions /\ token[local[h].fresh].user # Empty
  BY <1>2, MadeFacts, Zenon DEF Owned, Carries
<1>4. ASSUME AfterPersist(h), local' = local,
             FreshNonces => live \subseteq live',
             FreshNonces => local[h].fresh \in live' \/ local[h].browser \in disturbed'
      PROVE  KeepsAll
  <2>1. /\ Others(h) /\ local'[h] = local[h]
        /\ pc'[h] = IF local[h].kind = "session" THEN "retire" ELSE "respond"
    BY <1>4, StayedAs, Zenon DEF AfterPersist
  <2>2. pc'[h] \in Late /\ (pc'[h] = "retire" => local[h].kind = "session")
    BY <2>1, Zenon DEF Late
  <2>3. Owned'
    BY <1>1, <1>2, <2>1, <2>2, OwnedGoOn, Zenon
  <2>4. \A b \in Browsers : Replacing(h, b) => Replacing(h, b)'
    BY <1>1, <2>1, Zenon DEF Replacing
  <2>5. FreshNonces /\ Keeps => Keeps'
    BY <1>1, <1>4, <2>1, <2>4, KeptQuiet, Zenon
  <2> QED
    BY <2>3, <2>5, Zenon DEF KeepsAll
<1>5. CASE Persist(h)
  <2>1. AfterPersist(h) /\ local' = local /\ SetUserSession(local[h].fresh)
    BY <1>5, Zenon DEF Persist
  <2>2. FreshNonces => live \subseteq live' /\ local[h].fresh \in live'
    BY <1>3, <2>1, KeyIsOwn, Zenon
  <2> QED
    BY <1>4, <2>1, <2>2, Zenon
<1>6. CASE PersistFails(h)
  <2>1. live' = live /\ local[h].browser \in disturbed'
    BY <1>6, Zenon DEF PersistFails, stores
  <2>2. CASE Finish(h)
    <3>1. \A b \in Browsers : Replacing(h, b) => b \in disturbed'
      BY <2>1, Zenon DEF Replacing
    <3> QED
      BY <1>1, <2>1, <2>2, <3>1, EndKeeps, Zenon
  <2>3. CASE AfterPersist(h) /\ UNCHANGED local
    BY <1>4, <2>1, <2>3, Zenon
  <2> QED
    BY <1>6, <2>2, <2>3, Zenon DEF PersistFails
<1> QED
  BY <1>5, <1>6, Zenon

(* The browser gets a token that is live, or is disturbed.                 *)
LEMMA RespondKeeps ==
    ASSUME Typed, Owned, NEW h \in Handlers, Respond(h)
    PROVE  KeepsAll
<1> DEFINE t == local[h].fresh
           a == local[h].browser
<1>1. /\ pc[h] = "respond" /\ cookie' = [cookie EXCEPT ![a] = t] /\ Finish(h)
      /\ UNCHANGED <<live, disturbed>>
  BY Zenon DEF Respond, stores, ghosts
<1>2. a \in Browsers
  BY <1>1, Zenon DEF Owned, Carries, Has, Late
<1>3. Others(h) /\ pc'[h] = "idle"
  BY <1>1, FinishedAs, Zenon
<1>4. \A g \in Handlers : Has(g) => local[g].fresh # 0
  BY MadeFacts, Zenon DEF Owned, Carries
<1>5. Owned'
  BY OwnedRespond, Zenon
<1>6. ASSUME Keeps PROVE Keeps'
  <2>1. t \in live \/ a \in disturbed
    BY <1>1, <1>6, Zenon DEF Keeps, HandedOut
  <2>2. \A b \in Browsers : Replacing(h, b) => b = a
    BY Zenon DEF Replacing
  <2> HIDE DEF t, a
  <2>3. cookie'[a] = t /\ \A b \in Browsers \ {a} : cookie'[b] = cookie[b]
    BY <1>1, <1>2, Zenon DEF Typed, TypeOK
  <2>4. live' = live /\ disturbed' = disturbed /\ live \ {0} \subseteq live'
        /\ disturbed \subseteq disturbed'
    BY <1>1, Zenon
  <2>5. \A b \in Browsers :
            \/ cookie'[b] = 0 \/ cookie'[b] \in live' \/ b \in disturbed'
            \/ Replacing(h, b)'
            \/ cookie'[b] = cookie[b] /\ cookie[b] # 0 /\ ~Replacing(h, b)
    BY <2>1, <2>2, <2>3, <2>4, Zenon
  <2>6. pc'[h] \notin {"retire", "respond"}
    BY <1>3, Zenon
  <2> QED
    BY <1>3, <1>4, <1>6, <2>4, <2>5, <2>6, KeptStep, Zenon
<1> QED
  BY <1>5, <1>6, Zenon DEF KeepsAll

(* A logout takes the session and the cookie together.                     *)
LEMMA LogoutKeeps ==
    ASSUME Typed, Owned, NEW a \in Browsers, Logout(a)
    PROVE  KeepsAll
<1> DEFINE t == cookie[a]
<1>1. /\ t \in live /\ DeleteUserSession(t) /\ cookie' = [cookie EXCEPT ![a] = 0]
      /\ UNCHANGED <<token, pc, local, nextSession, disturbed>>
  BY Zenon DEF Logout, IsValid, counters, ghosts
<1>2. cookie'[a] = 0 /\ \A b \in Browsers \ {a} : cookie'[b] = cookie[b]
  BY <1>1, Zenon DEF Typed, TypeOK
<1>3. Owned'
  BY <1>1, <1>2, OwnedStill, Zenon
<1>4. t \in Sessions /\ t # 0
  BY <1>1, MadeFacts, Zenon DEF Typed, TypeOK
<1>5. token[t].user # Empty /\ \A b \in Browsers : cookie[b] = t => b = a
  BY <1>4, Zenon DEF Owned, Cookies
<1>6. \A g \in Handlers : Has(g) => local[g].fresh # t
  BY Zenon DEF Owned, Carries
<1>7. ASSUME FreshNonces, Keeps PROVE Keeps'
  <2>1. live \ {t} \subseteq live'
    BY <1>1, <1>4, <1>5, <1>7, KeyIsOwn, Zenon
  <2> HIDE DEF t
  <2>2. HandedOut'
    <3> SUFFICES ASSUME NEW g \in Handlers, pc[g] \in {"retire", "respond"}
                 PROVE  local[g].fresh \in live' \/ local[g].browser \in disturbed
      BY <1>1, Zenon DEF HandedOut
    <3>1. Has(g) /\ (local[g].fresh \in live \/ local[g].browser \in disturbed)
      BY <1>7, Zenon DEF Has, Late, Keeps, HandedOut
    <3> QED
      BY <1>6, <2>1, <3>1, Zenon
  <2>3. ASSUME NEW b \in Browsers, b # a PROVE Kept(b)'
    <3>1. Kept(b) /\ cookie'[b] = cookie[b] /\ cookie[b] # t
      BY <1>2, <1>5, <1>7, <2>3, Zenon DEF Keeps
    <3>2. UNCHANGED <<pc, local, disturbed>>
      BY <1>1, Zenon
    <3> QED
      BY <2>1, <3>1, <3>2, Zenon DEF Kept, IsValid, Replacing
  <2>4. Kept(a)'
    BY <1>2, Zenon DEF Kept
  <2> QED
    BY <2>2, <2>3, <2>4, Zenon DEF Keeps
<1> QED
  BY <1>3, <1>7, Zenon DEF KeepsAll

(* Every step.                                                             *)
LEMMA KeepsNext == Typed /\ Owned /\ [Next]_vars => KeepsAll
<1> SUFFICES ASSUME Typed, Owned, [Next]_vars PROVE KeepsAll
  OBVIOUS
<1>1. CASE \/ \E b \in Browsers, c \in Codes : Consent(b, c)
           \/ \E s \in States : ExpireParked(s)
           \/ \E c \in Codes : ExpireCode(c)
           \/ UNCHANGED vars
  <2>1. UNCHANGED <<pc, local, token, cookie, live, disturbed, nextSession>>
    BY <1>1, Zenon DEF Consent, ExpireParked, ExpireCode, vars, stores, counters, ghosts
  <2> QED
    BY <2>1, StillKeeps, Zenon
<1>2. ASSUME NEW h \in Handlers, Step(h) PROVE KeepsAll
  BY <1>2, EndStepKeeps, ReauthKeeps, PassConsentKeeps, DropKeeps, LookupKeeps, BindKeeps,
     PersistKeeps, RespondKeeps, Zenon DEF Step
<1> QED
  BY <1>1, <1>2, ArriveKeeps, LogoutKeeps, Zenon DEF Next

(* A token is written once: nonces that are fresh after a step were fresh  *)
(* before it.                                                              *)
LEMMA FreshBefore ==
    ASSUME Typed, Owned, [Next]_vars, FreshNonces'
    PROVE  FreshNonces
<1>1. CASE token' = token
  BY <1>1, Zenon DEF FreshNonces
<1>2. ASSUME NEW h \in Handlers, BindCode(h) PROVE FreshNonces
  <2> DEFINE t == local[h].fresh
  <2>1. token[t].user = Empty
    BY <1>2, Zenon DEF BindCode, Owned, Carries, Early
  <2>2. \A s \in Sessions \ {t} : token'[s] = token[s]
    BY <1>2, Zenon DEF BindCode, Typed, TypeOK
  <2> HIDE DEF t
  <2> SUFFICES ASSUME NEW x \in Sessions, NEW y \in Sessions, token[x] = token[y],
                      token[x].user # Empty
               PROVE  x = y
    BY Zenon DEF FreshNonces
  <2>3. x # t /\ y # t
    BY <2>1, Zenon
  <2> QED
    BY <2>2, <2>3, Zenon DEF FreshNonces
<1>3. token' = token \/ \E h \in Handlers : BindCode(h)
  <2>1. ASSUME NEW h \in Handlers, Arrive(h) PROVE token' = token
    BY <2>1, Zenon DEF Arrive, Authorize, Session, SignIn, OAuthCallback, TakeCode
  <2>2. ASSUME NEW h \in Handlers, Step(h), ~BindCode(h) PROVE token' = token
    BY <2>2, Zenon DEF Step, SignInFirst, ForceReauth, RenderConsent, PassConsent, Rollover,
       GetState, RemoveState, Withhold, BindFails, Persist, PersistFails, Retire, Respond,
       Exchange, RefuseSession
  <2>3. CASE UNCHANGED vars
    BY <2>3, Zenon DEF vars
  <2> QED
    BY <2>1, <2>2, <2>3, Zenon DEF Next, Consent, Logout, ExpireParked, ExpireCode
<1> QED
  BY <1>1, <1>2, <1>3, Zenon

(* Whatever the browsers, tabs and users, and however their requests, the  *)
(* rollovers of /authorize and of the session query, and the logouts       *)
(* interleave, a browser's cookie names a live session, unless its         *)
(* replacement is on the way or a store error cut a rollover short.        *)
THEOREM BrowserAlwaysKeepsItsSession == Spec => []BrowserKeepsItsSession
<1> DEFINE Inv == Typed /\ Owned /\ KeptInv
<1>1. Init => Inv
  <2> SUFFICES ASSUME Init PROVE Inv
    OBVIOUS
  <2>1. HandedOut
    BY Zenon DEF Init, HandedOut
  <2>2. \A b \in Browsers : cookie[b] \in {0, 1} /\ live = {1}
    BY Zenon DEF Init
  <2> QED
    BY <2>1, <2>2, TypedInit, OwnedInit, Zenon DEF KeptInv, Keeps, Kept, IsValid
<1>2. Inv /\ [Next]_vars => Inv'
  <2> SUFFICES ASSUME Typed, Owned, KeptInv, [Next]_vars PROVE Inv'
    OBVIOUS
  <2>1. Typed' /\ KeepsAll
    BY TypedNext, KeepsNext, Zenon
  <2>2. KeptInv'
    BY <2>1, FreshBefore, Zenon DEF KeepsAll, KeptInv
  <2> QED
    BY <2>1, <2>2, Zenon DEF KeepsAll
<1>3. Inv => BrowserKeepsItsSession
  BY Zenon DEF KeptInv, Keeps, Kept, BrowserKeepsItsSession
<1> HIDE DEF Inv
<1> QED
  BY <1>1, <1>2, <1>3, PTL DEF Spec

-----------------------------------------------------------------------------
(* One-time codes                                                          *)

(* The codes that can be redeemed, element by element.                     *)
LEMMA TicketIs ==
    /\ \A x : x \in Ticket <=>
          \E c \in Codes : codes[c] # NoBlob /\ x = <<c, codes[c].session>>
    /\ \A x : x \in Ticket' <=>
          \E c \in Codes : codes'[c] # NoBlob /\ x = <<c, codes'[c].session>>
BY Zenon DEF Ticket

(* The grants of token requests that redeemed a code, element by element.  *)
LEMMA TakenIs ==
    /\ \A g : g \in Taken <=>
          \E h \in Handlers : pc[h] = "validate" /\ g = local[h].grant
    /\ \A g : g \in Taken' <=>
          \E h \in Handlers : pc'[h] = "validate" /\ g = local'[h].grant
BY Zenon DEF Taken

(* The steps that hand no right to tokens to anybody.                      *)
HandsNothing ==
    /\ UNCHANGED <<minted, grants>>
    /\ Unused' \subseteq Unused
    /\ \A c \in Codes : codes'[c] \in {codes[c], NoBlob}
    /\ \A h \in Handlers :
          pc'[h] = "validate" => pc[h] = "validate" /\ local'[h] = local[h]

(* Such a step can only lose what was there.                               *)
LEMMA HandsNothingLoses ==
    ASSUME HandsNothing
    PROVE  Lifecycle!Lose
<1>1. Ticket' \subseteq Ticket
  <2> SUFFICES ASSUME NEW x, x \in Ticket' PROVE x \in Ticket
    BY Zenon
  <2>1. PICK c \in Codes : codes'[c] # NoBlob /\ x = <<c, codes'[c].session>>
    BY TicketIs, Zenon
  <2>2. codes'[c] = codes[c]
    BY <2>1, Zenon DEF HandsNothing
  <2> QED
    BY <2>1, <2>2, TicketIs, Zenon
<1>2. Taken' \subseteq Taken
  <2> SUFFICES ASSUME NEW g, g \in Taken' PROVE g \in Taken
    BY Zenon
  <2>1. PICK h \in Handlers : pc'[h] = "validate" /\ g = local'[h].grant
    BY TakenIs, Zenon
  <2>2. pc[h] = "validate" /\ g = local[h].grant
    BY <2>1, Zenon DEF HandsNothing
  <2> QED
    BY <2>2, TakenIs, Zenon
<1> QED
  BY <1>1, <1>2, Zenon DEF HandsNothing, Lifecycle!Lose

(* A handler that is not at the token endpoint before or after its step.   *)
LEMMA TakenStays ==
    ASSUME NEW h \in Handlers, Others(h), pc[h] # "validate", pc'[h] # "validate"
    PROVE  Taken' = Taken
<1>1. \A x \in Handlers : pc'[x] = "validate" <=> pc[x] = "validate"
  BY Zenon DEF Others
<1>2. \A x \in Handlers : pc[x] = "validate" => local'[x].grant = local[x].grant
  BY Zenon DEF Others
<1>3. ASSUME NEW g, g \in Taken' PROVE g \in Taken
  <2>1. PICK x \in Handlers : pc'[x] = "validate" /\ g = local'[x].grant
    BY <1>3, TakenIs, Zenon
  <2>2. pc[x] = "validate" /\ g = local[x].grant
    BY <1>1, <1>2, <2>1, Zenon
  <2> QED
    BY <2>2, TakenIs, Zenon
<1>4. ASSUME NEW g, g \in Taken PROVE g \in Taken'
  <2>1. PICK x \in Handlers : pc[x] = "validate" /\ g = local[x].grant
    BY <1>4, TakenIs, Zenon
  <2>2. pc'[x] = "validate" /\ g = local'[x].grant
    BY <1>1, <1>2, <2>1, Zenon
  <2> QED
    BY <2>2, TakenIs, Zenon
<1> QED
  BY <1>3, <1>4, Zenon

(* /authorize asks.                                                        *)
LEMMA AuthorizeAsks ==
    ASSUME Typed, Binding, NEW h \in Handlers, NEW b \in Browsers,
           NEW q \in Requests, Authorize(h, b, q)
    PROVE  Lifecycle!Next
<1>1. PICK c \in Codes : c = nextCode + 1 /\ c > nextCode
  BY FlowAssumption DEF Authorize, Typed, TypeOK, Codes
<1>2. minted[c] = Empty /\ minted' = [minted EXCEPT ![c] = q]
  BY <1>1, Zenon DEF Binding, Authorize
<1>3. pc[h] = "idle" /\ Goto(h, "check") /\ UNCHANGED <<codes, token, grants>>
  BY Zenon DEF Authorize
<1>4. \E r : local' = [local EXCEPT ![h] = r]
  BY Zenon DEF Authorize
<1>5. Others(h) /\ pc'[h] = "check"
  BY <1>3, <1>4, MovedTo, Zenon
<1>6. Taken' = Taken
  BY <1>3, <1>5, TakenStays, Zenon
<1>7. Unused' = Unused /\ Ticket' = Ticket
  BY <1>3, Zenon DEF Unused, Ticket
<1>8. Lifecycle!Ask(c, q)
  BY <1>2, <1>3, <1>6, <1>7, Zenon DEF Lifecycle!Ask
<1> QED
  BY <1>8, Zenon DEF Lifecycle!Next

(* Creating the session token issues the code, where there is one.         *)
LEMMA BindIssues ==
    ASSUME Typed, Binding, Owned, NEW h \in Handlers, BindCode(h)
    PROVE  Lifecycle!Next
<1> DEFINE t == local[h].fresh
           e == local[h].entry
           blob == EncodeCode(e, t)
<1>1. pc[h] = "bind" /\ UNCHANGED <<minted, grants>>
  BY Zenon DEF BindCode, ghosts
<1>2. Others(h) /\ pc'[h] = "persist"
  BY OwnedBind, Zenon
<1>3. t \in Made /\ token[t].user = Empty /\ local[h].user \in Users
  BY <1>1, Zenon DEF Owned, Carries, Has, Early
<1>4. t \in Sessions /\ t # 0 /\ local[h].user # Empty
  BY <1>3, MadeFacts, FlowAssumption, Zenon
<1>5. /\ token'[t].user = local[h].user
      /\ \A s \in Sessions : s # t => token'[s] = token[s]
  BY <1>4 DEF BindCode, Typed, TypeOK
<1> HIDE DEF t, e
<1>6. t \in Unused /\ Unused' = Unused \ {t}
  BY <1>3, <1>4, <1>5, Zenon DEF Unused
<1>7. Taken' = Taken
  BY <1>1, <1>2, TakenStays, Zenon
<1>8. CASE ~HasCode(h)
  <2>1. codes' = codes
    BY <1>8, Zenon DEF BindCode
  <2>2. Ticket' = Ticket
    BY <2>1, Zenon DEF Ticket
  <2> QED
    BY <1>1, <1>6, <1>7, <2>2, Zenon DEF Lifecycle!Lose, Lifecycle!Next
<1>9. CASE HasCode(h)
  <2>1. e \in EntryType /\ EntryBound(e, minted) /\ e.code # 0
    BY <1>9, Zenon DEF Typed, TypeOK, LocalType, Binding, HasCode, e
  <2>2. PICK c \in Codes : c = e.code
    <3>1. e.code \in 0..MaxCode
      BY <2>1 DEF EntryType
    <3> QED
      BY <2>1, <3>1, FlowAssumption DEF Codes
  <2>3. minted[c] # Empty
    BY <2>1, <2>2, FlowAssumption, Zenon DEF EntryBound, Bound
  <2>4. blob.session = t /\ blob # NoBlob
    BY <1>4 DEF EncodeCode, NoBlob
  <2> HIDE DEF blob
  <2>5. codes'[c] = blob /\ \A d \in Codes : d # c => codes'[d] = codes[d]
    <3>1. codes' = [codes EXCEPT ![c] = blob]
      BY <1>9, <2>2, Zenon DEF BindCode, blob, e, t
    <3>2. DOMAIN codes = Codes
      BY Zenon DEF Typed, TypeOK
    <3> QED
      BY <3>1, <3>2, Zenon
  <2>6. \A x : x \in Ticket' <=> (x \in Ticket /\ x[1] # c) \/ x = <<c, t>>
    <3>1. ASSUME NEW x, x \in Ticket'
          PROVE  (x \in Ticket /\ x[1] # c) \/ x = <<c, t>>
      <4>1. PICK d \in Codes : codes'[d] # NoBlob /\ x = <<d, codes'[d].session>>
        BY <3>1, TicketIs, Zenon
      <4>2. CASE d = c
        BY <2>4, <2>5, <4>1, <4>2, Zenon
      <4>3. CASE d # c
        <5>1. x \in Ticket
          BY <2>5, <4>1, <4>3, TicketIs, Zenon
        <5>2. x[1] = d
          BY <4>1
        <5> QED
          BY <4>3, <5>1, <5>2, Zenon
      <4> QED
        BY <4>2, <4>3, Zenon
    <3>2. ASSUME NEW x, x \in Ticket, x[1] # c
          PROVE  x \in Ticket'
      <4>1. PICK d \in Codes : codes[d] # NoBlob /\ x = <<d, codes[d].session>>
        BY <3>2, TicketIs, Zenon
      <4>2. x[1] = d
        BY <4>1
      <4> QED
        BY <2>5, <3>2, <4>1, <4>2, TicketIs, Zenon
    <3>3. <<c, t>> \in Ticket'
      BY <2>4, <2>5, TicketIs, Zenon
    <3> QED
      BY <3>1, <3>2, <3>3, Zenon
  <2>7. Ticket' = {x \in Ticket : x[1] # c} \cup {<<c, t>>}
    BY <2>6, Zenon
  <2>8. Lifecycle!Issue(c, t)
    BY <1>1, <1>6, <1>7, <2>3, <2>7, Zenon DEF Lifecycle!Issue
  <2> QED
    BY <1>4, <2>8, Zenon DEF Lifecycle!Next
<1> QED
  BY <1>8, <1>9

(* The token endpoint redeems the code it takes out of the store, or loses *)
(* it when the request does not match.                                     *)
LEMMA TakeRedeems ==
    ASSUME Typed, Binding, NEW h \in Handlers, NEW c \in Codes, TakeCode(h, c)
    PROVE  Lifecycle!Next
<1> DEFINE t == codes[c].session
<1>1. pc[h] = "idle" /\ codes[c] # NoBlob /\ UNCHANGED <<token, minted, grants>>
  BY Zenon DEF TakeCode, ghosts
<1>2. codes'[c] = NoBlob /\ \A d \in Codes : d # c => codes'[d] = codes[d]
  BY Zenon DEF TakeCode, GetAndRemoveState, Typed, TypeOK
<1>3. Unused' = Unused
  BY <1>1, Zenon DEF Unused
<1>4. CASE UNCHANGED <<pc, local>>
  <2>1. HandsNothing
    BY <1>1, <1>2, <1>3, <1>4, Zenon DEF HandsNothing
  <2> QED
    BY <2>1, HandsNothingLoses, Zenon DEF Lifecycle!Next
<1>5. ASSUME NEW p \in Presented, Goto(h, "validate"),
             local' = [local EXCEPT ![h] = [Idle EXCEPT !.kind = "token",
                                               !.grant = Grant(c, p)]]
      PROVE  Lifecycle!Next
  <2> DEFINE r == [Idle EXCEPT !.kind = "token", !.grant = Grant(c, p)]
             g == Grant(c, p)
  <2>1. r.grant = g /\ g.code = c /\ g.session = t
    BY DEF Idle, Grant
  <2>2. local' = [local EXCEPT ![h] = r]
    BY <1>5
  <2> HIDE DEF r, g
  <2>3. pc'[h] = "validate" /\ local'[h] = r /\ Others(h)
    BY <1>5, <2>2, MovedTo, Zenon
  <2>4. g \in GrantType
    <3>1. LocalOK'
      BY TypedArrive, Zenon DEF Arrive, Typed
    <3> QED
      BY <2>1, <2>3, <3>1, Zenon DEF LocalOK
  <2>5. GrantBound(g, minted[c])
    <3>1. Binding'
      BY TakeBinds, Zenon
    <3> QED
      BY <1>1, <2>1, <2>3, <3>1, Zenon DEF Binding
  <2>6. Lifecycle!IsFor(g, minted[c])
    BY <2>5, Zenon DEF GrantBound, Lifecycle!IsFor
  <2>7. Taken' = Taken \cup {g}
    <3>1. ASSUME NEW x, x \in Taken' PROVE x \in Taken \/ x = g
      <4>1. PICK k \in Handlers : pc'[k] = "validate" /\ x = local'[k].grant
        BY <3>1, TakenIs, Zenon
      <4>2. CASE k = h
        BY <2>1, <2>3, <4>1, <4>2, Zenon
      <4>3. CASE k # h
        <5>1. pc[k] = "validate" /\ x = local[k].grant
          BY <2>3, <4>1, <4>3, Zenon DEF Others
        <5> QED
          BY <5>1, TakenIs, Zenon
      <4> QED
        BY <4>2, <4>3
    <3>2. ASSUME NEW x, x \in Taken PROVE x \in Taken'
      <4>1. PICK k \in Handlers : pc[k] = "validate" /\ x = local[k].grant
        BY <3>2, TakenIs, Zenon
      <4>2. k # h
        BY <1>1, <4>1
      <4>3. pc'[k] = pc[k] /\ local'[k] = local[k]
        BY <2>3, <4>2, Zenon DEF Others
      <4> QED
        BY <4>1, <4>3, TakenIs, Zenon
    <3>3. g \in Taken'
      BY <2>1, <2>3, TakenIs, Zenon
    <3> QED
      BY <3>1, <3>2, <3>3, Zenon
  <2>8. Ticket' = Ticket \ {<<c, t>>} /\ <<c, t>> \in Ticket
    <3>1. ASSUME NEW x, x \in Ticket' PROVE x \in Ticket /\ x # <<c, t>>
      <4>1. PICK d \in Codes : codes'[d] # NoBlob /\ x = <<d, codes'[d].session>>
        BY <3>1, TicketIs, Zenon
      <4>2. d # c
        BY <1>2, <4>1, Zenon
      <4>3. x # <<c, t>>
        BY <4>1, <4>2
      <4> QED
        BY <1>2, <4>1, <4>2, <4>3, TicketIs, Zenon
    <3>2. ASSUME NEW x, x \in Ticket, x # <<c, t>> PROVE x \in Ticket'
      <4>1. PICK d \in Codes : codes[d] # NoBlob /\ x = <<d, codes[d].session>>
        BY <3>2, TicketIs, Zenon
      <4>2. d # c
        BY <3>2, <4>1, Zenon
      <4> QED
        BY <1>2, <4>1, <4>2, TicketIs, Zenon
    <3>3. <<c, t>> \in Ticket
      BY <1>1, TicketIs, Zenon
    <3> QED
      BY <3>1, <3>2, <3>3, Zenon
  <2> HIDE DEF t
  <2>9. Lifecycle!Redeem(c, t)
    <3>1. g \in Taken'
      BY <2>7, Zenon
    <3> QED
      BY <1>1, <1>3, <2>1, <2>4, <2>6, <2>7, <2>8, <3>1, Zenon DEF Lifecycle!Redeem
  <2>10. \E x \in Ticket : Lifecycle!Redeem(x[1], x[2])
    <3>1. <<c, t>>[1] = c /\ <<c, t>>[2] = t
      OBVIOUS
    <3> QED
      BY <2>8, <2>9, <3>1, Zenon
  <2> QED
    BY <2>10, Zenon DEF Lifecycle!Next
<1> QED
  BY <1>4, <1>5, Zenon DEF TakeCode

(* The exchange answers the grant its handler holds, and nobody else does. *)
LEMMA ExchangeAnswers ==
    ASSUME Typed, InOnePlace, NEW h \in Handlers, Exchange(h)
    PROVE  Lifecycle!Next
<1> DEFINE g == local[h].grant
<1>1. /\ pc[h] = "validate" /\ Finish(h) /\ grants' = grants \cup {g}
      /\ UNCHANGED <<codes, token, minted>>
  BY Zenon DEF Exchange, stores
<1>2. pc'[h] = "idle" /\ Others(h)
  BY <1>1, MovedTo, Zenon DEF Finish
<1>3. Held(h) = g.session /\ Held(h) # 0
  <2>1. g.session \in Sessions
    BY Zenon DEF Exchange, IsValid, Typed, TypeOK
  <2>2. 0 \notin Sessions
    BY MadeFacts
  <2>3. Held(h) = g.session
    BY <1>1 DEF Held
  <2> QED
    BY <2>1, <2>2, <2>3, Zenon
<1>4. \A k \in Handlers : pc[k] = "validate" /\ local[k].grant = g => k = h
  <2> SUFFICES ASSUME NEW k \in Handlers, pc[k] = "validate", local[k].grant = g
               PROVE  k = h
    BY Zenon
  <2>1. Held(k) = g.session
    BY DEF Held
  <2> QED
    BY <1>3, <2>1, Zenon DEF InOnePlace
<1> HIDE DEF g
<1>5. Taken' = Taken \ {g} /\ g \in Taken
  <2>1. ASSUME NEW x, x \in Taken' PROVE x \in Taken /\ x # g
    <3>1. PICK k \in Handlers : pc'[k] = "validate" /\ x = local'[k].grant
      BY <2>1, TakenIs, Zenon
    <3>2. k # h
      BY <1>2, <3>1
    <3>3. pc[k] = "validate" /\ x = local[k].grant
      BY <1>2, <3>1, <3>2, Zenon DEF Others
    <3> QED
      BY <1>4, <3>2, <3>3, TakenIs, Zenon
  <2>2. ASSUME NEW x, x \in Taken, x # g PROVE x \in Taken'
    <3>1. PICK k \in Handlers : pc[k] = "validate" /\ x = local[k].grant
      BY <2>2, TakenIs, Zenon
    <3>2. k # h
      BY <2>2, <3>1, Zenon DEF g
    <3>3. pc'[k] = "validate" /\ x = local'[k].grant
      BY <1>2, <3>1, <3>2, Zenon DEF Others
    <3> QED
      BY <3>3, TakenIs, Zenon
  <2>3. g \in Taken
    BY <1>1, TakenIs, Zenon DEF g
  <2> QED
    BY <2>1, <2>2, <2>3, Zenon
<1>6. Unused' = Unused /\ Ticket' = Ticket
  BY <1>1, Zenon DEF Unused, Ticket
<1>7. Lifecycle!Answer(g)
  BY <1>1, <1>5, <1>6, Zenon DEF Lifecycle!Answer
<1> QED
  BY <1>5, <1>7, Zenon DEF Lifecycle!Next

(* The steps of the sign-ins that only read or park.                       *)
LEMMA QuietHandler ==
    ASSUME Typed, NEW h \in Handlers,
           NEW x \in {"read", "remove", "bind"}, Goto(h, x),
           \A g \in Handlers \ {h} : local'[g] = local[g],
           UNCHANGED <<codes, token, minted, grants>>
    PROVE  Lifecycle!Next
<1>1. pc'[h] = x /\ x # "validate" /\ \A g \in Handlers \ {h} : pc'[g] = pc[g]
  BY Zenon DEF Goto, Typed, TypeOK
<1>2. \A g \in Handlers :
         pc'[g] = "validate" => pc[g] = "validate" /\ local'[g] = local[g]
  BY <1>1, Zenon
<1>3. Unused' = Unused
  BY Zenon DEF Unused
<1>4. HandsNothing
  BY <1>2, <1>3, Zenon DEF HandsNothing
<1> QED
  BY <1>4, HandsNothingLoses, Zenon DEF Lifecycle!Next

(* The first step of a request.                                            *)
LEMMA ArriveLifecycle ==
    ASSUME Typed, Binding, NEW h \in Handlers, Arrive(h)
    PROVE  Lifecycle!Next \/ UNCHANGED Lifecycle!lifecycle
<1>1. ASSUME NEW b \in Browsers, NEW s \in States, NEW u,
             Session(h, b, s) \/ SignIn(h, b, s, u)
      PROVE  Lifecycle!Next
  <2>1. Goto(h, "read") /\ UNCHANGED <<codes, token, minted, grants>>
    BY <1>1, Zenon DEF Session, SignIn, stores, ghosts
  <2>2. \A g \in Handlers \ {h} : local'[g] = local[g]
    BY <1>1, Zenon DEF Session, SignIn, Typed, TypeOK
  <2> QED
    BY <2>1, <2>2, QuietHandler, Zenon
<1>2. ASSUME NEW b \in Browsers, NEW s \in States, NEW u \in Users,
             OAuthCallback(h, b, s, u)
      PROVE  Lifecycle!Next \/ UNCHANGED Lifecycle!lifecycle
  <2>1. UNCHANGED <<codes, token, minted, grants>>
    BY <1>2, Zenon DEF OAuthCallback, ghosts
  <2>2. CASE Goto(h, "bind") /\ \A g \in Handlers \ {h} : local'[g] = local[g]
    BY <2>1, <2>2, QuietHandler, Zenon
  <2>3. CASE UNCHANGED <<pc, local>>
    <3>1. Unused' = Unused /\ Ticket' = Ticket /\ Taken' = Taken
      BY <2>1, <2>3, Zenon DEF Unused, Ticket, Taken
    <3> QED
      BY <2>1, <3>1, Zenon DEF Lifecycle!lifecycle
  <2>4. \/ Goto(h, "bind") /\ \A g \in Handlers \ {h} : local'[g] = local[g]
        \/ UNCHANGED <<pc, local>>
    BY <1>2, Zenon DEF OAuthCallback, Typed, TypeOK
  <2> QED
    BY <2>2, <2>3, <2>4
<1> QED
  BY <1>1, <1>2, AuthorizeAsks, TakeRedeems, Zenon DEF Arrive

(* The later steps of a request.                                           *)
LEMMA StepLifecycle ==
    ASSUME Typed, Binding, InOnePlace, Owned, NEW h \in Handlers, Step(h)
    PROVE  Lifecycle!Next
<1>1. CASE GetState(h)
  <2>1. UNCHANGED <<codes, token, minted, grants>>
    BY <1>1, Zenon DEF GetState, stores, ghosts
  <2>2. \A g \in Handlers \ {h} : local'[g] = local[g]
    BY <1>1, Zenon DEF GetState, Typed, TypeOK
  <2>3. Goto(h, "bind") \/ Goto(h, "remove")
    BY <1>1, Zenon DEF GetState
  <2> QED
    BY <2>1, <2>2, <2>3, QuietHandler, Zenon
<1>2. CASE ~GetState(h) /\ ~BindCode(h) /\ ~Exchange(h)
  <2>1. BindsNothing
    BY <1>2, StepBindsNothing, Zenon
  <2>2. token' = token
    BY <1>2, Zenon DEF Step, SignInFirst, ForceReauth, RenderConsent, PassConsent,
       Rollover, RemoveState, Withhold, BindFails, Persist, PersistFails, Retire,
       Respond, RefuseSession
  <2>3. Unused' = Unused
    BY <2>2, Zenon DEF Unused
  <2>4. HandsNothing
    BY <2>1, <2>3, Zenon DEF HandsNothing, BindsNothing
  <2> QED
    BY <2>4, HandsNothingLoses, Zenon DEF Lifecycle!Next
<1> QED
  BY <1>1, <1>2, BindIssues, ExchangeAnswers, Zenon

(* Every step of the flow is a step of the one-time code, or leaves it     *)
(* alone.                                                                  *)
LEMMA NextLifecycle ==
    Typed /\ Binding /\ InOnePlace /\ Owned /\ [Next]_vars
       => [Lifecycle!Next]_(Lifecycle!lifecycle)
<1> SUFFICES ASSUME Typed, Binding, InOnePlace, Owned, [Next]_vars
             PROVE  Lifecycle!Next \/ UNCHANGED Lifecycle!lifecycle
  BY Zenon
<1>1. CASE \/ \E b \in Browsers, c \in Codes : Consent(b, c)
           \/ \E b \in Browsers : Logout(b)
           \/ \E s \in States : ExpireParked(s)
           \/ UNCHANGED vars
  <2>1. UNCHANGED <<codes, token, pc, local, minted, grants>>
    BY <1>1, Zenon DEF Consent, Logout, ExpireParked, vars, stores, ghosts
  <2>2. Unused' = Unused /\ Ticket' = Ticket /\ Taken' = Taken
    BY <2>1, Zenon DEF Unused, Ticket, Taken
  <2> QED
    BY <2>1, <2>2, Zenon DEF Lifecycle!lifecycle
<1>2. ASSUME NEW c \in Codes, ExpireCode(c) PROVE Lifecycle!Next
  <2>1. UNCHANGED <<token, pc, local, minted, grants>>
    BY <1>2, Zenon DEF ExpireCode, ghosts
  <2>2. \A d \in Codes : codes'[d] \in {codes[d], NoBlob}
    BY <1>2, Zenon DEF ExpireCode, Typed, TypeOK
  <2>3. Unused' = Unused
    BY <2>1, Zenon DEF Unused
  <2>4. HandsNothing
    BY <2>1, <2>2, <2>3, Zenon DEF HandsNothing
  <2> QED
    BY <2>4, HandsNothingLoses, Zenon DEF Lifecycle!Next
<1> QED
  BY <1>1, <1>2, ArriveLifecycle, StepLifecycle, Zenon DEF Next

(* At the start there is nothing to redeem.                                *)
LEMMA InitLifecycle == Init => Lifecycle!Init
<1> SUFFICES ASSUME Init PROVE Lifecycle!Init
  OBVIOUS
<1>1. minted = [c \in Codes |-> Empty] /\ grants = {} /\ Unused \subseteq Sessions
  BY Zenon DEF Init, Unused
<1>2. Ticket = {}
  BY TicketIs, Zenon DEF Init
<1>3. Taken = {}
  <2>1. \A h \in Handlers : pc[h] # "validate"
    BY DEF Init
  <2> QED
    BY <2>1, TakenIs, Zenon
<1> QED
  BY <1>1, <1>2, <1>3, Zenon DEF Lifecycle!Init

(* The flow, with its parked requests, its non-atomic sign-ins, expiry and *)
(* failing stores, implements one-time codes: a code is made redeemable    *)
(* only by a completed sign-in with a session no code had before, one      *)
(* token request at most redeems it, in the same step in which it is used  *)
(* up, and is answered only with what the /authorize request asked for.    *)
THEOREM FlowIsOneTimeCode == Spec => ImplementsOneTimeCode
<1>1. Typed /\ Owned /\ [Next]_vars => Owned'
  BY KeepsNext, Zenon DEF KeepsAll
<1> QED
  BY <1>1, TypedInit, TypedNext, BindingInit, BindingNext, PlacesInit, PlacesNext,
     OwnedInit, InitLifecycle, NextLifecycle, PTL
     DEF Spec, ImplementsOneTimeCode, Lifecycle!Spec

=============================================================================
