------------------------ MODULE RefreshRotationInvariant -----------------------
(***************************************************************************)
(* The inductive invariant of refresh-token rotation, that it holds        *)
(* initially, and that the calls of a handler up to minting preserve it.   *)
(*                                                                         *)
(* The argument: at any moment at most one party, the store or a single    *)
(* request, holds the right to continue a lineage from a given token.      *)
(* ClaimRefreshToken moves the right from the store to the request that    *)
(* removed the entry, minting moves it on to the successor, PutRefresh     *)
(* moves it back into the store.  The holder's token is always the newest  *)
(* of its family and has no successor.                                     *)
(***************************************************************************)
EXTENDS RefreshRotation, TLAPS

ConsumedLabels == {"ret_session", "ret_access", "ret_refresh", "load"}
StoringLabels == {"put_session", "put_access", "put_refresh"}
DeleteLabels == {"del_session", "del_access", "del_refresh"}

(* Request r may continue the lineage of n: it has consumed n and minted   *)
(* nothing yet, or it has minted n and not yet stored its refresh entry.   *)
Holds(r, n) ==
    \/ req[r].pc \in ConsumedLabels /\ req[r].cur = n
    \/ req[r].pc \in StoringLabels /\ req[r].fresh = n

Newest(n) ==
    \A m \in Nonces : SameFamily(m, n) /\ m # n => token[m].gen < token[n].gen

Childless(n) == \A m \in Nonces : Minted(m) => token[m].parent # n

(* The right to continue from n is exclusive, and n is a tip. *)
TipOK ==
    \A n \in Nonces :
        Live(n) \/ (\E r \in Requests : Holds(r, n)) =>
            Minted(n) /\ Newest(n) /\ Childless(n)

Exclusive ==
    \A n \in Nonces, r \in Requests :
        Holds(r, n) => ~Live(n) /\ \A q \in Requests : Holds(q, n) => q = r

(* What a request's locals say at each of its calls. *)
LocalOK(r) ==
    /\ req[r].pc \in {"claim", "reuse", "ret_session", "ret_access", "ret_refresh"}
         => req[r].cur \in Nonces
    /\ req[r].cur \in Nonces => Minted(req[r].cur)
    /\ req[r].fresh \in Nonces <=> req[r].pc \in StoringLabels \cup {"put_family"}
    /\ req[r].fresh \in Nonces =>
         /\ Minted(req[r].fresh)
         /\ ~HandedOut(req[r].fresh)
         /\ token[req[r].fresh].fam \in Families
         /\ token[req[r].fresh].parent = req[r].cur
         /\ \A q \in Requests : req[q].fresh = req[r].fresh => q = r

LocalsOK == \A r \in Requests : LocalOK(r)

(* Only minted tokens are handed out or rotated. *)
TokensOK ==
    \A n \in Nonces :
        /\ HandedOut(n) => Minted(n)
        /\ Minted(n) /\ token[n].parent # NoNonce => Minted(token[n].parent)

(* A family record describes the rotation that produced its live nonce. *)
RecordsOK ==
    \A f \in Families :
        LET v == record[f].live
        IN  v # NoNonce =>
              /\ Minted(v) /\ HandedOut(v)
              /\ token[v].fam = f
              /\ token[v].parent = record[f].prev
              /\ issuedAt[v] = record[f].at

(* A replay handler that has decided to revoke had reason to. *)
RevokingOK ==
    \A r \in Requests :
        LET n == req[r].cur
            v == req[r].victim
        IN  Revoking(r) =>
              /\ n \in Nonces /\ v \in Nonces
              /\ SameFamily(n, v) /\ HandedOut(v)
              /\ token[v].parent = n => now - issuedAt[v] > GraceWindow

IInv ==
    /\ TypeOK /\ TokensOK /\ LocalsOK
    /\ TipOK /\ Exclusive /\ SingleSuccessor /\ FamilyKeepsGrant
    /\ RecordsOK /\ RevokingOK

-----------------------------------------------------------------------------
(* Types.                                                                  *)

USE DEF Idle, At, Minted, HandedOut, Presentable, NoFault, Fault

(* The initial state is well typed. *)
LEMMA InitTypeOK == Init => TypeOK
<1> SUFFICES ASSUME Init PROVE TypeOK
  OBVIOUS
<1>1. record \in [Families -> FamilyRecord]
  BY DEF Init, FamilyRecord, NoRecord
<1>2. token \in [Nonces -> Claims]
  BY DEF Init, Claims
<1>3. req \in [Requests -> Request]
  BY DEF Init, Request, NoRequest, Labels
<1>4. store \subseteq Kinds \X Nonces
  BY ConstantAssumption DEF Init, Kinds
<1>5. issuedAt \in [Nonces -> Nat \cup {-1}]
  BY DEF Init
<1> QED
  BY <1>1, <1>2, <1>3, <1>4, <1>5, Zenon DEF Init, TypeOK

(* Every call of a handler keeps the state well typed. *)
LEMMA HandlerTypeOK ==
    ASSUME TypeOK, LocalsOK, NEW r \in Requests, Handler(r)
    PROVE  TypeOK'
<1> USE ConstantAssumption
<1> USE DEF TypeOK, Kinds, Labels, Request, NoRequest, Begin, Goto, Done, others
<1>1. CASE \E n \in Nonces : RefreshValidate(r, n) \/ Logout(r, n) \/ RevokeToken(r, n)
  BY <1>1 DEF RefreshValidate, Logout, RevokeToken
<1>2. CASE HandleReuse(r)
  <2>1. /\ req[r].cur \in Nonces
        /\ token[req[r].cur].fam # NoFamily
             => record[token[req[r].cur].fam].live \in Nonces \cup {NoNonce}
    BY <1>2 DEF HandleReuse, LocalsOK, LocalOK, Claims, FamilyRecord
  <2>2. Done(r) \/ Begin(r, "del_session", req[r].cur, record[token[req[r].cur].fam].live)
    BY <1>2, Zenon DEF HandleReuse
  <2>3. ~Done(r) => token[req[r].cur].fam # NoFamily
    BY <1>2 DEF HandleReuse, Tolerated
  <2>4. req' \in [Requests -> Request]
    BY <2>1, <2>2, <2>3
  <2> QED
    BY <1>2, <2>4 DEF HandleReuse
<1>3. CASE ClaimRefreshToken(r)
  BY <1>3 DEF ClaimRefreshToken
<1>4. CASE CodeGrant(r)
  BY <1>4 DEF CodeGrant
<1>5. CASE LoadUserAndMint(r)
  <2>1. CASE \E m \in Nonces, f \in Families, g \in Grants :
               /\ token' = [token EXCEPT ![m] = NewClaims(req[r].cur, f, g)]
               /\ req' = [req EXCEPT ![r] =
                            [pc |-> IF req[r].cur = NoNonce THEN "put_access" ELSE "put_session",
                             cur |-> req[r].cur, victim |-> NoNonce, fresh |-> m]]
    <3>1. PICK m \in Nonces, f \in Families, g \in Grants :
               /\ token' = [token EXCEPT ![m] = NewClaims(req[r].cur, f, g)]
               /\ req' = [req EXCEPT ![r] =
                            [pc |-> IF req[r].cur = NoNonce THEN "put_access" ELSE "put_session",
                             cur |-> req[r].cur, victim |-> NoNonce, fresh |-> m]]
      BY <2>1, Zenon
    <3>2. NewClaims(req[r].cur, f, g) \in Claims
      BY DEF NewClaims, Claims
    <3>3. token' \in [Nonces -> Claims] /\ req' \in [Requests -> Request]
      BY <3>1, <3>2
    <3> QED
      BY <1>5, <3>3 DEF LoadUserAndMint
  <2>2. CASE Done(r) /\ UNCHANGED token
    BY <1>5, <2>2 DEF LoadUserAndMint
  <2> QED
    BY <1>5, <2>1, <2>2 DEF LoadUserAndMint
<1>6. CASE DeleteUserSession(r)
  BY <1>6 DEF DeleteUserSession, DeleteEntry
<1>7. CASE RetireOldSession(r)
  BY <1>7 DEF RetireOldSession, DeleteEntry
<1>8. CASE PersistSession(r)
  <2>1. CASE \/ PutEntry(r, "put_session", "session", "put_access")
             \/ PutEntry(r, "put_access", "access", "put_refresh")
    BY <2>1 DEF PutEntry, LocalsOK, LocalOK, StoringLabels
  <2>2. CASE PutRefresh(r)
    BY <2>2 DEF PutRefresh, LocalsOK, LocalOK, StoringLabels
  <2>3. CASE PutFamily(r)
    <3>1. req[r].fresh \in Nonces /\ req[r].cur \in Nonces \cup {NoNonce}
      BY <2>3 DEF PutFamily, LocalsOK, LocalOK
    <3>2. record' \in [Families -> FamilyRecord]
      <4>1. /\ NoRecord \in FamilyRecord
            /\ [live |-> req[r].fresh, prev |-> req[r].cur, at |-> now] \in FamilyRecord
        BY <3>1 DEF FamilyRecord, NoRecord
      <4>2. PICK rec \in {record[token[req[r].fresh].fam], NoRecord,
                          [live |-> req[r].fresh, prev |-> req[r].cur, at |-> now]} :
                   record' = [record EXCEPT ![token[req[r].fresh].fam] = rec]
        BY <2>3, Zenon DEF PutFamily
      <4> QED
        BY <4>1, <4>2, Zenon
    <3>3. /\ req' \in [Requests -> Request] /\ issuedAt' \in [Nonces -> Nat \cup {-1}]
          /\ faults' \in Nat
      <4>1. /\ Done(r) /\ (NoFault \/ Fault)
            /\ \/ issuedAt' = issuedAt
               \/ issuedAt' = [issuedAt EXCEPT ![req[r].fresh] = now]
        BY <2>3, Zenon DEF PutFamily
      <4>2. req' \in [Requests -> Request]
        BY <4>1
      <4>3. faults' \in Nat
        BY <4>1
      <4>4. issuedAt' \in [Nonces -> Nat \cup {-1}]
        BY <4>1
      <4> QED
        BY <4>2, <4>3, <4>4, Zenon
    <3> QED
      BY <2>3, <3>2, <3>3, Zenon DEF PutFamily
  <2> QED
    BY <1>8, <2>1, <2>2, <2>3 DEF PersistSession
<1>9. CASE Crash(r)
  BY <1>9 DEF Crash
<1> QED
  BY <1>1, <1>2, <1>3, <1>4, <1>5, <1>6, <1>7, <1>8, <1>9 DEF Handler

(* So do the administrative operations and the passing of time. *)
LEMMA OtherTypeOK ==
    ASSUME TypeOK, Administration \/ Time
    PROVE  TypeOK'
<1>1. CASE ResetPassword \/ Sweep
  <2>1. record' \in [Families -> FamilyRecord]
    BY <1>1 DEF TypeOK, ResetPassword, Sweep, DeleteAllUserSessions, FamilyRecord, NoRecord
  <2>2. sweeping' \in BOOLEAN
    BY <1>1, Zenon DEF TypeOK, ResetPassword, Sweep
  <2>3. store' \subseteq Kinds \X Nonces /\ swept' \subseteq Families
    BY <1>1 DEF TypeOK, ResetPassword, Sweep, DeleteAllUserSessions
  <2>4. faults' \in Nat
    BY <1>1, ConstantAssumption DEF TypeOK, ResetPassword, Sweep
  <2>5. UNCHANGED <<token, issuedAt, expired, req, user, now>>
    BY <1>1, Zenon DEF ResetPassword, Sweep
  <2> QED
    BY <2>1, <2>2, <2>3, <2>4, <2>5, Zenon DEF TypeOK
<1>2. CASE RevokeAccess \/ EnableAccess \/ DeleteUser \/ Tick
  <2>1. sweeping' \in BOOLEAN /\ user' \in {"active", "revoked", "deleted"}
    BY <1>2, Zenon DEF TypeOK, RevokeAccess, EnableAccess, DeleteUser, Tick
  <2>2. now' \in Nat
    BY <1>2 DEF TypeOK, RevokeAccess, EnableAccess, DeleteUser, Tick
  <2>3. UNCHANGED <<store, record, token, issuedAt, expired, req, faults, swept>>
    BY <1>2, Zenon DEF RevokeAccess, EnableAccess, DeleteUser, Tick
  <2> QED
    BY <2>1, <2>2, <2>3, Zenon DEF TypeOK
<1>3. CASE \E n \in Nonces : Expire(n)
  <2>1. record' \in [Families -> FamilyRecord]
    BY <1>3 DEF TypeOK, Expire, FamilyRecord, NoRecord
  <2> QED
    BY <1>3, <2>1 DEF TypeOK, Expire
<1>4. CASE \E n \in Nonces, kind \in Kinds : Lapse(kind, n)
  BY <1>4 DEF TypeOK, Lapse
<1>5. CASE \E f \in Families : LapseRecord(f)
  <2>1. record' \in [Families -> FamilyRecord]
    BY <1>5 DEF TypeOK, LapseRecord, FamilyRecord, NoRecord
  <2> QED
    BY <1>5, <2>1 DEF TypeOK, LapseRecord
<1> QED
  BY <1>1, <1>2, <1>3, <1>4, <1>5 DEF Administration, Time

-----------------------------------------------------------------------------
(* Frame lemmas: what a step that touches little preserves.                *)

(* A step that mints nothing and gives nobody a new right to continue a    *)
(* lineage keeps every lineage intact: deletes, expiry, failures, crashes. *)
LEMMA LineageFrame ==
    ASSUME TipOK, Exclusive, SingleSuccessor, FamilyKeepsGrant,
           UNCHANGED token,
           \A n \in Nonces : Live(n)' => Live(n),
           \A q \in Requests, n \in Nonces : Holds(q, n)' => Holds(q, n)
    PROVE  TipOK' /\ Exclusive' /\ SingleSuccessor' /\ FamilyKeepsGrant'
<1>1. \A m, n \in Nonces : SameFamily(m, n)' <=> SameFamily(m, n)
  BY DEF SameFamily
<1>2. \A n \in Nonces : (Newest(n) => Newest(n)') /\ (Childless(n) => Childless(n)')
  BY <1>1 DEF Newest, Childless
<1>3. TipOK'
  BY <1>2 DEF TipOK
<1>4. Exclusive'
  BY DEF Exclusive
<1>5. SingleSuccessor' /\ FamilyKeepsGrant'
  BY <1>1 DEF SingleSuccessor, FamilyKeepsGrant
<1> QED
  BY <1>3, <1>4, <1>5

(* A step that hands out nothing and at most forgets family records keeps  *)
(* the remaining records true.                                             *)
LEMMA RecordsFrame ==
    ASSUME TokensOK, RecordsOK, UNCHANGED <<token, issuedAt>>,
           \A f \in Families : record'[f] = record[f] \/ record'[f].live = NoNonce
    PROVE  TokensOK' /\ RecordsOK'
  BY DEF TokensOK, RecordsOK

(* A step of no request, while time does not run backwards, keeps what the *)
(* requests know.                                                          *)
LEMMA RequestsFrame ==
    ASSUME TypeOK, LocalsOK, RevokingOK, UNCHANGED <<token, issuedAt, req>>,
           now' \in Nat, now' >= now
    PROVE  LocalsOK' /\ RevokingOK'
<1>1. LocalsOK'
  BY DEF LocalsOK, LocalOK
<1>2. ASSUME NEW r \in Requests, Revoking(r), req[r].victim \in Nonces,
             token[req[r].victim].parent = req[r].cur,
             now - issuedAt[req[r].victim] > GraceWindow
      PROVE  now' - issuedAt[req[r].victim] > GraceWindow
  BY <1>2, ConstantAssumption DEF TypeOK
<1>3. RevokingOK'
  BY <1>2 DEF RevokingOK, Revoking, SameFamily
<1> QED
  BY <1>1, <1>3

-----------------------------------------------------------------------------
(* The inductive invariant holds initially and is preserved.               *)

USE DEF ConsumedLabels, StoringLabels, DeleteLabels

(* The initial state, with its legacy tokens, satisfies the invariant. *)
LEMMA InitIInv == Init => IInv
<1> SUFFICES ASSUME Init PROVE IInv
  OBVIOUS
<1>1. /\ \A r \in Requests : req[r] = NoRequest
      /\ \A f \in Families : record[f].live = NoNonce
  BY DEF Init, NoRecord
<1>2. \A n \in Nonces : /\ token[n].fam = NoFamily
                        /\ token[n].parent = NoNonce
                        /\ Minted(n) <=> n \in LegacyNonces
                        /\ HandedOut(n) <=> n \in LegacyNonces
                        /\ Live(n) <=> n \in LegacyNonces
  BY ConstantAssumption DEF Init, Live
<1>3. TokensOK /\ RecordsOK
  BY <1>1, <1>2 DEF TokensOK, RecordsOK
<1>4. LocalsOK /\ RevokingOK
  BY <1>1, ConstantAssumption DEF LocalsOK, LocalOK, RevokingOK, Revoking, NoRequest
<1>5. TipOK /\ Exclusive
  BY <1>1, <1>2, ConstantAssumption
  DEF TipOK, Exclusive, Holds, NoRequest, Newest, Childless, SameFamily
<1>6. SingleSuccessor /\ FamilyKeepsGrant
  BY <1>2 DEF SingleSuccessor, FamilyKeepsGrant, SameFamily
<1> QED
  BY <1>3, <1>4, <1>5, <1>6, InitTypeOK DEF IInv

(* Administrative operations and the passing of time preserve it: they    *)
(* only take entries and records away.                                     *)
LEMMA OtherIInv ==
    ASSUME IInv, Administration \/ Time
    PROVE  IInv'
<1>1. TypeOK'
  BY OtherTypeOK DEF IInv
<1>2. UNCHANGED <<token, issuedAt, req>> /\ now' \in Nat /\ now' >= now
  <2>1. UNCHANGED <<token, issuedAt, req>> /\ (Tick \/ UNCHANGED now)
    BY Zenon DEF Administration, Time, ResetPassword, RevokeAccess, EnableAccess,
           DeleteUser, Sweep, Tick, Expire, Lapse, LapseRecord
  <2>2. now \in Nat
    BY DEF IInv, TypeOK
  <2> QED
    BY <2>1, <2>2 DEF Tick
<1>3. \A n \in Nonces : Live(n)' => Live(n)
  BY Zenon DEF Administration, Time, ResetPassword, RevokeAccess, EnableAccess,
         DeleteUser, Sweep, DeleteAllUserSessions, Tick, Expire, Lapse, LapseRecord, Live
<1>4. \A f \in Families : record'[f] = record[f] \/ record'[f].live = NoNonce
  <2>1. \/ UNCHANGED record
        \/ DeleteAllUserSessions
        \/ \E n \in Nonces : Expire(n)
        \/ \E f \in Families : LapseRecord(f)
    BY Zenon DEF Administration, Time, ResetPassword, RevokeAccess, EnableAccess,
           DeleteUser, Sweep, Tick, Lapse
  <2> QED
    BY <2>1 DEF IInv, TypeOK, DeleteAllUserSessions, Expire, LapseRecord, NoRecord
<1>5. \A q \in Requests, n \in Nonces : Holds(q, n)' => Holds(q, n)
  BY <1>2 DEF Holds
<1>6. TipOK' /\ Exclusive' /\ SingleSuccessor' /\ FamilyKeepsGrant'
  BY <1>2, <1>3, <1>5, LineageFrame DEF IInv
<1>7. TokensOK' /\ RecordsOK'
  BY <1>2, <1>4, RecordsFrame DEF IInv
<1>8. LocalsOK' /\ RevokingOK'
  BY <1>2, RequestsFrame DEF IInv
<1> QED
  BY <1>1, <1>6, <1>7, <1>8 DEF IInv

(* A call that leaves tokens, answers and records alone, adds no refresh   *)
(* entry and gives its request no right it did not have.  What is left to  *)
(* show for such a call is that the request's locals are consistent.       *)
LEMMA QuietStep ==
    ASSUME IInv, TypeOK', NEW r \in Requests, NEW s \in Request,
           req' = [req EXCEPT ![r] = s],
           UNCHANGED <<record, token, issuedAt, now>>,
           \A n \in Nonces : Live(n)' => Live(n),
           s.pc \in ConsumedLabels /\ s.cur # NoNonce
             => req[r].pc \in ConsumedLabels /\ s.cur = req[r].cur,
           s.pc \in {"claim", "reuse", "ret_session", "ret_access", "ret_refresh"}
             => s.cur \in Nonces,
           s.cur \in Nonces => Minted(s.cur),
           \/ s.fresh = NoNonce /\ s.pc \notin StoringLabels \cup {"put_family"}
           \/ /\ s.pc \in StoringLabels /\ req[r].pc \in StoringLabels
              /\ s.fresh = req[r].fresh /\ s.cur = req[r].cur,
           s.pc \in DeleteLabels /\ s.cur # s.victim =>
              /\ s.cur \in Nonces /\ s.victim \in Nonces
              /\ SameFamily(s.cur, s.victim) /\ HandedOut(s.victim)
              /\ token[s.victim].parent = s.cur
                   => now - issuedAt[s.victim] > GraceWindow
    PROVE  IInv'
<1> USE DEF IInv
<1>1. /\ req'[r] = s
      /\ \A q \in Requests : q # r => req'[q] = req[q]
  BY Zenon DEF TypeOK
<1>2. \A q \in Requests, n \in Nonces : Holds(q, n)' => Holds(q, n)
  BY <1>1, ConstantAssumption, Zenon DEF Holds
<1>3. TipOK' /\ Exclusive' /\ SingleSuccessor' /\ FamilyKeepsGrant'
  BY <1>2, LineageFrame, Zenon
<1>4. TokensOK' /\ RecordsOK'
  BY RecordsFrame, Zenon
<1>5. LocalsOK'
  <2> SUFFICES ASSUME NEW q \in Requests
               PROVE  /\ req'[q].pc \in {"claim", "reuse", "ret_session", "ret_access", "ret_refresh"}
                            => req'[q].cur \in Nonces
                      /\ req'[q].cur \in Nonces => Minted(req'[q].cur)
                      /\ req'[q].fresh \in Nonces <=> req'[q].pc \in StoringLabels \cup {"put_family"}
                      /\ req'[q].fresh \in Nonces =>
                           /\ Minted(req'[q].fresh)
                           /\ ~HandedOut(req'[q].fresh)
                           /\ token[req'[q].fresh].fam \in Families
                           /\ token[req'[q].fresh].parent = req'[q].cur
                           /\ \A p \in Requests : req'[p].fresh = req'[q].fresh => p = q
    BY Zenon DEF LocalsOK, LocalOK
  <2>1. \A p \in Requests : req'[p].fresh \in Nonces => req'[p].fresh = req[p].fresh
    BY <1>1, ConstantAssumption DEF LocalsOK, LocalOK
  <2>2. CASE q = r
    BY <1>1, <2>1, <2>2, ConstantAssumption, SMTT(30) DEF LocalsOK, LocalOK
  <2>3. CASE q # r
    BY <1>1, <2>1, <2>3, ConstantAssumption, SMTT(30) DEF LocalsOK, LocalOK
  <2> QED
    BY <2>2, <2>3, Zenon
<1>6. RevokingOK'
  BY <1>1, SMTT(30) DEF RevokingOK, Revoking, SameFamily
<1> QED
  BY <1>3, <1>4, <1>5, <1>6, Zenon

(* A handler that returns without having written anything. *)
LEMMA DoneStep ==
    ASSUME IInv, TypeOK', NEW r \in Requests, Done(r),
           UNCHANGED <<record, token, issuedAt, now>>,
           \A n \in Nonces : Live(n)' => Live(n)
    PROVE  IInv'
<1>1. NoRequest \in Request /\ req' = [req EXCEPT ![r] = NoRequest]
  BY DEF Done, NoRequest, Request, Labels
<1> QED
  BY <1>1, QuietStep, ConstantAssumption, Zenon DEF NoRequest

-----------------------------------------------------------------------------
(* The calls of a handler up to minting                                    *)

(* A handler that starts: a token is presented, or a session is ended. *)
LEMMA StartIInv ==
    ASSUME IInv, NEW r \in Requests,
           \/ \E n \in Nonces : RefreshValidate(r, n) \/ Logout(r, n) \/ RevokeToken(r, n)
           \/ CodeGrant(r)
    PROVE  IInv'
<1>1. TypeOK'
  BY HandlerTypeOK, Zenon DEF IInv, Handler
<1>2. UNCHANGED <<record, token, issuedAt, now, store>>
  BY Zenon DEF RefreshValidate, Logout, RevokeToken, CodeGrant, others
<1>3. \A n \in Nonces : Live(n)' => Live(n)
  BY <1>2 DEF Live
<1>4. ASSUME NEW n \in Nonces, RefreshValidate(r, n) \/ Logout(r, n) \/ RevokeToken(r, n)
      PROVE  IInv'
  <2>1. HandedOut(n) /\ Minted(n)
    BY <1>4 DEF IInv, TokensOK, RefreshValidate, Logout, RevokeToken
  <2>2. PICK l \in {"claim", "reuse", "del_session"}, v \in {n, NoNonce} :
           Begin(r, l, n, v) /\ (l = "del_session" => v = n)
    BY <1>4 DEF RefreshValidate, Logout, RevokeToken
  <2> DEFINE s == [pc |-> l, cur |-> n, victim |-> v, fresh |-> NoNonce]
  <2>3. s \in Request /\ req' = [req EXCEPT ![r] = s]
    BY <2>2 DEF Request, Labels, Begin
  <2>4. s.pc = l /\ s.cur = n /\ s.victim = v /\ s.fresh = NoNonce
    OBVIOUS
  <2> HIDE DEF s
  <2> QED
    BY <1>1, <1>2, <1>3, <2>1, <2>2, <2>3, <2>4, QuietStep, Zenon
<1>5. ASSUME CodeGrant(r) PROVE IInv'
  <2> DEFINE s == [pc |-> "load", cur |-> NoNonce, victim |-> NoNonce, fresh |-> NoNonce]
  <2>1. s \in Request /\ req' = [req EXCEPT ![r] = s]
    BY <1>5 DEF CodeGrant, Request, Labels, Begin
  <2>2. s.pc = "load" /\ s.cur = NoNonce /\ s.victim = NoNonce /\ s.fresh = NoNonce
    OBVIOUS
  <2> HIDE DEF s
  <2> QED
    BY <1>1, <1>2, <1>3, <2>1, <2>2, QuietStep, ConstantAssumption, Zenon
<1> QED
  BY <1>4, <1>5

(* The replay handler: either nothing happens, or the family record names  *)
(* a newer token and the grace window does not apply.                      *)
LEMMA ReuseIInv ==
    ASSUME IInv, NEW r \in Requests, HandleReuse(r)
    PROVE  IInv'
<1> DEFINE n == req[r].cur
           f == token[n].fam
           v == record[f].live
<1>1. TypeOK'
  BY HandlerTypeOK, Zenon DEF IInv, Handler
<1>2. UNCHANGED <<record, token, issuedAt, now, store>>
  BY Zenon DEF HandleReuse, others
<1>3. \A m \in Nonces : Live(m)' => Live(m)
  BY <1>2 DEF Live
<1>4. CASE Done(r)
  BY <1>1, <1>2, <1>3, <1>4, DoneStep
<1>5. CASE ~Tolerated(n) /\ Begin(r, "del_session", n, v)
  <2>1. n \in Nonces /\ Minted(n)
    BY Zenon DEF IInv, LocalsOK, LocalOK, HandleReuse
  <2>2. f \in Families
    <3>1. token[n] \in Claims
      BY <2>1 DEF IInv, TypeOK
    <3> QED
      BY <1>5, <3>1 DEF Claims, Tolerated
  <2>3. v \in Nonces /\ v # NoNonce /\ n # v
    BY <1>5, <2>2, Zenon DEF IInv, TypeOK, FamilyRecord, Tolerated
  <2>4. ~(n = record[f].prev /\ now - record[f].at <= GraceWindow)
    BY <1>5, <2>2, Zenon DEF Tolerated
  <2>5. /\ Minted(v) /\ HandedOut(v) /\ token[v].fam = f
        /\ token[v].parent = record[f].prev /\ issuedAt[v] = record[f].at
    BY <2>2, <2>3, Zenon DEF IInv, RecordsOK
  <2>6. SameFamily(n, v)
    BY <2>1, <2>2, <2>3, <2>5, ConstantAssumption, Zenon DEF SameFamily
  <2>7. token[v].parent = n => now - issuedAt[v] > GraceWindow
    <3>1. now \in Nat /\ record[f].at \in Nat
      BY <2>2 DEF IInv, TypeOK, FamilyRecord
    <3>2. GraceWindow \in Nat
      BY ConstantAssumption
    <3> HIDE DEF n, v, f
    <3> QED
      BY <2>4, <2>5, <3>1, <3>2
  <2> DEFINE s == [pc |-> "del_session", cur |-> n, victim |-> v, fresh |-> NoNonce]
  <2>8. s \in Request /\ req' = [req EXCEPT ![r] = s]
    BY <1>5, <2>1, <2>3 DEF Request, Labels, Begin
  <2>9. s.pc = "del_session" /\ s.cur = n /\ s.victim = v /\ s.fresh = NoNonce
    OBVIOUS
  <2> HIDE DEF s, n, v, f
  <2> QED
    BY <1>1, <1>2, <1>3, <2>1, <2>3, <2>5, <2>6, <2>7, <2>8, <2>9, QuietStep, Zenon
<1> QED
  BY <1>4, <1>5 DEF HandleReuse

(* The deletes of DeleteUserSession, the first two writes, and a crash. *)
LEMMA CallIInv ==
    ASSUME IInv, NEW r \in Requests,
           \/ DeleteUserSession(r) \/ RetireOldSession(r) \/ Crash(r)
           \/ PutEntry(r, "put_session", "session", "put_access")
           \/ PutEntry(r, "put_access", "access", "put_refresh")
    PROVE  IInv'
<1>1. TypeOK'
  BY HandlerTypeOK, Zenon DEF IInv, Handler, PersistSession
<1>2. UNCHANGED <<record, token, issuedAt, now>>
  BY Zenon DEF DeleteUserSession, RetireOldSession, DeleteEntry, PutEntry, Crash, others
<1>3. \A n \in Nonces : Live(n)' => Live(n)
  BY DEF DeleteUserSession, RetireOldSession, DeleteEntry, PutEntry, Crash, Live
<1>4. CASE Done(r)
  BY <1>1, <1>2, <1>3, <1>4, DoneStep
<1>5. ASSUME NEW l \in Labels, req' = [req EXCEPT ![r] = [req[r] EXCEPT !.pc = l]],
             \/ req[r].pc \in DeleteLabels /\ l \in DeleteLabels
             \/ req[r].pc \in ConsumedLabels \ {"load"} /\ l \in ConsumedLabels
             \/ req[r].pc \in StoringLabels /\ l \in StoringLabels
      PROVE  IInv'
  <2> DEFINE s == [req[r] EXCEPT !.pc = l]
  <2>1. req[r] \in Request
    BY DEF IInv, TypeOK
  <2>2. /\ s \in Request /\ req' = [req EXCEPT ![r] = s]
        /\ s.pc = l /\ s.cur = req[r].cur
        /\ s.victim = req[r].victim /\ s.fresh = req[r].fresh
    BY <1>5, <2>1 DEF Request
  <2> HIDE DEF s
  <2>3. /\ s.cur \in Nonces => Minted(s.cur)
        /\ l \in {"ret_session", "ret_access", "ret_refresh"} => s.cur \in Nonces
        /\ \/ s.fresh = NoNonce /\ l \notin StoringLabels
           \/ l \in StoringLabels /\ req[r].pc \in StoringLabels
    BY <1>5, <2>1, <2>2, ConstantAssumption DEF IInv, LocalsOK, LocalOK, Request
  <2>4. l \in DeleteLabels /\ s.cur # s.victim =>
          /\ s.cur \in Nonces /\ s.victim \in Nonces
          /\ SameFamily(s.cur, s.victim) /\ HandedOut(s.victim)
          /\ token[s.victim].parent = s.cur
               => now - issuedAt[s.victim] > GraceWindow
    BY <1>5, <2>2 DEF IInv, RevokingOK, Revoking
  <2>5. l \notin {"claim", "reuse", "put_family"}
    BY <1>5
  <2>6. l \in ConsumedLabels => req[r].pc \in ConsumedLabels
    BY <1>5
  <2> QED
    BY <1>1, <1>2, <1>3, <2>2, <2>3, <2>4, <2>5, <2>6, QuietStep, Zenon
<1>6. CASE ~Done(r)
  <2>1. CASE DeleteUserSession(r)
    BY <1>5, <1>6, <2>1 DEF DeleteUserSession, DeleteEntry, Goto, Labels
  <2>2. CASE RetireOldSession(r)
    BY <1>5, <1>6, <2>2 DEF RetireOldSession, DeleteEntry, Goto, Labels
  <2>3. CASE \/ PutEntry(r, "put_session", "session", "put_access")
             \/ PutEntry(r, "put_access", "access", "put_refresh")
    BY <1>5, <1>6, <2>3 DEF PutEntry, Goto, Labels
  <2> QED
    BY <1>6, <2>1, <2>2, <2>3 DEF Crash
<1> QED
  BY <1>4, <1>6

(* ClaimRefreshToken moves the right to continue from the store to the one *)
(* request whose delete removed the entry.                                 *)
LEMMA ClaimIInv ==
    ASSUME IInv, NEW r \in Requests, ClaimRefreshToken(r)
    PROVE  IInv'
<1>0. PICK n \in Nonces : n = req[r].cur
  BY DEF IInv, LocalsOK, LocalOK, ClaimRefreshToken
<1>1. TypeOK'
  BY HandlerTypeOK, Zenon DEF IInv, Handler
<1>2. UNCHANGED <<record, token, issuedAt, now>>
  BY Zenon DEF ClaimRefreshToken, others
<1>3. \A m \in Nonces : Live(m)' => Live(m)
  BY DEF ClaimRefreshToken, Live
<1>4. CASE Done(r)
  BY <1>1, <1>2, <1>3, <1>4, DoneStep
<1>5. CASE /\ Live(n) /\ store' = store \ {<<"refresh", n>>}
           /\ Begin(r, "ret_session", n, n)
  <2>1. n \in Nonces /\ Minted(n) /\ Newest(n) /\ Childless(n) /\ ~Live(n)'
    BY <1>0, <1>5 DEF IInv, LocalsOK, LocalOK, TipOK, Live
  <2>2. /\ req'[r] = [pc |-> "ret_session", cur |-> n, victim |-> n, fresh |-> NoNonce]
        /\ \A q \in Requests : q # r => req'[q] = req[q]
    BY <1>5 DEF IInv, TypeOK, Begin
  <2>3. \A m \in Nonces : Holds(r, m)' <=> m = n
    BY <2>1, <2>2 DEF Holds
  <2>4. \A q \in Requests, m \in Nonces : q # r => (Holds(q, m)' <=> Holds(q, m))
    BY <2>2 DEF Holds
  <2>5. \A q \in Requests : ~Holds(q, n)
    BY <1>5, <2>1 DEF IInv, Exclusive
  <2>6. \A m, k \in Nonces : SameFamily(m, k)' <=> SameFamily(m, k)
    BY <1>2 DEF SameFamily
  <2>7. \A m \in Nonces : (Newest(m) => Newest(m)') /\ (Childless(m) => Childless(m)')
    BY <1>2, <2>6 DEF Newest, Childless
  <2>8. TipOK'
    BY <1>2, <1>3, <2>1, <2>3, <2>4, <2>7 DEF IInv, TipOK
  <2>9. Exclusive'
    BY <1>3, <2>1, <2>3, <2>4, <2>5 DEF IInv, Exclusive
  <2>10. SingleSuccessor' /\ FamilyKeepsGrant'
    BY <1>2, <2>6 DEF IInv, SingleSuccessor, FamilyKeepsGrant
  <2>11. TokensOK' /\ RecordsOK'
    BY <1>2, RecordsFrame, Zenon DEF IInv
  <2>12. LocalsOK'
    <3>1. LocalsOK /\ NoNonce \notin Nonces
      BY ConstantAssumption, Zenon DEF IInv
    <3>2. /\ req'[r].pc = "ret_session" /\ req'[r].cur = n /\ req'[r].fresh = NoNonce
          /\ req'[r].pc \notin StoringLabels \cup {"put_family"}
      BY <2>2
    <3>3. token' = token /\ issuedAt' = issuedAt
      BY <1>2
    <3> QED
      <4>1. ASSUME NEW q \in Requests, q # r PROVE LocalOK(q)'
        <5>1. LocalOK(q) /\ req'[q] = req[q]
          BY <2>2, <3>1, <4>1 DEF LocalsOK
        <5>2. req[q].fresh \in Nonces => \A p \in Requests : req'[p].fresh = req[q].fresh => p = q
          BY <2>2, <3>1, <3>2, <5>1 DEF LocalOK
        <5> QED
          BY <3>3, <5>1, <5>2 DEF LocalOK
      <4>2. LocalOK(r)'
        BY <2>1, <3>1, <3>2, <3>3 DEF LocalOK
      <4> QED
        BY <4>1, <4>2 DEF LocalsOK
  <2>13. RevokingOK'
    <3>1. RevokingOK /\ token' = token /\ issuedAt' = issuedAt /\ now' = now
      BY <1>2, Zenon DEF IInv
    <3>2. ~Revoking(r)'
      <4>1. req'[r].pc = "ret_session"
        BY <2>2
      <4> QED
        BY <4>1 DEF Revoking
    <3>3. \A q \in Requests : q # r => (Revoking(q)' <=> Revoking(q))
      BY <2>2, Zenon DEF Revoking
    <3>4. \A m, k \in Nonces : SameFamily(m, k)' <=> SameFamily(m, k)
      BY <3>1, Zenon DEF SameFamily
    <3> QED
      BY <2>2, <3>1, <3>2, <3>3, <3>4, Zenon DEF RevokingOK
  <2> QED
    BY <1>1, <2>8, <2>9, <2>10, <2>11, <2>12, <2>13 DEF IInv
<1> QED
  BY <1>0, <1>4, <1>5 DEF ClaimRefreshToken, Live
================================================================================
