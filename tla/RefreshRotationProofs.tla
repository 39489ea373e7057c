------------------------- MODULE RefreshRotationProofs -------------------------
(***************************************************************************)
(* Safety of refresh-token rotation for any number of requests, tokens,    *)
(* families, faults and crashes.  First the calls that move the right to   *)
(* continue from the consumed token to its successor: minting it, storing  *)
(* its refresh entry and answering.                                        *)
(***************************************************************************)
EXTENDS RefreshRotationInvariant

USE DEF Idle, At, Minted, HandedOut, Presentable, NoFault, Fault
USE DEF ConsumedLabels, StoringLabels, DeleteLabels

(* Minting moves the right to continue from the consumed token to its      *)
(* successor, which becomes the newest token of the family.                *)
LEMMA MintIInv ==
    ASSUME IInv, NEW r \in Requests, LoadUserAndMint(r)
    PROVE  IInv'
<1>1. TypeOK'
  BY HandlerTypeOK, Zenon DEF IInv, Handler
<1>2. UNCHANGED <<store, record, issuedAt, now>>
  BY Zenon DEF LoadUserAndMint, others
<1>3. \A m \in Nonces : Live(m)' <=> Live(m)
  BY <1>2 DEF Live
<1>4. CASE Done(r) /\ UNCHANGED token
  BY <1>1, <1>2, <1>3, <1>4, DoneStep
<1>5. ASSUME NEW m \in Nonces, NEW f \in Families, NEW g \in Grants,
             NEW n \in Nonces \cup {NoNonce}, n = req[r].cur,
             ~Minted(m),
             n = NoNonce \/ token[n].fam = NoFamily => ~FamilyUsed(f),
             token' = [token EXCEPT ![m] = NewClaims(n, f, g)],
             req' = [req EXCEPT ![r] =
                       [pc |-> IF n = NoNonce THEN "put_access" ELSE "put_session",
                        cur |-> n, victim |-> NoNonce, fresh |-> m]]
      PROVE  IInv'
  <2> DEFINE c == NewClaims(n, f, g)
             S == StoringLabels \cup {"put_family"}
  <2>1. /\ token'[m] = c
        /\ \A k \in Nonces : k # m => token'[k] = token[k]
        /\ token \in [Nonces -> Claims]
    BY <1>5 DEF IInv, TypeOK
  <2>2. /\ req'[r].cur = n /\ req'[r].fresh = m /\ req'[r].victim = NoNonce
        /\ req'[r].pc \in {"put_access", "put_session"}
        /\ \A q \in Requests : q # r => req'[q] = req[q]
    BY <1>5 DEF IInv, TypeOK
  <2>3. /\ n # NoNonce => /\ n \in Nonces /\ Minted(n) /\ Holds(r, n)
                          /\ ~Live(n) /\ Newest(n) /\ Childless(n) /\ n # m
        /\ req[r].pc = "load"
    <3>1. req[r].pc = "load"
      BY DEF LoadUserAndMint
    <3>2. n # NoNonce => n \in Nonces /\ Holds(r, n)
      BY <1>5, <3>1, Zenon DEF Holds
    <3> QED
      BY <1>5, <3>1, <3>2 DEF IInv, LocalsOK, LocalOK, TipOK, Exclusive
  <2>4. /\ c.gen > 0 /\ c.gen \in Nat /\ c.parent = n /\ c.fam \in Families
        /\ n # NoNonce => c.gen > token[n].gen /\ c.grant = token[n].grant
        /\ n # NoNonce /\ token[n].fam # NoFamily => c.fam = token[n].fam
        /\ n = NoNonce \/ token[n].fam = NoFamily => c.fam = f
    BY <1>5, <2>1, <2>3 DEF NewClaims, Claims
  <2> HIDE DEF c
  (* The tokens of m's family are the tokens of n's family, or none. *)
  <2>5. \A k \in Nonces : Minted(k) /\ k # m /\ token[k].fam = c.fam =>
          n # NoNonce /\ (k = n \/ SameFamily(k, n))
    BY <1>5, <2>3, <2>4, ConstantAssumption DEF FamilyUsed, SameFamily
  <2>6. /\ Minted(m)'
        /\ \A k \in Nonces : k # m => (Minted(k)' <=> Minted(k))
    BY <2>1, <2>4
  <2>7. \A k \in Nonces : SameFamily(k, m)' /\ k # m =>
          /\ n # NoNonce /\ (k = n \/ SameFamily(k, n))
          /\ token[k].gen < c.gen /\ token[k].grant = c.grant
    <3> SUFFICES ASSUME NEW k \in Nonces, SameFamily(k, m)', k # m
                 PROVE  /\ n # NoNonce /\ (k = n \/ SameFamily(k, n))
                        /\ token[k].gen < c.gen /\ token[k].grant = c.grant
      OBVIOUS
    <3>1. n # NoNonce /\ (k = n \/ SameFamily(k, n))
      BY <2>1, <2>5, <2>6 DEF SameFamily
    <3>2. token[k].gen <= token[n].gen /\ token[k].grant = token[n].grant
      BY <2>1, <2>3, <3>1 DEF IInv, FamilyKeepsGrant, Newest, Claims
    <3>3. token[k].gen \in Nat /\ token[n].gen \in Nat
      BY <2>1, <2>3, <3>1 DEF Claims
    <3> QED
      BY <2>4, <3>1, <3>2, <3>3
  <2>8. \A k, l \in Nonces : k # m /\ l # m => (SameFamily(k, l)' <=> SameFamily(k, l))
    BY <2>1, <2>6 DEF SameFamily
  <2>9. \A k \in Nonces : Holds(r, k)' <=> k = m
    BY <2>2 DEF Holds
  <2>10. \A q \in Requests, k \in Nonces : q # r => (Holds(q, k)' <=> Holds(q, k))
    BY <2>2 DEF Holds
  <2>11. ~Live(m) /\ \A q \in Requests : ~Holds(q, m)
    BY <1>5 DEF IInv, TipOK
  (* Nobody else holds a token of n's family. *)
  <2>12. \A k \in Nonces : Live(k) \/ (\E q \in Requests : q # r /\ Holds(q, k)) =>
           (n # NoNonce => k # n /\ ~SameFamily(k, n))
    <3> SUFFICES ASSUME NEW k \in Nonces, n # NoNonce,
                        Live(k) \/ (\E q \in Requests : q # r /\ Holds(q, k))
                 PROVE  k # n /\ ~SameFamily(k, n)
      OBVIOUS
    <3>1. k # n
      BY <2>3 DEF IInv, Exclusive
    <3>2. Minted(k) /\ Newest(k)
      BY DEF IInv, TipOK
    <3>3. token[k].gen \in Nat /\ token[n].gen \in Nat
      BY <2>1, <2>3 DEF Claims
    <3>4. ASSUME SameFamily(k, n) PROVE FALSE
      <4>1. token[k].gen < token[n].gen
        BY <2>3, <3>1, <3>4 DEF Newest
      <4>2. token[n].gen < token[k].gen
        BY <2>3, <3>1, <3>2, <3>4 DEF Newest, SameFamily
      <4> QED
        BY <3>3, <4>1, <4>2
    <3> QED
      BY <3>1, <3>4
  <2>13. TipOK'
    <3>1. Newest(m)'
      BY <2>1, <2>7 DEF Newest
    <3>2. Childless(m)'
      <4>1. \A k \in Nonces : Minted(k) => token[k].parent # m
        BY <1>5, ConstantAssumption DEF IInv, TokensOK
      <4> QED
        BY <1>5, <2>1, <2>3, <2>4, <2>6, <4>1, ConstantAssumption DEF Childless
    <3>3. ASSUME NEW k \in Nonces, k # m,
                 Live(k)' \/ (\E q \in Requests : Holds(q, k)')
          PROVE  Minted(k)' /\ Newest(k)' /\ Childless(k)'
      <4>1. Live(k) \/ (\E q \in Requests : q # r /\ Holds(q, k))
        BY <1>3, <2>9, <2>10, <3>3
      <4>2. Minted(k) /\ Newest(k) /\ Childless(k)
        BY <4>1 DEF IInv, TipOK
      <4>3. n # NoNonce => k # n /\ ~SameFamily(k, n)
        BY <2>12, <4>1
      <4>4. ~SameFamily(m, k)'
        BY <2>7, <3>3, <4>3 DEF SameFamily
      <4>5. Newest(k)'
        BY <2>1, <2>8, <3>3, <4>2, <4>4 DEF Newest
      <4>6. Childless(k)'
        BY <2>1, <2>4, <2>6, <4>2, <4>3, ConstantAssumption DEF Childless
      <4> QED
        BY <2>6, <3>3, <4>2, <4>5, <4>6
    <3> QED
      BY <2>6, <3>1, <3>2, <3>3 DEF TipOK
  <2>14. Exclusive'
    <3>1. ASSUME NEW k \in Nonces, NEW q \in Requests, Holds(q, k)'
          PROVE  ~Live(k)' /\ \A p \in Requests : Holds(p, k)' => p = q
      <4>1. CASE k = m
        BY <1>3, <2>9, <2>10, <2>11, <3>1, <4>1
      <4>2. CASE k # m
        BY <1>3, <2>9, <2>10, <3>1, <4>2 DEF IInv, Exclusive
      <4> QED
        BY <4>1, <4>2
    <3> QED
      BY <3>1 DEF Exclusive
  <2>15. SingleSuccessor'
    BY <2>1, <2>3, <2>4, <2>6 DEF IInv, SingleSuccessor, Childless
  <2>16. FamilyKeepsGrant'
    <3>1. ASSUME NEW k \in Nonces, NEW l \in Nonces, SameFamily(k, l)'
          PROVE  token'[k].grant = token'[l].grant
      <4>1. CASE k # m /\ l # m
        BY <2>1, <2>8, <3>1, <4>1 DEF IInv, FamilyKeepsGrant
      <4>2. CASE k = m \/ l = m
        BY <2>1, <2>7, <3>1, <4>2 DEF SameFamily
      <4> QED
        BY <4>1, <4>2
    <3> QED
      BY <3>1 DEF FamilyKeepsGrant
  <2>17. TokensOK'
    <3>1. ~HandedOut(m)
      BY <1>5 DEF IInv, TokensOK
    <3>2. \A k \in Nonces : token[k].parent \in Nonces \cup {NoNonce}
      BY <2>1 DEF Claims
    <3>3. ASSUME NEW k \in Nonces, k # m, Minted(k), token[k].parent # NoNonce
          PROVE  Minted(token[k].parent)' /\ token'[k] = token[k]
      <4>1. token[k].parent \in Nonces /\ Minted(token[k].parent)
        BY <3>2, <3>3 DEF IInv, TokensOK
      <4>2. token[k].parent # m /\ token'[k] = token[k]
        BY <1>5, <2>1, <3>3, <4>1
      <4> QED
        BY <2>1, <4>1, <4>2
    <3>4. n # NoNonce => Minted(n)'
      BY <2>3, <2>6
    <3> QED
      BY <1>2, <2>1, <2>4, <2>6, <3>1, <3>3, <3>4 DEF IInv, TokensOK
  <2>18. RecordsOK'
    BY <1>2, <1>5, <2>1, <2>6 DEF IInv, TypeOK, FamilyRecord, RecordsOK
  <2>19. LocalsOK'
    <3>1. \A q \in Requests : req[q].fresh # m
      BY <1>5 DEF IInv, LocalsOK, LocalOK
    <3>2. ~HandedOut(m)'
      BY <1>2, <1>5 DEF IInv, TokensOK
    <3>3. ASSUME NEW q \in Requests, q # r
          PROVE  /\ req[q].cur \in Nonces => Minted(req[q].cur)'
                 /\ req[q].fresh \in Nonces =>
                      /\ Minted(req[q].fresh)'
                      /\ token'[req[q].fresh] = token[req[q].fresh]
      BY <2>1, <2>2, <2>6, <3>1, <3>3, Zenon DEF IInv, LocalsOK, LocalOK
    <3> QED
      BY <1>2, <2>1, <2>2, <2>3, <2>4, <2>6, <3>1, <3>2, <3>3, ConstantAssumption, SMTT(30)
      DEF IInv, LocalsOK, LocalOK
  <2>20. RevokingOK'
    <3>1. \A q \in Requests : Revoking(q)' => q # r /\ Revoking(q)
      BY <2>2 DEF Revoking
    <3>2. ASSUME NEW q \in Requests, Revoking(q)
          PROVE  /\ req[q].cur # m /\ req[q].victim # m
                 /\ req[q].cur \in Nonces /\ req[q].victim \in Nonces
      BY <1>5, <3>2 DEF IInv, RevokingOK, SameFamily
    <3> QED
      BY <1>2, <2>1, <2>2, <2>8, <3>1, <3>2 DEF IInv, RevokingOK
  <2> QED
    BY <1>1, <2>13, <2>14, <2>15, <2>16, <2>17, <2>18, <2>19, <2>20 DEF IInv
<1>6. req[r].cur \in Nonces \cup {NoNonce}
  BY DEF IInv, TypeOK, Request
<1> QED
  BY <1>4, <1>5, <1>6 DEF LoadUserAndMint

(* Writing the refresh entry, answering, and writing the family record:    *)
(* the right to continue moves from the request back to the store, or is   *)
(* given up.                                                               *)
LEMMA AnswerIInv ==
    ASSUME IInv, NEW r \in Requests, PutRefresh(r) \/ PutFamily(r)
    PROVE  IInv'
<1>1. TypeOK'
  BY HandlerTypeOK, Zenon DEF IInv, Handler, PersistSession
<1>2. UNCHANGED <<token, now>>
  BY Zenon DEF PutRefresh, PutFamily, others
<1>3. PICK m \in Nonces : m = req[r].fresh
  BY Zenon DEF IInv, LocalsOK, LocalOK, PutRefresh, PutFamily
<1>4. /\ Minted(m) /\ ~HandedOut(m) /\ token[m].fam \in Families
      /\ token[m].parent = req[r].cur
      /\ \A q \in Requests : req[q].fresh = m => q = r
  BY <1>3, Zenon DEF IInv, LocalsOK, LocalOK
<1>5. \A q \in Requests : q # r => req'[q] = req[q]
  BY Zenon DEF IInv, TypeOK, PutRefresh, PutFamily, Done, Goto
<1>6. \/ req'[r] = NoRequest
      \/ /\ req'[r] = [req[r] EXCEPT !.pc = "put_family"]
         /\ PutRefresh(r) /\ UNCHANGED issuedAt
  BY Zenon DEF IInv, TypeOK, PutRefresh, PutFamily, Done, Goto
<1>7. \A n \in Nonces : n # m => issuedAt'[n] = issuedAt[n]
  BY <1>3 DEF IInv, TypeOK, PutRefresh, PutFamily
<1>8. \/ UNCHANGED record
      \/ /\ issuedAt'[m] = now
         /\ \E rec \in {record[token[m].fam], NoRecord,
                        [live |-> m, prev |-> req[r].cur, at |-> now]} :
              record' = [record EXCEPT ![token[m].fam] = rec]
  BY <1>3, Zenon DEF IInv, TypeOK, PutRefresh, PutFamily
<1>9. \A m1, n1 \in Nonces : SameFamily(m1, n1)' <=> SameFamily(m1, n1)
  BY <1>2 DEF SameFamily
<1>10. \A n \in Nonces : (Newest(n) => Newest(n)') /\ (Childless(n) => Childless(n)')
  BY <1>2, <1>9 DEF Newest, Childless
<1>11. req[r] \in Request
  BY DEF IInv, TypeOK
<1>12. \A n \in Nonces : ~Holds(r, n)'
  BY <1>6, <1>11 DEF Holds, NoRequest, Request
<1>13. \A q \in Requests, n \in Nonces : q # r => (Holds(q, n)' <=> Holds(q, n))
  BY <1>5, Zenon DEF Holds
<1>14. \A n \in Nonces : Live(n)' => Live(n) \/ (n = m /\ Holds(r, m))
  <2>1. /\ store' \in {store, store \cup {<<"refresh", m>>}}
        /\ store' = store \/ PutRefresh(r)
    BY <1>3, Zenon DEF PutRefresh, PutFamily
  <2>2. PutRefresh(r) => Holds(r, m)
    BY <1>3, Zenon DEF PutRefresh, At, Holds, StoringLabels
  <2> QED
    BY <2>1, <2>2 DEF Live
<1>15. TipOK'
  BY <1>2, <1>10, <1>12, <1>13, <1>14 DEF IInv, TipOK
<1>16. Exclusive'
  BY <1>12, <1>13, <1>14 DEF IInv, Exclusive
<1>17. SingleSuccessor' /\ FamilyKeepsGrant'
  BY <1>2, <1>9 DEF IInv, SingleSuccessor, FamilyKeepsGrant
<1>18. TokensOK'
  BY <1>2, <1>4, <1>7, Zenon DEF IInv, TokensOK
<1>19. RecordsOK'
  <2>1. now \in Nat
    BY DEF IInv, TypeOK
  <2>2. ASSUME NEW f \in Families, record'[f] = record[f]
        PROVE  record[f].live # NoNonce =>
                 /\ Minted(record[f].live) /\ record[f].live # m
                 /\ issuedAt'[record[f].live] = issuedAt[record[f].live]
    BY <1>4, <1>7 DEF IInv, TypeOK, FamilyRecord, RecordsOK
  <2>3. ASSUME NEW f \in Families, record'[f] # record[f], record'[f].live # NoNonce
        PROVE  /\ record'[f] = [live |-> m, prev |-> req[r].cur, at |-> now]
               /\ f = token[m].fam /\ issuedAt'[m] = now
    BY <1>8, <2>3, SMTT(30) DEF IInv, TypeOK, NoRecord
  <2> QED
    BY <1>2, <1>4, <2>1, <2>2, <2>3 DEF IInv, RecordsOK
<1>20. LocalsOK'
  BY <1>2, <1>3, <1>4, <1>5, <1>6, <1>7, <1>11, ConstantAssumption
  DEF IInv, LocalsOK, LocalOK, NoRequest, Request
<1>21. RevokingOK'
  <2>1. \A q \in Requests : Revoking(q)' => q # r /\ Revoking(q)
    BY <1>5, <1>6, <1>11 DEF Revoking, NoRequest, Request
  <2>2. ASSUME NEW q \in Requests, Revoking(q)
        PROVE  req[q].victim \in Nonces /\ req[q].victim # m
    BY <1>4, <2>2 DEF IInv, RevokingOK
  <2> QED
    BY <1>2, <1>5, <1>7, <1>9, <2>1, <2>2, SMTT(30) DEF IInv, RevokingOK
<1> QED
  BY <1>1, <1>15, <1>16, <1>17, <1>18, <1>19, <1>20, <1>21 DEF IInv

-----------------------------------------------------------------------------
(* The theorems                                                            *)

(* Every step of the system preserves the inductive invariant. *)
LEMMA NextIInv == IInv /\ [Next]_vars => IInv'
<1> SUFFICES ASSUME IInv, [Next]_vars PROVE IInv'
  OBVIOUS
<1>1. ASSUME NEW r \in Requests, Handler(r) PROVE IInv'
  BY <1>1, StartIInv, ReuseIInv, CallIInv, ClaimIInv, MintIInv, AnswerIInv, Zenon
  DEF Handler, PersistSession
<1>2. CASE UNCHANGED vars
  <2> USE DEF vars
  <2>1. TypeOK' /\ TokensOK' /\ RecordsOK'
    BY <1>2, Zenon DEF IInv, TypeOK, TokensOK, RecordsOK
  <2>2. LocalsOK' /\ RevokingOK'
    BY <1>2 DEF IInv, LocalsOK, LocalOK, RevokingOK, Revoking, SameFamily
  <2>3. TipOK' /\ Exclusive' /\ SingleSuccessor' /\ FamilyKeepsGrant'
    BY <1>2, LineageFrame DEF IInv, Live, Holds
  <2> QED
    BY <2>1, <2>2, <2>3 DEF IInv
<1> QED
  BY <1>1, <1>2, OtherIInv DEF Next

(* The invariant holds in every reachable state of the token endpoint. *)
LEMMA AlwaysIInv == Spec => []IInv
  BY InitIInv, NextIInv, PTL DEF Spec

(* The state stays well typed. *)
THEOREM TypeCorrect == Spec => []TypeOK
<1>1. IInv => TypeOK
  BY DEF IInv
<1> QED
  BY <1>1, AlwaysIInv, PTL

(* Rotation never forks a lineage: whatever concurrent redemptions, store  *)
(* faults, crashes and revocations interleave with the token endpoint, a   *)
(* family has at most one redeemable refresh token.                        *)
THEOREM RotationIsLinear == Spec => []OneLiveTokenPerFamily
<1>1. ASSUME IInv PROVE OneLiveTokenPerFamily
  <2> SUFFICES ASSUME NEW m \in Nonces, NEW n \in Nonces,
                      Live(m), Live(n), SameFamily(m, n), m # n
               PROVE  FALSE
    BY DEF OneLiveTokenPerFamily
  <2>1. token[m].gen < token[n].gen /\ token[n].gen < token[m].gen
    BY <1>1 DEF IInv, TipOK, Newest, SameFamily
  <2>2. token[m].gen \in Nat /\ token[n].gen \in Nat
    BY <1>1 DEF IInv, TypeOK, Claims
  <2> QED
    BY <2>1, <2>2
<1> QED
  BY <1>1, AlwaysIInv, PTL

(* ClaimRefreshToken makes redemption single use: no refresh token ever    *)
(* gets two successors.                                                    *)
THEOREM RedemptionIsSingleUse == Spec => []SingleSuccessor
<1>1. IInv => SingleSuccessor
  BY DEF IInv
<1> QED
  BY <1>1, AlwaysIInv, PTL

(* The refresh grant never rebinds: a lineage keeps the client, resource,  *)
(* scope and roles of the grant that started it.                           *)
THEOREM RotationKeepsGrant == Spec => []FamilyKeepsGrant
<1>1. IInv => FamilyKeepsGrant
  BY DEF IInv
<1> QED
  BY <1>1, AlwaysIInv, PTL

(* handleRefreshTokenReuse only ever takes a usable token away for an      *)
(* older token of the same lineage, replayed outside the grace window.     *)
THEOREM RevocationsAreJustified == Spec => []RevocationIsJustified
<1>1. ASSUME IInv PROVE RevocationIsJustified
  <2> SUFFICES ASSUME NEW r \in Requests, Revoking(r), Live(req[r].victim)
               PROVE  LET n == req[r].cur
                          v == req[r].victim
                      IN  /\ SameFamily(n, v)
                          /\ ~Live(n)
                          /\ token[n].gen < token[v].gen
                          /\ token[v].parent = n => now - issuedAt[v] > GraceWindow
    BY DEF RevocationIsJustified
  <2>1. PICK n \in Nonces, v \in Nonces : n = req[r].cur /\ v = req[r].victim
    BY <1>1 DEF IInv, RevokingOK
  <2>2. /\ SameFamily(n, v) /\ n # v
        /\ token[v].parent = n => now - issuedAt[v] > GraceWindow
    BY <1>1, <2>1 DEF IInv, RevokingOK, Revoking
  <2>3. token[n].gen < token[v].gen
    BY <1>1, <2>1, <2>2 DEF IInv, TipOK, Newest
  <2>4. token[n].gen \in Nat /\ token[v].gen \in Nat
    BY <1>1 DEF IInv, TypeOK, Claims
  <2>5. ~Live(n)
    <3>1. Live(n) => token[v].gen < token[n].gen
      BY <1>1, <2>2 DEF IInv, TipOK, Newest, SameFamily
    <3> QED
      BY <2>3, <2>4, <3>1
  <2> QED
    BY <2>1, <2>2, <2>3, <2>5
<1> QED
  BY <1>1, AlwaysIInv, PTL

(* A lineage that was logged out, revoked, swept or has expired, and that  *)
(* no request is about to continue, is never redeemable again.             *)
THEOREM DeadFamiliesStayDead == Spec => DeadFamilyStaysDead
<1>1. ASSUME IInv, Next, NEW f \in Families, FamilyDead(f)
      PROVE  FamilyDead(f)'
  <2>1. /\ \A r \in Requests : \A n \in Nonces :
             Live(n) \/ Holds(r, n) => token[n].fam # f
        /\ \A r \in Requests : req[r].fresh # NoNonce => token[req[r].fresh].fam # f
    BY <1>1, ConstantAssumption DEF FamilyDead, FamilyLive, FamilyPending, Rotating, Holds
  <2>2. PICK u \in Nonces : Minted(u) /\ token[u].fam = f
    BY <1>1 DEF FamilyDead, FamilyUsed
  (* A step mints nothing into the family. *)
  <2>3. /\ \A n \in Nonces : Minted(n) => token'[n] = token[n]
        /\ \A n \in Nonces : Minted(n)' /\ ~Minted(n) => token'[n].fam # f
    <3>1. CASE \E r \in Requests : LoadUserAndMint(r) /\ ~UNCHANGED token
      <4>1. PICK r \in Requests : LoadUserAndMint(r) /\ ~UNCHANGED token
        BY <3>1
      <4>2. PICK m \in Nonces, h \in Families, g \in Grants :
               /\ ~Minted(m)
               /\ req[r].cur = NoNonce \/ token[req[r].cur].fam = NoFamily => ~FamilyUsed(h)
               /\ token' = [token EXCEPT ![m] = NewClaims(req[r].cur, h, g)]
        BY <4>1 DEF LoadUserAndMint
      <4>3. h # f \/ (req[r].cur # NoNonce /\ token[req[r].cur].fam # NoFamily)
        BY <1>1, <4>2 DEF FamilyDead
      <4>4. req[r].cur # NoNonce => req[r].cur \in Nonces /\ token[req[r].cur].fam # f
        BY <1>1, <2>1, <4>1 DEF IInv, TypeOK, Request, LoadUserAndMint, Holds
      <4>5. NewClaims(req[r].cur, h, g).fam # f
        BY <4>3, <4>4 DEF NewClaims
      <4> QED
        BY <1>1, <4>2, <4>5 DEF IInv, TypeOK
    <3>2. CASE UNCHANGED token
      BY <3>2
    <3> QED
      BY <1>1, <3>1, <3>2, ZenonT(60)
      DEF Next, Handler, RefreshValidate, Logout, RevokeToken, HandleReuse,
          ClaimRefreshToken, CodeGrant, DeleteUserSession, RetireOldSession, DeleteEntry,
          PersistSession, PutEntry, PutRefresh, PutFamily, Crash, Administration,
          ResetPassword, RevokeAccess, EnableAccess, DeleteUser, Sweep, Time, Tick,
          Expire, Lapse, LapseRecord
  (* Rights to continue and refresh entries only come from earlier ones. *)
  <2>4. \A n \in Nonces : Live(n)' => Live(n) \/ \E r \in Requests : req[r].fresh = n
    <3>1. ASSUME NEW r \in Requests, PutRefresh(r)
          PROVE  \A n \in Nonces : Live(n)' => Live(n) \/ req[r].fresh = n
      BY <3>1 DEF PutRefresh, Live
    <3>2. ASSUME NEW r \in Requests, Handler(r), ~PutRefresh(r)
          PROVE  \A n \in Nonces : Live(n)' => Live(n)
      <4>1. CASE UNCHANGED store
        BY <4>1 DEF Live
      <4>2. CASE ClaimRefreshToken(r)
        BY <4>2 DEF ClaimRefreshToken, Live
      <4>3. CASE DeleteUserSession(r) \/ RetireOldSession(r)
        BY <4>3, Zenon DEF DeleteUserSession, RetireOldSession, DeleteEntry, Live
      <4>4. CASE PersistSession(r)
        <5>1. \/ store' = store
              \/ \E k \in {"session", "access"} :
                    store' = store \cup {<<k, req[r].fresh>>}
          BY <3>2, <4>4, Zenon DEF PersistSession, PutEntry, PutFamily
        <5> QED
          BY <5>1 DEF Live
      <4> QED
        BY <3>2, <4>1, <4>2, <4>3, <4>4, Zenon
        DEF Handler, RefreshValidate, Logout, RevokeToken, HandleReuse, CodeGrant,
            LoadUserAndMint, Crash
    <3>3. ASSUME Administration \/ Time
          PROVE  \A n \in Nonces : Live(n)' => Live(n)
      BY <3>3, Zenon DEF Administration, Time, ResetPassword, RevokeAccess, EnableAccess,
          DeleteUser, Sweep, DeleteAllUserSessions, Tick, Expire, Lapse, LapseRecord, Live
    <3> QED
      BY <1>1, <3>1, <3>2, <3>3 DEF Next
  <2>5. ASSUME NEW r \in Requests
        PROVE  /\ Rotating(r)' =>
                    \/ Rotating(r) /\ req'[r].cur = req[r].cur
                    \/ Live(req[r].cur) /\ req'[r].cur = req[r].cur
               /\ req'[r].fresh # NoNonce =>
                    req'[r].fresh = req[r].fresh \/ ~Minted(req'[r].fresh)
    <3>1. req \in [Requests -> Request] /\ req[r] \in Request
      BY <1>1 DEF IInv, TypeOK
    <3>2. CASE UNCHANGED req
      BY <3>2 DEF Rotating
    <3>3. ASSUME NEW q \in Requests, Handler(q)
          PROVE  req'[r] = req[r] \/ q = r
      BY <3>1, <3>3, Zenon
      DEF Handler, RefreshValidate, Logout, RevokeToken, HandleReuse, ClaimRefreshToken,
          CodeGrant, LoadUserAndMint, DeleteUserSession, RetireOldSession, DeleteEntry,
          PersistSession, PutEntry, PutRefresh, PutFamily, Crash, Begin, Goto, Done
    <3>4. CASE req'[r] = req[r]
      BY <3>4, Zenon DEF Rotating
    <3>5. ASSUME Handler(r)
          PROVE  /\ Rotating(r)' =>
                    \/ Rotating(r) /\ req'[r].cur = req[r].cur
                    \/ Live(req[r].cur) /\ req'[r].cur = req[r].cur
                 /\ req'[r].fresh # NoNonce =>
                      req'[r].fresh = req[r].fresh \/ ~Minted(req'[r].fresh)
      <4> USE <3>1 DEF Rotating, Begin, Goto, Done, NoRequest, Request
      <4>1. CASE \/ \E n \in Nonces : RefreshValidate(r, n) \/ Logout(r, n) \/ RevokeToken(r, n)
                 \/ CodeGrant(r) \/ HandleReuse(r) \/ Crash(r)
        <5>1. \/ Done(r)
              \/ \E l \in {"claim", "reuse", "del_session"} : \E n, v : Begin(r, l, n, v)
              \/ Begin(r, "load", NoNonce, NoNonce)
          BY <4>1, Zenon
          DEF RefreshValidate, Logout, RevokeToken, CodeGrant, HandleReuse, Crash
        <5>2. CASE Done(r)
          BY <5>2
        <5>3. ASSUME NEW l \in {"claim", "reuse", "del_session"}, NEW n, NEW v,
                     Begin(r, l, n, v)
              PROVE  ~Rotating(r)' /\ req'[r].fresh = NoNonce
          BY <5>3
        <5>4. CASE Begin(r, "load", NoNonce, NoNonce)
          BY <5>4
        <5> QED
          BY <5>1, <5>2, <5>3, <5>4, Zenon
      <4>2. CASE ClaimRefreshToken(r)
        <5>1. \/ Done(r)
              \/ /\ Live(req[r].cur)
                 /\ Begin(r, "ret_session", req[r].cur, req[r].cur)
          BY <4>2, Zenon DEF ClaimRefreshToken, Live
        <5> QED
          BY <5>1
      <4>3. CASE LoadUserAndMint(r)
        <5>1. CASE Done(r)
          BY <5>1
        <5>2. ASSUME ~Done(r)
              PROVE  \E m \in Nonces, l \in Labels :
                        /\ req[r].pc = "load" /\ ~Minted(m)
                        /\ req' = [req EXCEPT ![r] = [pc |-> l, cur |-> req[r].cur,
                                                     victim |-> NoNonce, fresh |-> m]]
          BY <4>3, <5>2, Zenon DEF LoadUserAndMint, Labels
        <5> QED
          BY <5>1, <5>2
      <4>4. CASE DeleteUserSession(r) \/ RetireOldSession(r)
        BY <1>1, <4>4, SMTT(20) DEF DeleteUserSession, RetireOldSession, DeleteEntry
      <4>5. CASE PersistSession(r)
        <5>1. \/ Done(r)
              \/ req[r].pc = "put_session" /\ Goto(r, "put_access")
              \/ req[r].pc = "put_access" /\ Goto(r, "put_refresh")
              \/ Goto(r, "put_family")
          BY <4>5, Zenon
          DEF PersistSession, PutEntry, PutRefresh, PutFamily, At
        <5> QED
          BY <5>1
      <4> QED
        BY <3>5, <4>1, <4>2, <4>3, <4>4, <4>5 DEF Handler
    <3>6. (\E q \in Requests : Handler(q)) \/ UNCHANGED req
      BY <1>1, Zenon
      DEF Next, Administration, ResetPassword, RevokeAccess, EnableAccess, DeleteUser,
          Sweep, Time, Tick, Expire, Lapse, LapseRecord
    <3> QED
      BY <3>2, <3>3, <3>4, <3>5, <3>6
  <2>6. IInv'
    BY <1>1, NextIInv
  <2>7. FamilyUsed(f)'
    BY <2>2, <2>3 DEF FamilyUsed
  <2>8. ~FamilyLive(f)'
    <3> SUFFICES ASSUME NEW n \in Nonces, token'[n].fam = f, Live(n)'
                 PROVE  FALSE
      BY DEF FamilyLive
    <3>1. Minted(n) /\ token[n].fam = f
      BY <2>3, <2>6 DEF IInv, TipOK
    <3> QED
      BY <2>1, <2>4, <3>1, ConstantAssumption, <1>1 DEF FamilyDead, FamilyLive
  <2>9. ~FamilyPending(f)'
    <3> SUFFICES ASSUME NEW r \in Requests,
                        \/ Rotating(r)' /\ token'[req'[r].cur].fam = f
                        \/ req'[r].fresh # NoNonce /\ token'[req'[r].fresh].fam = f
                 PROVE  FALSE
      BY DEF FamilyPending
    <3>1. CASE Rotating(r)' /\ token'[req'[r].cur].fam = f
      <4>1. req[r].cur \in Nonces /\ req'[r].cur = req[r].cur /\ Minted(req[r].cur)
        <5>1. req'[r] \in Request /\ req'[r].cur # NoNonce /\ LocalsOK
          BY <1>1, <2>6, <3>1, Zenon DEF Rotating, IInv, TypeOK
        <5>2. req'[r].cur = req[r].cur /\ req'[r].cur \in Nonces
          BY <2>5, <3>1, <5>1, Zenon DEF Request
        <5> QED
          BY <5>1, <5>2, Zenon DEF LocalsOK, LocalOK
      <4>2. token[req[r].cur].fam = f
        BY <2>3, <3>1, <4>1
      <4>3. Rotating(r) \/ Live(req[r].cur)
        BY <2>5, <3>1
      <4> QED
        BY <1>1, <4>1, <4>2, <4>3, Zenon DEF FamilyDead, FamilyLive, FamilyPending
    <3>2. CASE req'[r].fresh # NoNonce /\ token'[req'[r].fresh].fam = f
      <4>1. PICK m \in Nonces : m = req'[r].fresh
        BY <2>6, <3>2, Zenon DEF IInv, TypeOK, Request
      <4>2. Minted(m)'
        BY <2>6, <4>1 DEF IInv, LocalsOK, LocalOK
      <4>3. Minted(m) /\ m = req[r].fresh
        BY <2>3, <2>5, <3>2, <4>1, <4>2
      <4> QED
        BY <2>1, <2>3, <3>2, <4>1, <4>3
    <3> QED
      BY <3>1, <3>2
  <2> QED
    BY <2>7, <2>8, <2>9 DEF FamilyDead
<1>2. IInv /\ [Next]_vars
        => [\A f \in Families : FamilyDead(f) => FamilyDead(f)']_vars
  BY <1>1
<1> QED
  BY <1>2, AlwaysIInv, PTL DEF Spec, DeadFamilyStaysDead

(* An entry that a step adds to the store belongs to a token that a        *)
(* request has minted and not yet answered with.                           *)
LEMMA OnlyFreshEntriesEnter ==
    ASSUME IInv, Next, NEW kind \in Kinds, NEW n \in Nonces,
           <<kind, n>> \in store', <<kind, n>> \notin store
    PROVE  \E r \in Requests : req[r].fresh = n
<1>1. ASSUME NEW r \in Requests, PersistSession(r)
      PROVE  req[r].fresh = n
  <2>1. UNCHANGED store \/ \E k : store' \in {store, store \cup {<<k, req[r].fresh>>}}
    <3>1. ASSUME NEW from, NEW k, NEW to, PutEntry(r, from, k, to)
          PROVE  store' \in {store, store \cup {<<k, req[r].fresh>>}}
      BY <3>1 DEF PutEntry
    <3>2. PutRefresh(r) => store' \in {store, store \cup {<<"refresh", req[r].fresh>>}}
      BY Zenon DEF PutRefresh
    <3>3. PutFamily(r) => UNCHANGED store
      BY DEF PutFamily
    <3> QED
      BY <1>1, <3>1, <3>2, <3>3, Zenon DEF PersistSession
  <2> QED
    BY <2>1
<1>2. ASSUME NEW r \in Requests, Handler(r), ~PersistSession(r)
      PROVE  store' \subseteq store
  <2>1. CASE UNCHANGED store
    BY <2>1
  <2>2. CASE ClaimRefreshToken(r)
    BY <2>2 DEF ClaimRefreshToken
  <2>3. CASE DeleteUserSession(r) \/ RetireOldSession(r)
    BY <2>3, Zenon DEF DeleteUserSession, RetireOldSession, DeleteEntry
  <2> QED
    BY <1>2, <2>1, <2>2, <2>3, Zenon
    DEF Handler, RefreshValidate, Logout, RevokeToken, HandleReuse, CodeGrant,
        LoadUserAndMint, Crash
<1>3. ASSUME Administration \/ Time
      PROVE  store' \subseteq store
  BY <1>3, Zenon DEF Administration, Time, ResetPassword, RevokeAccess, EnableAccess,
      DeleteUser, Sweep, DeleteAllUserSessions, Tick, Expire, Lapse, LapseRecord
<1> QED
  BY <1>1, <1>2, <1>3 DEF Next

(* No entry of a token somebody holds is ever written again: neither a     *)
(* session nor a delegation derived from it revives.                       *)
THEOREM EndedSessionsStayEnded == Spec => EndedSessionStaysEnded
<1>1. ASSUME IInv, Next, NEW kind \in Kinds, NEW n \in Nonces,
             HandedOut(n), <<kind, n>> \notin store
      PROVE  <<kind, n>> \notin store'
  <2>1. \A r \in Requests : req[r].fresh # n
    BY <1>1, Zenon DEF IInv, LocalsOK, LocalOK
  <2> QED
    BY <1>1, <2>1, OnlyFreshEntriesEnter
<1>2. IInv /\ [Next]_vars
        => [\A kind \in Kinds, n \in Nonces :
              HandedOut(n) /\ <<kind, n>> \notin store => <<kind, n>> \notin store']_vars
  BY <1>1
<1> QED
  BY <1>2, AlwaysIInv, PTL DEF Spec, EndedSessionStaysEnded

(* While a user is revoked or deleted, and once earlier requests are       *)
(* answered, the token endpoint stores and mints nothing.                  *)
THEOREM RevokedUsersGetNothingNew == Spec => RevokedUserGetsNothingNew
<1> DEFINE Quiet == \A r \in Requests : req[r].fresh = NoNonce
<1>1. ASSUME IInv, Next, user # "active", Quiet
      PROVE  store' \subseteq store
  <2>1. /\ IInv' /\ NoNonce \notin Nonces
        /\ store' \subseteq Kinds \X Nonces
    BY <1>1, NextIInv, ConstantAssumption DEF IInv, TypeOK
  <2> SUFFICES ASSUME NEW kind \in Kinds, NEW n \in Nonces,
                      <<kind, n>> \in store', <<kind, n>> \notin store
               PROVE  FALSE
    BY <2>1
  <2> QED
    BY <1>1, <2>1, OnlyFreshEntriesEnter
<1>2. ASSUME IInv, Next, user # "active", Quiet
      PROVE  Quiet'
  <2>1. req \in [Requests -> Request]
    BY <1>2 DEF IInv, TypeOK
  <2>2. ASSUME NEW r \in Requests, Handler(r)
        PROVE  \E v : v.fresh = NoNonce /\ req' = [req EXCEPT ![r] = v]
    <3> USE DEF Begin, Goto, Done, NoRequest
    <3>1. CASE \/ \E n \in Nonces : RefreshValidate(r, n) \/ Logout(r, n) \/ RevokeToken(r, n)
               \/ CodeGrant(r) \/ HandleReuse(r) \/ Crash(r) \/ ClaimRefreshToken(r)
      <4>1. Done(r) \/ \E l, n, v : Begin(r, l, n, v)
        BY <3>1, Zenon
        DEF RefreshValidate, Logout, RevokeToken, CodeGrant, HandleReuse, Crash, ClaimRefreshToken
      <4> QED
        BY <4>1, Zenon
    <3>2. CASE LoadUserAndMint(r)
      BY <1>2, <3>2 DEF LoadUserAndMint
    <3>3. CASE DeleteUserSession(r) \/ RetireOldSession(r) \/ PersistSession(r)
      <4>1. Done(r) \/ \E l : Goto(r, l)
        BY <3>3, Zenon DEF DeleteUserSession, RetireOldSession, DeleteEntry,
            PersistSession, PutEntry, PutRefresh, PutFamily
      <4> QED
        BY <1>2, <2>1, <4>1 DEF Request
    <3> QED
      BY <2>2, <3>1, <3>2, <3>3, Zenon DEF Handler
  <2>3. (\E r \in Requests : Handler(r)) \/ UNCHANGED req
    BY <1>2, Zenon
    DEF Next, Administration, ResetPassword, RevokeAccess, EnableAccess, DeleteUser,
        Sweep, Time, Tick, Expire, Lapse, LapseRecord
  <2> QED
    BY <1>2, <2>1, <2>2, <2>3
<1>3. IInv /\ [Next]_vars
        => [/\ user # "active" /\ user' # "active"
            /\ \A r \in Requests : req[r].fresh = NoNonce
            => /\ store' \subseteq store
               /\ \A r \in Requests : req'[r].fresh = NoNonce]_vars
  BY <1>1, <1>2
<1> QED
  BY <1>3, AlwaysIInv, PTL DEF Spec, RevokedUserGetsNothingNew

-----------------------------------------------------------------------------
(* What the session store and the family records say while nothing fails   *)

HIDE DEF Idle, At, Minted, HandedOut, Presentable, NoFault, Fault
HIDE DEF ConsumedLabels, StoringLabels, DeleteLabels

(* Of a consumed token the entries go call by call.                        *)
Retired(r, k) ==
    \/ k = "refresh" /\ req[r].pc \in ConsumedLabels
    \/ k = "access" /\ req[r].pc \in {"ret_refresh", "load"}
    \/ k = "session" /\ req[r].pc \in {"ret_access", "ret_refresh", "load"}

RetiredAt(r) ==
    /\ req[r].pc \in {"ret_session", "ret_access", "ret_refresh"}
         => req[r].victim = req[r].cur
    /\ \A k \in Kinds : Retired(r, k) => <<k, req[r].cur>> \notin store

(* Only the newest token of a family has entries.                          *)
EntriesOK == \A k \in Kinds, n \in Nonces : <<k, n>> \in store => Minted(n) /\ Newest(n)

(* The record of a family with a redeemable token names that token, once   *)
(* the request that stored it has written the record.                      *)
RecordCurrent(n) ==
    Live(n) /\ token[n].fam \in Families =>
      \/ record[token[n].fam].live \in {n, NoNonce}
      \/ \E q \in Requests : req[q].pc = "put_family" /\ req[q].fresh = n

FaultlessInv ==
    faults = 0 => /\ EntriesOK
                  /\ \A r \in Requests : RetiredAt(r)
                  /\ \A n \in Nonces : RecordCurrent(n)

(* A token presented was handed out; one that is about to be handed out is *)
(* the newest of its family; a token without predecessor is the first.     *)
TipAt(r) ==
    /\ req[r].cur \in Nonces => HandedOut(req[r].cur)
    /\ req[r].pc = "put_family" => Newest(req[r].fresh)

FirstOK == \A n \in Nonces : Minted(n) /\ token[n].parent = NoNonce => token[n].gen = 1

RolloverInv == FaultlessInv /\ FirstOK /\ \A r \in Requests : TipAt(r)

(* Two tokens of a family are not both the newest.                         *)
LEMMA NewestIsOne ==
    ASSUME IInv, NEW m \in Nonces, NEW n \in Nonces, Newest(m), Newest(n), SameFamily(m, n)
    PROVE  m = n
<1>1. token[m].gen \in Nat /\ token[n].gen \in Nat
  BY Zenon DEF IInv, TypeOK, Claims
<1>2. SameFamily(n, m)
  BY Zenon DEF SameFamily
<1>3. m # n => token[m].gen < token[n].gen /\ token[n].gen < token[m].gen
  BY <1>2, Zenon DEF Newest
<1> QED
  BY <1>1, <1>3

(* While no token is minted, the newest of a family stays the newest.      *)
LEMMA NewestKept ==
    ASSUME token' = token, NEW n, Newest(n)
    PROVE  Newest(n)'
BY Zenon DEF Newest, SameFamily, Minted

(* A move of r that hands nothing out and stores nothing.                  *)
Benign(r) ==
    /\ TipAt(r)'
    /\ faults' = 0 => req[r].pc # "put_family" /\ RetiredAt(r)'

(* Steps that mint nothing and keep what was handed out.                   *)
LEMMA CalmStep ==
    ASSUME RolloverInv, token' = token,
           \A n \in Nonces : HandedOut(n) => HandedOut(n)',
           \A r \in Requests : req'[r] = req[r] \/ Benign(r),
           faults' = 0 =>
              /\ faults = 0 /\ store' \subseteq store
              /\ \A f \in Families : record'[f] = record[f] \/ record'[f].live = NoNonce
    PROVE  RolloverInv'
<1>1. FirstOK'
  BY Zenon DEF RolloverInv, FirstOK, Minted
<1>2. ASSUME NEW r \in Requests PROVE TipAt(r)'
  <2>1. ASSUME req'[r] = req[r] PROVE TipAt(r)'
    BY <2>1, NewestKept, Zenon DEF RolloverInv, TipAt
  <2> QED
    BY <2>1, Zenon DEF Benign
<1>3. ASSUME faults' = 0 PROVE EntriesOK'
  BY <1>3, NewestKept, Zenon DEF RolloverInv, FaultlessInv, EntriesOK, Minted
<1>4. ASSUME faults' = 0, NEW r \in Requests PROVE RetiredAt(r)'
  <2>1. ASSUME req'[r] = req[r] PROVE RetiredAt(r)'
    BY <1>4, <2>1, Zenon DEF RolloverInv, FaultlessInv, RetiredAt, Retired
  <2> QED
    BY <1>4, <2>1, Zenon DEF Benign
<1>5. ASSUME faults' = 0, NEW n \in Nonces PROVE RecordCurrent(n)'
  <2>1. RecordCurrent(n) /\ (Live(n)' => Live(n))
    BY <1>5, Zenon DEF RolloverInv, FaultlessInv, Live
  <2>2. ASSUME NEW q \in Requests, req[q].pc = "put_family" PROVE req'[q] = req[q]
    BY <1>5, <2>2, Zenon DEF Benign
  <2> QED
    BY <1>5, <2>1, <2>2, Zenon DEF RecordCurrent
<1> QED
  BY <1>1, <1>2, <1>3, <1>4, <1>5, Zenon DEF RolloverInv, FaultlessInv

(* A handler that returns from anywhere but its last call.                 *)
LEMMA ReturnIsCalm ==
    ASSUME IInv, NEW r \in Requests, Done(r),
           faults' = 0 => req[r].pc # "put_family"
    PROVE  /\ Benign(r) /\ \A q \in Requests : q # r => req'[q] = req[q]
           /\ req'[r] = NoRequest
<1>1. req'[r] = NoRequest /\ \A q \in Requests : q # r => req'[q] = req[q]
  BY Zenon DEF Done, IInv, TypeOK
<1>2. NoRequest.pc = "idle" /\ NoRequest.cur = NoNonce
  BY DEF NoRequest
<1>3. TipAt(r)' /\ RetiredAt(r)'
  BY <1>1, <1>2, ConstantAssumption, Zenon DEF TipAt, RetiredAt, Retired, ConsumedLabels
<1> QED
  BY <1>1, <1>3, Zenon DEF Benign

(* The invariant holds at the start.                                       *)
LEMMA RolloverInit == Init => RolloverInv
<1> SUFFICES ASSUME Init PROVE RolloverInv
  OBVIOUS
<1>1. IInv
  BY InitIInv
<1>2. \A r \in Requests : req[r].pc = "idle" /\ req[r].cur = NoNonce
  BY Zenon DEF Init, NoRequest
<1>3. \A r \in Requests : TipAt(r) /\ RetiredAt(r)
  BY <1>2, ConstantAssumption, Zenon DEF TipAt, RetiredAt, Retired, ConsumedLabels
<1>4. \A n \in Nonces : /\ token[n].fam = NoFamily
                        /\ token[n].gen = IF n \in LegacyNonces THEN 1 ELSE 0
  <2>1. PICK g \in Grants :
           token = [n \in Nonces |->
                      [fam |-> NoFamily, grant |-> g, parent |-> NoNonce,
                       gen |-> IF n \in LegacyNonces THEN 1 ELSE 0]]
    BY Zenon DEF Init
  <2> QED
    BY <2>1
<1>5. FirstOK
  BY <1>4 DEF FirstOK, Minted
<1>6. EntriesOK
  <2>1. \A k \in Kinds, n \in Nonces : <<k, n>> \in store => n \in LegacyNonces
    <3>1. store = {"refresh"} \X LegacyNonces
      BY Zenon DEF Init
    <3> QED
      BY <3>1
  <2>2. \A n \in Nonces : n \in LegacyNonces => Minted(n)
    BY <1>4 DEF Minted
  <2>3. \A n \in Nonces : Newest(n)
    BY <1>4, Zenon DEF Newest, SameFamily
  <2> QED
    BY <2>1, <2>2, <2>3, Zenon DEF EntriesOK
<1>7. \A n \in Nonces : RecordCurrent(n)
  BY <1>4, ConstantAssumption, Zenon DEF RecordCurrent
<1> QED
  BY <1>3, <1>5, <1>6, <1>7, Zenon DEF RolloverInv, FaultlessInv

(* The passing of time and administrators only take entries and records.   *)
LEMMA OtherRollover ==
    ASSUME IInv, RolloverInv, Administration \/ Time \/ UNCHANGED vars
    PROVE  RolloverInv'
<1>1. UNCHANGED <<token, issuedAt, req>>
  BY Zenon DEF Administration, Time, ResetPassword, RevokeAccess, EnableAccess,
     DeleteUser, Sweep, Tick, Expire, Lapse, LapseRecord, vars
<1>2. store' \subseteq store
  BY Zenon DEF Administration, Time, ResetPassword, RevokeAccess, EnableAccess,
     DeleteUser, Sweep, DeleteAllUserSessions, Tick, Expire, Lapse, LapseRecord, vars
<1>3. faults' = 0 => faults = 0
  <2>1. faults' = faults \/ faults' = faults + 1
    BY Zenon DEF Administration, Time, ResetPassword, RevokeAccess, EnableAccess,
       DeleteUser, Sweep, Tick, Expire, Lapse, LapseRecord, vars, Fault, NoFault
  <2>2. faults \in Nat
    BY Zenon DEF IInv, TypeOK
  <2> QED
    BY <2>1, <2>2
<1>4. \A f \in Families : record'[f] = record[f] \/ record'[f].live = NoNonce
  <2>1. \/ UNCHANGED record
        \/ DeleteAllUserSessions
        \/ \E n \in Nonces : Expire(n)
        \/ \E f \in Families : LapseRecord(f)
    BY Zenon DEF Administration, Time, ResetPassword, RevokeAccess, EnableAccess,
           DeleteUser, Sweep, Tick, Lapse, vars
  <2>2. record \in [Families -> FamilyRecord] /\ NoRecord.live = NoNonce
    BY DEF IInv, TypeOK, NoRecord
  <2> QED
    BY <2>1, <2>2, Zenon DEF DeleteAllUserSessions, Expire, LapseRecord
<1>5. \A n \in Nonces : HandedOut(n) => HandedOut(n)'
  BY <1>1, Zenon DEF HandedOut
<1> QED
  BY <1>1, <1>2, <1>3, <1>4, <1>5, CalmStep, Zenon

(* The calls that start a handler, judge a replay, claim, delete, or die.  *)
LEMMA CallRollover ==
    ASSUME IInv, RolloverInv, NEW r \in Requests,
           \/ \E n \in Nonces : RefreshValidate(r, n) \/ Logout(r, n) \/ RevokeToken(r, n)
           \/ CodeGrant(r) \/ HandleReuse(r) \/ ClaimRefreshToken(r)
           \/ DeleteUserSession(r) \/ RetireOldSession(r) \/ Crash(r)
    PROVE  RolloverInv'
<1>0. /\ req \in [Requests -> Request] /\ faults \in Nat /\ TipAt(r) /\ LocalOK(r)
      /\ NoNonce \notin Nonces /\ req[r] \in Request
      /\ faults = 0 => RetiredAt(r)
  BY ConstantAssumption, Zenon
  DEF IInv, TypeOK, LocalsOK, RolloverInv, FaultlessInv
<1>1. UNCHANGED <<record, token, issuedAt>> /\ (NoFault \/ Fault)
  BY Zenon DEF RefreshValidate, Logout, RevokeToken, CodeGrant, HandleReuse,
     ClaimRefreshToken, DeleteUserSession, RetireOldSession, DeleteEntry, Crash, NoFault
<1>2. faults' = 0 => faults = 0 /\ NoFault
  <2>1. faults' = faults \/ faults' = faults + 1
    BY <1>1, Zenon DEF NoFault, Fault
  <2> QED
    BY <1>0, <2>1 DEF NoFault
<1>3. store' \subseteq store
  BY Zenon DEF RefreshValidate, Logout, RevokeToken, CodeGrant, HandleReuse,
     ClaimRefreshToken, DeleteUserSession, RetireOldSession, DeleteEntry, Crash
<1>4. \A n \in Nonces : HandedOut(n) => HandedOut(n)'
  BY <1>1, Zenon DEF HandedOut
<1>5. SUFFICES Benign(r) /\ \A q \in Requests : q # r => req'[q] = req[q]
  BY <1>1, <1>2, <1>3, <1>4, CalmStep, Zenon
<1>6. CASE Done(r)
  <2>1. ASSUME NoFault PROVE req[r].pc # "put_family"
    <3>1. faults \in Nat /\ ~Fault
      BY <1>0, <2>1 DEF NoFault, Fault
    <3> QED
      BY <3>1, Zenon DEF RefreshValidate, Logout, RevokeToken, CodeGrant, HandleReuse,
         ClaimRefreshToken, DeleteUserSession, RetireOldSession, DeleteEntry, Crash,
         Idle, At
  <2> QED
    BY <1>2, <1>6, <2>1, ReturnIsCalm, Zenon
<1>7. ASSUME NEW l, NEW n, NEW v, Begin(r, l, n, v),
             l \in {"claim", "reuse", "del_session", "load", "ret_session"},
             n \in Nonces => HandedOut(n),
             req[r].pc # "put_family",
             l = "load" => n = NoNonce,
             l = "ret_session" => v = n /\ (faults' = 0 => <<"refresh", n>> \notin store')
      PROVE  Benign(r) /\ \A q \in Requests : q # r => req'[q] = req[q]
  <2>1. /\ req'[r] = [pc |-> l, cur |-> n, victim |-> v, fresh |-> NoNonce]
        /\ \A q \in Requests : q # r => req'[q] = req[q]
    BY <1>0, <1>7, Zenon DEF Begin
  <2>2. req'[r].pc = l /\ req'[r].cur = n /\ req'[r].victim = v
    BY <2>1
  <2>3. l # "put_family" /\ l \notin {"ret_access", "ret_refresh"}
    BY <1>7
  <2>4. TipAt(r)'
    BY <1>1, <1>7, <2>2, <2>3, Zenon DEF TipAt, HandedOut
  <2>5. ASSUME faults' = 0 PROVE RetiredAt(r)'
    <3>1. CASE l = "load"
      <4>1. \A k \in Kinds : <<k, NoNonce>> \notin store'
        <5>1. store \subseteq Kinds \X Nonces
          BY Zenon DEF IInv, TypeOK
        <5> QED
          BY <1>0, <1>3, <5>1
      <4> QED
        BY <1>7, <2>2, <3>1, <4>1, Zenon DEF RetiredAt
    <3>2. CASE l = "ret_session"
      BY <1>7, <2>2, <2>5, <3>2, Zenon DEF RetiredAt, Retired
    <3>3. CASE l \in {"claim", "reuse", "del_session"}
      BY <2>2, <3>3, Zenon DEF RetiredAt, Retired, ConsumedLabels
    <3> QED
      BY <1>7, <3>1, <3>2, <3>3
  <2> QED
    BY <1>7, <2>1, <2>4, <2>5, Zenon DEF Benign
<1>8. ASSUME NEW n \in Nonces, RefreshValidate(r, n) \/ Logout(r, n) \/ RevokeToken(r, n)
      PROVE  Benign(r) /\ \A q \in Requests : q # r => req'[q] = req[q]
  <2>1. /\ req[r].pc = "idle" /\ HandedOut(n)
        /\ \E l \in {"claim", "reuse", "del_session"}, v \in {n, NoNonce} : Begin(r, l, n, v)
    BY <1>8, Zenon DEF RefreshValidate, Logout, RevokeToken, Idle, Presentable
  <2>2. req[r].pc # "put_family"
    BY <2>1
  <2>3. PICK l \in {"claim", "reuse", "del_session"}, v \in {n, NoNonce} : Begin(r, l, n, v)
    BY <2>1, Zenon
  <2>4. l # "load" /\ l # "ret_session"
    BY <2>3
  <2> QED
    BY <1>7, <2>1, <2>2, <2>3, <2>4, Zenon
<1>9. CASE CodeGrant(r)
  <2>1. req[r].pc = "idle" /\ Begin(r, "load", NoNonce, NoNonce)
    BY <1>9, Zenon DEF CodeGrant, Idle
  <2>2. req[r].pc # "put_family"
    BY <2>1
  <2> QED
    BY <1>0, <1>7, <2>1, <2>2, Zenon
<1>10. CASE HandleReuse(r) /\ ~Done(r)
  <2>1. /\ req[r].pc = "reuse"
        /\ \E v : Begin(r, "del_session", req[r].cur, v)
    BY <1>10, Zenon DEF HandleReuse, At
  <2>2. req[r].pc # "put_family"
    BY <2>1
  <2> QED
    BY <1>0, <1>7, <2>1, <2>2, Zenon DEF TipAt
<1>11. CASE ClaimRefreshToken(r) /\ ~Done(r)
  <2>1. /\ req[r].pc = "claim" /\ Begin(r, "ret_session", req[r].cur, req[r].cur)
        /\ store' = store \ {<<"refresh", req[r].cur>>}
    BY <1>11, Zenon DEF ClaimRefreshToken, At
  <2>2. req[r].pc # "put_family"
    BY <2>1
  <2>3. <<"refresh", req[r].cur>> \notin store'
    BY <2>1, Zenon
  <2> QED
    <3>1. req[r].cur \in Nonces => HandedOut(req[r].cur)
      BY <1>0, Zenon DEF TipAt
    <3>2. "ret_session" # "load"
      OBVIOUS
    <3> QED
      BY <1>7, <2>1, <2>2, <2>3, <3>1, <3>2, Zenon
<1>12. ASSUME NEW from, NEW kind \in Kinds, NEW to, DeleteEntry(r, from, kind, to), ~Done(r),
              from # "put_family", to # "put_family"
       PROVE  /\ \A q \in Requests : q # r => req'[q] = req[q]
              /\ req[r].pc = from /\ from # "put_family" /\ TipAt(r)'
              /\ req'[r].pc = to /\ req'[r].cur = req[r].cur
              /\ req'[r].victim = req[r].victim
              /\ faults' = 0 => <<kind, req[r].victim>> \notin store'
  <2>1. req' = [req EXCEPT ![r] = [req[r] EXCEPT !.pc = to]] /\ req[r].pc = from
    BY <1>12, Zenon DEF DeleteEntry, Goto, At
  <2>2. /\ req'[r].pc = to /\ req'[r].cur = req[r].cur
        /\ req'[r].victim = req[r].victim
        /\ \A q \in Requests : q # r => req'[q] = req[q]
    BY <1>0, <2>1, Zenon DEF Request
  <2>3. TipAt(r)'
    BY <1>0, <1>1, <1>12, <2>2, Zenon DEF TipAt, HandedOut
  <2>4. NoFault => <<kind, req[r].victim>> \notin store'
    <3>1. NoFault => ~Fault
      BY <1>0 DEF NoFault, Fault
    <3> QED
      BY <1>12, <3>1, Zenon DEF DeleteEntry
  <2> QED
    BY <1>2, <1>12, <2>1, <2>2, <2>3, <2>4, Zenon
<1>13. CASE DeleteUserSession(r) /\ ~Done(r)
  <2>1. \E from \in {"del_session", "del_access", "del_refresh"}, kind \in Kinds,
           to \in {"del_access", "del_refresh", "idle"} : DeleteEntry(r, from, kind, to)
    BY <1>13, Zenon DEF DeleteUserSession, Kinds
  <2>2. PICK from \in {"del_session", "del_access", "del_refresh"}, kind \in Kinds,
           to \in {"del_access", "del_refresh", "idle"} : DeleteEntry(r, from, kind, to)
    BY <2>1, Zenon
  <2>3. from # "put_family" /\ to # "put_family"
    BY <2>2
  <2>4. /\ \A q \in Requests : q # r => req'[q] = req[q]
        /\ req[r].pc # "put_family" /\ TipAt(r)' /\ req'[r].pc = to
    BY <1>12, <1>13, <2>2, <2>3, Zenon
  <2>5. RetiredAt(r)'
    <3>1. req'[r].pc \notin ConsumedLabels
      BY <2>2, <2>4 DEF ConsumedLabels
    <3> QED
      BY <3>1, Zenon DEF RetiredAt, Retired, ConsumedLabels
  <2> QED
    BY <2>4, <2>5, Zenon DEF Benign
<1>14. CASE RetireOldSession(r) /\ ~Done(r)
  <2>0. PICK from \in {"ret_session", "ret_access", "ret_refresh"}, kind \in Kinds,
            to \in {"ret_access", "ret_refresh", "load"} :
           /\ DeleteEntry(r, from, kind, to)
           /\ \/ from = "ret_session" /\ kind = "session" /\ to = "ret_access"
              \/ from = "ret_access" /\ kind = "access" /\ to = "ret_refresh"
              \/ from = "ret_refresh" /\ kind = "refresh" /\ to = "load"
    BY <1>14, Zenon DEF RetireOldSession, Kinds
  <2>1. from # "put_family" /\ to # "put_family"
    BY <2>0
  <2>2. /\ \A q \in Requests : q # r => req'[q] = req[q]
        /\ req[r].pc = from /\ TipAt(r)' /\ req'[r].pc = to
        /\ req'[r].cur = req[r].cur /\ req'[r].victim = req[r].victim
        /\ faults' = 0 => <<kind, req[r].victim>> \notin store'
    BY <1>12, <1>14, <2>0, <2>1, Zenon
  <2>3. ASSUME faults' = 0 PROVE RetiredAt(r)'
    <3>1. RetiredAt(r) /\ req[r].victim = req[r].cur
      BY <1>0, <1>2, <2>0, <2>2, <2>3, Zenon DEF RetiredAt
    <3>2. ASSUME NEW k \in Kinds, Retired(r, k)' PROVE k = kind \/ Retired(r, k)
      BY <2>0, <2>2, <3>2 DEF Retired, ConsumedLabels
    <3> QED
      BY <1>3, <2>2, <2>3, <3>1, <3>2, Zenon DEF RetiredAt
  <2> QED
    BY <2>1, <2>2, <2>3, Zenon DEF Benign
<1> QED
  BY <1>6, <1>8, <1>9, <1>10, <1>11, <1>13, <1>14, Zenon DEF Crash

(* The entries of a minted token are stored by the request that holds the  *)
(* right to continue from it.                                              *)
LEMMA StoringHolds ==
    ASSUME IInv, NEW r \in Requests, req[r].pc \in StoringLabels
    PROVE  /\ req[r].fresh \in Nonces /\ Minted(req[r].fresh) /\ Newest(req[r].fresh)
           /\ \A q \in Requests : req[q].pc \in ConsumedLabels => req[q].cur # req[r].fresh
<1>1. req[r].fresh \in Nonces
  BY Zenon DEF IInv, LocalsOK, LocalOK
<1>2. Holds(r, req[r].fresh)
  BY Zenon DEF Holds
<1>3. Minted(req[r].fresh) /\ Newest(req[r].fresh)
  BY <1>1, <1>2, Zenon DEF IInv, TipOK
<1>4. ASSUME NEW q \in Requests, req[q].pc \in ConsumedLabels, req[q].cur = req[r].fresh
      PROVE  FALSE
  <2>1. Holds(q, req[r].fresh)
    BY <1>4, Zenon DEF Holds
  <2>2. q = r
    BY <1>1, <1>2, <2>1, Zenon DEF IInv, Exclusive
  <2>3. req[r].pc \notin ConsumedLabels
    BY DEF StoringLabels, ConsumedLabels
  <2> QED
    BY <1>4, <2>2, <2>3, Zenon
<1> QED
  BY <1>1, <1>3, <1>4, Zenon

(* A write of an entry of the minted token that succeeds.                  *)
LEMMA StoreRollover ==
    ASSUME IInv, RolloverInv, NEW r \in Requests, req[r].pc \in StoringLabels,
           NEW m \in Nonces, m = req[r].fresh,
           NEW k \in Kinds, store' = store \cup {<<k, req[r].fresh>>},
           faults' = faults, token' = token, record' = record,
           \A n \in Nonces : HandedOut(n) => HandedOut(n)',
           \A q \in Requests : q # r => req'[q] = req[q],
           req'[r].pc \in StoringLabels \cup {"put_family", "idle"},
           req'[r].cur \in {req[r].cur, NoNonce},
           req'[r].pc = "put_family" => req'[r].fresh = req[r].fresh,
           k = "refresh" => RecordCurrent(m)'
    PROVE  RolloverInv'
<1>0. /\ req[r].fresh \in Nonces /\ Minted(req[r].fresh) /\ Newest(req[r].fresh)
      /\ \A q \in Requests : req[q].pc \in ConsumedLabels => req[q].cur # req[r].fresh
  BY StoringHolds, Zenon
<1>1. FirstOK'
  BY Zenon DEF RolloverInv, FirstOK, Minted
<1>2. ASSUME NEW q \in Requests PROVE TipAt(q)'
  <2>1. TipAt(q) /\ NoNonce \notin Nonces
    BY ConstantAssumption, Zenon DEF RolloverInv
  <2>2. CASE q # r
    BY <2>1, <2>2, NewestKept, Zenon DEF TipAt
  <2>3. CASE q = r
    <3>1. ASSUME NEW c \in Nonces, req'[r].cur = c PROVE HandedOut(c)'
      BY <2>1, <2>3, <3>1, Zenon DEF TipAt
    <3>2. Newest(m)'
      BY <1>0, NewestKept, Zenon
    <3>3. (req[r].cur \in Nonces => HandedOut(req[r].cur))'
      BY <3>1, Zenon DEF HandedOut
    <3>4. (req[r].pc = "put_family" => Newest(req[r].fresh))'
      BY <3>2, Zenon DEF Newest
    <3> QED
      BY <2>3, <3>3, <3>4, Zenon DEF TipAt
  <2> QED
    BY <2>2, <2>3
<1>3. ASSUME faults = 0 PROVE EntriesOK'
  <2> SUFFICES ASSUME NEW j \in Kinds, NEW n \in Nonces, <<j, n>> \in store'
               PROVE  Minted(n)' /\ Newest(n)'
    BY Zenon DEF EntriesOK
  <2>1. <<j, n>> \in store \/ n = req[r].fresh
    OBVIOUS
  <2>2. Minted(n) /\ Newest(n)
    BY <1>0, <1>3, <2>1, Zenon DEF RolloverInv, FaultlessInv, EntriesOK
  <2> QED
    BY <2>2, NewestKept, Zenon DEF Minted
<1>4. ASSUME faults = 0, NEW q \in Requests PROVE RetiredAt(q)'
  <2>1. RetiredAt(q)
    BY <1>4, Zenon DEF RolloverInv, FaultlessInv
  <2>2. CASE q = r
    <3>1. /\ req'[r].pc \notin ConsumedLabels
          /\ req'[r].pc \notin {"ret_session", "ret_access", "ret_refresh"}
      BY DEF StoringLabels, ConsumedLabels
    <3>2. \A j : ~Retired(r, j)'
      BY <3>1, Zenon DEF Retired, ConsumedLabels
    <3> QED
      BY <2>2, <3>1, <3>2, Zenon DEF RetiredAt
  <2>3. CASE q # r
    <3>1. req'[q] = req[q]
      BY <2>3, Zenon
    <3>2. ASSUME NEW j \in Kinds, Retired(q, j)' PROVE <<j, req[q].cur>> \notin store'
      <4>1. Retired(q, j) /\ req[q].pc \in ConsumedLabels
        BY <3>1, <3>2, Zenon DEF Retired, ConsumedLabels
      <4>2. <<j, req[q].cur>> \notin store /\ req[q].cur # req[r].fresh
        BY <1>0, <2>1, <4>1, Zenon DEF RetiredAt
      <4> QED
        BY <4>2
    <3> QED
      BY <2>1, <3>1, <3>2, Zenon DEF RetiredAt
  <2> QED
    BY <2>2, <2>3
<1>5. ASSUME faults = 0, NEW n \in Nonces PROVE RecordCurrent(n)'
  <2>1. RecordCurrent(n)
    BY <1>5, Zenon DEF RolloverInv, FaultlessInv
  <2>2. Live(n)' => Live(n) \/ (k = "refresh" /\ n = m)
    BY DEF Live
  <2>3. req[r].pc # "put_family"
    BY DEF StoringLabels
  <2>4. Live(n) => RecordCurrent(n)'
    BY <2>1, <2>3, Zenon DEF RecordCurrent
  <2>5. ~Live(n)' => RecordCurrent(n)'
    BY Zenon DEF RecordCurrent
  <2> QED
    BY <2>2, <2>4, <2>5, Zenon
<1> QED
  BY <1>1, <1>2, <1>3, <1>4, <1>5, Zenon DEF RolloverInv, FaultlessInv

(* SetUserSession of the session, the access and the refresh entry.        *)
LEMMA PutRollover ==
    ASSUME IInv, RolloverInv, NEW r \in Requests,
           \/ PutEntry(r, "put_session", "session", "put_access")
           \/ PutEntry(r, "put_access", "access", "put_refresh")
           \/ PutRefresh(r)
    PROVE  RolloverInv'
<1>0. /\ req \in [Requests -> Request] /\ faults \in Nat /\ req[r] \in Request
      /\ NoNonce \notin Nonces
  BY ConstantAssumption, Zenon DEF IInv, TypeOK
<1>1. req[r].pc \in StoringLabels /\ req[r].pc # "put_family"
  <2>1. req[r].pc \in {"put_session", "put_access", "put_refresh"}
    BY Zenon DEF PutEntry, PutRefresh, At
  <2> QED
    BY <2>1 DEF StoringLabels
<1>2. PICK m \in Nonces : m = req[r].fresh
  BY <1>1, StoringHolds, Zenon
<1>3. /\ UNCHANGED <<record, token>> /\ (NoFault \/ Fault)
      /\ issuedAt' = issuedAt \/ issuedAt' = [issuedAt EXCEPT ![m] = now]
  BY <1>2, Zenon DEF PutEntry, PutRefresh
<1>4. \A n \in Nonces : HandedOut(n) => HandedOut(n)'
  <2>1. now \in Nat /\ issuedAt \in [Nonces -> Nat \cup {-1}]
    BY Zenon DEF IInv, TypeOK
  <2> QED
    BY <1>3, <2>1 DEF HandedOut
<1>5. CASE Fault
  <2>1. faults' # 0 /\ ~NoFault
    BY <1>0, <1>5 DEF Fault, NoFault
  <2>2. Done(r)
    BY <2>1, Zenon DEF PutEntry, PutRefresh
  <2>3. Benign(r) /\ \A q \in Requests : q # r => req'[q] = req[q]
    BY <1>1, <2>2, ReturnIsCalm, Zenon
  <2> QED
    BY <1>3, <1>4, <2>1, <2>3, CalmStep, Zenon
<1>6. ASSUME NoFault, ~Fault, NEW k \in {"session", "access"}, NEW from,
             NEW to \in {"put_access", "put_refresh"}, PutEntry(r, from, k, to)
      PROVE  RolloverInv'
  <2>1. store' = store \cup {<<k, req[r].fresh>>} /\ Goto(r, to)
    BY <1>6, Zenon DEF PutEntry
  <2>2. req' = [req EXCEPT ![r] = [req[r] EXCEPT !.pc = to]]
    BY <1>6, <2>1 DEF Goto
  <2>3. /\ req'[r].pc = to /\ req'[r].cur = req[r].cur
        /\ \A q \in Requests : q # r => req'[q] = req[q]
    BY <1>0, <2>2, Zenon DEF Request
  <2>4. k \in Kinds /\ k # "refresh" /\ to \in StoringLabels /\ to # "put_family"
    BY DEF Kinds, StoringLabels
  <2>5. faults' = faults /\ token' = token /\ record' = record
    BY <1>3, <1>6, Zenon DEF NoFault
  <2> QED
    BY <1>1, <1>2, <1>4, <2>1, <2>3, <2>4, <2>5, StoreRollover, Zenon
<1>7. ASSUME NoFault, ~Fault, PutRefresh(r)
      PROVE  RolloverInv'
  <2>0. /\ faults' = faults /\ token' = token /\ record' = record
        /\ store' = store \cup {<<"refresh", req[r].fresh>>} /\ "refresh" \in Kinds
    BY <1>3, <1>7, Zenon DEF PutRefresh, NoFault, Kinds
  <2>1. CASE req[r].cur = NoNonce
    <3>1. Done(r)
      BY <1>7, <2>1, Zenon DEF PutRefresh
    <3>2. /\ req'[r] = NoRequest
          /\ \A q \in Requests : q # r => req'[q] = req[q]
      BY <1>0, <3>1, Zenon DEF Done
    <3>3. /\ req'[r].pc = "idle" /\ req'[r].cur = NoNonce
          /\ req'[r].pc # "put_family"
      BY <3>2 DEF NoRequest
    <3>4. /\ Minted(m) /\ Newest(m) /\ ~HandedOut(m)
          /\ token[m].fam \in Families /\ token[m].parent = NoNonce
      BY <1>1, <1>2, <2>1, StoringHolds, Zenon DEF IInv, LocalsOK, LocalOK
    <3>5. token[m].gen = 1 /\ NoFamily \notin Families
      BY <3>4, ConstantAssumption, Zenon DEF RolloverInv, FirstOK
    <3>6. record[token[m].fam].live = NoNonce
      <4> DEFINE v == record[token[m].fam].live
      <4> SUFFICES ASSUME v # NoNonce PROVE FALSE
        OBVIOUS
      <4>1. /\ v \in Nonces /\ Minted(v) /\ HandedOut(v)
            /\ token[v].fam = token[m].fam
        <5>1. record[token[m].fam] \in FamilyRecord
          BY <3>4, Zenon DEF IInv, TypeOK
        <5> QED
          BY <3>4, <5>1, Zenon DEF IInv, RecordsOK, FamilyRecord
      <4>2. v # m /\ SameFamily(v, m)
        BY <3>4, <3>5, <4>1, Zenon DEF SameFamily
      <4>3. token[v].gen < token[m].gen
        BY <3>4, <4>1, <4>2, Zenon DEF Newest
      <4>4. token[v].gen \in Nat
        BY <4>1, Zenon DEF IInv, TypeOK, Claims
      <4> HIDE DEF v
      <4> QED
        BY <3>5, <4>1, <4>3, <4>4 DEF Minted
    <3>7. RecordCurrent(m)'
      BY <2>0, <3>6, Zenon DEF RecordCurrent
    <3> QED
      BY <1>1, <1>2, <1>4, <2>0, <3>2, <3>3, <3>7, StoreRollover, Zenon
  <2>2. CASE req[r].cur # NoNonce
    <3>1. Goto(r, "put_family")
      BY <1>7, <2>2, Zenon DEF PutRefresh
    <3>2. req' = [req EXCEPT ![r] = [req[r] EXCEPT !.pc = "put_family"]]
      BY <3>1 DEF Goto
    <3>3. /\ req'[r].pc = "put_family" /\ req'[r].cur = req[r].cur
          /\ req'[r].fresh = req[r].fresh
          /\ \A q \in Requests : q # r => req'[q] = req[q]
      BY <1>0, <3>2, Zenon DEF Request
    <3>4. RecordCurrent(m)'
      BY <1>2, <3>3, Zenon DEF RecordCurrent
    <3> QED
      BY <1>1, <1>2, <1>4, <2>0, <3>3, <3>4, StoreRollover, Zenon
  <2> QED
    BY <2>1, <2>2
<1>8. NoFault => ~Fault
  BY <1>0 DEF Fault, NoFault
<1> QED
  BY <1>3, <1>5, <1>6, <1>7, <1>8, Zenon

(* setRefreshFamilyRecord names the newest token of the family.            *)
LEMMA FamilyRollover ==
    ASSUME IInv, RolloverInv, NEW r \in Requests, PutFamily(r)
    PROVE  RolloverInv'
<1>0. /\ req \in [Requests -> Request] /\ faults \in Nat /\ TipAt(r) /\ LocalOK(r)
      /\ NoNonce \notin Nonces /\ record \in [Families -> FamilyRecord]
  BY ConstantAssumption, Zenon DEF IInv, TypeOK, LocalsOK, RolloverInv
<1>1. req[r].pc = "put_family" /\ UNCHANGED <<store, token>> /\ Done(r)
  BY Zenon DEF PutFamily, At
<1>2. PICK m \in Nonces : m = req[r].fresh
  BY <1>0, <1>1, Zenon DEF LocalOK
<1>3. Minted(m) /\ Newest(m) /\ token[m].fam \in Families
  BY <1>0, <1>1, <1>2, Zenon DEF LocalOK, TipAt
<1>4. \A n \in Nonces : HandedOut(n) => HandedOut(n)'
  <2>1. now \in Nat /\ issuedAt \in [Nonces -> Nat \cup {-1}]
    BY Zenon DEF IInv, TypeOK
  <2>2. issuedAt' = [issuedAt EXCEPT ![m] = now]
    BY <1>2, Zenon DEF PutFamily
  <2> QED
    BY <2>1, <2>2 DEF HandedOut
<1>5. CASE faults' # 0
  BY <1>1, <1>4, <1>5, CalmStep, ReturnIsCalm, Zenon
<1>6. CASE faults' = 0
  <2>1. faults = 0 /\ ~Fault
    <3>1. faults' = faults \/ faults' = faults + 1
      BY Zenon DEF PutFamily, Fault, NoFault
    <3> QED
      BY <1>0, <1>6, <3>1 DEF Fault
  <2>2. record' = [record EXCEPT ![token[m].fam] =
                     [live |-> m, prev |-> req[r].cur, at |-> now]]
    BY <1>2, <2>1, Zenon DEF PutFamily
  <2>3. /\ record'[token[m].fam].live = m
        /\ \A f \in Families : f # token[m].fam => record'[f] = record[f]
    BY <1>0, <1>3, <2>2
  <2>4. /\ req'[r] = NoRequest
        /\ \A q \in Requests : q # r => req'[q] = req[q]
    BY <1>0, <1>1, Zenon DEF Done
  <2>5. req'[r].pc = "idle" /\ req'[r].cur = NoNonce /\ req'[r].pc # "put_family"
    BY <2>4 DEF NoRequest
  <2>6. ASSUME NEW q \in Requests PROVE TipAt(q)' /\ RetiredAt(q)'
    <3>1. TipAt(q) /\ RetiredAt(q)
      BY <2>1, Zenon DEF RolloverInv, FaultlessInv
    <3>2. CASE q # r
      BY <1>1, <1>4, <2>4, <3>1, <3>2, NewestKept, Zenon DEF TipAt, RetiredAt, Retired
    <3>3. CASE q = r
      BY <1>0, <2>5, <3>3, Zenon DEF TipAt, RetiredAt, Retired, ConsumedLabels
    <3> QED
      BY <3>2, <3>3
  <2>7. EntriesOK' /\ FirstOK'
    BY <1>1, <2>1, NewestKept, Zenon
    DEF RolloverInv, FaultlessInv, EntriesOK, FirstOK, Minted
  <2>8. ASSUME NEW n \in Nonces PROVE RecordCurrent(n)'
    <3>1. SUFFICES ASSUME Live(n), token[n].fam \in Families PROVE RecordCurrent(n)'
      BY <1>1, Zenon DEF RecordCurrent, Live
    <3>2. Minted(n) /\ Newest(n) /\ RecordCurrent(n) /\ NoFamily \notin Families
      BY <2>1, <3>1, ConstantAssumption, Zenon DEF RolloverInv, FaultlessInv, IInv, TipOK
    <3>3. CASE token[n].fam = token[m].fam
      <4>1. SameFamily(n, m)
        BY <1>3, <3>2, <3>3, Zenon DEF SameFamily
      <4>2. n = m
        BY <1>3, <3>2, <4>1, NewestIsOne, Zenon
      <4> QED
        BY <1>1, <2>3, <4>2, Zenon DEF RecordCurrent
    <3>4. CASE token[n].fam # token[m].fam
      <4>1. n # m
        BY <3>4
      <4> QED
        BY <1>1, <1>2, <2>3, <2>4, <3>1, <3>2, <3>4, <4>1, Zenon DEF RecordCurrent
    <3> QED
      BY <3>3, <3>4
  <2> QED
    BY <2>6, <2>7, <2>8, Zenon DEF RolloverInv, FaultlessInv
<1> QED
  BY <1>5, <1>6

(* Minting makes the successor the newest token of a family no entry of    *)
(* which is left in the store.                                             *)
LEMMA MintRollover ==
    ASSUME IInv, RolloverInv, NEW r \in Requests, LoadUserAndMint(r)
    PROVE  RolloverInv'
<1>0. /\ req \in [Requests -> Request] /\ faults \in Nat /\ req[r].cur \in Nonces \cup {NoNonce}
      /\ NoNonce \notin Nonces /\ token \in [Nonces -> Claims] /\ TipAt(r)
  BY ConstantAssumption, Zenon DEF IInv, TypeOK, Request, RolloverInv
<1>1. /\ req[r].pc = "load" /\ UNCHANGED <<store, record, issuedAt>> /\ (NoFault \/ Fault)
  BY Zenon DEF LoadUserAndMint, At
<1>2. \A n \in Nonces : HandedOut(n) => HandedOut(n)'
  BY <1>1, Zenon DEF HandedOut
<1>3. req[r].pc # "put_family" /\ req[r].pc \in ConsumedLabels
  BY <1>1 DEF ConsumedLabels
<1>4. faults' = 0 => faults = 0
  <2>1. faults' = faults \/ faults' = faults + 1
    BY <1>1, Zenon DEF NoFault, Fault
  <2> QED
    BY <1>0, <2>1
<1>5. CASE Done(r) /\ UNCHANGED token
  BY <1>1, <1>2, <1>3, <1>4, <1>5, CalmStep, ReturnIsCalm, Zenon
<1>6. ASSUME NEW m \in Nonces, NEW f \in Families, NEW g \in Grants,
             NEW n \in Nonces \cup {NoNonce}, n = req[r].cur, ~Minted(m),
             n = NoNonce \/ token[n].fam = NoFamily => ~FamilyUsed(f),
             token' = [token EXCEPT ![m] = NewClaims(n, f, g)],
             req' = [req EXCEPT ![r] =
                       [pc |-> IF n = NoNonce THEN "put_access" ELSE "put_session",
                        cur |-> n, victim |-> NoNonce, fresh |-> m]]
      PROVE  RolloverInv'
  <2>1. /\ token'[m] = NewClaims(n, f, g)
        /\ \A x \in Nonces : x # m => token'[x] = token[x]
    BY <1>0, <1>6, Zenon
  <2>2. /\ n = NoNonce => token'[m].parent = NoNonce /\ token'[m].gen = 1
                         /\ token'[m].fam = f
        /\ n # NoNonce => /\ token'[m].parent = n
                           /\ token'[m].fam = IF token[n].fam = NoFamily THEN f
                                               ELSE token[n].fam
    BY <2>1 DEF NewClaims
  <2>3. /\ req'[r].pc \in {"put_access", "put_session"} /\ req'[r].cur = n
        /\ \A q \in Requests : q # r => req'[q] = req[q]
    BY <1>0, <1>6, Zenon
  <2>4. ASSUME n # NoNonce PROVE Minted(n) /\ Newest(n) /\ HandedOut(n)
    <3>1. Holds(r, n) /\ n \in Nonces
      BY <1>3, <1>6, <2>4, Zenon DEF Holds
    <3> QED
      BY <1>0, <1>6, <3>1, Zenon DEF IInv, TipOK, TipAt
  <2>5. ASSUME NEW x \in Nonces, Minted(x), Newest(x), x # n
        PROVE  Newest(x)' /\ Minted(x)'
    <3>1. x # m /\ token'[x] = token[x]
      BY <1>6, <2>1, <2>5, Zenon
    <3>2. ~SameFamily(m, x)'
      <4> SUFFICES ASSUME token'[m].fam = token[x].fam, token[x].fam # NoFamily
                   PROVE  FALSE
        BY <3>1, Zenon DEF SameFamily
      <4>1. CASE n = NoNonce \/ token[n].fam = NoFamily
        <5>1. token[x].fam = f
          BY <2>2, <4>1, Zenon
        <5> QED
          BY <1>6, <2>5, <4>1, <5>1, Zenon DEF FamilyUsed
      <4>2. CASE n # NoNonce /\ token[n].fam # NoFamily
        <5>1. SameFamily(x, n) /\ n \in Nonces
          BY <2>2, <2>4, <2>5, <4>2, Zenon DEF SameFamily
        <5> QED
          BY <2>4, <2>5, <4>2, <5>1, NewestIsOne, Zenon
      <4> QED
        BY <4>1, <4>2
    <3>3. \A y \in Nonces : y # m /\ SameFamily(y, x)' => SameFamily(y, x)
      BY <2>1, <3>1, Zenon DEF SameFamily, Minted
    <3>4. ASSUME NEW y \in Nonces, SameFamily(y, x)', y # x
          PROVE  token'[y].gen < token'[x].gen
      <4>1. y # m /\ token'[y] = token[y]
        BY <2>1, <3>2, <3>4, Zenon
      <4>2. token[y].gen < token[x].gen
        BY <2>5, <3>3, <3>4, <4>1, Zenon DEF Newest
      <4> QED
        BY <3>1, <4>1, <4>2
    <3> QED
      BY <2>5, <3>1, <3>4, Zenon DEF Newest, Minted
  <2>6. FirstOK'
    <3> SUFFICES ASSUME NEW x \in Nonces, Minted(x)', token'[x].parent = NoNonce
                 PROVE  token'[x].gen = 1
      BY Zenon DEF FirstOK
    <3>1. CASE x = m
      BY <2>2, <3>1, Zenon
    <3>2. CASE x # m
      BY <2>1, <3>2, Zenon DEF RolloverInv, FirstOK, Minted
    <3> QED
      BY <3>1, <3>2
  <2>7. ASSUME NEW q \in Requests PROVE TipAt(q)'
    <3>1. TipAt(q) /\ LocalOK(q)
      BY Zenon DEF RolloverInv, IInv, LocalsOK
    <3>2. CASE q = r
      <4>1. req'[r].pc # "put_family"
        BY <2>3
      <4>2. n \in Nonces => HandedOut(n)'
        BY <1>0, <1>2, <2>4, Zenon
      <4>3. (req[r].cur \in Nonces => HandedOut(req[r].cur))'
        BY <2>3, <4>2, Zenon DEF HandedOut
      <4> QED
        BY <3>2, <4>1, <4>3, Zenon DEF TipAt
    <3>3. CASE q # r
      <4>1. req'[q] = req[q]
        BY <2>3, <3>3, Zenon
      <4>2. ASSUME NEW x \in Nonces, x = req[q].fresh, req[q].pc = "put_family"
            PROVE  Newest(x)'
        <5>1. Minted(x) /\ Newest(x) /\ ~HandedOut(x)
          BY <3>1, <4>2, Zenon DEF TipAt, LocalOK
        <5>2. x # n
          BY <1>0, <2>4, <4>2, <5>1, Zenon
        <5> QED
          BY <2>5, <5>1, <5>2, Zenon
      <4>3. req[q].pc = "put_family" => req[q].fresh \in Nonces
        BY <3>1, Zenon DEF LocalOK
      <4>4. (req[q].pc = "put_family" => Newest(req[q].fresh))'
        BY <4>1, <4>2, <4>3, Zenon DEF Newest
      <4>5. (req[q].cur \in Nonces => HandedOut(req[q].cur))'
        BY <1>1, <3>1, <4>1, Zenon DEF TipAt, HandedOut
      <4> QED
        BY <4>4, <4>5, Zenon DEF TipAt
    <3> QED
      BY <3>2, <3>3
  <2>8. ASSUME faults' = 0 PROVE EntriesOK'
    <3>1. RetiredAt(r) /\ EntriesOK
      BY <1>4, <2>8, Zenon DEF RolloverInv, FaultlessInv
    <3>2. ASSUME NEW k \in Kinds, NEW x \in Nonces, <<k, x>> \in store
          PROVE  Minted(x) /\ Newest(x) /\ x # n
      <4>1. Retired(r, k)
        BY <1>1, <1>3, <3>2 DEF Retired, Kinds
      <4> QED
        BY <1>6, <3>1, <3>2, <4>1, Zenon DEF RetiredAt, EntriesOK
    <3> QED
      BY <1>1, <2>5, <3>2, Zenon DEF EntriesOK
  <2>9. ASSUME faults' = 0, NEW q \in Requests PROVE RetiredAt(q)'
    <3>1. RetiredAt(q)
      BY <1>4, <2>9, Zenon DEF RolloverInv, FaultlessInv
    <3>2. CASE q = r
      <4>1. req'[r].pc \notin ConsumedLabels
        BY <2>3 DEF ConsumedLabels
      <4> QED
        BY <3>2, <4>1, Zenon DEF RetiredAt, Retired, ConsumedLabels
    <3>3. CASE q # r
      BY <1>1, <2>3, <3>1, <3>3, Zenon DEF RetiredAt, Retired
    <3> QED
      BY <3>2, <3>3
  <2>10. ASSUME faults' = 0, NEW x \in Nonces PROVE RecordCurrent(x)'
    <3>1. RecordCurrent(x) /\ (Live(x) => Minted(x))
      BY <1>4, <2>10, Zenon DEF RolloverInv, FaultlessInv, IInv, TipOK
    <3>2. Live(x)' => Live(x) /\ token'[x] = token[x]
      BY <1>1, <1>6, <2>1, <3>1, Zenon DEF Live
    <3>3. \A q \in Requests : req[q].pc = "put_family" => req'[q] = req[q]
      BY <1>3, <2>3, Zenon
    <3> QED
      BY <1>1, <3>1, <3>2, <3>3, Zenon DEF RecordCurrent
  <2> QED
    BY <2>6, <2>7, <2>8, <2>9, <2>10, Zenon DEF RolloverInv, FaultlessInv
<1> QED
  BY <1>0, <1>5, <1>6, Zenon DEF LoadUserAndMint

(* The invariant holds in every state.                                     *)
LEMMA AlwaysRollover == Spec => []RolloverInv
<1>1. IInv /\ RolloverInv /\ [Next]_vars => RolloverInv'
  <2> SUFFICES ASSUME IInv, RolloverInv, [Next]_vars PROVE RolloverInv'
    OBVIOUS
  <2>1. ASSUME NEW r \in Requests, Handler(r) PROVE RolloverInv'
    BY <2>1, CallRollover, MintRollover, PutRollover, FamilyRollover, Zenon
    DEF Handler, PersistSession
  <2> QED
    BY <2>1, OtherRollover, Zenon DEF Next
<1> QED
  BY <1>1, RolloverInit, AlwaysIInv, PTL DEF Spec

(* With a store that answers every call, the rollover of a rotation leaves *)
(* no session, access or refresh entry of an older token of the family     *)
(* behind (token.go RolloverUserSession and the writes after it).          *)
THEOREM RolloversAreComplete == Spec => []RolloverIsComplete
<1>1. IInv /\ RolloverInv => RolloverIsComplete
  <2> SUFFICES ASSUME IInv, RolloverInv, faults = 0, NEW k \in Kinds, NEW m \in Nonces,
                      NEW n \in Nonces, <<k, m>> \in store, <<k, n>> \in store,
                      SameFamily(m, n)
               PROVE  m = n
    BY Zenon DEF RolloverIsComplete
  <2>1. Newest(m) /\ Newest(n)
    BY Zenon DEF RolloverInv, FaultlessInv, EntriesOK
  <2> QED
    BY <2>1, NewestIsOne, Zenon
<1> QED
  BY <1>1, AlwaysIInv, AlwaysRollover, PTL

(* A replay that revokes reaches the redeemable token of the family,       *)
(* unless the request that stored that token has not written the family    *)
(* record yet (token.go handleRefreshTokenReuse).                          *)
THEOREM ReplaysHitLiveToken == Spec => ReplayHitsLiveToken
<1>1. ASSUME IInv, RolloverInv, Next, NEW r \in Requests, NEW m \in Nonces, faults = 0,
             req[r].pc = "reuse", req'[r].pc = "del_session", Live(m),
             SameFamily(m, req[r].cur)
      PROVE  \/ req'[r].victim = m
             \/ \E q \in Requests : req[q].pc = "put_family" /\ req[q].fresh = m
  <2>0. req \in [Requests -> Request] /\ RecordCurrent(m)
    BY <1>1, Zenon DEF IInv, TypeOK, RolloverInv, FaultlessInv
  <2>1. token[m].fam \in Families /\ token[m].fam = token[req[r].cur].fam
    BY <1>1, Zenon DEF IInv, TypeOK, Claims, SameFamily
  <2>2. req' # req
    BY <1>1
  <2>3. PICK q \in Requests : Handler(q)
    BY <1>1, <2>2, Zenon
    DEF Next, Administration, ResetPassword, RevokeAccess, EnableAccess, DeleteUser,
        Sweep, Time, Tick, Expire, Lapse, LapseRecord
  <2>4. q = r
    <3>1. q # r => req'[r] = req[r]
      BY <2>0, <2>3, Zenon
      DEF Handler, RefreshValidate, Logout, RevokeToken, HandleReuse, ClaimRefreshToken,
          CodeGrant, LoadUserAndMint, DeleteUserSession, RetireOldSession, DeleteEntry,
          PersistSession, PutEntry, PutRefresh, PutFamily, Crash, Begin, Goto, Done
    <3> QED
      BY <1>1, <3>1
  <2>5. ~Done(r)
    <3>1. Done(r) => req'[r] = NoRequest
      BY <2>0, Zenon DEF Done
    <3>2. NoRequest.pc # "del_session"
      BY DEF NoRequest
    <3> QED
      BY <1>1, <3>1, <3>2, Zenon
  <2>6. HandleReuse(r)
    BY <1>1, <2>3, <2>4, <2>5, Zenon
    DEF Handler, RefreshValidate, Logout, RevokeToken, ClaimRefreshToken,
        CodeGrant, LoadUserAndMint, DeleteUserSession, RetireOldSession, DeleteEntry,
        PersistSession, PutEntry, PutRefresh, PutFamily, Crash, Idle, At
  <2>7. /\ ~Tolerated(req[r].cur)
        /\ Begin(r, "del_session", req[r].cur, record[token[req[r].cur].fam].live)
    BY <2>5, <2>6, Zenon DEF HandleReuse
  <2>8. record[token[m].fam].live # NoNonce
    BY <2>1, <2>7, Zenon DEF Tolerated
  <2>9. req'[r].victim = record[token[m].fam].live
    <3>1. req'[r] = [pc |-> "del_session", cur |-> req[r].cur,
                     victim |-> record[token[req[r].cur].fam].live, fresh |-> NoNonce]
      BY <2>0, <2>7, Zenon DEF Begin
    <3> QED
      BY <2>1, <3>1
  <2> QED
    BY <1>1, <2>0, <2>1, <2>8, <2>9, Zenon DEF RecordCurrent
<1>2. IInv /\ RolloverInv /\ [Next]_vars
        => [\A r \in Requests, m \in Nonces :
              /\ faults = 0
              /\ req[r].pc = "reuse" /\ req'[r].pc = "del_session"
              /\ Live(m) /\ SameFamily(m, req[r].cur)
              => \/ req'[r].victim = m
                 \/ \E q \in Requests : req[q].pc = "put_family" /\ req[q].fresh = m]_vars
  BY <1>1, Zenon
<1> QED
  BY <1>2, AlwaysIInv, AlwaysRollover, PTL DEF Spec, ReplayHitsLiveToken

--------------------------------------------------------------------------------
(* Rotation implements the abstract lineage                                *)

Consumes(r, n) == req[r].pc \in ConsumedLabels /\ req[r].cur = n
Stores(r, n) == req[r].pc \in StoringLabels /\ req[r].fresh = n

(* The rights to continue, by their holders.                               *)
LEMMA RightsOf ==
    /\ Spent = {n \in Nonces : \E r \in Requests : Consumes(r, n)}
    /\ Fresh = {n \in Nonces : \E r \in Requests : Stores(r, n)}
    /\ Spent' = {n \in Nonces : \E r \in Requests : Consumes(r, n)'}
    /\ Fresh' = {n \in Nonces : \E r \in Requests : Stores(r, n)'}
BY Zenon DEF Spent, Fresh, Consumes, Stores, ConsumedLabels, StoringLabels

(* A right to continue has one holder.                                     *)
LEMMA OneHolder ==
    ASSUME IInv, NEW n \in Nonces, NEW r \in Requests, NEW q \in Requests,
           Consumes(r, n) \/ Stores(r, n), Consumes(q, n) \/ Stores(q, n)
    PROVE  q = r /\ ~Live(n)
<1>1. Holds(r, n) /\ Holds(q, n)
  BY Zenon DEF Holds, Consumes, Stores
<1> QED
  BY <1>1, Zenon DEF IInv, Exclusive

(* Who gives no right to anybody loses rights at most.                     *)
LEMMA LoseStep ==
    ASSUME token' = token, Usable' \subseteq Usable,
           \A q \in Requests, n \in Nonces :
              (Consumes(q, n)' => Consumes(q, n)) /\ (Stores(q, n)' => Stores(q, n))
    PROVE  Lineage!Lose
<1>1. Spent' \subseteq Spent /\ Fresh' \subseteq Fresh
  BY RightsOf, Zenon
<1> QED
  BY <1>1, Zenon DEF Lineage!Lose

(* The same for a handler that returns or moves on with what it holds.     *)
LEMMA LoseMove ==
    ASSUME IInv, NEW r \in Requests, NEW s,
           req' = [req EXCEPT ![r] = s], token' = token, Usable' \subseteq Usable,
           s.pc \in ConsumedLabels /\ s.cur # NoNonce =>
              req[r].pc \in ConsumedLabels /\ req[r].cur = s.cur,
           s.pc \in StoringLabels => req[r].pc \in StoringLabels /\ req[r].fresh = s.fresh
    PROVE  Lineage!Lose
<1>1. req'[r] = s /\ \A q \in Requests : q # r => req'[q] = req[q]
  BY Zenon DEF IInv, TypeOK
<1>2. \A q \in Requests, n \in Nonces :
         (Consumes(q, n)' => Consumes(q, n)) /\ (Stores(q, n)' => Stores(q, n))
  BY <1>1, ConstantAssumption, Zenon DEF Consumes, Stores
<1> QED
  BY <1>2, LoseStep, Zenon

(* The three deletes, the answers, and a handler that starts or ends.      *)
LEMMA LoseReturn ==
    ASSUME IInv, NEW r \in Requests, Done(r), token' = token, Usable' \subseteq Usable
    PROVE  Lineage!Lose
<1>1. NoRequest.pc \notin ConsumedLabels \cup StoringLabels
  BY DEF NoRequest, ConsumedLabels, StoringLabels
<1> QED
  BY <1>1, LoseMove, Zenon DEF Done

(* A request that begins takes no token yet.                               *)
LEMMA LoseBegin ==
    ASSUME IInv, NEW r \in Requests, NEW l, NEW n, NEW v, Begin(r, l, n, v),
           token' = token, Usable' \subseteq Usable,
           l \in {"claim", "reuse", "del_session"} \/ (l = "load" /\ n = NoNonce)
    PROVE  Lineage!Lose
<1> DEFINE s == [pc |-> l, cur |-> n, victim |-> v, fresh |-> NoNonce]
<1>1. s.pc = l /\ s.cur = n
  OBVIOUS
<1>2. l \notin StoringLabels /\ (l \in ConsumedLabels => n = NoNonce)
  BY Zenon DEF StoringLabels, ConsumedLabels
<1>3. req' = [req EXCEPT ![r] = s]
  BY Zenon DEF Begin
<1> HIDE DEF s
<1> QED
  BY <1>1, <1>2, <1>3, LoseMove, Zenon

(* A request that goes on, or ends, without storing can only lose tokens.  *)
LEMMA LoseGoto ==
    ASSUME IInv, NEW r \in Requests, NEW l, Goto(r, l),
           token' = token, Usable' \subseteq Usable,
           \/ l \in {"idle", "del_access", "del_refresh", "put_family"}
           \/ l \in ConsumedLabels /\ req[r].pc \in ConsumedLabels
           \/ l \in StoringLabels /\ req[r].pc \in StoringLabels
    PROVE  Lineage!Lose
<1>1. CASE l = "idle"
  BY <1>1, LoseReturn, Zenon DEF Goto
<1>2. CASE l # "idle"
  <2> DEFINE s == [req[r] EXCEPT !.pc = l]
  <2>1. req[r] \in Request
    BY Zenon DEF IInv, TypeOK
  <2>2. s.pc = l /\ s.cur = req[r].cur /\ s.fresh = req[r].fresh
    BY <2>1 DEF Request
  <2>3. req' = [req EXCEPT ![r] = s]
    BY <1>2, Zenon DEF Goto
  <2>4. ConsumedLabels \cap StoringLabels = {}
    BY DEF ConsumedLabels, StoringLabels
  <2>5. l \in {"del_access", "del_refresh", "put_family"}
           => l \notin ConsumedLabels \cup StoringLabels
    BY DEF ConsumedLabels, StoringLabels
  <2> HIDE DEF s
  <2> QED
    BY <1>2, <2>2, <2>3, <2>4, <2>5, LoseMove, Zenon
<1> QED
  BY <1>1, <1>2

(* A store from which entries are only removed makes nothing usable.       *)
LEMMA FewerUsable ==
    ASSUME store' \subseteq store
    PROVE  Usable' \subseteq Usable
BY Zenon DEF Usable, Live

(* Everything but consuming, minting and persisting loses rights at most.  *)
LEMMA CallLineage ==
    ASSUME IInv, NEW r \in Requests,
           \/ \E n \in Nonces : RefreshValidate(r, n) \/ Logout(r, n) \/ RevokeToken(r, n)
           \/ CodeGrant(r) \/ HandleReuse(r) \/ Crash(r)
           \/ DeleteUserSession(r) \/ RetireOldSession(r)
    PROVE  Lineage!Lose
<1>1. CASE \/ \E n \in Nonces : RefreshValidate(r, n) \/ Logout(r, n) \/ RevokeToken(r, n)
           \/ CodeGrant(r) \/ HandleReuse(r) \/ Crash(r)
  <2>1. token' = token /\ store' \subseteq store
    BY <1>1, Zenon
    DEF RefreshValidate, Logout, RevokeToken, CodeGrant, HandleReuse, Crash
  <2>2. \/ Done(r)
        \/ \E l \in {"claim", "reuse", "del_session"} : \E n, v : Begin(r, l, n, v)
        \/ Begin(r, "load", NoNonce, NoNonce)
    BY <1>1, Zenon
    DEF RefreshValidate, Logout, RevokeToken, CodeGrant, HandleReuse, Crash
  <2> QED
    BY <2>1, <2>2, FewerUsable, LoseReturn, LoseBegin, Zenon
<1>2. CASE DeleteUserSession(r) \/ RetireOldSession(r)
  <2>1. token' = token /\ store' \subseteq store
    BY <1>2, Zenon DEF DeleteUserSession, RetireOldSession, DeleteEntry
  <2>2. \/ Goto(r, "del_access") \/ Goto(r, "del_refresh") \/ Goto(r, "idle")
        \/ /\ req[r].pc \in {"ret_session", "ret_access", "ret_refresh"}
           /\ \E l \in {"ret_access", "ret_refresh", "load"} : Goto(r, l)
    BY <1>2, Zenon DEF DeleteUserSession, RetireOldSession, DeleteEntry, At
  <2>3. /\ {"ret_session", "ret_access", "ret_refresh"} \subseteq ConsumedLabels
        /\ {"ret_access", "ret_refresh", "load"} \subseteq ConsumedLabels
    BY Zenon DEF ConsumedLabels
  <2> QED
    BY <2>1, <2>2, <2>3, FewerUsable, LoseGoto, Zenon
<1> QED
  BY <1>1, <1>2, Zenon

(* ClaimRefreshToken exchanges the token it removes, or changes nothing    *)
(* but the store.                                                          *)
LEMMA ClaimLineage ==
    ASSUME IInv, NEW r \in Requests, ClaimRefreshToken(r)
    PROVE  Lineage!Next
<1>1. token' = token /\ store' \subseteq store
  BY Zenon DEF ClaimRefreshToken
<1>2. CASE Done(r)
  BY <1>1, <1>2, FewerUsable, LoseReturn, Zenon DEF Lineage!Next
<1>3. ASSUME Live(req[r].cur), store' = store \ {<<"refresh", req[r].cur>>},
             Begin(r, "ret_session", req[r].cur, req[r].cur)
      PROVE  Lineage!Next
  <2>1. PICK n \in Nonces : n = req[r].cur
    BY Zenon DEF ClaimRefreshToken, At, IInv, LocalsOK, LocalOK
  <2>2. n \in Usable /\ Usable' = Usable \ {n}
    BY <1>3, <2>1 DEF Usable, Live
  <2>3. /\ req'[r].pc = "ret_session" /\ req'[r].cur = n /\ req'[r].fresh = NoNonce
        /\ \A q \in Requests : q # r => req'[q] = req[q]
    BY <1>3, <2>1 DEF Begin, IInv, TypeOK
  <2>4. req[r].pc = "claim"
    BY Zenon DEF ClaimRefreshToken, At
  <2>5. \A m \in Nonces : ~Consumes(r, m) /\ ~Stores(r, m) /\ ~Stores(r, m)'
    BY <2>3, <2>4, Zenon DEF Consumes, Stores, ConsumedLabels, StoringLabels
  <2>6. \A m \in Nonces : Consumes(r, m)' <=> m = n
    BY <2>3, Zenon DEF Consumes, ConsumedLabels
  <2>7. \A q \in Requests, m \in Nonces :
           q # r => /\ Consumes(q, m)' <=> Consumes(q, m)
                    /\ Stores(q, m)' <=> Stores(q, m)
    BY <2>3, Zenon DEF Consumes, Stores
  <2>8. Spent' = Spent \cup {n} /\ Fresh' = Fresh
    BY <2>5, <2>6, <2>7, RightsOf, Zenon
  <2>9. Lineage!Exchange(n)
    BY <1>1, <2>2, <2>8, Zenon DEF Lineage!Exchange
  <2> QED
    BY <2>9, Zenon DEF Lineage!Next
<1> QED
  BY <1>2, <1>3, Zenon DEF ClaimRefreshToken, Live

(* Minting starts a lineage or continues that of the consumed token.       *)
LEMMA MintLineage ==
    ASSUME IInv, NEW r \in Requests, LoadUserAndMint(r)
    PROVE  Lineage!Next
<1>1. store' = store
  BY Zenon DEF LoadUserAndMint
<1>2. Usable' = Usable
  BY <1>1, Zenon DEF Usable, Live
<1>3. CASE Done(r) /\ token' = token
  BY <1>2, <1>3, LoseReturn, Zenon DEF Lineage!Next
<1>4. ASSUME NEW m \in Nonces, NEW f \in Families, NEW g \in Grants, ~Minted(m),
             req[r].cur = NoNonce \/ token[req[r].cur].fam = NoFamily => ~FamilyUsed(f),
             token' = [token EXCEPT ![m] = NewClaims(req[r].cur, f, g)],
             req' = [req EXCEPT ![r] =
                       [pc |-> IF req[r].cur = NoNonce THEN "put_access" ELSE "put_session",
                        cur |-> req[r].cur, victim |-> NoNonce, fresh |-> m]]
      PROVE  Lineage!Next
  <2> DEFINE n == req[r].cur
  <2>1. /\ req'[r].pc \in {"put_access", "put_session"} /\ req'[r].fresh = m
        /\ \A q \in Requests : q # r => req'[q] = req[q]
    BY <1>4 DEF IInv, TypeOK
  <2>2. req[r].pc = "load"
    BY Zenon DEF LoadUserAndMint, At
  <2>3. n \in Nonces \cup {NoNonce}
    BY Zenon DEF IInv, TypeOK, Request
  <2> HIDE DEF n
  <2>4. \A k \in Nonces : /\ ~Consumes(r, k)' /\ ~Stores(r, k)
                          /\ Stores(r, k)' <=> k = m
                          /\ Consumes(r, k) <=> k = n
    BY <2>1, <2>2, Zenon DEF Consumes, Stores, ConsumedLabels, StoringLabels, n
  <2>5. \A q \in Requests, k \in Nonces :
           q # r => /\ Consumes(q, k)' <=> Consumes(q, k)
                    /\ Stores(q, k)' <=> Stores(q, k)
    BY <2>1, Zenon DEF Consumes, Stores
  <2>6. Fresh' = Fresh \cup {m}
    BY <2>4, <2>5, RightsOf, Zenon
  <2>7. \A k \in Nonces : Minted(k) <=> Lineage!Minted(k)
    BY Zenon DEF Minted, Lineage!Minted
  <2>8. ~FamilyUsed(f) => Lineage!NewFamily(f)
    BY <2>7, Zenon DEF FamilyUsed, Lineage!NewFamily
  <2>9. CASE n = NoNonce
    <3>1. Spent' = Spent
      BY <2>4, <2>5, <2>9, RightsOf, ConstantAssumption, Zenon
    <3>2. token' = [token EXCEPT
                      ![m] = [fam |-> f, grant |-> g, parent |-> NoNonce, gen |-> 1]]
      BY <1>4, <2>9, Zenon DEF NewClaims, n
    <3>3. ~Lineage!Minted(m) /\ Lineage!NewFamily(f)
      BY <1>4, <2>7, <2>8, <2>9, Zenon DEF n
    <3>4. Lineage!Start(m, f, g)
      BY <1>2, <2>6, <3>1, <3>2, <3>3, Zenon DEF Lineage!Start
    <3> QED
      BY <3>4, Zenon DEF Lineage!Next
  <2>10. CASE n \in Nonces
    <3>1. Consumes(r, n) /\ n # NoNonce
      BY <2>4, <2>10, ConstantAssumption, Zenon
    <3>2. Spent' = Spent \ {n} /\ n \in Spent
      <4>1. \A q \in Requests : Consumes(q, n) => q = r
        BY <2>10, <3>1, OneHolder, Zenon
      <4>2. \A k \in Nonces : (\E q \in Requests : Consumes(q, k)')
                               <=> k # n /\ \E q \in Requests : Consumes(q, k)
        BY <2>4, <2>5, <2>10, <4>1, Zenon
      <4> QED
        BY <2>10, <3>1, <4>2, RightsOf, Zenon
    <3>3. PICK h \in Families : h = IF token[n].fam = NoFamily THEN f ELSE token[n].fam
      BY <2>10, Zenon DEF IInv, TypeOK, Claims
    <3>4. token' = [token EXCEPT
                      ![m] = [fam |-> h, grant |-> token[n].grant, parent |-> n,
                              gen |-> token[n].gen + 1]]
      BY <1>4, <3>1, <3>3, Zenon DEF NewClaims, n
    <3>5. ~Lineage!Minted(m) /\ (token[n].fam = NoFamily => Lineage!NewFamily(h))
      BY <1>4, <2>7, <2>8, <3>3, Zenon DEF n
    <3>6. token[n].fam \in {h, NoFamily}
      BY <3>3, Zenon
    <3>7. Lineage!Succeed(n, m, h)
      BY <1>2, <2>6, <3>2, <3>4, <3>5, <3>6, Zenon DEF Lineage!Succeed
    <3> QED
      BY <2>10, <3>7, Zenon DEF Lineage!Next
  <2> QED
    BY <2>3, <2>9, <2>10, Zenon
<1> QED
  BY <1>3, <1>4, Zenon DEF LoadUserAndMint

(* Writing the refresh entry makes the new token usable; the other writes  *)
(* pass the right on, or lose it on an error.                              *)
LEMMA PersistLineage ==
    ASSUME IInv, NEW r \in Requests, PersistSession(r)
    PROVE  Lineage!Next
<1>1. token' = token
  BY Zenon DEF PersistSession, PutEntry, PutRefresh, PutFamily
<1>2. {"put_session", "put_access", "put_refresh"} \subseteq StoringLabels
  BY Zenon DEF StoringLabels
<1>3. CASE \/ PutEntry(r, "put_session", "session", "put_access")
           \/ PutEntry(r, "put_access", "access", "put_refresh")
  <2>1. store' \subseteq store \cup {<<"session", req[r].fresh>>, <<"access", req[r].fresh>>}
    BY <1>3, Zenon DEF PutEntry
  <2>2. Usable' \subseteq Usable
    BY <2>1 DEF Usable, Live
  <2>3. \/ Done(r)
        \/ /\ req[r].pc \in StoringLabels
           /\ Goto(r, "put_access") \/ Goto(r, "put_refresh")
    BY <1>2, <1>3, Zenon DEF PutEntry, At
  <2> QED
    BY <1>1, <1>2, <2>2, <2>3, LoseReturn, LoseGoto, Zenon DEF Lineage!Next
<1>4. CASE PutFamily(r)
  <2>1. store' = store /\ Done(r)
    BY <1>4, Zenon DEF PutFamily
  <2> QED
    BY <1>1, <2>1, FewerUsable, LoseReturn, Zenon DEF Lineage!Next
<1>5. CASE PutRefresh(r) /\ store' = store /\ Done(r)
  BY <1>1, <1>5, FewerUsable, LoseReturn, Zenon DEF Lineage!Next
<1>6. CASE /\ At(r, "put_refresh") /\ store' = store \cup {<<"refresh", req[r].fresh>>}
           /\ Done(r) \/ Goto(r, "put_family")
  <2>1. PICK m \in Nonces : m = req[r].fresh
    <3>1. req[r].pc \in StoringLabels
      BY <1>2, <1>6, Zenon DEF At
    <3> QED
      BY <3>1, Zenon DEF IInv, LocalsOK, LocalOK
  <2>2. Usable' = Usable \cup {m}
    BY <1>6, <2>1 DEF Usable, Live
  <2>3. /\ req'[r].pc \in {"idle", "put_family"}
        /\ \A q \in Requests : q # r => req'[q] = req[q]
    <3>1. req \in [Requests -> Request]
      BY Zenon DEF IInv, TypeOK
    <3>2. CASE Done(r)
      BY <3>1, <3>2 DEF Done, NoRequest
    <3>3. CASE Goto(r, "put_family")
      <4>1. req' = [req EXCEPT ![r] = [req[r] EXCEPT !.pc = "put_family"]]
        BY <3>3 DEF Goto
      <4>2. [req[r] EXCEPT !.pc = "put_family"].pc = "put_family"
        BY <3>1 DEF Request
      <4> QED
        BY <3>1, <4>1, <4>2, Zenon
    <3> QED
      BY <1>6, <3>2, <3>3, Zenon
  <2>4. req[r].pc = "put_refresh"
    BY <1>6, Zenon DEF At
  <2>5. \A k \in Nonces : /\ ~Consumes(r, k)' /\ ~Consumes(r, k) /\ ~Stores(r, k)'
                          /\ Stores(r, k) <=> k = m
    BY <2>1, <2>3, <2>4, Zenon DEF Consumes, Stores, ConsumedLabels, StoringLabels
  <2>6. \A q \in Requests, k \in Nonces :
           q # r => /\ Consumes(q, k)' <=> Consumes(q, k)
                    /\ Stores(q, k)' <=> Stores(q, k)
    BY <2>3, Zenon DEF Consumes, Stores
  <2>7. \A q \in Requests : Stores(q, m) => q = r
    BY <2>5, OneHolder, Zenon
  <2>8. \A k \in Nonces : (\E q \in Requests : Stores(q, k)')
                           <=> k # m /\ \E q \in Requests : Stores(q, k)
    BY <2>5, <2>6, <2>7, Zenon
  <2>9. Spent' = Spent /\ Fresh' = Fresh \ {m} /\ m \in Fresh
    BY <2>5, <2>6, <2>8, RightsOf, Zenon
  <2>10. Lineage!Activate(m)
    BY <1>1, <2>2, <2>9, Zenon DEF Lineage!Activate
  <2> QED
    BY <2>10, Zenon DEF Lineage!Next
<1>7. PutRefresh(r) => \/ store' = store /\ Done(r)
                       \/ /\ At(r, "put_refresh")
                          /\ store' = store \cup {<<"refresh", req[r].fresh>>}
                          /\ Done(r) \/ Goto(r, "put_family")
  BY Zenon DEF PutRefresh
<1> QED
  BY <1>3, <1>4, <1>5, <1>6, <1>7, Zenon DEF PersistSession

(* Administration and time only take rights away.                          *)
LEMMA OtherLineage ==
    ASSUME Administration \/ Time
    PROVE  Lineage!Lose
<1>1. store' \subseteq store /\ token' = token /\ req' = req
  BY Zenon
  DEF Administration, ResetPassword, RevokeAccess, EnableAccess, DeleteUser, Sweep,
      DeleteAllUserSessions, Time, Tick, Expire, Lapse, LapseRecord
<1>2. \A q \in Requests, n \in Nonces :
         (Consumes(q, n)' => Consumes(q, n)) /\ (Stores(q, n)' => Stores(q, n))
  BY <1>1, Zenon DEF Consumes, Stores
<1> QED
  BY <1>1, <1>2, FewerUsable, LoseStep, Zenon

(* Every step of the rotation is one of the lineage, or leaves it alone.   *)
LEMMA NextLineage == IInv /\ [Next]_vars => [Lineage!Next]_<<token, Usable, Spent, Fresh>>
<1> SUFFICES ASSUME IInv, [Next]_vars
             PROVE  [Lineage!Next]_<<token, Usable, Spent, Fresh>>
  OBVIOUS
<1>1. ASSUME NEW r \in Requests, Handler(r)
      PROVE  Lineage!Next
  BY <1>1, CallLineage, ClaimLineage, MintLineage, PersistLineage, Zenon
  DEF Handler, Lineage!Next
<1>2. CASE Administration \/ Time
  BY <1>2, OtherLineage, Zenon DEF Lineage!Next
<1>3. CASE UNCHANGED vars
  BY <1>3, Zenon DEF vars, Usable, Live, Spent, Fresh
<1> QED
  BY <1>1, <1>2, <1>3, Zenon DEF Next

(* The tokens of an older release are usable at the start, no other is.    *)
LEMMA InitLineage == Init => Lineage!Init
<1> SUFFICES ASSUME Init
             PROVE  Lineage!Init
  OBVIOUS
<1>1. \A r \in Requests : req[r].pc = "idle"
  BY DEF Init, NoRequest
<1>2. \A r \in Requests, n \in Nonces : ~Consumes(r, n) /\ ~Stores(r, n)
  BY <1>1, Zenon DEF Consumes, Stores, ConsumedLabels, StoringLabels
<1>3. Spent = {} /\ Fresh = {}
  BY <1>2, RightsOf, Zenon
<1>4. Usable = LegacyNonces
  BY ConstantAssumption DEF Init, Usable, Live
<1> QED
  BY <1>3, <1>4, Zenon DEF Lineage!Init, Init

(* The interleaved calls of the refresh and code grants, with their        *)
(* crashes, failed calls, logouts, revocations and sweeps, implement the   *)
(* abstract lineage: every token descends from one grant along a single    *)
(* line of exchanges, and every other step only takes rights away.         *)
THEOREM RotationIsLineage == Spec => ImplementsLineage
<1>1. Init => Lineage!Init
  BY InitLineage
<1>2. IInv /\ [Next]_vars => [Lineage!Next]_<<token, Usable, Spent, Fresh>>
  BY NextLineage
<1> QED
  BY <1>1, <1>2, AlwaysIInv, PTL DEF Spec, ImplementsLineage, Lineage!Spec, Lineage!lineage

================================================================================
