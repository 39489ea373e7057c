----------------------------- MODULE TotpProofs -----------------------------
(***************************************************************************)
(* Proofs about Totp, for every set of handlers, recovery codes and        *)
(* passcodes and every bound: the types, that a recovery code is redeemed  *)
(* once for each time it was written, that a passcode is accepted once,    *)
(* that verified_at is set for confirmed secrets only, that secret and     *)
(* recovery codes come from one enrolment, that the live secret is kept,   *)
(* and that the attempts of ValidateRecoveryCode suffice.                  *)
(***************************************************************************)
EXTENDS Totp, FiniteSetTheorems, TLAPS

-----------------------------------------------------------------------------
(* Types                                                                   *)

GhostsOK ==
    /\ confirmed \subseteq Enrolments
    /\ written \in [Enrolments -> Nat] /\ promoted \in [Enrolments -> Nat]
    /\ accepted \in [Enrolments \X Passcodes -> Nat] /\ open \in Nat
    /\ redeemed \in [Enrolments \X Codes -> Nat]

(* What a handler holds at each label, conf being the confirmed secrets:   *)
(* the row and the input it needs, a passcode that was compared with the   *)
(* secret it is accepted for, a recovery code the row it read holds.       *)
LocalAt(l, r, conf) ==
    /\ l \in {"store", "create", "promote"} => r.new \in Enrolments
    /\ l = "create" => r.seen = None
    /\ l \in {"pending", "promote", "live", "reserve", "mark", "codes", "consume"}
         => r.seen \in Row /\ r.input \in Inputs
    /\ l = "promote" => r.input[1] = r.new /\ r.input[2] \in Passcodes
    /\ l = "reserve" => r.input[1] = r.seen.secret /\ r.input[2] \in Passcodes
    /\ l = "mark" => r.seen.secret \in conf
    /\ l = "consume" => r.input[1] = r.seen.gen /\ r.input[2] \in Codes \ r.seen.spent

LocalsOK == \A h \in Handlers : LocalAt(pc[h], local[h], confirmed)

Typed == TypeOK /\ GhostsOK /\ LocalsOK

(* A handler's step is a move to a label with locals that fit it.          *)
Moves(h, l, r) ==
    /\ pc' = [pc EXCEPT ![h] = l] /\ local' = [local EXCEPT ![h] = r]
    /\ LocalAt(l, r, confirmed')

(* A handler that moves to a typed place leaves everything typed.          *)
LEMMA MoveTyped ==
    ASSUME Typed, NEW h \in Handlers, NEW l \in Labels, NEW r \in Local,
           Moves(h, l, r), confirmed \subseteq confirmed'
    PROVE  /\ pc' \in [Handlers -> Labels] /\ local' \in [Handlers -> Local]
           /\ LocalsOK'
<1>1. pc \in [Handlers -> Labels] /\ local \in [Handlers -> Local]
  BY Zenon DEF Typed, TypeOK
<1>2. pc' \in [Handlers -> Labels] /\ local' \in [Handlers -> Local]
  BY <1>1, Zenon DEF Moves
<1>3. ASSUME NEW g \in Handlers PROVE LocalAt(pc'[g], local'[g], confirmed')
  <2>1. CASE g = h
    BY <1>1, <2>1, Zenon DEF Moves
  <2>2. CASE g # h
    <3>1. pc'[g] = pc[g] /\ local'[g] = local[g]
      BY <1>1, <2>2, Zenon DEF Moves
    <3> QED
      BY <3>1, Zenon DEF Typed, LocalsOK, LocalAt
  <2> QED
    BY <2>1, <2>2
<1> QED
  BY <1>2, <1>3, Zenon DEF LocalsOK

(* A handler at rest is typed.                                             *)
LEMMA IdleTyped == Idle \in Local /\ \A conf : LocalAt("idle", Idle, conf)
<1>1. totalRecoveryCodes \in Nat
  BY TotpAssumption, FS_CardinalityType DEF totalRecoveryCodes
<1> QED
  BY <1>1 DEF Idle, Local, LocalAt

(* A handler that is done moves to rest.                                   *)
LEMMA FinishMoves ==
    ASSUME Typed, NEW h \in Handlers, Finish(h)
    PROVE  Moves(h, "idle", Idle)
BY IdleTyped, Zenon DEF Finish, Moves

(* A step that keeps the locals. *)
LEMMA GotoMoves ==
    ASSUME Typed, NEW h \in Handlers, NEW l, Goto(h, l), UNCHANGED local,
           LocalAt(l, local[h], confirmed')
    PROVE  Moves(h, l, local[h])
<1>1. local = [local EXCEPT ![h] = local[h]]
  BY DEF Typed, TypeOK
<1> QED
  BY <1>1, Zenon DEF Goto, Moves

(* Every step of a handler moves it and unconfirms nothing.                *)
LEMMA StepMoves ==
    ASSUME Typed, NEW h \in Handlers, Generate(h) \/ VerifyOTP(h) \/ Step(h)
    PROVE  /\ \E l \in Labels, r \in Local : Moves(h, l, r)
           /\ confirmed \subseteq confirmed'
<1>0. /\ local[h] \in Local /\ LocalAt(pc[h], local[h], confirmed)
      /\ row \in Row \cup {None} /\ pending \in Enrolments \cup {None}
      /\ "idle" \in Labels /\ Idle \in Local
  BY IdleTyped, Zenon DEF Typed, TypeOK, LocalsOK, Labels
<1>1. CASE Generate(h)
  <2>1. minted + 1 \in Enrolments
    BY <1>1, TotpAssumption DEF Generate, Typed, TypeOK, Enrolments
  <2>2. PICK x \in {row, None} :
           local' = [local EXCEPT ![h] = [Idle EXCEPT !.seen = x, !.new = minted + 1]]
    BY <1>1, Zenon DEF Generate
  <2> DEFINE r == [Idle EXCEPT !.seen = x, !.new = minted + 1]
  <2>3. r \in Local /\ r.new = minted + 1
    BY <1>0, <2>1, Zenon DEF Local, Idle
  <2>4. LocalAt("store", r, confirmed')
    BY <2>1, <2>3, Zenon DEF LocalAt
  <2> QED
    BY <1>1, <2>2, <2>3, <2>4, Zenon DEF Generate, Goto, Moves, Labels, ghosts
<1>2. CASE VerifyOTP(h)
  <2>1. PICK i \in Inputs :
           local' = [local EXCEPT ![h] = [Idle EXCEPT !.seen = row, !.input = i]]
    BY <1>2, Zenon DEF VerifyOTP
  <2> DEFINE r == [Idle EXCEPT !.seen = row, !.input = i]
  <2>2. row \in Row
    BY <1>0, <1>2, Zenon DEF VerifyOTP
  <2>3. r \in Local /\ r.seen = row /\ r.input = i
    BY <1>0, <2>1, Zenon DEF Local, Idle
  <2>4. LocalAt("pending", r, confirmed')
    BY <2>2, <2>3, Zenon DEF LocalAt
  <2> QED
    BY <1>2, <2>1, <2>3, <2>4, Zenon DEF VerifyOTP, Goto, Moves, Labels, ghosts
<1>3. CASE Finish(h) /\ confirmed \subseteq confirmed'
  BY <1>0, <1>3, FinishMoves, Zenon
<1>4. CASE AddAuthenticator(h)
  <2>1. CASE Goto(h, "create") /\ UNCHANGED local
    <3>1. LocalAt("create", local[h], confirmed')
      BY <1>0, <1>4, Zenon DEF AddAuthenticator, LocalAt, Seen
    <3> QED
      BY <1>0, <1>4, <2>1, <3>1, GotoMoves, Zenon DEF AddAuthenticator, Labels, ghosts
  <2> QED
    BY <1>3, <1>4, <2>1, Zenon DEF AddAuthenticator, ghosts
<1>5. CASE GetPending(h)
  <2>1. CASE Goto(h, "live") /\ UNCHANGED local
    <3>1. LocalAt("live", local[h], confirmed')
      BY <1>0, <1>5, Zenon DEF GetPending, LocalAt
    <3> QED
      BY <1>0, <1>5, <2>1, <3>1, GotoMoves, Zenon DEF GetPending, Labels, ghosts
  <2>2. CASE Confirms(h, pending) /\ local' = [local EXCEPT ![h].new = pending]
             /\ Goto(h, "promote")
    <3> DEFINE r == [local[h] EXCEPT !.new = pending]
    <3>1. r \in Local /\ r.new = pending /\ r.seen = local[h].seen
          /\ r.input = local[h].input
      BY <1>0, Zenon DEF Local
    <3>2. pending \in Enrolments /\ Input(h)[1] = pending /\ Input(h)[2] \in Passcodes
      BY <1>0, <2>2, Zenon DEF Confirms, IsPasscodeOf
    <3>3. local[h].seen \in Row /\ local[h].input \in Inputs
      BY <1>0, <1>5, Zenon DEF GetPending, LocalAt
    <3>4. LocalAt("promote", r, confirmed')
      BY <3>1, <3>2, <3>3, Zenon DEF LocalAt, Input
    <3> QED
      BY <1>5, <2>2, <3>1, <3>4, Zenon DEF GetPending, Goto, Moves, Labels, ghosts
  <2> QED
    BY <1>5, <2>1, <2>2, Zenon DEF GetPending
<1>6. CASE Promote(h)
  <2>1. confirmed \subseteq confirmed'
    BY <1>6, Zenon DEF Promote, Accepted
  <2>2. LocalAt("clear", local[h], confirmed')
    BY DEF LocalAt
  <2> QED
    BY <1>0, <1>6, <2>1, <2>2, GotoMoves, Zenon DEF Promote, Labels
<1>7. CASE Validate(h)
  <2>1. PICK l \in {"reserve", "codes"} :
           Goto(h, l) /\ (l = "reserve" => IsPasscodeOf(h, Seen(h).secret))
    BY <1>7, Zenon DEF Validate
  <2>2. LocalAt(l, local[h], confirmed')
    BY <1>0, <1>7, <2>1, Zenon DEF Validate, LocalAt, IsPasscodeOf, Seen, Input
  <2> QED
    BY <1>0, <1>7, <2>1, <2>2, GotoMoves, Zenon DEF Validate, Labels, ghosts
<1>8. CASE Reserve(h) \/ ReserveFailsOpen(h)
  <2>1. confirmed \subseteq confirmed'
    BY <1>8, Zenon DEF Reserve, ReserveFailsOpen, reserveTOTPPasscode, Accepted
  <2>2. local[h].seen \in Row /\ local[h].input \in Inputs
        /\ Input(h)[1] = Seen(h).secret
    BY <1>0, <1>8, Zenon DEF Reserve, ReserveFailsOpen, LocalAt, Seen, Input
  <2>3. CASE Goto(h, "codes") /\ UNCHANGED local
    <3>1. LocalAt("codes", local[h], confirmed')
      BY <2>2, Zenon DEF LocalAt
    <3> QED
      BY <1>0, <2>1, <2>3, <3>1, GotoMoves, Zenon DEF Labels
  <2>4. CASE Accepted(h) /\ Goto(h, "mark") /\ UNCHANGED local
    <3>1. LocalAt("mark", local[h], confirmed')
      BY <2>2, <2>4, Zenon DEF LocalAt, Accepted, Seen
    <3> QED
      BY <1>0, <2>1, <2>4, <3>1, GotoMoves, Zenon DEF Labels
  <2> QED
    BY <1>3, <1>8, <2>1, <2>3, <2>4, Zenon
       DEF Reserve, ReserveFailsOpen, reserveTOTPPasscode, AfterReserve
<1>9. CASE ReadCodes(h)
  <2>1. CASE Redeemable(h) /\ local' = [local EXCEPT ![h].seen = row]
             /\ Goto(h, "consume")
    <3> DEFINE r == [local[h] EXCEPT !.seen = row]
    <3>1. r \in Local /\ r.seen = row /\ r.input = local[h].input
      BY <1>0, Zenon DEF Local
    <3>2. row \in Row /\ local[h].input \in Inputs
      BY <1>0, <1>9, <2>1, Zenon DEF ReadCodes, LocalAt, Redeemable
    <3>3. LocalAt("consume", r, confirmed')
      BY <2>1, <3>1, <3>2, Zenon DEF LocalAt, Redeemable, Input
    <3> QED
      BY <1>9, <2>1, <3>1, <3>3, Zenon DEF ReadCodes, Goto, Moves, Labels, ghosts
  <2> QED
    BY <1>3, <1>9, <2>1, Zenon DEF ReadCodes, ghosts
<1>10. CASE Retry(h)
  <2> DEFINE n == local[h].attempt + 1
             r == [local[h] EXCEPT !.attempt = n]
  <2>1. CASE /\ n < recoveryCodeConsumeAttempts
             /\ local' = [local EXCEPT ![h].attempt = n] /\ Goto(h, "codes")
    <3>1. n \in 0..totalRecoveryCodes
      <4>1. totalRecoveryCodes \in Nat
        BY TotpAssumption, FS_CardinalityType DEF totalRecoveryCodes
      <4>2. local[h].attempt \in 0..totalRecoveryCodes
        BY <1>0, Zenon DEF Local
      <4> QED
        BY <2>1, <4>1, <4>2 DEF recoveryCodeConsumeAttempts
    <3>2. r \in Local /\ r.seen = local[h].seen /\ r.input = local[h].input
      BY <1>0, <3>1, Zenon DEF Local
    <3>3. local[h].seen \in Row /\ local[h].input \in Inputs
      BY <1>0, <1>10, Zenon DEF Retry, LocalAt
    <3>4. LocalAt("codes", r, confirmed')
      BY <3>2, <3>3, Zenon DEF LocalAt
    <3> HIDE DEF n
    <3>5. local' = [local EXCEPT ![h] = r]
      BY <2>1, Zenon
    <3> QED
      BY <1>10, <2>1, <3>2, <3>4, <3>5, Zenon DEF Retry, Goto, Moves, Labels
  <2> QED
    BY <1>3, <1>10, <2>1, Zenon DEF Retry
<1>11. CASE \/ StagePending(h) \/ Create(h) \/ Overwrite(h) \/ ClearPending(h)
            \/ Mark(h) \/ Consume(h) \/ Fail(h)
  BY <1>3, <1>11, Zenon
     DEF StagePending, Create, Overwrite, ClearPending, Mark, Consume, Fail, ghosts
<1> QED
  BY <1>1, <1>2, <1>4, <1>5, <1>6, <1>7, <1>8, <1>9, <1>10, <1>11, Zenon DEF Step

(* The types hold at the start.                                            *)
LEMMA TypedInit == Init => Typed
<1> SUFFICES ASSUME Init PROVE Typed
  OBVIOUS
<1>1. 1 \in Enrolments /\ 0 \in Nat /\ 1 \in Nat
  BY TotpAssumption DEF Enrolments
<1>2. row \in Row \cup {None}
  <2>1. CASE row # None
    <3>1. PICK p \in BOOLEAN, v \in BOOLEAN :
             row = [Enrolled(1, 1) EXCEPT !.plain = p, !.verified = v]
      BY <2>1, Zenon DEF Init
    <3>2. Enrolled(1, 1) \in Row
      BY <1>1 DEF Enrolled, Row
    <3> QED
      BY <3>1, <3>2, Zenon DEF Row
  <2> QED
    BY <2>1
<1>3. minted \in 0..MaxEnrolment /\ calls \in 0..MaxCalls
  <2>1. minted \in {0, 1} /\ calls = 0
    BY Zenon DEF Init
  <2> QED
    BY <2>1, TotpAssumption
<1>4. pc \in [Handlers -> Labels] /\ local \in [Handlers -> Local] /\ LocalsOK
  BY IdleTyped, Zenon DEF Init, Labels, LocalsOK
<1>5. TypeOK
  BY <1>2, <1>3, <1>4, Zenon DEF Init, TypeOK
<1>6. confirmed \subseteq Enrolments
  BY <1>1 DEF Init
<1>7. written \in [Enrolments -> Nat]
  BY <1>1 DEF Init
<1>8. GhostsOK
  BY <1>1, <1>6, <1>7, Zenon DEF Init, GhostsOK
<1> QED
  BY <1>4, <1>5, <1>8 DEF Typed

(* An input that was compared with a secret is a passcode.                 *)
LEMMA AcceptedTyped ==
    ASSUME GhostsOK, NEW h \in Handlers, Input(h) \in Inputs,
           Input(h)[2] \in Passcodes, Accepted(h)
    PROVE  /\ Input(h) = <<Input(h)[1], Input(h)[2]>>
           /\ Input(h)[1] \in Enrolments /\ Input(h) \in Enrolments \X Passcodes
           /\ accepted' \in [Enrolments \X Passcodes -> Nat]
           /\ confirmed' \subseteq Enrolments
<1>1. /\ Input(h) = <<Input(h)[1], Input(h)[2]>>
      /\ Input(h)[1] \in Enrolments /\ Input(h) \in Enrolments \X Passcodes
  BY DEF Inputs
<1>2. accepted' \in [Enrolments \X Passcodes -> Nat]
  BY <1>1 DEF GhostsOK, Accepted
<1> QED
  BY <1>1, <1>2, Zenon DEF GhostsOK, Accepted

(* The tables and the counters keep their types.                           *)
DataOK ==
    /\ row \in Row \cup {None} /\ pending \in Enrolments \cup {None}
    /\ used \subseteq Enrolments \X Passcodes
    /\ minted \in 0..MaxEnrolment /\ calls \in 0..MaxCalls
    /\ GhostsOK

(* The steps of a handler keep the types of the data.                      *)
LEMMA StepData ==
    ASSUME Typed, NEW h \in Handlers, Generate(h) \/ VerifyOTP(h) \/ Step(h)
    PROVE  DataOK'
<1>0. DataOK /\ local[h] \in Local /\ LocalAt(pc[h], local[h], confirmed)
  BY Zenon DEF Typed, TypeOK, LocalsOK, DataOK
<1>1. CASE Generate(h)
  <2>2. minted \in 0..MaxEnrolment /\ minted < MaxEnrolment /\ minted' = minted + 1
    BY <1>0, <1>1, Zenon DEF Generate, DataOK
  <2>1. minted' \in 0..MaxEnrolment
    BY <2>2, TotpAssumption
  <2> QED
    BY <1>0, <1>1, <2>1, Zenon DEF Generate, DataOK, GhostsOK, ghosts
<1>2. CASE VerifyOTP(h)
  <2>2. calls \in 0..MaxCalls /\ calls < MaxCalls /\ calls' = calls + 1
    BY <1>0, <1>2, Zenon DEF VerifyOTP, DataOK
  <2>1. calls' \in 0..MaxCalls
    BY <2>2, TotpAssumption
  <2> QED
    BY <1>0, <1>2, <2>1, Zenon DEF VerifyOTP, DataOK, GhostsOK, ghosts
<1>3. CASE StagePending(h) \/ ClearPending(h)
  <2>1. pending' \in Enrolments \cup {None}
    BY <1>0, <1>3, Zenon DEF StagePending, ClearPending, LocalAt
  <2> QED
    BY <1>0, <1>3, <2>1, Zenon
       DEF StagePending, ClearPending, DataOK, GhostsOK, ghosts
<1>4. CASE \/ AddAuthenticator(h) \/ GetPending(h) \/ Validate(h)
           \/ ReadCodes(h) \/ Retry(h) \/ Fail(h)
  BY <1>0, <1>4, Zenon
     DEF AddAuthenticator, GetPending, Validate, ReadCodes, Retry, Fail, DataOK,
         GhostsOK, ghosts
<1>5. ASSUME NEW e \in Enrolments, Rewritten(e)
      PROVE  written' \in [Enrolments -> Nat]
  BY <1>0, <1>5 DEF DataOK, GhostsOK, Rewritten
<1>6. CASE Create(h)
  <2>1. local[h].new \in Enrolments
    BY <1>0, <1>6, Zenon DEF Create, LocalAt
  <2>2. (IF row = None THEN local[h].new ELSE row.id) \in Enrolments
    BY <1>0, <2>1 DEF DataOK, Row
  <2>3. row' \in Row
    BY <1>6, <2>1, <2>2 DEF Create, Enrolled, Row
  <2> QED
    BY <1>0, <1>5, <1>6, <2>1, <2>3, Zenon DEF Create, DataOK, GhostsOK
<1>7. CASE Overwrite(h)
  <2>1. local[h].new \in Enrolments /\ Seen(h) \in Row
    BY <1>0, <1>7, Zenon DEF Overwrite, Overwrites, LocalAt, Local, Seen
  <2>2. row' \in Row
    BY <1>7, <2>1 DEF Overwrite, UpdateAuthenticator, Row
  <2> QED
    BY <1>0, <1>5, <1>7, <2>1, <2>2, Zenon DEF Overwrite, DataOK, GhostsOK
<1>8. CASE Promote(h)
  <2>1. /\ local[h].new \in Enrolments /\ Seen(h) \in Row /\ Input(h) \in Inputs
        /\ Input(h)[2] \in Passcodes
    BY <1>0, <1>8, Zenon DEF Promote, LocalAt, Seen, Input
  <2>2. row' \in Row
    BY <1>8, <2>1 DEF Promote, UpdateAuthenticator, Promoted, Row
  <2>3. promoted' \in [Enrolments -> Nat]
    BY <1>0, <1>8, <2>1 DEF Promote, DataOK, GhostsOK
  <2>4. Accepted(h) /\ GhostsOK
    BY <1>0, <1>8, Zenon DEF Promote, DataOK
  <2>5. /\ accepted' \in [Enrolments \X Passcodes -> Nat]
        /\ confirmed' \subseteq Enrolments
    BY <2>1, <2>4, AcceptedTyped, Zenon
  <2> QED
    BY <1>0, <1>5, <1>8, <2>1, <2>2, <2>3, <2>5, Zenon DEF Promote, DataOK, GhostsOK
<1>9. CASE Reserve(h) \/ ReserveFailsOpen(h)
  <2>1. Input(h) \in Inputs /\ Input(h)[2] \in Passcodes
    BY <1>0, <1>9, Zenon DEF Reserve, ReserveFailsOpen, LocalAt, Seen, Input
  <2>2. /\ \/ Accepted(h)
           \/ UNCHANGED <<accepted, confirmed, used>>
        /\ used' \in {used, used \cup {Input(h)}}
    BY <1>9, Zenon DEF Reserve, ReserveFailsOpen, reserveTOTPPasscode
  <2>3. Input(h) \in Enrolments \X Passcodes
    BY <2>1 DEF Inputs
  <2>4. /\ accepted' \in [Enrolments \X Passcodes -> Nat]
        /\ confirmed' \subseteq Enrolments
    BY <1>0, <2>1, <2>2, AcceptedTyped, Zenon DEF DataOK, GhostsOK
  <2>5. used' \subseteq Enrolments \X Passcodes
    BY <1>0, <2>2, <2>3, Zenon DEF DataOK
  <2>6. open' \in Nat
    BY <1>0, <1>9 DEF Reserve, ReserveFailsOpen, DataOK, GhostsOK
  <2> QED
    BY <1>0, <1>9, <2>4, <2>5, <2>6, Zenon
       DEF Reserve, ReserveFailsOpen, DataOK, GhostsOK
<1>10. CASE Mark(h)
  <2>1. Seen(h) \in Row /\ row \in Row \cup {None}
    BY <1>0, <1>10, Zenon DEF Mark, LocalAt, Seen, DataOK
  <2>2. row' \in Row \cup {None}
    BY <1>10, <2>1 DEF Mark, UpdateAuthenticatorSecretAndVerifiedAt, Row
  <2> QED
    BY <1>0, <1>10, <2>2, Zenon DEF Mark, DataOK, GhostsOK
<1>11. CASE Consume(h)
  <2>1. /\ Seen(h) \in Row /\ row \in Row /\ Input(h) \in Inputs
        /\ Input(h)[2] \in Codes
    BY <1>0, <1>11, Zenon DEF Consume, Unchanged, LocalAt, Seen, Input, DataOK
  <2>2. row' \in Row
    BY <1>11, <2>1 DEF Consume, Row
  <2>3. Input(h) \in Enrolments \X Codes
    BY <2>1 DEF Inputs
  <2>4. redeemed' \in [Enrolments \X Codes -> Nat]
    BY <1>0, <1>11, <2>3 DEF Consume, DataOK, GhostsOK
  <2> QED
    BY <1>0, <1>11, <2>2, <2>4, Zenon DEF Consume, DataOK, GhostsOK
<1> QED
  BY <1>1, <1>2, <1>3, <1>4, <1>6, <1>7, <1>8, <1>9, <1>10, <1>11, Zenon DEF Step

(* Every step keeps the types.                                             *)
LEMMA TypedNext == Typed /\ [Next]_vars => Typed'
<1> SUFFICES ASSUME Typed, [Next]_vars PROVE Typed'
  OBVIOUS
<1>1. ASSUME NEW h \in Handlers, Generate(h) \/ VerifyOTP(h) \/ Step(h)
      PROVE  Typed'
  <2>1. DataOK'
    BY <1>1, StepData, Zenon
  <2>2. /\ pc' \in [Handlers -> Labels] /\ local' \in [Handlers -> Local]
        /\ LocalsOK'
    BY <1>1, StepMoves, MoveTyped, Zenon
  <2> QED
    BY <2>1, <2>2, Zenon DEF Typed, TypeOK, DataOK
<1>2. CASE ExpirePending \/ ResetMfa \/ UNCHANGED vars
  <2>1. UNCHANGED <<used, pc, local, minted, calls, ghosts>>
        /\ pending' \in {pending, None} /\ row' \in {row, None}
    BY <1>2, Zenon DEF ExpirePending, ResetMfa, vars
  <2> QED
    BY <2>1, Zenon DEF Typed, TypeOK, GhostsOK, LocalsOK, LocalAt, ghosts
<1> QED
  BY <1>1, <1>2, Zenon DEF Next

-----------------------------------------------------------------------------
(* The inductive invariants                                                *)

(* An unspent code of the row has been redeemed less often than written.   *)
CodesInv ==
    /\ RecoveryCodeIsSpentOnce
    /\ row # None =>
         \A c \in Codes \ row.spent : redeemed[<<row.gen, c>>] < written[row.gen]

(* An accepted passcode is marked, promoted something, or failed open.     *)
PasscodesInv ==
    \A e \in Enrolments, p \in Passcodes :
        accepted[<<e, p>>] <= (IF <<e, p>> \in used THEN 1 ELSE 0) + promoted[e] + open

(* Enrolment e has left the hands of its Generate.                         *)
Placing(h, e) == pc[h] \in {"store", "create"} /\ local[h].new = e
Staged(e) == pending = e \/ \E h \in Handlers : pc[h] = "promote" /\ local[h].new = e

(* The codes of an enrolment are written by the Generate that minted it or *)
(* by promotions of it, never by both.                                     *)
WritesOf(e) ==
    /\ row # None /\ row.gen = e => written[e] >= 1
    /\ e > minted \/ (\E h \in Handlers : Placing(h, e)) =>
          written[e] = 0 /\ promoted[e] = 0 /\ ~Staged(e)
    /\ e > minted => \A h \in Handlers : ~Placing(h, e)
    /\ \A g, h \in Handlers : Placing(g, e) /\ Placing(h, e) => g = h
    /\ \/ written[e] <= promoted[e]
       \/ written[e] <= 1 /\ promoted[e] = 0 /\ ~Staged(e)

WritesInv == \A e \in Enrolments : WritesOf(e)

(* A redemption has lost at most as many rounds as codes were consumed     *)
(* since the codes were written, unless they were written twice.           *)
RoundsOf(h) ==
    /\ pc[h] \notin {"codes", "consume"} => local[h].attempt = 0
    /\ pc[h] = "consume" \/ (pc[h] = "codes" /\ local[h].attempt > 0)
          => written[Input(h)[1]] >= 1
    /\ /\ pc[h] \in {"codes", "consume"}
       /\ row # None /\ row.gen = Input(h)[1] /\ written[row.gen] <= 1
       => /\ local[h].attempt <= Cardinality(row.spent)
          /\ pc[h] = "consume" =>
                /\ row.id = Seen(h).id /\ Seen(h).spent \subseteq row.spent
                /\ local[h].attempt <= Cardinality(Seen(h).spent)

RoundsInv == \A h \in Handlers : RoundsOf(h)

AttemptsInv == WritesInv /\ RoundsInv /\ AttemptsSuffice

-----------------------------------------------------------------------------
(* What the steps do to the row                                            *)

(* The steps that write the row.                                           *)
LEMMA RowWriters ==
    ASSUME Next
    PROVE  \/ row' \in {row, None} /\ UNCHANGED <<written, redeemed, reverted>>
           \/ \E h \in Handlers :
                 Create(h) \/ Overwrite(h) \/ Promote(h) \/ Mark(h) \/ Consume(h)
<1>1. ASSUME NEW h \in Handlers, Generate(h) \/ VerifyOTP(h) \/ Step(h)
      PROVE  \/ UNCHANGED <<row, written, redeemed, reverted>>
             \/ Create(h) \/ Overwrite(h) \/ Promote(h) \/ Mark(h) \/ Consume(h)
  BY <1>1, Zenon
     DEF Step, Generate, VerifyOTP, StagePending, AddAuthenticator, GetPending,
         ClearPending, Validate, Reserve, ReserveFailsOpen, ReadCodes, Retry, Fail,
         ghosts
<1>2. CASE ExpirePending \/ ResetMfa
  BY <1>2, Zenon DEF ExpirePending, ResetMfa, ghosts
<1> QED
  BY <1>1, <1>2, Zenon DEF Next

(* Create, Overwrite and Promote put the codes of the enrolment they hold. *)
LEMMA FreshRow ==
    ASSUME Typed, NEW h \in Handlers, Create(h) \/ Overwrite(h) \/ Promote(h)
    PROVE  /\ local[h].new \in Enrolments
           /\ row'.secret = local[h].new /\ row'.gen = local[h].new
           /\ row'.spent = {} /\ row' \in Row
           /\ Rewritten(local[h].new) /\ UNCHANGED <<redeemed, reverted>>
<1>0. local[h] \in Local /\ LocalAt(pc[h], local[h], confirmed) /\ row' \in Row \cup {None}
  <2>1. DataOK'
    BY StepData, Zenon DEF Step
  <2> QED
    BY <2>1, Zenon DEF Typed, TypeOK, LocalsOK, DataOK
<1>1. local[h].new \in Enrolments
  BY <1>0, Zenon DEF Create, Overwrite, Promote, LocalAt
<1>2. Rewritten(local[h].new) /\ UNCHANGED <<redeemed, reverted>>
  BY Zenon DEF Create, Overwrite, Promote
<1>3. CASE Create(h)
  <2>1. (IF row = None THEN local[h].new ELSE row.id) \in Enrolments
    BY <1>1 DEF Typed, TypeOK, Row
  <2> QED
    BY <1>1, <1>2, <1>3, <2>1, Zenon DEF Create, Enrolled, Row
<1>4. CASE Overwrite(h)
  <2>1. Seen(h) \in Row
    BY <1>0, <1>4, Zenon DEF Overwrite, Overwrites, Local, Seen
  <2> QED
    BY <1>1, <1>2, <1>4, <2>1, Zenon DEF Overwrite, UpdateAuthenticator, Row
<1>5. CASE Promote(h)
  <2>1. Seen(h) \in Row
    BY <1>0, <1>5, Zenon DEF Promote, LocalAt, Seen
  <2> QED
    BY <1>1, <1>2, <1>5, <2>1, Zenon
       DEF Promote, UpdateAuthenticator, Promoted, Row
<1> QED
  BY <1>3, <1>4, <1>5

(* Mark touches the secret only, of a row it may find replaced.            *)
LEMMA MarkedRow ==
    ASSUME Typed, NEW h \in Handlers, Mark(h)
    PROVE  /\ Seen(h).secret \in confirmed
           /\ UNCHANGED <<written, redeemed, confirmed>>
           /\ \/ UNCHANGED row
              \/ /\ row \in Row /\ row' \in Row
                 /\ row' = [row EXCEPT !.secret = Seen(h).secret, !.plain = FALSE,
                                       !.verified = TRUE]
                 /\ row'.id = row.id /\ row'.gen = row.gen /\ row'.spent = row.spent
                 /\ row'.secret = Seen(h).secret
           /\ reverted' = (reverted \/ (row # None /\ row.secret # Seen(h).secret))
<1>1. Seen(h) \in Row /\ Seen(h).secret \in confirmed
  BY Zenon DEF Mark, Typed, LocalsOK, LocalAt, Seen
<1>2. row \in Row \cup {None}
  BY DEF Typed, TypeOK
<1>3. \/ UNCHANGED row
      \/ /\ row # None
         /\ row' = [row EXCEPT !.secret = Seen(h).secret, !.plain = FALSE,
                               !.verified = TRUE]
  BY Zenon DEF Mark, UpdateAuthenticatorSecretAndVerifiedAt
<1>4. ASSUME row \in Row,
             row' = [row EXCEPT !.secret = Seen(h).secret, !.plain = FALSE,
                               !.verified = TRUE]
      PROVE  /\ row' \in Row /\ row'.id = row.id /\ row'.gen = row.gen
             /\ row'.spent = row.spent /\ row'.secret = Seen(h).secret
  BY <1>1, <1>4, Zenon DEF Row
<1> QED
  BY <1>1, <1>2, <1>3, <1>4, Zenon DEF Mark

(* Consume marks the code it was given in the blob it read.                *)
LEMMA ConsumedRow ==
    ASSUME Typed, NEW h \in Handlers, Consume(h)
    PROVE  /\ row \in Row /\ row # None /\ row' \in Row
           /\ Input(h)[2] \in Codes \ row.spent
           /\ Input(h) = <<row.gen, Input(h)[2]>>
           /\ row'.spent = row.spent \cup {Input(h)[2]}
           /\ row'.id = row.id /\ row'.gen = row.gen
           /\ row'.secret = row.secret /\ row'.verified = row.verified
           /\ redeemed' = [redeemed EXCEPT ![Input(h)] = @ + 1]
           /\ UNCHANGED <<written, confirmed, reverted>>
<1>1. /\ Seen(h) \in Row /\ Input(h) \in Inputs /\ Input(h)[1] = Seen(h).gen
      /\ Input(h)[2] \in Codes \ Seen(h).spent
  BY Zenon DEF Consume, Typed, LocalsOK, LocalAt, Seen, Input
<1>2. /\ row \in Row /\ row # None /\ row.gen = Seen(h).gen
      /\ row.spent = Seen(h).spent
  BY Zenon DEF Consume, Unchanged, Typed, TypeOK
<1>3. Input(h) = <<row.gen, Input(h)[2]>>
  BY <1>1, <1>2 DEF Inputs
<1>4. row' = [row EXCEPT !.spent = row.spent \cup {Input(h)[2]}]
  BY <1>2, Zenon DEF Consume
<1>5. row.spent \cup {Input(h)[2]} \in SUBSET Codes
  BY <1>1, <1>2, Zenon DEF Row
<1>6. /\ row' \in Row /\ row'.spent = row.spent \cup {Input(h)[2]}
      /\ row'.id = row.id /\ row'.gen = row.gen
      /\ row'.secret = row.secret /\ row'.verified = row.verified
  BY <1>2, <1>4, <1>5, Zenon DEF Row
<1> QED
  BY <1>1, <1>2, <1>3, <1>6, Zenon DEF Consume

-----------------------------------------------------------------------------
(* Recovery codes                                                          *)

(* A recovery code is redeemed at most once for each time the codes of its *)
(* enrolment were written (totp.go ValidateRecoveryCode, with the          *)
(* conditional update of ConsumeAuthenticatorRecoveryCode).                *)
THEOREM RecoveryCodesAreSpentOnce == Spec => []RecoveryCodeIsSpentOnce
<1>1. Init => CodesInv
  <2> SUFFICES ASSUME Init PROVE CodesInv
    OBVIOUS
  <2>1. Typed
    BY TypedInit
  <2>2. /\ redeemed = [c \in Enrolments \X Codes |-> 0]
        /\ written = [e \in Enrolments |-> IF row # None /\ e = 1 THEN 1 ELSE 0]
    BY Zenon DEF Init
  <2>3. row # None => row \in Row /\ row.gen = 1
    <3>1. ASSUME row # None PROVE row.gen = 1
      <4>1. PICK p \in BOOLEAN, v \in BOOLEAN :
               row = [Enrolled(1, 1) EXCEPT !.plain = p, !.verified = v]
        BY <3>1, Zenon DEF Init
      <4> QED
        BY <4>1, Zenon DEF Enrolled
    <3> QED
      BY <2>1, <3>1, Zenon DEF Typed, TypeOK
  <2>4. RecoveryCodeIsSpentOnce
    BY <2>2 DEF RecoveryCodeIsSpentOnce
  <2>5. row # None => row.gen \in Enrolments
    BY <2>3, Zenon DEF Row
  <2> QED
    BY <2>2, <2>3, <2>4, <2>5 DEF CodesInv
<1>2. Typed /\ CodesInv /\ [Next]_vars => CodesInv'
  <2> SUFFICES ASSUME Typed, CodesInv, [Next]_vars PROVE CodesInv'
    OBVIOUS
  <2>0. /\ written \in [Enrolments -> Nat] /\ redeemed \in [Enrolments \X Codes -> Nat]
        /\ row \in Row \cup {None}
    BY Zenon DEF Typed, TypeOK, GhostsOK
  <2>5. \A e \in Enrolments, c \in Codes : redeemed[<<e, c>>] <= written[e]
    BY Zenon DEF CodesInv, RecoveryCodeIsSpentOnce
  <2>1. CASE row' \in {row, None} /\ UNCHANGED <<written, redeemed>>
    BY <2>1, Zenon DEF CodesInv, RecoveryCodeIsSpentOnce
  <2>2. ASSUME NEW h \in Handlers, Create(h) \/ Overwrite(h) \/ Promote(h)
        PROVE  CodesInv'
    <3> DEFINE e == local[h].new
    <3>1. /\ e \in Enrolments /\ row'.gen = e
          /\ written' = [written EXCEPT ![e] = written[e] + 1] /\ redeemed' = redeemed
      BY <2>2, FreshRow, Zenon DEF Rewritten
    <3> HIDE DEF e
    <3>2. \A d \in Enrolments : written[d] <= written'[d]
      BY <2>0, <3>1
    <3>3. written'[e] = written[e] + 1
      BY <2>0, <3>1
    <3>4. \A d \in Enrolments, c \in Codes :
             redeemed[<<d, c>>] \in Nat /\ written[d] \in Nat /\ written'[d] \in Nat
      BY <2>0, <3>1
    <3>5. ASSUME NEW d \in Enrolments, NEW c \in Codes
          PROVE  redeemed'[<<d, c>>] <= written'[d]
      <4>1. redeemed[<<d, c>>] <= written[d] /\ written[d] <= written'[d]
        BY <2>5, <3>2, Zenon
      <4> QED
        BY <3>1, <3>4, <4>1
    <3>6. \A c \in Codes : redeemed'[<<e, c>>] < written'[e]
      BY <2>5, <3>1, <3>3, <3>4
    <3> QED
      BY <3>1, <3>5, <3>6, Zenon DEF CodesInv, RecoveryCodeIsSpentOnce
  <2>3. ASSUME NEW h \in Handlers, Mark(h) PROVE CodesInv'
    <3>1. /\ UNCHANGED <<written, redeemed>>
          /\ \/ row' = row
             \/ row # None /\ row'.gen = row.gen /\ row'.spent = row.spent
      BY <2>3, MarkedRow, Zenon
         DEF Mark, UpdateAuthenticatorSecretAndVerifiedAt
    <3> QED
      BY <3>1, Zenon DEF CodesInv, RecoveryCodeIsSpentOnce
  <2>4. ASSUME NEW h \in Handlers, Consume(h) PROVE CodesInv'
    <3> DEFINE c == Input(h)[2]
               g == row.gen
    <3>1. /\ row # None /\ row \in Row /\ c \in Codes \ row.spent
          /\ redeemed' = [redeemed EXCEPT ![<<g, c>>] = redeemed[<<g, c>>] + 1]
          /\ written' = written /\ row'.gen = g /\ row'.spent = row.spent \cup {c}
      BY <2>4, ConsumedRow, Zenon
    <3>2. g \in Enrolments
      BY <3>1, Zenon DEF Row
    <3>3. redeemed[<<g, c>>] < written[g]
      BY <3>1, Zenon DEF CodesInv
    <3> HIDE DEF c, g
    <3>4. \A e \in Enrolments, d \in Codes :
             /\ redeemed[<<e, d>>] \in Nat /\ written[e] \in Nat
             /\ redeemed'[<<e, d>>] = IF e = g /\ d = c THEN redeemed[<<g, c>>] + 1
                                                      ELSE redeemed[<<e, d>>]
      BY <2>0, <3>1, <3>2
    <3>5. ASSUME NEW e \in Enrolments, NEW d \in Codes
          PROVE  redeemed'[<<e, d>>] <= written'[e]
      <4>1. redeemed[<<e, d>>] <= written[e]
        BY <2>5, Zenon
      <4> QED
        BY <3>1, <3>2, <3>3, <3>4, <4>1
    <3>6. \A d \in Codes \ row'.spent : redeemed'[<<g, d>>] < written'[g]
      BY <3>1, <3>2, <3>4 DEF CodesInv, g
    <3> QED
      BY <3>1, <3>5, <3>6, Zenon DEF CodesInv, RecoveryCodeIsSpentOnce
  <2> QED
    BY <2>1, <2>2, <2>3, <2>4, RowWriters, Zenon DEF vars, ghosts
<1>3. CodesInv => RecoveryCodeIsSpentOnce
  BY DEF CodesInv
<1> QED
  BY <1>1, <1>2, <1>3, TypedInit, TypedNext, PTL DEF Spec

-----------------------------------------------------------------------------
(* Passcodes                                                               *)

(* The steps that accept a passcode.                                       *)
LEMMA PasscodeWriters ==
    ASSUME Next
    PROVE  \/ UNCHANGED <<accepted, used, promoted, open, confirmed>>
           \/ \E h \in Handlers : Promote(h) \/ Reserve(h) \/ ReserveFailsOpen(h)
<1>1. ASSUME NEW h \in Handlers, Generate(h) \/ VerifyOTP(h) \/ Step(h)
      PROVE  \/ UNCHANGED <<accepted, used, promoted, open, confirmed>>
             \/ Promote(h) \/ Reserve(h) \/ ReserveFailsOpen(h)
  BY <1>1, Zenon
     DEF Step, Generate, VerifyOTP, StagePending, AddAuthenticator, Create, Overwrite,
         GetPending, ClearPending, Validate, Mark, ReadCodes, Consume, Retry, Fail,
         ghosts
<1>2. CASE ExpirePending \/ ResetMfa
  BY <1>2, Zenon DEF ExpirePending, ResetMfa, ghosts
<1> QED
  BY <1>1, <1>2, Zenon DEF Next

(* A passcode is accepted once against the live secret, once more for each *)
(* promotion it confirmed and each reservation the cache failed to take    *)
(* (totp.go reserveTOTPPasscode, promotePendingSecret).                    *)
THEOREM PasscodesAreUsedOnce == Spec => []PasscodeIsUsedOnce
<1>1. Init => PasscodesInv
  <2> SUFFICES ASSUME Init, NEW e \in Enrolments, NEW p \in Passcodes
               PROVE  accepted[<<e, p>>] <= (IF <<e, p>> \in used THEN 1 ELSE 0)
                                              + promoted[e] + open
    BY DEF PasscodesInv
  <2>1. accepted[<<e, p>>] = 0 /\ used = {} /\ promoted[e] = 0 /\ open = 0
    BY Zenon DEF Init
  <2> QED
    BY <2>1
<1>2. Typed /\ PasscodesInv /\ [Next]_vars => PasscodesInv'
  <2> SUFFICES ASSUME Typed, PasscodesInv, [Next]_vars,
                      NEW e \in Enrolments, NEW p \in Passcodes
               PROVE  accepted'[<<e, p>>] <= (IF <<e, p>> \in used' THEN 1 ELSE 0)
                                               + promoted'[e] + open'
    BY DEF PasscodesInv
  <2>0. /\ accepted \in [Enrolments \X Passcodes -> Nat] /\ open \in Nat
        /\ promoted \in [Enrolments -> Nat]
        /\ accepted[<<e, p>>] <= (IF <<e, p>> \in used THEN 1 ELSE 0)
                                    + promoted[e] + open
    BY Zenon DEF PasscodesInv, Typed, GhostsOK
  <2>1. CASE UNCHANGED <<accepted, used, promoted, open>>
    BY <2>0, <2>1, Zenon
  <2>2. ASSUME NEW h \in Handlers, Accepted(h), Input(h) \in Inputs,
               Input(h)[2] \in Passcodes
        PROVE  accepted'[<<e, p>>] = IF Input(h) = <<e, p>> THEN accepted[<<e, p>>] + 1
                                     ELSE accepted[<<e, p>>]
    BY <2>0, <2>2, AcceptedTyped DEF Accepted, Typed
  <2>3. ASSUME NEW h \in Handlers, Promote(h)
        PROVE  accepted'[<<e, p>>] <= (IF <<e, p>> \in used' THEN 1 ELSE 0)
                                        + promoted'[e] + open'
    <3>1. /\ local[h].new \in Enrolments /\ Input(h) \in Inputs
          /\ Input(h)[1] = local[h].new /\ Input(h)[2] \in Passcodes
      BY <2>3, Zenon DEF Promote, Typed, LocalsOK, LocalAt, Input
    <3>2. /\ promoted' = [promoted EXCEPT ![local[h].new] = promoted[local[h].new] + 1]
          /\ Accepted(h) /\ UNCHANGED <<used, open>>
      BY <2>3, Zenon DEF Promote
    <3>3. promoted'[e] = IF Input(h)[1] = e THEN promoted[e] + 1 ELSE promoted[e]
      BY <2>0, <3>1, <3>2
    <3>4. Input(h) = <<e, p>> => Input(h)[1] = e
      BY <3>1
    <3> QED
      BY <2>0, <2>2, <3>1, <3>2, <3>3, <3>4
  <2>4. ASSUME NEW h \in Handlers, Reserve(h) \/ ReserveFailsOpen(h)
        PROVE  accepted'[<<e, p>>] <= (IF <<e, p>> \in used' THEN 1 ELSE 0)
                                        + promoted'[e] + open'
    <3>1. Input(h) \in Inputs /\ Input(h)[2] \in Passcodes
      BY <2>4, Zenon DEF Reserve, ReserveFailsOpen, Typed, LocalsOK, LocalAt, Input
    <3>2. /\ UNCHANGED promoted
          /\ \/ UNCHANGED <<accepted, used, open>>
             \/ /\ Accepted(h) /\ Input(h) \notin used /\ UNCHANGED open
                /\ used' = used \cup {Input(h)}
             \/ Accepted(h) /\ open' = open + 1 /\ UNCHANGED used
      BY <2>4, Zenon DEF Reserve, ReserveFailsOpen, reserveTOTPPasscode
    <3> QED
      BY <2>0, <2>2, <3>1, <3>2
  <2> QED
    BY <2>1, <2>3, <2>4, PasscodeWriters, Zenon DEF vars, ghosts
<1>3. Typed /\ PasscodesInv => PasscodeIsUsedOnce
  <2> SUFFICES ASSUME Typed, PasscodesInv, NEW e \in Enrolments, NEW p \in Passcodes
               PROVE  accepted[<<e, p>>] <= 1 + promoted[e] + open
    BY DEF PasscodeIsUsedOnce
  <2>1. /\ accepted[<<e, p>>] \in Nat /\ promoted[e] \in Nat /\ open \in Nat
        /\ accepted[<<e, p>>] <= (IF <<e, p>> \in used THEN 1 ELSE 0)
                                    + promoted[e] + open
    BY Zenon DEF PasscodesInv, Typed, GhostsOK
  <2> QED
    BY <2>1
<1> QED
  BY <1>1, <1>2, <1>3, TypedInit, TypedNext, PTL DEF Spec

-----------------------------------------------------------------------------
(* The row                                                                 *)

(* What a step does to a row that is still there after it.                 *)
LEMMA RowSteps ==
    ASSUME Typed, Next, row' # None, row' # row
    PROVE  \E h \in Handlers :
              \/ /\ Create(h) \/ Overwrite(h)
                 /\ row'.secret = row'.gen /\ ~row'.verified
                 /\ Seen(h) = None \/ ~Seen(h).verified
                 /\ UNCHANGED reverted
              \/ /\ Promote(h)
                 /\ row'.secret = row'.gen /\ row'.secret \in confirmed'
                 /\ UNCHANGED reverted
              \/ /\ Mark(h)
                 /\ row'.secret \in confirmed' /\ row'.secret = Seen(h).secret
                 /\ row'.gen = row.gen /\ row # None
                 /\ reverted' = (reverted \/ (row # None /\ row.secret # Seen(h).secret))
              \/ /\ Consume(h)
                 /\ row # None /\ row'.secret = row.secret
                 /\ row'.gen = row.gen /\ row'.verified = row.verified
                 /\ UNCHANGED <<confirmed, reverted>>
<1>1. PICK h \in Handlers :
         Create(h) \/ Overwrite(h) \/ Promote(h) \/ Mark(h) \/ Consume(h)
  BY RowWriters, Zenon
<1>2. local[h] \in Local /\ LocalAt(pc[h], local[h], confirmed)
  BY Zenon DEF Typed, TypeOK, LocalsOK
<1>3. CASE Create(h)
  <2>1. Seen(h) = None
    BY <1>2, <1>3, Zenon DEF Create, LocalAt, Seen
  <2>2. ~row'.verified
    BY <1>3, Zenon DEF Create, Enrolled
  <2> QED
    BY <1>3, <2>1, <2>2, FreshRow, Zenon
<1>4. CASE Overwrite(h)
  <2>1. Seen(h) \in Row /\ ~Seen(h).verified
    BY <1>2, <1>4, Zenon DEF Overwrite, Overwrites, Local, Seen
  <2>2. row'.verified = Seen(h).verified
    BY <1>4, <2>1, Zenon DEF Overwrite, UpdateAuthenticator, Row
  <2> QED
    BY <1>4, <2>1, <2>2, FreshRow, Zenon
<1>5. CASE Promote(h)
  <2>1. local[h].new \in confirmed'
    BY <1>2, <1>5, Zenon DEF Promote, Accepted, LocalAt, Input
  <2> QED
    BY <1>5, <2>1, FreshRow, Zenon
<1>6. CASE Mark(h)
  <2>1. row # None
    BY <1>6, Zenon DEF Mark, UpdateAuthenticatorSecretAndVerifiedAt
  <2> QED
    BY <1>6, <2>1, MarkedRow, Zenon
<1>7. CASE Consume(h)
  BY <1>7, ConsumedRow, Zenon
<1> QED
  BY <1>1, <1>3, <1>4, <1>5, <1>6, <1>7, Zenon

(* A confirmed enrolment stays confirmed.                                  *)
LEMMA ConfirmedGrows == Typed /\ [Next]_vars => confirmed \subseteq confirmed'
<1>1. ASSUME Typed, NEW h \in Handlers, Generate(h) \/ VerifyOTP(h) \/ Step(h)
      PROVE  confirmed \subseteq confirmed'
  BY <1>1, StepMoves, Zenon
<1>2. ExpirePending \/ ResetMfa \/ UNCHANGED vars => confirmed' = confirmed
  BY Zenon DEF ExpirePending, ResetMfa, vars, ghosts
<1> QED
  BY <1>1, <1>2, Zenon DEF Next

(* verified_at is set only on a row whose secret the user has confirmed,   *)
(* whatever the order of enrolments, promotions, stale saves and resets    *)
(* (totp.go Generate, Validate, promotePendingSecret).                     *)
THEOREM VerifiedIsAlwaysConfirmed == Spec => []VerifiedMeansConfirmed
<1>1. Init => VerifiedMeansConfirmed
  <2> SUFFICES ASSUME Init, row # None, row.verified PROVE row.secret \in confirmed
    BY DEF VerifiedMeansConfirmed
  <2>1. PICK p \in BOOLEAN, v \in BOOLEAN :
           row = [Enrolled(1, 1) EXCEPT !.plain = p, !.verified = v]
    BY Zenon DEF Init
  <2>2. row.secret = 1
    BY <2>1, Zenon DEF Enrolled
  <2>3. confirmed = {1}
    BY Zenon DEF Init
  <2> QED
    BY <2>2, <2>3
<1>2. Typed /\ VerifiedMeansConfirmed /\ [Next]_vars => VerifiedMeansConfirmed'
  <2> SUFFICES ASSUME Typed, VerifiedMeansConfirmed, [Next]_vars, row' # None,
                      row'.verified
               PROVE  row'.secret \in confirmed'
    BY DEF VerifiedMeansConfirmed
  <2>1. confirmed \subseteq confirmed'
    BY ConfirmedGrows
  <2>2. CASE row' = row
    BY <2>1, <2>2, Zenon DEF VerifiedMeansConfirmed
  <2>3. CASE row' # row
    <3>1. Next
      BY <2>3, Zenon DEF vars
    <3> QED
      BY <2>1, <2>3, <3>1, RowSteps, Zenon DEF VerifiedMeansConfirmed
  <2> QED
    BY <2>2, <2>3
<1> QED
  BY <1>1, <1>2, TypedInit, TypedNext, PTL DEF Spec

(* Secret and recovery codes of the row come from one enrolment, unless a  *)
(* Validate wrote back a secret replaced meanwhile (totp.go:381).          *)
THEOREM RowIsAlwaysOneEnrolment == Spec => []RowIsOneEnrolment
<1>1. Init => RowIsOneEnrolment
  <2> SUFFICES ASSUME Init, row # None PROVE row.secret = row.gen
    BY DEF RowIsOneEnrolment
  <2>1. PICK p \in BOOLEAN, v \in BOOLEAN :
           row = [Enrolled(1, 1) EXCEPT !.plain = p, !.verified = v]
    BY Zenon DEF Init
  <2> QED
    BY <2>1, Zenon DEF Enrolled
<1>2. Typed /\ RowIsOneEnrolment /\ [Next]_vars => RowIsOneEnrolment'
  <2> SUFFICES ASSUME Typed, RowIsOneEnrolment, [Next]_vars, row' # None, ~reverted'
               PROVE  row'.secret = row'.gen
    BY DEF RowIsOneEnrolment
  <2>1. CASE row' = row
    <3>1. ~reverted
      BY <2>1, RowWriters, FreshRow, MarkedRow, ConsumedRow, Zenon DEF vars, ghosts
    <3> QED
      BY <2>1, <3>1, Zenon DEF RowIsOneEnrolment
  <2>2. CASE row' # row
    <3>1. Next
      BY <2>2, Zenon DEF vars
    <3> QED
      BY <2>2, <3>1, RowSteps, Zenon DEF RowIsOneEnrolment
  <2> QED
    BY <2>1, <2>2
<1> QED
  BY <1>1, <1>2, TypedInit, TypedNext, PTL DEF Spec

(* The secret of a verified row is replaced only by a confirmed one, or by *)
(* an enrolment whose Generate had read an earlier row (totp.go Generate:  *)
(* "That would desync the user's working authenticator app").              *)
THEOREM LiveSecretIsAlwaysKept == Spec => LiveSecretIsKept
<1> DEFINE Kept ==
      row # None /\ row.verified /\ row' # None /\ row'.secret # row.secret
         => \/ row'.secret \in confirmed'
            \/ \E h \in Handlers : /\ pc[h] \in {"store", "create"} /\ pc'[h] = "idle"
                                   /\ Seen(h) # row
<1>1. Typed /\ [Next]_vars => [Kept]_vars
  <2> SUFFICES ASSUME Typed, Next, row # None, row.verified, row' # None,
                      row'.secret # row.secret, row'.secret \notin confirmed'
               PROVE  \E h \in Handlers : /\ pc[h] \in {"store", "create"}
                                          /\ pc'[h] = "idle" /\ Seen(h) # row
    BY Zenon
  <2>1. PICK h \in Handlers : /\ Create(h) \/ Overwrite(h)
                              /\ Seen(h) = None \/ ~Seen(h).verified
    BY RowSteps, Zenon
  <2>2. pc[h] \in {"store", "create"} /\ Finish(h)
    BY <2>1, Zenon DEF Create, Overwrite
  <2>3. pc'[h] = "idle"
    BY <2>2, Zenon DEF Finish, Typed, TypeOK
  <2> QED
    BY <2>1, <2>2, <2>3, Zenon
<1>2. Spec => [][Kept]_vars
  BY <1>1, TypedInit, TypedNext, PTL DEF Spec
<1> QED
  BY <1>2 DEF LiveSecretIsKept

-----------------------------------------------------------------------------
(* The attempts of a redemption                                            *)

(* A set with fewer recovery codes is smaller.                             *)
LEMMA SpentSize ==
    ASSUME NEW S \in SUBSET Codes, NEW T \in SUBSET Codes
    PROVE  /\ Cardinality(T) \in Nat /\ Cardinality(S) \in Nat
           /\ S \subseteq T => Cardinality(S) <= Cardinality(T)
           /\ S \subseteq T /\ S # T => Cardinality(S) + 1 <= Cardinality(T)
<1>1. IsFiniteSet(S) /\ IsFiniteSet(T)
  BY TotpAssumption, FS_Subset, Zenon
<1>2. Cardinality(T) \in Nat /\ Cardinality(S) \in Nat
  BY <1>1, FS_CardinalityType, Zenon
<1>3. ASSUME S \subseteq T
      PROVE  Cardinality(S) <= Cardinality(T) /\ (Cardinality(T) = Cardinality(S) => S = T)
  BY <1>1, <1>3, FS_Subset, Zenon
<1> QED
  BY <1>2, <1>3

(* The steps that mint, write or promote an enrolment, ...                 *)
Loud(h) ==
    Generate(h) \/ StagePending(h) \/ Create(h) \/ Overwrite(h) \/ Promote(h)

(* ... and what all the others leave of the enrolments under way.          *)
Quiet ==
    /\ UNCHANGED <<written, promoted, minted>>
    /\ \A e \in Enrolments :
         /\ \A h \in Handlers : Placing(h, e)' => Placing(h, e)
         /\ Staged(e)' => Staged(e)
    /\ row' # None => row # None /\ row'.gen = row.gen

(* Of a handler's move the others see nothing.                             *)
LEMMA OthersStay ==
    ASSUME Typed, NEW h \in Handlers, Generate(h) \/ VerifyOTP(h) \/ Step(h)
    PROVE  \A g \in Handlers : g # h => pc'[g] = pc[g] /\ local'[g] = local[g]
<1>1. PICK l \in Labels, r \in Local : Moves(h, l, r)
  BY StepMoves, Zenon
<1>2. pc \in [Handlers -> Labels] /\ local \in [Handlers -> Local]
  BY Zenon DEF Typed, TypeOK
<1> QED
  BY <1>1, <1>2, Zenon DEF Moves

(* Every other step leaves the writes and their owners alone.              *)
LEMMA QuietSteps ==
    ASSUME Typed, Next, \A h \in Handlers : ~Loud(h)
    PROVE  Quiet
<1>0. pc \in [Handlers -> Labels] /\ local \in [Handlers -> Local]
  BY Zenon DEF Typed, TypeOK
<1>1. CASE ExpirePending \/ ResetMfa
  <2>1. /\ UNCHANGED <<pc, local, written, promoted, minted>>
        /\ pending' \in {pending, None} /\ row' \in {row, None}
    BY <1>1, Zenon DEF ExpirePending, ResetMfa, ghosts
  <2>2. None \notin Enrolments
    BY TotpAssumption, Zenon DEF Enrolments
  <2> QED
    BY <2>1, <2>2, Zenon DEF Quiet, Placing, Staged
<1>2. ASSUME NEW h \in Handlers, VerifyOTP(h) \/ Step(h)
      PROVE  Quiet
  <2>1. UNCHANGED <<written, promoted, minted>>
    BY <1>2, Zenon DEF Step, Loud, VerifyOTP, AddAuthenticator, GetPending, ClearPending,
          Validate, Reserve, ReserveFailsOpen, Mark, ReadCodes, Consume, Retry, Fail, ghosts
  <2>2. row' # None => row # None /\ row'.gen = row.gen
    <3>1. ASSUME Mark(h), row' # None PROVE row # None /\ row'.gen = row.gen
      <4>1. row # None
        BY <3>1, Zenon DEF Mark, UpdateAuthenticatorSecretAndVerifiedAt
      <4> QED
        BY <3>1, <4>1, MarkedRow, Zenon
    <3>2. ASSUME Consume(h) PROVE row # None /\ row'.gen = row.gen
      BY <3>2, ConsumedRow, Zenon
    <3>3. Mark(h) \/ Consume(h) \/ UNCHANGED row
      BY <1>2, Zenon DEF Step, Loud, VerifyOTP, AddAuthenticator, GetPending,
         ClearPending, Validate, Reserve, ReserveFailsOpen, ReadCodes, Retry, Fail
    <3> QED
      BY <3>1, <3>2, <3>3, Zenon
  <2>3. /\ pending' \in {pending, None}
        /\ \A g \in Handlers : g # h => pc'[g] = pc[g] /\ local'[g] = local[g]
    <3>1. pending' \in {pending, None}
      BY <1>2, Zenon DEF Step, Loud, VerifyOTP, AddAuthenticator, GetPending,
         ClearPending, Validate, Reserve, ReserveFailsOpen, Mark, ReadCodes, Consume,
         Retry, Fail
    <3> QED
      BY <1>2, <3>1, OthersStay, Zenon
  <2>4. \/ pc'[h] \notin {"store", "create", "promote"}
        \/ pc[h] = "store" /\ pc'[h] = "create" /\ local'[h] = local[h]
        \/ pc'[h] = "promote" /\ local'[h].new = pending
    <3>1. CASE Finish(h)
      BY <1>0, <3>1, Zenon DEF Finish
    <3>2. CASE GetPending(h)
      <4>1. CASE Goto(h, "live")
        BY <1>0, <4>1, Zenon DEF Goto
      <4>2. CASE local' = [local EXCEPT ![h].new = pending] /\ Goto(h, "promote")
        BY <1>0, <4>2, Zenon DEF Goto, Local
      <4> QED
        BY <3>2, <4>1, <4>2, Zenon DEF GetPending
    <3>3. CASE AddAuthenticator(h) /\ ~Finish(h)
      BY <1>0, <3>3, Zenon DEF AddAuthenticator, Goto
    <3>4. CASE \E l \in {"pending", "reserve", "codes", "mark", "consume"} : Goto(h, l)
      BY <1>0, <3>4, Zenon DEF Goto
    <3> QED
      BY <1>2, <3>1, <3>2, <3>3, <3>4, Zenon DEF Step, Loud, VerifyOTP, ClearPending,
         Validate, Reserve, ReserveFailsOpen, reserveTOTPPasscode, AfterReserve, Mark,
         ReadCodes, Consume, Retry, Fail
  <2>5. None \notin Enrolments
    BY TotpAssumption, Zenon DEF Enrolments
  <2>6. ASSUME NEW e \in Enrolments, NEW g \in Handlers, Placing(g, e)'
        PROVE  Placing(g, e)
    BY <2>3, <2>4, <2>6, Zenon DEF Placing
  <2>7. ASSUME NEW e \in Enrolments, Staged(e)' PROVE Staged(e)
    BY <2>3, <2>4, <2>5, <2>7, Zenon DEF Staged
  <2> QED
    BY <2>1, <2>2, <2>6, <2>7, Zenon DEF Quiet
<1> QED
  BY <1>1, <1>2, Zenon DEF Next, Loud

(* Such a step keeps the count of the writes.                              *)
LEMMA WritesQuiet ==
    ASSUME WritesInv, Quiet
    PROVE  WritesInv'
<1> SUFFICES ASSUME NEW e \in Enrolments PROVE WritesOf(e)'
  BY DEF WritesInv
<1>1. WritesOf(e)
  BY DEF WritesInv
<1>2. UNCHANGED <<written, promoted, minted>>
  BY DEF Quiet
<1>3. \A h \in Handlers : Placing(h, e)' => Placing(h, e)
  BY Zenon DEF Quiet
<1>4. Staged(e)' => Staged(e)
  BY Zenon DEF Quiet
<1>5. row' # None => row # None /\ row'.gen = row.gen
  BY Zenon DEF Quiet
<1> QED
  BY <1>1, <1>2, <1>3, <1>4, <1>5, Zenon DEF WritesOf

(* Where an enrolment is after a loud step of h.                           *)
LEMMA LoudMoves ==
    ASSUME Typed, NEW h \in Handlers, Loud(h), NEW e \in Enrolments
    PROVE  /\ \A g \in Handlers : Placing(g, e)' => Placing(g, e) \/ (g = h /\ Generate(h))
           /\ Placing(h, e)' => Generate(h) /\ e = minted + 1
           /\ Staged(e)' => Staged(e) \/ (StagePending(h) /\ Placing(h, e))
           /\ ~Generate(h) => minted' = minted
           /\ Generate(h) => minted' = minted + 1
           /\ Promote(h) => Staged(local[h].new)
           /\ StagePending(h) \/ Create(h) \/ Overwrite(h) => Placing(h, local[h].new)
<1>0. pc \in [Handlers -> Labels] /\ local \in [Handlers -> Local] /\ Idle \in Local
  BY IdleTyped, Zenon DEF Typed, TypeOK
<1>1. \A g \in Handlers : g # h => pc'[g] = pc[g] /\ local'[g] = local[g]
  BY OthersStay, Zenon DEF Loud, Step
<1>2. CASE Generate(h)
  <2>1. pc'[h] = "store"
    BY <1>0, <1>2, Zenon DEF Generate, Goto
  <2>2. local'[h].new = minted + 1
    <3>1. PICK x \in {row, None} :
             local' = [local EXCEPT ![h] = [Idle EXCEPT !.seen = x, !.new = minted + 1]]
      BY <1>2, Zenon DEF Generate
    <3> QED
      BY <1>0, <3>1, Zenon DEF Local
  <2>3. pending' = pending /\ minted' = minted + 1
    BY <1>2, Zenon DEF Generate
  <2>4. ~StagePending(h) /\ ~Create(h) /\ ~Overwrite(h) /\ ~Promote(h)
    BY <1>2, Zenon DEF Generate, StagePending, Create, Overwrite, Promote
  <2> QED
    BY <1>1, <1>2, <2>1, <2>2, <2>3, <2>4, Zenon DEF Placing, Staged
<1>3. CASE StagePending(h) \/ Create(h) \/ Overwrite(h)
  <2>1. pc'[h] = "idle" /\ pc[h] \in {"store", "create"} /\ minted' = minted
    BY <1>0, <1>3, Zenon DEF StagePending, Create, Overwrite, Finish
  <2>2. pending' = pending \/ (StagePending(h) /\ pending' = local[h].new)
    BY <1>3, Zenon DEF StagePending, Create, Overwrite
  <2>3. ~Generate(h) /\ ~Promote(h)
    BY <2>1, Zenon DEF Generate, Promote
  <2> QED
    BY <1>1, <1>3, <2>1, <2>2, <2>3, Zenon DEF Placing, Staged
<1>4. CASE Promote(h)
  <2>1. /\ pc'[h] = "clear" /\ pc[h] = "promote" /\ minted' = minted
        /\ pending' = pending
    BY <1>0, <1>4, Zenon DEF Promote, Goto
  <2>3. ~Generate(h) /\ ~StagePending(h) /\ ~Create(h) /\ ~Overwrite(h)
    BY <2>1, Zenon DEF Generate, StagePending, Create, Overwrite
  <2> QED
    BY <1>1, <1>4, <2>1, <2>3, Zenon DEF Placing, Staged
<1> QED
  BY <1>2, <1>3, <1>4, Zenon DEF Loud

(* So does a step that writes.                                             *)
LEMMA WritesLoud ==
    ASSUME Typed, WritesInv, NEW h \in Handlers, Loud(h)
    PROVE  WritesInv'
<1> SUFFICES ASSUME NEW e \in Enrolments PROVE WritesOf(e)'
  BY DEF WritesInv
<1> DEFINE n == local[h].new
<1>0. /\ WritesOf(e) /\ written[e] \in Nat /\ promoted[e] \in Nat /\ minted \in Nat
      /\ e \in Nat
  <2>1. minted \in 0..MaxEnrolment /\ WritesOf(e) /\ written[e] \in Nat
        /\ promoted[e] \in Nat
    BY Zenon DEF WritesInv, Typed, TypeOK, GhostsOK
  <2> QED
    BY <2>1, TotpAssumption DEF Enrolments
<1>1. CASE Generate(h)
  <2>1. UNCHANGED <<written, promoted, row>>
    BY <1>1, Zenon DEF Generate, ghosts
  <2>2. /\ \A g \in Handlers : Placing(g, e)' => Placing(g, e) \/ g = h
        /\ Placing(h, e)' => e = minted + 1
        /\ Staged(e)' => Staged(e)
        /\ minted' = minted + 1
    <3>1. ~StagePending(h)
      BY <1>1, Zenon DEF Generate, StagePending
    <3> QED
      BY <1>1, <3>1, LoudMoves, Zenon
  <2>3. CASE e = minted + 1
    <3>1. e > minted /\ ~(e > minted')
      BY <1>0, <2>2, <2>3
    <3> QED
      BY <1>0, <2>1, <2>2, <3>1, Zenon DEF WritesOf
  <2>4. CASE e # minted + 1
    <3>1. (e > minted' => e > minted)
      BY <1>0, <2>2
    <3>2. \A g \in Handlers : Placing(g, e)' => Placing(g, e)
      BY <2>2, <2>4, Zenon
    <3> QED
      BY <1>0, <2>1, <2>2, <3>1, <3>2, Zenon DEF WritesOf
  <2> QED
    BY <2>3, <2>4
<1>2. CASE ~Generate(h)
  <2>1. /\ \A g \in Handlers : Placing(g, e)' => Placing(g, e) /\ g # h
        /\ Staged(e)' => Staged(e) \/ (StagePending(h) /\ Placing(h, e))
        /\ minted' = minted
    BY <1>2, LoudMoves, Zenon
  <2>2. CASE StagePending(h)
    <3>1. UNCHANGED <<written, promoted, row>>
      BY <2>2, Zenon DEF StagePending, ghosts
    <3>2. CASE Placing(h, e)
      <4>1. written[e] = 0 /\ promoted[e] = 0 /\ ~(e > minted)
            /\ \A g \in Handlers : ~Placing(g, e)'
        BY <1>0, <2>1, <3>2, Zenon DEF WritesOf
      <4>2. written[e] <= promoted[e]
        BY <4>1
      <4> QED
        BY <1>0, <2>1, <3>1, <4>1, <4>2, Zenon DEF WritesOf
    <3>3. CASE ~Placing(h, e)
      BY <1>0, <2>1, <3>1, <3>3, Zenon DEF WritesOf
    <3> QED
      BY <3>2, <3>3
  <2>3. CASE Create(h) \/ Overwrite(h)
    <3>1. /\ n \in Enrolments /\ row'.gen = n /\ Placing(h, n)
          /\ written' = [written EXCEPT ![n] = written[n] + 1] /\ promoted' = promoted
          /\ ~StagePending(h)
      <4>1. n \in Enrolments /\ row'.gen = n /\ Rewritten(n)
        BY <2>3, FreshRow, Zenon
      <4>2. Placing(h, n)
        BY <2>3, <4>1, LoudMoves, Zenon
      <4>3. ~StagePending(h)
        BY <2>3, <1>0, Zenon DEF Create, Overwrite, Overwrites, StagePending, Typed,
           LocalsOK, LocalAt, Seen
      <4> QED
        BY <2>3, <4>1, <4>2, <4>3, Zenon DEF Rewritten, Create, Overwrite
    <3>2. CASE e = n
      <4>1. written[e] = 0 /\ promoted[e] = 0 /\ ~Staged(e) /\ ~(e > minted)
            /\ \A g \in Handlers : ~Placing(g, e)'
        BY <1>0, <2>1, <3>1, <3>2, Zenon DEF WritesOf
      <4>2. written'[e] = written[e] + 1
        BY <3>1, <3>2, Zenon DEF Typed, GhostsOK
      <4>3. written'[e] >= 1 /\ written'[e] <= 1
        BY <4>1, <4>2
      <4> QED
        BY <2>1, <3>1, <4>1, <4>3, Zenon DEF WritesOf
    <3>3. CASE e # n
      <4>1. written'[e] = written[e]
        BY <3>1, <3>3, Zenon DEF Typed, GhostsOK
      <4> QED
        BY <1>0, <2>1, <3>1, <3>3, <4>1, Zenon DEF WritesOf
    <3> QED
      BY <3>2, <3>3
  <2>4. CASE Promote(h)
    <3>1. /\ n \in Enrolments /\ row'.gen = n /\ Staged(n)
          /\ written' = [written EXCEPT ![n] = written[n] + 1]
          /\ promoted' = [promoted EXCEPT ![n] = promoted[n] + 1]
          /\ ~StagePending(h)
      <4>1. n \in Enrolments /\ row'.gen = n /\ Rewritten(n)
        BY <2>4, FreshRow, Zenon
      <4>2. Staged(n)
        BY <2>4, <4>1, LoudMoves, Zenon
      <4> QED
        BY <2>4, <4>1, <4>2, Zenon DEF Rewritten, Promote, StagePending
    <3>2. CASE e = n
      <4>1. ~(e > minted) /\ (\A g \in Handlers : ~Placing(g, e)')
            /\ written[e] <= promoted[e]
        BY <1>0, <2>1, <3>1, <3>2, Zenon DEF WritesOf
      <4>2. written'[e] = written[e] + 1 /\ promoted'[e] = promoted[e] + 1
        BY <3>1, <3>2, Zenon DEF Typed, GhostsOK
      <4>3. written'[e] >= 1 /\ written'[e] <= promoted'[e]
        BY <1>0, <4>1, <4>2
      <4> QED
        BY <2>1, <4>1, <4>3, Zenon DEF WritesOf
    <3>3. CASE e # n
      <4>1. written'[e] = written[e] /\ promoted'[e] = promoted[e]
        BY <3>1, <3>3, Zenon DEF Typed, GhostsOK
      <4> QED
        BY <1>0, <2>1, <3>1, <3>3, <4>1, Zenon DEF WritesOf
    <3> QED
      BY <3>2, <3>3
  <2> QED
    BY <1>2, <2>2, <2>3, <2>4, Zenon DEF Loud
<1> QED
  BY <1>1, <1>2

(* The codes of the row are as they were or more of them are consumed,     *)
(* unless an enrolment is written.                                         *)
RowGoesOn ==
    \/ /\ written' = written
       /\ \/ row' = None
          \/ /\ row # None /\ row'.id = row.id /\ row'.gen = row.gen
             /\ row.spent \subseteq row'.spent
    \/ \E e \in Enrolments :
          /\ row' \in Row /\ row'.gen = e /\ row'.spent = {}
          /\ written' = [written EXCEPT ![e] = written[e] + 1]

(* Every step takes the row on in this way.                                *)
LEMMA RowGoes ==
    ASSUME Typed, [Next]_vars
    PROVE  RowGoesOn
<1>1. CASE row' \in {row, None} /\ written' = written
  BY <1>1, Zenon DEF RowGoesOn
<1>2. ASSUME NEW h \in Handlers, Create(h) \/ Overwrite(h) \/ Promote(h)
      PROVE  RowGoesOn
  BY <1>2, FreshRow, Zenon DEF RowGoesOn, Rewritten
<1>3. ASSUME NEW h \in Handlers, Mark(h) PROVE RowGoesOn
  <2>1. written' = written /\ (row' # row => row # None)
    BY <1>3, MarkedRow, Zenon DEF Mark, UpdateAuthenticatorSecretAndVerifiedAt
  <2>2. \/ row' = row
        \/ row'.id = row.id /\ row'.gen = row.gen /\ row'.spent = row.spent
    BY <1>3, MarkedRow, Zenon
  <2> QED
    BY <2>1, <2>2, Zenon DEF RowGoesOn
<1>4. ASSUME NEW h \in Handlers, Consume(h) PROVE RowGoesOn
  <2>1. /\ row # None /\ row'.id = row.id /\ row'.gen = row.gen
        /\ row'.spent = row.spent \cup {Input(h)[2]} /\ written' = written
    BY <1>4, ConsumedRow, Zenon
  <2> QED
    BY <2>1, Zenon DEF RowGoesOn
<1> QED
  BY <1>1, <1>2, <1>3, <1>4, RowWriters, Zenon DEF vars, ghosts

(* The numbers a handler's rounds are about.                               *)
LEMMA RoundsTyped ==
    ASSUME Typed, NEW h \in Handlers
    PROVE  /\ local[h].attempt \in Nat
           /\ pc[h] \in {"codes", "consume"} => Input(h)[1] \in Enrolments
           /\ row # None => row \in Row /\ row.spent \in SUBSET Codes
           /\ pc[h] = "consume" => /\ Seen(h) \in Row /\ Seen(h).spent \in SUBSET Codes
                                   /\ Input(h)[1] = Seen(h).gen
<1>1. totalRecoveryCodes \in Nat
  BY TotpAssumption, FS_CardinalityType DEF totalRecoveryCodes
<1>2. local[h].attempt \in 0..totalRecoveryCodes
  BY Zenon DEF Typed, TypeOK, Local
<1>3. local[h].attempt \in Nat
  BY <1>1, <1>2
<1>4. /\ row # None => row \in Row
      /\ pc[h] \in {"codes", "consume"} => Input(h) \in Inputs
      /\ pc[h] = "consume" => Seen(h) \in Row /\ Input(h)[1] = Seen(h).gen
  BY Zenon DEF Typed, TypeOK, LocalsOK, LocalAt, Input, Seen
<1>5. Input(h) \in Inputs => Input(h)[1] \in Enrolments
  BY DEF Inputs
<1>6. \A r \in Row : r.spent \in SUBSET Codes
  BY Zenon DEF Row
<1> QED
  BY <1>3, <1>4, <1>5, <1>6, Zenon

(* A handler that does not move.                                           *)
LEMMA RoundsKept ==
    ASSUME Typed, RowGoesOn, NEW h \in Handlers, RoundsOf(h),
           pc'[h] = pc[h], local'[h] = local[h], DataOK'
    PROVE  RoundsOf(h)'
<1>0. Input(h)' = Input(h) /\ Seen(h)' = Seen(h)
  BY Zenon DEF Input, Seen
<1>1. CASE row' = None /\ written' = written
  BY <1>0, <1>1, Zenon DEF RoundsOf
<1>2. CASE /\ written' = written /\ row' # None
           /\ row # None /\ row'.id = row.id /\ row'.gen = row.gen
           /\ row.spent \subseteq row'.spent
  <2> SUFFICES ASSUME pc[h] \in {"codes", "consume"}, row.gen = Input(h)[1],
                      written[row.gen] <= 1
               PROVE  /\ local[h].attempt <= Cardinality(row'.spent)
                      /\ pc[h] = "consume" => Seen(h).spent \subseteq row'.spent
    BY <1>0, <1>2, Zenon DEF RoundsOf
  <2>1. /\ local[h].attempt <= Cardinality(row.spent)
        /\ pc[h] = "consume" => Seen(h).spent \subseteq row.spent
    BY <1>2, Zenon DEF RoundsOf
  <2>2. row.spent \in SUBSET Codes /\ row'.spent \in SUBSET Codes
    BY <1>2, RoundsTyped, Zenon DEF DataOK, Row
  <2>3. /\ Cardinality(row.spent) <= Cardinality(row'.spent)
        /\ Cardinality(row.spent) \in Nat /\ Cardinality(row'.spent) \in Nat
    BY <1>2, <2>2, SpentSize, Zenon
  <2>4. local[h].attempt <= Cardinality(row'.spent)
    BY <2>1, <2>3, RoundsTyped
  <2> QED
    BY <1>2, <2>1, <2>4, Zenon
<1>3. ASSUME NEW e \in Enrolments, row' \in Row, row'.gen = e, row'.spent = {},
             written' = [written EXCEPT ![e] = written[e] + 1]
      PROVE  RoundsOf(h)'
  <2>0. written \in [Enrolments -> Nat]
    BY Zenon DEF Typed, GhostsOK
  <2>1. written'[e] = written[e] + 1 /\ \A d \in Enrolments : d # e => written'[d] = written[d]
    BY <1>3, <2>0, Zenon
  <2>2. \A d \in Enrolments : written[d] >= 1 => written'[d] >= 1
    BY <2>0, <2>1
  <2>3. written'[e] <= 1 => ~(written[e] >= 1)
    BY <2>0, <2>1
  <2>4. Cardinality({}) = 0
    BY FS_EmptySet
  <2>5. ASSUME pc[h] \in {"codes", "consume"}, e = Input(h)[1], written'[e] <= 1
        PROVE  pc[h] = "codes" /\ local[h].attempt <= Cardinality({})
    <3>1. ~(pc[h] = "consume") /\ ~(local[h].attempt > 0)
      BY <2>3, <2>5, Zenon DEF RoundsOf
    <3> QED
      BY <2>4, <2>5, <3>1, RoundsTyped
  <2>6. pc[h] \in {"codes", "consume"} => Input(h)[1] \in Enrolments
    BY RoundsTyped, Zenon
  <2>7. pc[h] = "codes" => pc[h] # "consume"
    OBVIOUS
  <2> QED
    BY <1>0, <1>3, <2>2, <2>5, <2>6, <2>7, Zenon DEF RoundsOf
<1> QED
  BY <1>1, <1>2, <1>3, Zenon DEF RowGoesOn

(* A round is lost only to the consumption of another code.                *)
LEMMA RetryLoses ==
    ASSUME Typed, NEW h \in Handlers, RoundsOf(h), Retry(h),
           row # None, row.gen = Input(h)[1], written[row.gen] <= 1
    PROVE  local[h].attempt + 1 <= Cardinality(row.spent)
<1>1. pc[h] = "consume" /\ ~Unchanged(Seen(h))
  BY Zenon DEF Retry
<1>2. /\ row.id = Seen(h).id /\ Seen(h).spent \subseteq row.spent
      /\ local[h].attempt <= Cardinality(Seen(h).spent)
  BY <1>1, Zenon DEF RoundsOf
<1>3. /\ Seen(h).spent \in SUBSET Codes /\ row.spent \in SUBSET Codes
      /\ row.gen = Seen(h).gen /\ local[h].attempt \in Nat
  BY <1>1, RoundsTyped, Zenon
<1>4. Seen(h).spent # row.spent
  BY <1>1, <1>2, <1>3, Zenon DEF Unchanged
<1>5. /\ Cardinality(Seen(h).spent) + 1 <= Cardinality(row.spent)
      /\ Cardinality(Seen(h).spent) \in Nat /\ Cardinality(row.spent) \in Nat
  BY <1>2, <1>3, <1>4, SpentSize, Zenon
<1> QED
  BY <1>2, <1>3, <1>5

(* The handler that moves.                                                 *)
LEMMA RoundsMoved ==
    ASSUME Typed, WritesInv, NEW h \in Handlers, RoundsOf(h),
           Generate(h) \/ VerifyOTP(h) \/ Step(h)
    PROVE  RoundsOf(h)'
<1>0. pc \in [Handlers -> Labels] /\ local \in [Handlers -> Local] /\ Idle \in Local
  BY IdleTyped, Zenon DEF Typed, TypeOK
<1>1. CASE pc'[h] \notin {"codes", "consume"} /\ local'[h].attempt = 0
  BY <1>1, Zenon DEF RoundsOf
<1>2. CASE Finish(h)
  <2>1. pc'[h] = "idle" /\ local'[h] = Idle
    BY <1>0, <1>2, Zenon DEF Finish
  <2>2. Idle.attempt = 0
    BY DEF Idle
  <2>3. pc'[h] \notin {"codes", "consume"}
    BY <2>1
  <2> QED
    BY <1>1, <2>1, <2>2, <2>3, Zenon
<1>3. CASE Generate(h) \/ VerifyOTP(h)
  <2>1. \/ \E x, n : local' = [local EXCEPT ![h] = [Idle EXCEPT !.seen = x, !.new = n]]
        \/ \E x, i : local' = [local EXCEPT ![h] = [Idle EXCEPT !.seen = x, !.input = i]]
    BY <1>3, Zenon DEF Generate, VerifyOTP
  <2>2. local'[h].attempt = 0
    BY <1>0, <2>1, Zenon DEF Idle
  <2>3. pc'[h] \in {"store", "pending"}
    BY <1>0, <1>3, Zenon DEF Generate, VerifyOTP, Goto
  <2> QED
    BY <1>1, <2>2, <2>3, Zenon
<1>4. CASE /\ pc[h] \notin {"codes", "consume"} /\ UNCHANGED local
           /\ \E l \in {"create", "clear", "live", "reserve", "mark"} : Goto(h, l)
  <2>1. pc'[h] \in {"create", "clear", "live", "reserve", "mark"}
    BY <1>0, <1>4, Zenon DEF Goto
  <2>2. local'[h].attempt = 0
    BY <1>4, Zenon DEF RoundsOf
  <2> QED
    BY <1>1, <2>1, <2>2, Zenon
<1>5. CASE GetPending(h)
  <2>1. CASE local' = [local EXCEPT ![h].new = pending] /\ Goto(h, "promote")
    <3>1. local'[h].attempt = local[h].attempt /\ pc'[h] = "promote"
      BY <1>0, <2>1, Zenon DEF Goto, Local
    <3>2. local[h].attempt = 0
      BY <1>5, Zenon DEF GetPending, RoundsOf
    <3> QED
      BY <1>1, <3>1, <3>2, Zenon
  <2> QED
    BY <1>4, <1>5, <2>1, Zenon DEF GetPending
<1>6. CASE /\ pc[h] \in {"live", "reserve"} /\ UNCHANGED <<local, row, written>>
           /\ Goto(h, "codes")
  <2>1. pc'[h] = "codes" /\ local'[h].attempt = 0 /\ local'[h] = local[h]
    BY <1>0, <1>6, Zenon DEF Goto, RoundsOf
  <2>2. row # None => Cardinality(row.spent) \in Nat
    BY RoundsTyped, SpentSize, Zenon
  <2>3. row # None => 0 <= Cardinality(row.spent)
    BY <2>2
  <2>4. ~(0 > 0) /\ pc'[h] # "consume"
    BY <2>1
  <2> QED
    BY <1>6, <2>1, <2>3, <2>4, Zenon DEF RoundsOf
<1>7. CASE ReadCodes(h) /\ ~Finish(h)
  <2>1. /\ pc[h] = "codes" /\ Redeemable(h) /\ UNCHANGED <<row, written>>
        /\ local' = [local EXCEPT ![h].seen = row] /\ Goto(h, "consume")
    BY <1>7, Zenon DEF ReadCodes, ghosts
  <2>2. /\ pc'[h] = "consume" /\ local'[h].attempt = local[h].attempt
        /\ Input(h)' = Input(h) /\ Seen(h)' = row
    BY <1>0, <2>1, Zenon DEF Goto, Local, Input, Seen
  <2>3. row # None /\ row.gen = Input(h)[1] /\ row.gen \in Enrolments
    BY <2>1, RoundsTyped, Zenon DEF Redeemable, Row
  <2>4. written[row.gen] >= 1
    BY <2>3, Zenon DEF WritesInv, WritesOf
  <2>5. written[row.gen] <= 1 => local[h].attempt <= Cardinality(row.spent)
    BY <2>1, <2>3, Zenon DEF RoundsOf
  <2> QED
    BY <2>1, <2>2, <2>3, <2>4, <2>5, Zenon DEF RoundsOf
<1>8. CASE Retry(h) /\ ~Finish(h)
  <2>1. /\ pc[h] = "consume" /\ UNCHANGED <<row, written>>
        /\ local' = [local EXCEPT ![h].attempt = local[h].attempt + 1]
        /\ Goto(h, "codes")
    BY <1>8, Zenon DEF Retry
  <2>2. /\ pc'[h] = "codes" /\ local'[h].attempt = local[h].attempt + 1
        /\ Input(h)' = Input(h)
    BY <1>0, <2>1, Zenon DEF Goto, Local, Input
  <2>3. written[Input(h)[1]] >= 1
    BY <2>1, Zenon DEF RoundsOf
  <2>4. row # None /\ row.gen = Input(h)[1] /\ written[row.gen] <= 1
        => local[h].attempt + 1 <= Cardinality(row.spent)
    BY <1>8, RetryLoses, Zenon
  <2>5. pc'[h] # "consume"
    BY <2>2
  <2> QED
    BY <2>1, <2>2, <2>3, <2>4, <2>5, Zenon DEF RoundsOf
<1>9. CASE \/ AddAuthenticator(h) \/ Promote(h) \/ Validate(h) \/ Reserve(h)
           \/ ReserveFailsOpen(h)
  <2>1. pc[h] \notin {"codes", "consume"}
    BY <1>9, Zenon DEF AddAuthenticator, Promote, Validate, Reserve, ReserveFailsOpen
  <2>2. \/ Finish(h)
        \/ /\ UNCHANGED local
           /\ \E l \in {"create", "clear", "live", "reserve", "mark"} : Goto(h, l)
        \/ /\ pc[h] \in {"live", "reserve"} /\ UNCHANGED <<local, row, written>>
           /\ Goto(h, "codes")
    BY <1>9, Zenon DEF AddAuthenticator, Promote, Validate, Reserve, ReserveFailsOpen,
       reserveTOTPPasscode, AfterReserve, ghosts
  <2> QED
    BY <1>2, <1>4, <1>6, <2>1, <2>2, Zenon
<1> QED
  BY <1>2, <1>3, <1>5, <1>7, <1>8, <1>9, Zenon DEF Step, StagePending, Create,
     Overwrite, ClearPending, Mark, Consume, Fail

(* Promotions only add up.                                                 *)
LEMMA PromotedGrows ==
    ASSUME Typed, [Next]_vars, NEW e \in Enrolments, promoted[e] > 1
    PROVE  promoted'[e] > 1
<1>0. promoted \in [Enrolments -> Nat]
  BY Zenon DEF Typed, GhostsOK
<1>1. ASSUME NEW h \in Handlers, Promote(h) PROVE promoted'[e] > 1
  <2>1. promoted' = [promoted EXCEPT ![local[h].new] = promoted[local[h].new] + 1]
    BY <1>1, Zenon DEF Promote
  <2>2. promoted'[e] \in {promoted[e], promoted[e] + 1}
    BY <1>0, <2>1, Zenon
  <2> QED
    BY <1>0, <2>2
<1>2. ASSUME NEW h \in Handlers, Reserve(h) \/ ReserveFailsOpen(h)
      PROVE  promoted' = promoted
  BY <1>2, Zenon DEF Reserve, ReserveFailsOpen
<1> QED
  BY <1>1, <1>2, PasscodeWriters, Zenon DEF vars, ghosts

(* "Even if every code a user has is redeemed simultaneously, each request *)
(* gets through within this many attempts": a redemption gives up on an    *)
(* unspent code only if some enrolment was promoted twice (totp.go         *)
(* recoveryCodeConsumeAttempts, ValidateRecoveryCode).                     *)
THEOREM AttemptsAlwaysSuffice == Spec => []AttemptsSuffice
<1>1. Init => AttemptsInv
  <2> SUFFICES ASSUME Init PROVE AttemptsInv
    OBVIOUS
  <2>0. Typed
    BY TypedInit
  <2>1. /\ written = [e \in Enrolments |-> IF row # None /\ e = 1 THEN 1 ELSE 0]
        /\ promoted = [e \in Enrolments |-> 0] /\ pending = None /\ exhausted = FALSE
        /\ minted = IF row = None THEN 0 ELSE 1
        /\ pc = [h \in Handlers |-> "idle"] /\ local = [h \in Handlers |-> Idle]
    BY Zenon DEF Init
  <2>2. \A h \in Handlers : pc[h] = "idle" /\ local[h].attempt = 0
    BY <2>1, Zenon DEF Idle
  <2>3. RoundsInv
    BY <2>2, Zenon DEF RoundsInv, RoundsOf
  <2>4. ASSUME NEW e \in Enrolments PROVE WritesOf(e)
    <3>1. row # None => row.gen = 1
      <4>1. ASSUME row # None PROVE row.gen = 1
        <5>1. PICK p \in BOOLEAN, v \in BOOLEAN :
                 row = [Enrolled(1, 1) EXCEPT !.plain = p, !.verified = v]
          BY <4>1, Zenon DEF Init
        <5> QED
          BY <5>1, Zenon DEF Enrolled
      <4> QED
        BY <4>1
    <3>2. \A h \in Handlers : ~Placing(h, e)
      BY <2>2, Zenon DEF Placing
    <3>3. ~Staged(e)
      <4>1. None \notin Enrolments
        BY TotpAssumption, Zenon DEF Enrolments
      <4> QED
        BY <2>1, <2>2, <4>1, Zenon DEF Staged
    <3>4. /\ written[e] = IF row # None /\ e = 1 THEN 1 ELSE 0
          /\ promoted[e] = 0
      BY <2>1, Zenon
    <3>5. /\ row # None /\ row.gen = e => written[e] >= 1
          /\ e > minted => written[e] = 0
          /\ written[e] <= 1
      BY <2>1, <3>1, <3>4
    <3> QED
      BY <3>2, <3>3, <3>4, <3>5, Zenon DEF WritesOf
  <2> QED
    BY <2>1, <2>3, <2>4, Zenon DEF AttemptsInv, WritesInv, AttemptsSuffice
<1>2. Typed /\ AttemptsInv /\ [Next]_vars => AttemptsInv'
  <2> SUFFICES ASSUME Typed, AttemptsInv, [Next]_vars PROVE AttemptsInv'
    OBVIOUS
  <2>1. WritesInv /\ RoundsInv /\ AttemptsSuffice
    BY DEF AttemptsInv
  <2>2. WritesInv'
    <3>1. CASE UNCHANGED vars
      BY <2>1, <3>1, Zenon DEF vars, ghosts, WritesInv, WritesOf, Placing, Staged
    <3>2. CASE Next /\ \A h \in Handlers : ~Loud(h)
      BY <2>1, <3>2, QuietSteps, WritesQuiet, Zenon
    <3> QED
      BY <2>1, <3>1, <3>2, WritesLoud, Zenon
  <2>3. RoundsInv'
    <3> SUFFICES ASSUME NEW g \in Handlers PROVE RoundsOf(g)'
      BY DEF RoundsInv
    <3>1. RoundsOf(g) /\ RowGoesOn
      BY <2>1, RowGoes, Zenon DEF RoundsInv
    <3>2. DataOK'
      BY TypedNext, Zenon DEF Typed, TypeOK, DataOK
    <3>3. CASE pc'[g] = pc[g] /\ local'[g] = local[g]
      BY <3>1, <3>2, <3>3, RoundsKept, Zenon
    <3>4. ASSUME NEW h \in Handlers, Generate(h) \/ VerifyOTP(h) \/ Step(h)
          PROVE  RoundsOf(g)'
      <4>1. CASE g = h
        BY <2>1, <3>1, <3>4, <4>1, RoundsMoved, Zenon
      <4>2. CASE g # h
        BY <3>3, <3>4, <4>2, OthersStay, Zenon
      <4> QED
        BY <4>1, <4>2
    <3>5. CASE ExpirePending \/ ResetMfa \/ UNCHANGED vars
      BY <3>3, <3>5, Zenon DEF ExpirePending, ResetMfa, vars
    <3> QED
      BY <3>4, <3>5, Zenon DEF Next
  <2>4. AttemptsSuffice'
    <3>1. CASE exhausted
      BY <2>1, <3>1, PromotedGrows, Zenon DEF AttemptsSuffice
    <3>2. CASE exhausted' = exhausted
      BY <3>1, <3>2, Zenon DEF AttemptsSuffice
    <3>3. ASSUME NEW h \in Handlers, Retry(h), ~exhausted, exhausted'
          PROVE  AttemptsSuffice'
      <4>1. /\ ~(local[h].attempt + 1 < recoveryCodeConsumeAttempts) /\ Redeemable(h)
            /\ promoted' = promoted
        BY <3>3, Zenon DEF Retry
      <4>2. /\ row # None /\ row.gen = Input(h)[1] /\ row.gen \in Enrolments
            /\ row.spent \in SUBSET Codes /\ row.spent # Codes
            /\ local[h].attempt \in Nat
        BY <4>1, RoundsTyped, Zenon DEF Redeemable, Row
      <4>3. /\ Cardinality(row.spent) + 1 <= Cardinality(Codes)
            /\ Cardinality(row.spent) \in Nat /\ Cardinality(Codes) \in Nat
        BY <4>2, SpentSize, Zenon
      <4>4. ~(local[h].attempt + 1 <= Cardinality(row.spent))
        BY <4>1, <4>2, <4>3 DEF recoveryCodeConsumeAttempts, totalRecoveryCodes
      <4>5. RoundsOf(h) /\ WritesOf(row.gen)
        BY <2>1, <4>2, Zenon DEF RoundsInv, WritesInv
      <4>6. ~(written[row.gen] <= 1)
        BY <3>3, <4>2, <4>4, <4>5, RetryLoses, Zenon
      <4>7. written[row.gen] <= promoted[row.gen]
        BY <4>5, <4>6, Zenon DEF WritesOf
      <4>8. written[row.gen] \in Nat /\ promoted[row.gen] \in Nat
        BY <4>2, Zenon DEF Typed, GhostsOK
      <4>9. promoted'[row.gen] > 1
        BY <4>1, <4>6, <4>7, <4>8
      <4> QED
        BY <4>2, <4>9, Zenon DEF AttemptsSuffice
    <3>4. exhausted' = exhausted \/ (\E h \in Handlers : Retry(h)) 
      <4>1. ASSUME NEW h \in Handlers, Generate(h) \/ VerifyOTP(h) \/ Step(h)
            PROVE  exhausted' = exhausted \/ Retry(h)
        BY <4>1, Zenon
           DEF Step, Generate, VerifyOTP, StagePending, AddAuthenticator, Create,
               Overwrite, GetPending, Promote, ClearPending, Validate, Reserve,
               ReserveFailsOpen, Mark, ReadCodes, Consume, Fail, ghosts
      <4> QED
        BY <4>1, Zenon DEF Next, ExpirePending, ResetMfa, vars, ghosts
    <3> QED
      BY <3>1, <3>2, <3>3, <3>4, Zenon DEF AttemptsSuffice
  <2> QED
    BY <2>2, <2>3, <2>4 DEF AttemptsInv
<1>3. AttemptsInv => AttemptsSuffice
  BY DEF AttemptsInv
<1> QED
  BY <1>1, <1>2, <1>3, TypedInit, TypedNext, PTL DEF Spec
=============================================================================
