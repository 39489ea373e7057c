-------------------------------- MODULE Totp --------------------------------
(***************************************************************************)
(* The TOTP factor of one user: enrolment (totp.Generate), the second      *)
(* factor of a sign-in (VerifyOTP with is_totp: totp.Validate, then        *)
(* totp.ValidateRecoveryCode with the same input) and the administrator's  *)
(* MFA reset, over the authenticator row of the SQL storage provider and   *)
(* the pending secret and used-passcode marks of the cache.                *)
(*                                                                         *)
(* An enrolment is a number: it stands for the secret and for the set of   *)
(* recovery codes that one call of Generate mints.  A passcode is a pair   *)
(* of the enrolment whose secret computes it and a name; a recovery code   *)
(* is a pair likewise.  Each access to the table or the cache is a step.   *)
(* The cache calls are atomic here, and the attempt budget around them is  *)
(* left out: module Cache opens both up.                                   *)
(***************************************************************************)
EXTENDS Integers, FiniteSets

CONSTANTS
    Handlers,     \* request handlers
    Codes,        \* the recovery codes of an enrolment
    Passcodes,    \* the passcodes of an enrolment inside their window
    MaxEnrolment, \* bound: enrolments minted
    MaxCalls,     \* bound: sign-ins attempted
    None

ASSUME TotpAssumption ==
    /\ IsFiniteSet(Codes) /\ IsFiniteSet(Passcodes) /\ Codes # {}
    /\ Codes \cap Passcodes = {}
    /\ MaxEnrolment \in Nat \ {0} /\ MaxCalls \in Nat
    /\ None \notin 1..MaxEnrolment

VARIABLES
    row,       \* the authenticator row of the user, or None
    pending,   \* the re-enrolment staged in the cache, or None
    used,      \* the passcodes reserved in the cache
    pc, local, \* where each handler is, and what it holds
    minted,    \* enrolments minted so far
    calls,     \* sign-ins attempted so far
    confirmed, \* ghost: enrolments of which some passcode was accepted
    written,   \* ghost: how often an enrolment's codes were written afresh
    promoted,  \* ghost: how often an enrolment was promoted
    accepted,  \* ghost: how often a passcode was accepted
    open,      \* ghost: reservations that failed open
    redeemed,  \* ghost: how often a recovery code was redeemed
    reverted,  \* ghost: Validate wrote back a secret replaced meanwhile
    exhausted  \* ghost: a redemption gave up while its code was unspent

ghosts == <<confirmed, written, promoted, accepted, open, redeemed, reverted, exhausted>>
vars == <<row, pending, used, pc, local, minted, calls, ghosts>>

Enrolments == 1..MaxEnrolment

totalRecoveryCodes == Cardinality(Codes)

(* Mutation of recoveryCodeConsumeAttempts: one attempt too few.           *)
OneAttemptShort == totalRecoveryCodes - 1

recoveryCodeConsumeAttempts == totalRecoveryCodes

(***************************************************************************)
(* The row: its id, the secret (and whether a pre-encryption release wrote *)
(* it as plain text), the recovery-code blob (of which enrolment, and the  *)
(* codes marked consumed) and whether verified_at is set.                  *)
(***************************************************************************)
Row == [id : Enrolments, secret : Enrolments, plain : BOOLEAN,
        gen : Enrolments, spent : SUBSET Codes, verified : BOOLEAN]

Inputs == Enrolments \X (Passcodes \cup Codes)

Labels == {"idle", "store", "create", "pending", "promote", "clear",
           "live", "reserve", "mark", "codes", "consume"}

Local == [seen : Row \cup {None}, new : Enrolments \cup {None},
          input : Inputs \cup {None}, attempt : 0..totalRecoveryCodes]

Idle == [seen |-> None, new |-> None, input |-> None, attempt |-> 0]

TypeOK ==
    /\ row \in Row \cup {None} /\ pending \in Enrolments \cup {None}
    /\ used \subseteq Enrolments \X Passcodes
    /\ pc \in [Handlers -> Labels] /\ local \in [Handlers -> Local]
    /\ minted \in 0..MaxEnrolment /\ calls \in 0..MaxCalls

(* The authenticator as Generate first stores it, under the row id i.      *)
Enrolled(i, e) == [id |-> i, secret |-> e, plain |-> FALSE,
                   gen |-> e, spent |-> {}, verified |-> FALSE]

(* No authenticator yet, or one enrolled earlier, perhaps never confirmed, *)
(* perhaps by a release that did not encrypt secrets.                      *)
Init ==
    /\ \E p, v \in BOOLEAN :
          row \in {None, [Enrolled(1, 1) EXCEPT !.plain = p, !.verified = v]}
    /\ minted = IF row = None THEN 0 ELSE 1
    /\ pending = None /\ used = {} /\ calls = 0
    /\ pc = [h \in Handlers |-> "idle"] /\ local = [h \in Handlers |-> Idle]
    /\ confirmed = IF row # None /\ row.verified THEN {1} ELSE {}
    /\ written = [e \in Enrolments |-> IF row # None /\ e = 1 THEN 1 ELSE 0]
    /\ promoted = [e \in Enrolments |-> 0]
    /\ accepted = [p \in Enrolments \X Passcodes |-> 0] /\ open = 0
    /\ redeemed = [c \in Enrolments \X Codes |-> 0]
    /\ reverted = FALSE /\ exhausted = FALSE

-----------------------------------------------------------------------------
(* The statements of the storage provider.                                 *)

(* Save: the whole row by primary key, inserting it if it is gone; a row   *)
(* of another id for the same (user_id, method) is a unique violation.     *)
UpdateAuthenticator(r) ==
    /\ row # None => row.id = r.id
    /\ row' = r

UpdateAuthenticatorSecretAndVerifiedAt(r) ==
    row' = IF row # None /\ row.id = r.id
             THEN [row EXCEPT !.secret = r.secret, !.plain = FALSE, !.verified = TRUE]
             ELSE row

(* Mutation of Unchanged: the WHERE clause names the row only.             *)
SameRow(r) == row # None /\ row.id = r.id

(* The WHERE clause of ConsumeAuthenticatorRecoveryCode: the row still     *)
(* holds the blob that was read.                                           *)
Unchanged(r) == row # None /\ row.id = r.id /\ row.gen = r.gen /\ row.spent = r.spent

-----------------------------------------------------------------------------
Goto(h, l) == pc' = [pc EXCEPT ![h] = l]

Finish(h) ==
    /\ pc' = [pc EXCEPT ![h] = "idle"]
    /\ local' = [local EXCEPT ![h] = Idle]

Seen(h) == local[h].seen
Input(h) == local[h].input

(* The input is a passcode of enrolment e.                                 *)
IsPasscodeOf(h, e) == Input(h)[1] = e /\ Input(h)[2] \in Passcodes

Rewritten(e) == written' = [written EXCEPT ![e] = @ + 1]
Accepted(h) ==
    /\ accepted' = [accepted EXCEPT ![Input(h)] = @ + 1]
    /\ confirmed' = confirmed \cup {Input(h)[1]}

-----------------------------------------------------------------------------
(* Generate mints a secret and its recovery codes and reads the row; a     *)
(* failed read is taken for "no row".                                      *)
Generate(h) ==
    /\ pc[h] = "idle" /\ minted < MaxEnrolment
    /\ minted' = minted + 1
    /\ \E r \in {row, None} :
         local' = [local EXCEPT ![h] = [Idle EXCEPT !.seen = r, !.new = minted + 1]]
    /\ Goto(h, "store")
    /\ UNCHANGED <<row, pending, used, calls, ghosts>>

(* A verified authenticator is left alone: the new secret is staged.       *)
StagePending(h) ==
    /\ pc[h] = "store" /\ Seen(h) # None /\ Seen(h).verified
    /\ pending' = local[h].new
    /\ Finish(h)
    /\ UNCHANGED <<row, used, minted, calls, ghosts>>

(* AddAuthenticator looks again and keeps a row that has appeared.         *)
AddAuthenticator(h) ==
    /\ pc[h] = "store" /\ Seen(h) = None
    /\ IF row # None THEN Finish(h) ELSE Goto(h, "create") /\ UNCHANGED local
    /\ UNCHANGED <<row, pending, used, minted, calls, ghosts>>

(* The upsert on (user_id, method): every column but the id is replaced.   *)
Create(h) ==
    /\ pc[h] = "create"
    /\ row' = Enrolled(IF row = None THEN local[h].new ELSE row.id, local[h].new)
    /\ Rewritten(local[h].new)
    /\ Finish(h)
    /\ UNCHANGED <<pending, used, minted, calls, confirmed, promoted, accepted,
                   open, redeemed, reverted, exhausted>>

(* Mutation of Overwrites: every existing row is overwritten in place.     *)
OverwritesAnything(r) == r # None

(* The rows Generate overwrites in place: those that were never verified.  *)
Overwrites(r) == r # None /\ ~r.verified

(* The unverified row, as it was read, with the new secret and codes.      *)
Overwrite(h) ==
    /\ pc[h] = "store" /\ Overwrites(Seen(h))
    /\ UpdateAuthenticator([Seen(h) EXCEPT !.secret = local[h].new, !.plain = FALSE,
                                           !.gen = local[h].new, !.spent = {}])
    /\ Rewritten(local[h].new)
    /\ Finish(h)
    /\ UNCHANGED <<pending, used, minted, calls, confirmed, promoted, accepted,
                   open, redeemed, reverted, exhausted>>

-----------------------------------------------------------------------------
(* VerifyOTP calls Validate, which reads the row first; without one the    *)
(* read is an error and the sign-in ends.                                  *)
VerifyOTP(h) ==
    /\ pc[h] = "idle" /\ calls < MaxCalls
    /\ calls' = calls + 1
    /\ row # None
    /\ \E i \in Inputs :
         /\ i[1] <= minted
         /\ local' = [local EXCEPT ![h] = [Idle EXCEPT !.seen = row, !.input = i]]
    /\ Goto(h, "pending")
    /\ UNCHANGED <<row, pending, used, minted, ghosts>>

(* Mutation of Confirms: any passcode promotes what is staged.             *)
ConfirmsAnyhow(h, e) == e # None /\ Input(h)[2] \in Passcodes

(* The input validates against the staged secret.                          *)
Confirms(h, e) == e # None /\ IsPasscodeOf(h, e)

(* promotePendingSecret reads what is staged; a failed read is taken for   *)
(* nothing staged.                                                         *)
GetPending(h) ==
    /\ pc[h] = "pending"
    /\ \/ /\ Confirms(h, pending)
          /\ local' = [local EXCEPT ![h].new = pending]
          /\ Goto(h, "promote")
       \/ Goto(h, "live") /\ UNCHANGED local
    /\ UNCHANGED <<row, pending, used, minted, calls, ghosts>>

(* Mutation of Promoted: the recovery codes of the old enrolment stay.     *)
PromotedSecretOnly(r, e) == [r EXCEPT !.secret = e, !.plain = FALSE, !.verified = TRUE]

(* The row r with the staged secret and codes of e, verified.              *)
Promoted(r, e) == [r EXCEPT !.secret = e, !.plain = FALSE,
                            !.gen = e, !.spent = {}, !.verified = TRUE]

(* The promotion saves the whole row as it was read at the top of Validate,*)
(* and the staged enrolment in it.                                         *)
Promote(h) ==
    LET e == local[h].new IN
    /\ pc[h] = "promote"
    /\ UpdateAuthenticator(Promoted(Seen(h), e))
    /\ Rewritten(e)
    /\ promoted' = [promoted EXCEPT ![e] = @ + 1]
    /\ Accepted(h)
    /\ Goto(h, "clear")
    /\ UNCHANGED <<pending, used, local, minted, calls, open, redeemed, reverted, exhausted>>

(* DeleteCacheByPrefix clears whatever is staged by now.                   *)
ClearPending(h) ==
    /\ pc[h] = "clear"
    /\ pending' = None
    /\ Finish(h)
    /\ UNCHANGED <<row, used, minted, calls, ghosts>>

(* Validate compares with the secret it read.  A passcode of it must still *)
(* be reserved; any other input goes on to ValidateRecoveryCode.           *)
Validate(h) ==
    /\ pc[h] = "live"
    /\ Goto(h, IF IsPasscodeOf(h, Seen(h).secret) THEN "reserve" ELSE "codes")
    /\ UNCHANGED <<row, pending, used, local, minted, calls, ghosts>>

(* The write-back is needed for a first validation and for a legacy row.   *)
AfterReserve(h) ==
    IF ~Seen(h).verified \/ Seen(h).plain THEN Goto(h, "mark") /\ UNCHANGED local
                                          ELSE Finish(h)

(* Mutation of reserveTOTPPasscode: the mark is set but not consulted.     *)
reserveAnyPasscode(h) ==
    /\ used' = used \cup {Input(h)}
    /\ Accepted(h) /\ AfterReserve(h)

(* SetCacheNX: the first claim is accepted, a later one is refused and     *)
(* tried as a recovery code.                                               *)
reserveTOTPPasscode(h) ==
    IF Input(h) \in used
      THEN /\ Goto(h, "codes")
           /\ UNCHANGED <<used, local, accepted, confirmed>>
      ELSE /\ used' = used \cup {Input(h)}
           /\ Accepted(h) /\ AfterReserve(h)

Reserve(h) ==
    /\ pc[h] = "reserve"
    /\ reserveTOTPPasscode(h)
    /\ UNCHANGED <<row, pending, minted, calls, written, promoted, open, redeemed,
                   reverted, exhausted>>

(* A fault of the cache accepts the passcode unreserved.                   *)
ReserveFailsOpen(h) ==
    /\ pc[h] = "reserve"
    /\ Accepted(h) /\ AfterReserve(h)
    /\ open' = open + 1
    /\ UNCHANGED <<row, pending, used, minted, calls, written, promoted, redeemed,
                   reverted, exhausted>>

(* The best-effort write of the secret read at the top and verified_at.    *)
Mark(h) ==
    /\ pc[h] = "mark"
    /\ UpdateAuthenticatorSecretAndVerifiedAt(Seen(h))
    /\ reverted' = (reverted \/ (row # None /\ row.secret # Seen(h).secret))
    /\ Finish(h)
    /\ UNCHANGED <<pending, used, minted, calls, confirmed, written, promoted,
                   accepted, open, redeemed, exhausted>>

-----------------------------------------------------------------------------
(* The input is a recovery code that the row holds unspent.                *)
Redeemable(h) ==
    row # None /\ Input(h)[1] = row.gen /\ Input(h)[2] \in Codes \ row.spent

(* One round of ValidateRecoveryCode reads the row: a code that is unknown *)
(* or consumed, or a missing row, ends the sign-in.                        *)
ReadCodes(h) ==
    /\ pc[h] = "codes"
    /\ IF Redeemable(h)
         THEN /\ local' = [local EXCEPT ![h].seen = row]
              /\ Goto(h, "consume")
         ELSE Finish(h)
    /\ UNCHANGED <<row, pending, used, minted, calls, ghosts>>

(* ConsumeAuthenticatorRecoveryCode marks the code consumed.               *)
Consume(h) ==
    /\ pc[h] = "consume" /\ Unchanged(Seen(h))
    /\ row' = [row EXCEPT !.spent = Seen(h).spent \cup {Input(h)[2]}]
    /\ redeemed' = [redeemed EXCEPT ![Input(h)] = @ + 1]
    /\ Finish(h)
    /\ UNCHANGED <<pending, used, minted, calls, confirmed, written, promoted,
                   accepted, open, reverted, exhausted>>

(* A lost race is another round, or an error once the attempts are used up.*)
Retry(h) ==
    LET n == local[h].attempt + 1 IN
    /\ pc[h] = "consume" /\ ~Unchanged(Seen(h))
    /\ IF n < recoveryCodeConsumeAttempts
         THEN /\ local' = [local EXCEPT ![h].attempt = n]
              /\ Goto(h, "codes") /\ UNCHANGED exhausted
         ELSE Finish(h) /\ exhausted' = (exhausted \/ Redeemable(h))
    /\ UNCHANGED <<row, pending, used, minted, calls, confirmed, written, promoted,
                   accepted, open, redeemed, reverted>>

-----------------------------------------------------------------------------
(* A statement or a cache call fails and changes nothing: the request ends *)
(* with an error, or with success where the write was best effort.         *)
Fail(h) ==
    /\ pc[h] \in {"store", "create", "promote", "clear", "mark", "codes", "consume"}
    /\ Finish(h)
    /\ UNCHANGED <<row, pending, used, minted, calls, ghosts>>

(* The staged secret reaches totpPendingSecretTTLSeconds.                  *)
ExpirePending ==
    /\ pending # None /\ pending' = None
    /\ UNCHANGED <<row, used, pc, local, minted, calls, ghosts>>

(* UpdateUser with reset_mfa deletes the row; what is staged stays staged. *)
ResetMfa ==
    /\ row # None /\ row' = None
    /\ UNCHANGED <<pending, used, pc, local, minted, calls, ghosts>>

Step(h) ==
    \/ StagePending(h) \/ AddAuthenticator(h) \/ Create(h) \/ Overwrite(h)
    \/ GetPending(h) \/ Promote(h) \/ ClearPending(h)
    \/ Validate(h) \/ Reserve(h) \/ ReserveFailsOpen(h) \/ Mark(h)
    \/ ReadCodes(h) \/ Consume(h) \/ Retry(h) \/ Fail(h)

Next ==
    \/ \E h \in Handlers : Generate(h) \/ VerifyOTP(h) \/ Step(h)
    \/ ExpirePending \/ ResetMfa

Spec == Init /\ [][Next]_vars

-----------------------------------------------------------------------------
(* A recovery code is redeemed at most once for each time the codes of its *)
(* enrolment were written afresh.  Only a promotion that overlaps another  *)
(* promotion of the same staged enrolment writes them twice, restoring     *)
(* what was consumed in between (totp.go promotePendingSecret).            *)
RecoveryCodeIsSpentOnce ==
    \A e \in Enrolments, c \in Codes : redeemed[<<e, c>>] <= written[e]

(* A passcode is accepted once against the live secret, whoever races with *)
(* it, once more for each promotion it confirmed and for each reservation  *)
(* the cache failed to take (totp.go reserveTOTPPasscode: a confirmation   *)
(* reserves nothing).                                                      *)
PasscodeIsUsedOnce ==
    \A e \in Enrolments, p \in Passcodes :
        accepted[<<e, p>>] <= 1 + promoted[e] + open

(* A verified authenticator holds a secret of which the user has shown a   *)
(* passcode: no order of enrolments, promotions, stale saves and resets    *)
(* turns verified_at on for a secret that was only displayed.              *)
VerifiedMeansConfirmed ==
    row # None /\ row.verified => row.secret \in confirmed

(* "That would desync the user's working authenticator app": the secret of *)
(* a verified row is replaced only by a confirmed one, or by an enrolment  *)
(* whose Generate had read the row before it was verified.                 *)
LiveSecretIsKept ==
    [][row # None /\ row.verified /\ row' # None /\ row'.secret # row.secret
         => \/ row'.secret \in confirmed'
            \/ \E h \in Handlers : /\ pc[h] \in {"store", "create"} /\ pc'[h] = "idle"
                                   /\ Seen(h) # row]_vars

(* Secret and recovery codes of a row come from the same enrolment, unless *)
(* a Validate that began before a promotion or an enrolment wrote back the *)
(* secret it had read (totp.go:381).                                       *)
RowIsOneEnrolment == row # None /\ ~reverted => row.secret = row.gen

(* "Even if every code a user has is redeemed simultaneously, each request *)
(* gets through within this many attempts": the loop gives up on a code    *)
(* that is still unspent only if the codes of some enrolment were restored *)
(* by a second promotion.                                                  *)
AttemptsSuffice == exhausted => \E e \in Enrolments : promoted[e] > 1
=============================================================================
