-------------------------- MODULE VerificationRequest --------------------------
(***************************************************************************)
(* Accounts and the links mailed about them: sign-up, magic-link login,    *)
(* invitations, forgotten passwords, e-mail changes, resends, the          *)
(* redemption of a link (service/verify_email_core.go, verify_email.go,    *)
(* http_handlers/verify_email.go, service/reset_password.go) and the       *)
(* administrator's operations on an account.  Storage is the SQL provider. *)
(*                                                                         *)
(* `users' holds one row per account; UpdateUser writes every column of    *)
(* the row that the handler read before.  `requests' is the table          *)
(* verification_requests, unique in (email, identifier): adding a request  *)
(* for a key that is there replaces its token and keeps its row id, and    *)
(* DeleteVerificationRequest deletes by row id.  Each handler's reads and  *)
(* writes are separate steps.                                              *)
(*                                                                         *)
(* E-mail verification, sign-up, basic authentication and magic links are  *)
(* enabled; accounts have an e-mail address.  Delivery of the mail is not  *)
(* modelled: a link may be opened at any time once its request is stored.  *)
(***************************************************************************)
EXTENDS Integers

CONSTANTS
    Emails,
    Passwords,
    Handlers,         \* requests being served at one time
    MaxAccount,       \* bound on the accounts of a behaviour
    MaxToken,         \* bound on the links of a behaviour
    MaxRequest,       \* bound on the requests of a behaviour
    Empty             \* an absent value

ASSUME LinkAssumption ==
    /\ MaxAccount \in Nat
    /\ MaxToken \in Nat
    /\ MaxRequest \in Nat
    /\ Empty \notin Emails \cup Passwords

VARIABLES
    users,       \* account |-> row, Empty when there is none
    requests,    \* email |-> identifier |-> row id and token, 0 when absent
    link,        \* token |-> its signed claims
    expired,     \* tokens past their thirty minutes
    pc,          \* where a handler stands
    local,       \* a handler's local variables
    nextAccount, \* accounts created so far
    nextToken,   \* links minted so far
    served,      \* requests served so far
    expect,      \* account |-> its row if every write changed only its columns
    stale,       \* accounts written from a row that had changed meanwhile
    proved,      \* <<account, email>> pairs shown by a link or an administrator
    confirmed,   \* pairs whose link was accepted, and not unverified since
    lapsed,      \* handlers whose account was unverified since they read it
    owed,        \* links that nobody used, replaced or withdrew
    raced        \* links deleted by a handler that had read another token

accounts == <<users, nextAccount, expect, stale>>
links    == <<requests, link, nextToken, owed, raced>>
proofs   == <<proved, confirmed, lapsed>>
vars == <<users, requests, link, expired, pc, local, nextAccount, nextToken,
          expect, stale, proved, confirmed, lapsed, owed, raced, served>>

Accounts == 1..MaxAccount
Tokens   == 1..MaxToken

(* constants.VerificationTypes: the identifier of a request, and the       *)
(* token_type claim of its token.                                          *)
Identifiers == {"signup", "magic", "update", "invite", "forgot"}

verificationPurposesResetPassword == {"forgot"}

verificationPurposesVerifyEmail == {"signup", "magic", "update", "invite"}

NoRequest == [id |-> 0, token |-> 0]

Idle == [kind |-> "none", email |-> Empty, identifier |-> Empty,
         account |-> 0, seen |-> Empty, write |-> <<>>, id |-> 0, token |-> 0]

Row == [email : Emails, password : Passwords \cup {Empty},
        verified : BOOLEAN, revoked : BOOLEAN]

Labels == {"idle", "add", "create", "mint", "unlink", "lookup", "save",
           "gate", "spend", "erase", "cleanup"}

TypeOK ==
    /\ users \in [Accounts -> Row \cup {Empty}]
    /\ expect \in [Accounts -> Row \cup {Empty}]
    /\ requests \in [Emails -> [Identifiers -> [id : 0..MaxToken,
                                                token : 0..MaxToken]]]
    /\ pc \in [Handlers -> Labels]
    /\ expired \cup owed \cup raced \subseteq Tokens
    /\ nextAccount \in 0..MaxAccount
    /\ nextToken \in 0..MaxToken

Init ==
    /\ users = [u \in Accounts |-> Empty]
    /\ requests = [e \in Emails |-> [i \in Identifiers |-> NoRequest]]
    /\ link = [t \in Tokens |-> Empty]
    /\ expired = {}
    /\ pc = [h \in Handlers |-> "idle"]
    /\ local = [h \in Handlers |-> Idle]
    /\ nextAccount = 0
    /\ nextToken = 0
    /\ expect = users
    /\ stale = {}
    /\ proved = {}
    /\ confirmed = {}
    /\ lapsed = {}
    /\ owed = {}
    /\ raced = {}
    /\ served = 0

-----------------------------------------------------------------------------
(* The storage calls.                                                      *)

(* GetUserByEmail answers one of these, or an error when there is none.    *)
GetUserByEmail(e) == {u \in Accounts : users[u] # Empty /\ users[u].email = e}

OpenTokens == {requests[e][i].token : e \in Emails, i \in Identifiers} \ {0}

(* The columns of w written over those of row.                             *)
Overlay(row, w) ==
    [c \in (DOMAIN row) \cup (DOMAIN w) |-> IF c \in DOMAIN w THEN w[c] ELSE row[c]]

(* Mutation of UpdateUser: the struct was not loaded in full, so columns   *)
(* that the handler did not set are blanked.                               *)
UpdateUserPartial(l) ==
    /\ users' = [users EXCEPT ![l.account] =
                   Overlay([l.seen EXCEPT !.password = Empty], l.write)]
    /\ expect' = [expect EXCEPT
         ![l.account] = IF @ = Empty THEN Empty ELSE Overlay(@, l.write)]
    /\ stale' = IF users[l.account] = l.seen THEN stale
                ELSE stale \cup {l.account}
    /\ UNCHANGED nextAccount

(* UpdateUser(user): gorm's Save writes every column of the row the        *)
(* handler holds, and inserts the row again when it was deleted meanwhile. *)
UpdateUser(l) ==
    /\ users' = [users EXCEPT ![l.account] = Overlay(l.seen, l.write)]
    /\ expect' = [expect EXCEPT
         ![l.account] = IF @ = Empty THEN Empty ELSE Overlay(@, l.write)]
    /\ stale' = IF users[l.account] = l.seen THEN stale
                ELSE stale \cup {l.account}
    /\ UNCHANGED nextAccount

(* AddVerificationRequest: an upsert on (email, identifier).  A row's id   *)
(* is the number of the token it was inserted with.                        *)
AddVerificationRequest(e, i, type) ==
    LET t == nextToken + 1
        r == requests[e][i]
    IN  /\ t \in Tokens
        /\ nextToken' = t
        /\ requests' = [requests EXCEPT
             ![e][i] = [id |-> IF @.id = 0 THEN t ELSE @.id, token |-> t]]
        /\ link' = [link EXCEPT ![t] = [email |-> e, type |-> type]]
        /\ owed' = (owed \ {r.token}) \cup {t}
        /\ UNCHANGED raced

(* Mutation of DeleteVerificationRequest: every request of the address is  *)
(* deleted.                                                                *)
DeleteVerificationRequestsOf(l) ==
    /\ requests' = [requests EXCEPT
         ![l.email] = [i \in Identifiers |-> NoRequest]]
    /\ owed' = owed \ {l.token}
    /\ raced' = raced
    /\ UNCHANGED <<link, nextToken>>

(* DeleteVerificationRequest(row): deletes the row with the id of the one  *)
(* the handler read, whatever token it holds by now.                       *)
DeleteVerificationRequest(l) ==
    LET hit == {x \in Emails \X Identifiers : requests[x[1]][x[2]].id = l.id}
        gone == {requests[x[1]][x[2]].token : x \in hit}
    IN  /\ requests' = [e \in Emails |-> [i \in Identifiers |->
             IF <<e, i>> \in hit THEN NoRequest ELSE requests[e][i]]]
        /\ owed' = owed \ {l.token}
        /\ raced' = raced \cup (gone \ {l.token})
        /\ UNCHANGED <<link, nextToken>>

-----------------------------------------------------------------------------
At(h, label, l) ==
    /\ pc' = [pc EXCEPT ![h] = label]
    /\ local' = [local EXCEPT ![h] = l]

Start(h, label, l) ==
    /\ pc[h] = "idle"
    /\ served < MaxRequest
    /\ served' = served + 1
    /\ At(h, label, l)

Goto(h, label, l) == At(h, label, l) /\ UNCHANGED served

Finish(h) == Goto(h, "idle", Idle)

(* SignUp, and InviteMembers for one address: an address with an account   *)
(* is refused, or answered like a success, before anything is written.     *)
SignUp(h, e, p) ==
    /\ GetUserByEmail(e) = {}
    /\ nextAccount < MaxAccount
    /\ Start(h, "add", [Idle EXCEPT !.kind = "signup", !.email = e,
                         !.identifier = "signup", !.write = [password |-> p]])
    /\ UNCHANGED <<accounts, links, expired, proofs>>

InviteMembers(h, e) ==
    /\ GetUserByEmail(e) = {}
    /\ nextAccount < MaxAccount
    /\ Start(h, "add", [Idle EXCEPT !.kind = "invite", !.email = e,
                         !.identifier = "magic", !.write = [password |-> Empty]])
    /\ UNCHANGED <<accounts, links, expired, proofs>>

(* MagicLinkLogin for an unknown address, and for an account: the second   *)
(* saves the account's roles and sign-up methods.                          *)
MagicLinkSignUp(h, e) ==
    /\ GetUserByEmail(e) = {}
    /\ nextAccount < MaxAccount
    /\ Start(h, "add", [Idle EXCEPT !.kind = "magic", !.email = e,
                         !.identifier = "magic", !.write = [password |-> Empty]])
    /\ UNCHANGED <<accounts, links, expired, proofs>>

MagicLinkLogin(h, e) ==
    /\ \E u \in GetUserByEmail(e) :
         /\ ~users[u].revoked
         /\ Start(h, "save", [Idle EXCEPT !.kind = "magic", !.email = e,
                               !.identifier = "magic", !.account = u,
                               !.seen = users[u]])
    /\ UNCHANGED <<accounts, links, expired, proofs>>

(* AddUser's own check.  MagicLinkLogin ignores its error and mails a link *)
(* all the same.                                                           *)
AddUser(h) ==
    LET l == local[h]
    IN  /\ pc[h] = "add"
        /\ CASE GetUserByEmail(l.email) = {} -> Goto(h, "create", l)
             [] l.kind = "magic" -> Goto(h, "mint", l)
             [] OTHER -> Finish(h)
        /\ UNCHANGED <<accounts, links, expired, proofs>>

(* AddUser's insert: nothing in the table keeps an address unique.         *)
CreateUser(h) ==
    LET l == local[h]
        u == nextAccount + 1
        row == [email |-> l.email, password |-> l.write.password,
                verified |-> FALSE, revoked |-> FALSE]
    IN  /\ pc[h] = "create"
        /\ u \in Accounts
        /\ nextAccount' = u
        /\ users' = [users EXCEPT ![u] = row]
        /\ expect' = [expect EXCEPT ![u] = row]
        /\ Goto(h, "mint", l)
        /\ UNCHANGED <<links, expired, stale, proofs>>

(* ForgotPassword, the e-mail leg.                                         *)
ForgotPassword(h, e) ==
    /\ \E u \in GetUserByEmail(e) : ~users[u].revoked
    /\ Start(h, "mint", [Idle EXCEPT !.kind = "forgot", !.email = e,
                          !.identifier = "forgot"])
    /\ UNCHANGED <<accounts, links, expired, proofs>>

(* ResendVerifyEmail: a pending request is deleted before the new one is   *)
(* added; without one there must be something to verify.                   *)
resendNeedsFreshVerification(row, i) ==
    i \in {"signup", "update"} /\ ~row.verified

ResendVerifyEmail(h, e, i) ==
    LET r == requests[e][i]
        l == [Idle EXCEPT !.kind = "resend", !.email = e, !.identifier = i]
    IN  /\ \E u \in GetUserByEmail(e) :
             IF r # NoRequest
             THEN Start(h, "unlink", [l EXCEPT !.id = r.id, !.token = r.token])
             ELSE /\ resendNeedsFreshVerification(users[u], i)
                  /\ Start(h, "mint", l)
        /\ UNCHANGED <<accounts, links, expired, proofs>>

(* Login to an unverified account whose sign-up request has expired: the   *)
(* request is deleted.  The model lets a link expire when this is noticed; *)
(* elsewhere an expired link is one that nobody opens any more.            *)
LoginUnverified(h, e) ==
    LET r == requests[e]["signup"]
    IN  /\ \E u \in GetUserByEmail(e) : ~users[u].verified /\ ~users[u].revoked
        /\ r # NoRequest
        /\ expired' = expired \cup {r.token}
        /\ Start(h, "unlink", [Idle EXCEPT !.kind = "login", !.email = e,
                                !.id = r.id, !.token = r.token])
        /\ UNCHANGED <<accounts, links, proofs>>

Unlink(h) ==
    LET l == local[h]
    IN  /\ pc[h] = "unlink"
        /\ DeleteVerificationRequest(l)
        /\ IF l.kind = "resend" THEN Goto(h, "mint", l) ELSE Finish(h)
        /\ UNCHANGED <<accounts, expired, proofs>>

(* The delete failed: ResendVerifyEmail goes on, Login answers the error.  *)
UnlinkFails(h) ==
    LET l == local[h]
    IN  /\ pc[h] = "unlink"
        /\ IF l.kind = "resend" THEN Goto(h, "mint", l) ELSE Finish(h)
        /\ UNCHANGED <<accounts, links, expired, proofs>>

(* The end of every handler that mails a link.  An invitation is signed    *)
(* invite_member and stored under magic_link_login.  A change of address   *)
(* adds its request before it saves the account.                           *)
Mint(h) ==
    LET l == local[h]
        type == IF l.kind = "invite" THEN "invite" ELSE l.identifier
    IN  /\ pc[h] = "mint"
        /\ AddVerificationRequest(l.email, l.identifier, type)
        /\ IF l.kind = "profile" THEN Goto(h, "save", l) ELSE Finish(h)
        /\ UNCHANGED <<accounts, expired, proofs>>

MintFails(h) ==
    /\ pc[h] = "mint"
    /\ Finish(h)
    /\ UNCHANGED <<accounts, links, expired, proofs>>

-----------------------------------------------------------------------------
(* Redeeming a link.                                                       *)

(* Mutation of verificationPurposeAllowed: no purpose is asked for.        *)
AnyPurposeAllowed(i, type, allowed) == TRUE

verificationPurposeAllowed(i, type, allowed) == i \in allowed /\ type \in allowed

(* GetVerificationRequestByToken, ValidateJWTClaims and the purpose check  *)
(* at the head of both redemptions.  The nonce of a row is that of the     *)
(* token it holds.                                                         *)
GetRequest(h, t, kind, allowed) ==
    /\ t \notin expired
    /\ \E e \in Emails, i \in Identifiers :
         /\ requests[e][i].token = t
         /\ verificationPurposeAllowed(i, link[t].type, allowed)
         /\ Start(h, "lookup", [Idle EXCEPT !.kind = kind, !.email = link[t].email,
                                 !.identifier = i, !.id = requests[e][i].id,
                                 !.token = t])
    /\ UNCHANGED <<accounts, links, expired, proofs>>

(* The mutation verify_email and the handler of GET /verify_email.         *)
VerifyEmail(h, t) ==
    GetRequest(h, t, "verify", verificationPurposesVerifyEmail)

VerifyEmailHandler(h, t) ==
    GetRequest(h, t, "verify_get", verificationPurposesVerifyEmail)

ResetPassword(h, t) ==
    GetRequest(h, t, "reset", verificationPurposesResetPassword)

(* Mutation of Consume: the address is marked verified after the gate.     *)
ConsumeUnmarked(h) ==
    LET l == local[h]
    IN  /\ pc[h] = "lookup"
        /\ l.kind # "reset"
        /\ \E u \in GetUserByEmail(l.email) :
             /\ ~users[u].revoked
             /\ proved' = proved \cup {<<u, l.email>>}
             /\ Goto(h, "gate", [l EXCEPT !.account = u, !.seen = users[u]])
        /\ lapsed' = lapsed \ {h}
        /\ UNCHANGED <<accounts, links, expired, confirmed>>

(* The rest of ConsumeEmailVerificationToken up to its UpdateUser.         *)
Consume(h) ==
    LET l == local[h]
    IN  /\ pc[h] = "lookup"
        /\ l.kind # "reset"
        /\ \E u \in GetUserByEmail(l.email) :
             /\ ~users[u].revoked
             /\ proved' = proved \cup {<<u, l.email>>}
             /\ LET m == [l EXCEPT !.account = u, !.seen = users[u]]
                IN  IF users[u].verified
                    THEN Goto(h, "gate", m)
                    ELSE Goto(h, "save",
                              [m EXCEPT !.write = [verified |-> TRUE]])
        /\ lapsed' = lapsed \ {h}
        /\ UNCHANGED <<accounts, links, expired, confirmed>>

(* ResetPassword finds the account of the token's subject.  The columns it *)
(* sets prove the address as well.                                         *)
ResetLookup(h, p) ==
    LET l == local[h]
    IN  /\ pc[h] = "lookup"
        /\ l.kind = "reset"
        /\ \E u \in GetUserByEmail(l.email) :
             /\ proved' = proved \cup {<<u, l.email>>}
             /\ Goto(h, "save",
                     [l EXCEPT !.account = u, !.seen = users[u],
                               !.write = [password |-> p, verified |-> TRUE]])
        /\ UNCHANGED <<accounts, links, expired, confirmed, lapsed>>

(* No account has the address any more, or its access is revoked.          *)
LookupFails(h) ==
    LET l == local[h]
    IN  /\ pc[h] = "lookup"
        /\ \A u \in GetUserByEmail(l.email) : l.kind # "reset" /\ users[u].revoked
        /\ Finish(h)
        /\ UNCHANGED <<accounts, links, expired, proofs>>

(* Where each handler goes on after its UpdateUser.                        *)
AfterSave(kind) ==
    CASE kind = "magic" -> "mint"
      [] kind \in {"verify", "verify_get"} -> "gate"
      [] kind = "reset" -> "spend"
      [] OTHER -> "idle"

Sets(w, value) == "verified" \in DOMAIN w /\ w.verified = value

Save(h) ==
    LET l == local[h]
        row == Overlay(l.seen, l.write)
        next == AfterSave(l.kind)
    IN  /\ pc[h] = "save"
        /\ UpdateUser(l)
        /\ proved' = IF l.kind = "admin" /\ Sets(l.write, TRUE)
                     THEN proved \cup {<<l.account, row.email>>} ELSE proved
        /\ confirmed' = IF Sets(l.write, FALSE)
                        THEN {x \in confirmed : x[1] # l.account}
                        ELSE confirmed
        /\ lapsed' = IF Sets(l.write, FALSE)
                     THEN lapsed \cup {k \in Handlers \ {h} :
                                         local[k].account = l.account}
                     ELSE lapsed
        /\ IF next = "idle" THEN Finish(h) ELSE Goto(h, next, l)
        /\ UNCHANGED <<links, expired>>

SaveFails(h) ==
    /\ pc[h] = "save"
    /\ Finish(h)
    /\ UNCHANGED <<accounts, links, expired, proofs>>

(* ConsumeEmailVerificationToken has returned: the link was accepted.      *)
Accept(h) ==
    /\ confirmed' = IF h \in lapsed THEN confirmed
                    ELSE confirmed \cup {<<local[h].account, local[h].seen.email>>}
    /\ lapsed' = lapsed \ {h}
    /\ UNCHANGED proved

(* The multi-factor gate withholds the session, or the account's           *)
(* multi-factor authentication is locked.  The request stays.              *)
Withhold(h) ==
    /\ pc[h] = "gate"
    /\ Accept(h)
    /\ Finish(h)
    /\ UNCHANGED <<accounts, links, expired>>

PassGate(h) ==
    /\ pc[h] = "gate"
    /\ Accept(h)
    /\ Goto(h, "spend", local[h])
    /\ UNCHANGED <<accounts, links, expired>>

(* The request is deleted, and a verification goes on to issue a session.  *)
Spend(h) ==
    LET l == local[h]
    IN  /\ pc[h] = "spend"
        /\ DeleteVerificationRequest(l)
        /\ Finish(h)
        /\ UNCHANGED <<accounts, expired, proofs>>

(* GET /verify_email asked for roles the account does not have: refused    *)
(* after the request was deleted.                                          *)
SpendThenRefuse(h) ==
    /\ pc[h] = "spend"
    /\ local[h].kind = "verify_get"
    /\ DeleteVerificationRequest(local[h])
    /\ Finish(h)
    /\ UNCHANGED <<accounts, expired, proofs>>

(* The delete failed: the mutations answer the error, GET /verify_email    *)
(* goes on.                                                                *)
SpendFails(h) ==
    LET l == local[h]
    IN  /\ pc[h] = "spend"
        /\ Finish(h)
        /\ UNCHANGED <<accounts, links, expired, proofs>>

-----------------------------------------------------------------------------
(* Changes to an account.                                                  *)

(* Mutation of EmailColumns: the address is replaced and stays verified.   *)
EmailColumnsVerified(e) == [email |-> e]

EmailColumns(e) == [email |-> e, verified |-> FALSE]

(* What is set by the operations that read an account, set columns and     *)
(* save it: UpdateProfile's password and its columns outside the model,    *)
(* the administrator's e-mail verified flag, and the revocation of         *)
(* RevokeAccess, DeactivateAccount and EnableAccess.                       *)
ProfileEdits ==
    {[kind |-> "user", write |-> <<>>]}
        \cup {[kind |-> "user", write |-> [password |-> p]] : p \in Passwords}
        \cup {[kind |-> "admin", write |-> [verified |-> b]] : b \in BOOLEAN}

AccessEdits ==
    {[kind |-> "admin", write |-> [revoked |-> b]] : b \in BOOLEAN}

(* UpdateProfile, and UpdateUser with an e-mail address: the new address   *)
(* must be free, and its request is added before the account is saved,     *)
(* together with what else the call sets.                                  *)
ChangeEmail(h, u, e, w) ==
    /\ users[u] # Empty
    /\ users[u].email # e
    /\ GetUserByEmail(e) = {}
    /\ Start(h, "mint", [Idle EXCEPT !.kind = "profile", !.email = e,
                          !.identifier = "update", !.account = u,
                          !.seen = users[u],
                          !.write = Overlay(w, EmailColumns(e))])
    /\ UNCHANGED <<accounts, links, expired, proofs>>

EditUser(h, u, d) ==
    /\ users[u] # Empty
    /\ Start(h, "save", [Idle EXCEPT !.kind = d.kind, !.account = u,
                          !.seen = users[u], !.write = d.write])
    /\ UNCHANGED <<accounts, links, expired, proofs>>

(* DeleteUser: the account goes first; its pending requests are deleted    *)
(* afterwards, by address, in a goroutine.                                 *)
DeleteUser(h, u) ==
    /\ users[u] # Empty
    /\ Start(h, "erase", [Idle EXCEPT !.kind = "delete", !.account = u,
                           !.email = users[u].email])
    /\ UNCHANGED <<accounts, links, expired, proofs>>

Erase(h) ==
    LET l == local[h]
    IN  /\ pc[h] = "erase"
        /\ users' = [users EXCEPT ![l.account] = Empty]
        /\ expect' = [expect EXCEPT ![l.account] = Empty]
        /\ Goto(h, "cleanup", l)
        /\ UNCHANGED <<links, expired, nextAccount, stale, proofs>>

Cleanup(h) ==
    LET e == local[h].email
        gone == {requests[e][i].token : i \in Identifiers} \ {0}
    IN  /\ pc[h] = "cleanup"
        /\ requests' = [requests EXCEPT ![e] = [i \in Identifiers |-> NoRequest]]
        /\ IF GetUserByEmail(e) = {}
           THEN owed' = owed \ gone /\ raced' = raced
           ELSE owed' = owed /\ raced' = raced \cup gone
        /\ Finish(h)
        /\ UNCHANGED <<accounts, link, nextToken, expired, proofs>>

-----------------------------------------------------------------------------
Arrive(h) ==
    \/ \E e \in Emails :
          \/ \E p \in Passwords : SignUp(h, e, p)
          \/ InviteMembers(h, e)
          \/ MagicLinkSignUp(h, e)
          \/ MagicLinkLogin(h, e)
          \/ ForgotPassword(h, e)
          \/ LoginUnverified(h, e)
          \/ \E i \in {"signup", "forgot", "update"} : ResendVerifyEmail(h, e, i)
          \/ \E u \in Accounts, d \in ProfileEdits : ChangeEmail(h, u, e, d.write)
    \/ \E t \in Tokens :
          VerifyEmail(h, t) \/ VerifyEmailHandler(h, t) \/ ResetPassword(h, t)
    \/ \E u \in Accounts :
          DeleteUser(h, u) \/ \E d \in ProfileEdits \cup AccessEdits : EditUser(h, u, d)

Step(h) ==
    \/ AddUser(h) \/ CreateUser(h) \/ Unlink(h) \/ UnlinkFails(h)
    \/ Mint(h) \/ MintFails(h) \/ Consume(h) \/ LookupFails(h)
    \/ \E p \in Passwords : ResetLookup(h, p)
    \/ Save(h) \/ SaveFails(h) \/ Withhold(h) \/ PassGate(h)
    \/ Spend(h) \/ SpendThenRefuse(h) \/ SpendFails(h)
    \/ Erase(h) \/ Cleanup(h)

Next == \E h \in Handlers : Arrive(h) \/ Step(h)

Spec == Init /\ [][Next]_vars

-----------------------------------------------------------------------------
(* Properties.                                                             *)

(* A link mailed for one purpose serves no other: whoever is about to set  *)
(* a password holds a forgotten-password link, whoever is about to sign in *)
(* holds a link of the verification family, and either acts on an account  *)
(* that had the address the link was mailed to when it was read.           *)
PurposeIsBound ==
    \A h \in Handlers :
      LET l == local[h]
          claims == link[l.token]
      IN  pc[h] \in {"save", "gate", "spend"} /\ l.token # 0 =>
            /\ l.seen.email = claims.email
            /\ (l.kind = "reset") <=> (claims.type = "forgot")

(* An account's address is verified only if a link mailed to that address  *)
(* was accepted for this account, or an administrator set the flag on it.  *)
(* Address and flag are columns of one row, so not even a handler that     *)
(* writes back an old row breaks this.                                     *)
VerifiedMeansProved ==
    \A u \in Accounts :
      users[u] # Empty /\ users[u].verified => <<u, users[u].email>> \in proved

(* Once a link was accepted the address stays verified, also when the      *)
(* multi-factor gate then withholds the session, until the address is      *)
(* changed or an administrator clears the flag.  Only a handler that       *)
(* writes back a row it read before can undo it.                           *)
ProofIsKept ==
    \A x \in confirmed :
      LET row == users[x[1]]
      IN  row # Empty /\ row.email = x[2] => row.verified \/ x[1] \in stale

(* The links that open are exactly those that were mailed and not used,    *)
(* replaced or withdrawn, a session being withheld included; a link is     *)
(* lost early only to a handler that read its row when it held another     *)
(* token, or to the clean-up after a deleted account with its address.     *)
LinkOpensUntilUsed == OpenTokens = owed \ raced

(* Handlers save whole rows, yet an account has in each column what the    *)
(* last operation on that column wrote, unless a handler saved a row that  *)
(* had changed since it was read.                                          *)
ColumnsAreKept ==
    \A u \in Accounts : users[u] # expect[u] => u \in stale
=============================================================================
