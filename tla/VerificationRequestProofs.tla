---------------------- MODULE VerificationRequestProofs ----------------------
(***************************************************************************)
(* Proofs about VerificationRequest, for every set of addresses, passwords *)
(* and handlers and every bound: the types, that a link serves its purpose *)
(* only, that columns keep their last value, that an address is verified   *)
(* only when proved and stays so, and that a link opens until it is used.  *)
(***************************************************************************)
EXTENDS VerificationRequest, TLAPS

-----------------------------------------------------------------------------
(* Types                                                                   *)

Columns == {"email", "password", "verified", "revoked"}

Value(c, v) ==
    /\ c = "email" => v \in Emails
    /\ c = "password" => v \in Passwords \cup {Empty}
    /\ c \in {"verified", "revoked"} => v \in BOOLEAN

(* What a handler may set: a new address is never set as verified.         *)
IsWrite(w) ==
    /\ DOMAIN w \subseteq Columns
    /\ \A c \in DOMAIN w : Value(c, w[c])
    /\ "email" \in DOMAIN w => Sets(w, FALSE)

Fields == DOMAIN Idle

IsLocal(l) == DOMAIN l = Fields

Redeems == {"verify", "verify_get", "reset"}

(* The handlers that hold a request they found, to delete it.              *)
Unlinks == {"resend", "login"}

(* What a handler of each kind holds, besides the row it read.             *)
KindOK(label, l, claims) ==
    /\ l.kind \in Redeems =>
         /\ label \in {"lookup", "save", "gate", "spend"}
         /\ label # "lookup" => l.seen # Empty /\ l.seen.email = l.email
         /\ claims[l.token].email = l.email
         /\ (l.kind = "reset") <=> (claims[l.token].type = "forgot")
    /\ l.kind \in Unlinks => label \in {"unlink", "mint"}
    /\ l.kind \in Redeems \/ label = "unlink" => l.id # 0 /\ l.token # 0
    /\ l.kind \notin Redeems \cup Unlinks =>
         /\ label \notin {"unlink", "lookup", "gate", "spend"}
         /\ l.token = 0

(* What a handler's next step uses.                                        *)
LabelOK(label, l) ==
    /\ label \in {"add", "create", "mint"} \/ l.kind \in {"magic", "resend"} =>
         l.email \in Emails /\ l.identifier \in Identifiers
    /\ label \in {"add", "create"} => "password" \in DOMAIN l.write /\ l.kind # "profile"
    /\ label = "mint" /\ l.kind = "profile" => l.seen # Empty
    /\ label = "save" => l.seen # Empty
    /\ label \in {"erase", "cleanup"} => l.email \in Emails /\ l.account # 0

(* The locals l of a handler at a label, when accounts up to a and tokens  *)
(* up to t with these claims exist.                                        *)
Fits(label, l, a, t, claims) ==
    /\ IsLocal(l)
    /\ l.account \in 0..a
    /\ l.id \in 0..t /\ l.token \in 0..t
    /\ IsWrite(l.write)
    /\ l.seen # Empty => l.seen \in Row /\ l.account # 0
    /\ KindOK(label, l, claims)
    /\ LabelOK(label, l)

LocalOK(label, l) == Fits(label, l, nextAccount, nextToken, link)

UsersOK ==
    /\ nextAccount \in 0..MaxAccount
    /\ users \in [Accounts -> Row \cup {Empty}]
    /\ expect \in [Accounts -> Row \cup {Empty}]
    /\ \A u \in Accounts : users[u] # Empty => u <= nextAccount

(* The tokens of the table are minted ones, and no two rows share one.     *)
RequestsOK ==
    /\ nextToken \in 0..MaxToken
    /\ link = [t \in Tokens |-> link[t]]
    /\ requests \in [Emails -> [Identifiers -> [id : 0..nextToken,
                                                token : 0..nextToken]]]
    /\ \A e \in Emails, i \in Identifiers :
         requests[e][i].id = 0 <=> requests[e][i].token = 0
    /\ \A e, f \in Emails, i, j \in Identifiers :
         requests[e][i].token # 0 /\ requests[e][i].token = requests[f][j].token
           => e = f /\ i = j

LocalsOK ==
    /\ pc \in [Handlers -> Labels]
    /\ local = [h \in Handlers |-> local[h]]
    /\ \A h \in Handlers : LocalOK(pc[h], local[h])

LinksOK ==
    /\ owed \subseteq 1..nextToken /\ raced \subseteq 1..nextToken
    /\ expired \subseteq 1..nextToken

Typed == UsersOK /\ RequestsOK /\ LocalsOK /\ LinksOK

-----------------------------------------------------------------------------
(* The other inductive invariants                                          *)

(* What a handler holds may be written, p being what is proved: the row it *)
(* read is verified, or it sets the flag, for a proved address only.       *)
Backed(l, p) ==
    /\ l.seen # Empty /\ l.seen.verified => <<l.account, l.seen.email>> \in p
    /\ Sets(l.write, TRUE) /\ l.kind # "admin" => <<l.account, l.seen.email>> \in p

ProvedInv == VerifiedMeansProved /\ \A h \in Handlers : Backed(local[h], proved)

(* Account a, if it has address e, is verified or written stale.           *)
Kept(a, e) ==
    users[a] # Empty /\ users[a].email = e => users[a].verified \/ a \in stale

(* Accepted links, and links about to be accepted, are kept; what makes a  *)
(* link accepted is a save that sets the flag.                             *)
KeptInv ==
    /\ \A x \in confirmed : x[1] \in 1..nextAccount /\ Kept(x[1], x[2])
    /\ \A h \in Handlers :
         pc[h] = "gate" /\ h \notin lapsed =>
            Kept(local[h].account, local[h].seen.email)
    /\ \A h \in Handlers :
         pc[h] = "save" /\ local[h].kind \in Redeems => Sets(local[h].write, TRUE)

(* If the request a handler read still holds the token, it is under the id *)
(* the handler read.                                                       *)
FoundAt(l) ==
    l.token # 0 => \A e \in Emails, i \in Identifiers :
                      requests[e][i].token = l.token => requests[e][i].id = l.id

LinksInv == LinkOpensUntilUsed /\ \A h \in Handlers : FoundAt(local[h])

-----------------------------------------------------------------------------
(* What a save writes: a row, with the columns of w where w sets them.     *)
LEMMA OverlayRow ==
    ASSUME NEW row \in Row, NEW w, IsWrite(w)
    PROVE  /\ Overlay(row, w) \in Row
           /\ "email" \notin DOMAIN w => Overlay(row, w).email = row.email
           /\ "verified" \notin DOMAIN w => Overlay(row, w).verified = row.verified
           /\ \A b : Sets(w, b) => Overlay(row, w).verified = b
<1> DEFINE f == Overlay(row, w)
<1>1. DOMAIN row = Columns /\ \A c \in Columns : Value(c, row[c])
  BY SMT DEF Columns, Value, Row
<1>2. DOMAIN w \subseteq Columns /\ \A c \in DOMAIN w : Value(c, w[c])
  BY Zenon DEF IsWrite
<1>3. f = [c \in Columns |-> IF c \in DOMAIN w THEN w[c] ELSE row[c]]
  <2>1. (DOMAIN row) \cup (DOMAIN w) = Columns
    BY <1>1, <1>2, Zenon
  <2> QED
    BY <2>1, Zenon DEF Overlay
<1>4. f = [c \in Columns |-> f[c]]
  BY <1>3, Zenon
<1>5. \A c \in Columns : f[c] = IF c \in DOMAIN w THEN w[c] ELSE row[c]
  BY <1>3, Zenon
<1> HIDE DEF f
<1>6. \A c \in Columns : Value(c, f[c])
  BY <1>1, <1>2, <1>5, Zenon
<1>7. f \in Row
  BY <1>4, <1>6, SMT DEF Columns, Value, Row
<1>8. /\ "email" \notin DOMAIN w => f.email = row.email
      /\ "verified" \notin DOMAIN w => f.verified = row.verified
      /\ \A b : Sets(w, b) => f.verified = b
  BY <1>5, SMT DEF Columns, Sets
<1> QED
  BY <1>7, <1>8, Zenon DEF f

(* What a request that has just arrived holds: a row and a request as they *)
(* are now.                                                                *)
Drawn(label, l) ==
    /\ label \in {"add", "save", "mint", "unlink", "lookup", "erase"}
    /\ LocalOK(label, l)
    /\ l.seen # Empty => l.seen = users[l.account]
    /\ Sets(l.write, TRUE) => l.kind = "admin"
    /\ l.token # 0 => \E e \in Emails, i \in Identifiers :
                         requests[e][i].token = l.token /\ requests[e][i].id = l.id
    /\ label = "save" => l.kind \notin Redeems

(* An account that exists has a number already given out.                  *)
LEMMA KnownAccount ==
    ASSUME Typed, NEW u \in Accounts, users[u] # Empty
    PROVE  u \in 1..nextAccount /\ users[u] \in Row /\ users[u].email \in Emails
<1>1. users[u] \in Row /\ u <= nextAccount /\ nextAccount \in 0..MaxAccount
  BY Zenon DEF Typed, UsersOK
<1> QED
  BY <1>1, SMT DEF Row, Accounts

(* A request that exists has its id and token given out.                   *)
LEMMA KnownRequest ==
    ASSUME Typed, NEW e \in Emails, NEW i \in Identifiers, requests[e][i] # NoRequest
    PROVE  requests[e][i].id \in 1..nextToken /\ requests[e][i].token \in 1..nextToken
<1>1. /\ requests[e][i] \in [id : 0..nextToken, token : 0..nextToken]
      /\ requests[e][i].id = 0 <=> requests[e][i].token = 0
      /\ nextToken \in 0..MaxToken
  BY Zenon DEF Typed, RequestsOK
<1> QED
  BY <1>1, SMT DEF NoRequest, LinkAssumption

(* The writes of the handlers: none at all,                                *)
LEMMA NoWrite ==
    IsWrite(<<>>) /\ ~Sets(<<>>, TRUE)
BY SMT DEF IsWrite, Sets

(* a new password,                                                         *)
LEMMA PasswordWrite ==
    ASSUME NEW p \in Passwords \cup {Empty}
    PROVE  /\ IsWrite([password |-> p]) /\ ~Sets([password |-> p], TRUE)
           /\ "password" \in DOMAIN [password |-> p]
BY SMT DEF IsWrite, Sets, Columns, Value

(* an edit of the profile or of the access.                                *)
LEMMA EditWrite ==
    ASSUME NEW d \in ProfileEdits \cup AccessEdits
    PROVE  /\ IsWrite(d.write) /\ d.kind \in {"user", "admin"}
           /\ Sets(d.write, TRUE) => d.kind = "admin"
           /\ "email" \notin DOMAIN d.write
<1>1. CASE d = [kind |-> "user", write |-> <<>>]
  BY <1>1, SMT DEF IsWrite, Sets
<1>2. CASE \E p \in Passwords : d = [kind |-> "user", write |-> [password |-> p]]
  BY <1>2, SMT DEF IsWrite, Sets, Columns, Value
<1>3. CASE \E b \in BOOLEAN : d = [kind |-> "admin", write |-> [verified |-> b]]
  BY <1>3, SMT DEF IsWrite, Sets, Columns, Value
<1>4. CASE \E b \in BOOLEAN : d = [kind |-> "admin", write |-> [revoked |-> b]]
  BY <1>4, SMT DEF IsWrite, Sets, Columns, Value
<1> QED
  BY <1>1, <1>2, <1>3, <1>4, Zenon DEF ProfileEdits, AccessEdits

(* What a change of address sets, whatever else the call sets.             *)
LEMMA EmailWrite ==
    ASSUME NEW e \in Emails, NEW w, IsWrite(w)
    PROVE  /\ IsWrite(Overlay(w, EmailColumns(e)))
           /\ ~Sets(Overlay(w, EmailColumns(e)), TRUE)
<1> DEFINE m == EmailColumns(e)
           f == Overlay(w, m)
<1>1. DOMAIN m = {"email", "verified"} /\ m["email"] = e /\ m["verified"] = FALSE
  BY SMT DEF EmailColumns
<1>2. DOMAIN w \subseteq Columns /\ \A c \in DOMAIN w : Value(c, w[c])
  BY Zenon DEF IsWrite
<1>3. /\ DOMAIN f = (DOMAIN w) \cup (DOMAIN m)
      /\ \A c \in DOMAIN f : f[c] = IF c \in DOMAIN m THEN m[c] ELSE w[c]
  BY Zenon DEF Overlay
<1> HIDE DEF m, f
<1>4. DOMAIN f \subseteq Columns
  BY <1>1, <1>2, <1>3, Zenon DEF Columns
<1>5. f["email"] = e /\ f["verified"] = FALSE /\ {"email", "verified"} \subseteq DOMAIN f
  BY <1>1, <1>3, Zenon
<1>6. \A c \in DOMAIN f : Value(c, f[c])
  <2>1. Value("email", e) /\ Value("verified", FALSE)
    BY SMT DEF Value
  <2> QED
    BY <1>1, <1>2, <1>3, <1>5, <2>1, Zenon
<1>7. IsWrite(f)
  BY <1>4, <1>5, <1>6, SMT DEF IsWrite, Sets
<1>8. ~Sets(f, TRUE)
  BY <1>5, SMT DEF Sets
<1> QED
  BY <1>7, <1>8, Zenon DEF f, m

-----------------------------------------------------------------------------
(* A request that arrives.  A row has been read by it or has not; a stored *)
(* request has been found by it or has not.                                *)
Unread(l) == IsLocal(l) /\ l.account = 0 /\ l.seen = Empty

Unfound(l) == l.id = 0 /\ l.token = 0

(* A handler that starts with neither a row nor a request in hand.         *)
LEMMA NewHandler ==
    ASSUME Typed, NEW label \in {"add", "mint"}, NEW l, Unread(l), Unfound(l),
           l.kind \in {"signup", "invite", "magic", "forgot", "resend"},
           l.kind = "resend" => label = "mint",
           l.email \in Emails, l.identifier \in Identifiers,
           IsWrite(l.write), ~Sets(l.write, TRUE),
           label = "add" => "password" \in DOMAIN l.write
    PROVE  Drawn(label, l)
<1>1. nextAccount \in Nat /\ nextToken \in Nat
  BY SMT DEF Typed, UsersOK, RequestsOK
<1>2. KindOK(label, l, link) /\ LabelOK(label, l)
  BY SMT DEF KindOK, LabelOK, Redeems, Unlinks, Unread, Unfound
<1>3. LocalOK(label, l)
  BY <1>1, <1>2, SMT DEF LocalOK, Fits, Unread, Unfound
<1> QED
  BY <1>3, Zenon DEF Drawn, Unread, Unfound

(* One that starts with a stored request,                                  *)
LEMMA NewFinder ==
    ASSUME Typed, NEW l, Unread(l), l.kind \in Unlinks, l.write = <<>>,
           NEW e \in Emails, NEW i \in Identifiers, requests[e][i] # NoRequest,
           l.id = requests[e][i].id, l.token = requests[e][i].token,
           l.kind = "resend" => l.email \in Emails /\ l.identifier \in Identifiers
    PROVE  Drawn("unlink", l)
<1>1. nextAccount \in Nat /\ nextToken \in Nat
  BY SMT DEF Typed, UsersOK, RequestsOK
<1>2. l.id \in 1..nextToken /\ l.token \in 1..nextToken
  BY KnownRequest, Zenon
<1>3. KindOK("unlink", l, link) /\ LabelOK("unlink", l)
  BY <1>1, <1>2, SMT DEF KindOK, LabelOK, Redeems, Unlinks
<1>4. LocalOK("unlink", l)
  BY <1>1, <1>2, <1>3, NoWrite, SMT DEF LocalOK, Fits, Unread
<1> QED
  BY <1>4, NoWrite, Zenon DEF Drawn, Unread

(* one that starts with an account's row,                                  *)
LEMMA NewReader ==
    ASSUME Typed, NEW label \in {"save", "mint"}, NEW l, IsLocal(l), Unfound(l),
           l.kind \in {"magic", "user", "admin", "profile"},
           label = "mint" \/ l.kind = "magic"
             => l.email \in Emails /\ l.identifier \in Identifiers,
           l.account \in Accounts, l.seen = users[l.account], l.seen # Empty,
           IsWrite(l.write), Sets(l.write, TRUE) => l.kind = "admin"
    PROVE  Drawn(label, l)
<1>1. nextToken \in Nat /\ nextAccount \in Nat
  BY SMT DEF Typed, UsersOK, RequestsOK
<1>2. l.account \in 1..nextAccount /\ l.seen \in Row
  BY KnownAccount, Zenon
<1>3. KindOK(label, l, link) /\ LabelOK(label, l)
  BY SMT DEF KindOK, LabelOK, Redeems, Unlinks, Unfound
<1>4. LocalOK(label, l)
  BY <1>1, <1>2, <1>3, SMT DEF LocalOK, Fits, Unfound
<1>5. l.kind \notin Redeems
  BY Zenon DEF Redeems
<1> QED
  BY <1>4, <1>5, Zenon DEF Drawn, Unfound

(* one that starts to delete an account,                                   *)
LEMMA NewDelete ==
    ASSUME Typed, NEW l, IsLocal(l), Unfound(l), l.kind = "delete",
           l.account \in Accounts, users[l.account] # Empty,
           l.email = users[l.account].email, l.seen = Empty, l.write = <<>>
    PROVE  Drawn("erase", l)
<1>1. nextToken \in Nat /\ nextAccount \in Nat
  BY SMT DEF Typed, UsersOK, RequestsOK
<1>2. l.account \in 1..nextAccount /\ l.email \in Emails
  BY KnownAccount, Zenon
<1>3. KindOK("erase", l, link) /\ LabelOK("erase", l)
  BY <1>1, <1>2, SMT DEF KindOK, LabelOK, Redeems, Unlinks, Unfound
<1>4. LocalOK("erase", l)
  BY <1>1, <1>2, <1>3, NoWrite, SMT DEF LocalOK, Fits, Unfound
<1> QED
  BY <1>4, NoWrite, Zenon DEF Drawn, Unfound

(* and one that starts with a link whose purpose it allows.                *)
LEMMA NewRedeemer ==
    ASSUME Typed, NEW l, Unread(l), l.write = <<>>,
           NEW e \in Emails, NEW i \in Identifiers, l.token \in Tokens,
           l.token = requests[e][i].token, l.id = requests[e][i].id,
           l.email = link[l.token].email,
           \/ l.kind \in {"verify", "verify_get"}
              /\ link[l.token].type \in verificationPurposesVerifyEmail
           \/ l.kind = "reset" /\ link[l.token].type \in verificationPurposesResetPassword
    PROVE  Drawn("lookup", l)
<1>1. nextAccount \in Nat /\ nextToken \in Nat
  BY SMT DEF Typed, UsersOK, RequestsOK
<1>2. l.token # 0
  BY SMT DEF Tokens, LinkAssumption
<1>3. l.id \in 1..nextToken /\ l.token \in 1..nextToken
  BY <1>2, KnownRequest, SMT DEF NoRequest
<1>4. l.kind \in Redeems /\ ((l.kind = "reset") <=> (link[l.token].type = "forgot"))
  BY SMT DEF Redeems, verificationPurposesVerifyEmail, verificationPurposesResetPassword
<1>5. KindOK("lookup", l, link) /\ LabelOK("lookup", l)
  BY <1>1, <1>2, <1>3, <1>4, SMT DEF KindOK, LabelOK, Redeems, Unlinks
<1>6. LocalOK("lookup", l)
  BY <1>1, <1>3, <1>5, NoWrite, SMT DEF LocalOK, Fits, Unread
<1> QED
  BY <1>6, NoWrite, Zenon DEF Drawn, Unread

Arrived(h) ==
    /\ \E label, l : At(h, label, l) /\ Drawn(label, l)
    /\ expired' \subseteq 1..nextToken
    /\ UNCHANGED <<accounts, links, proofs>>

(* Every arrival starts in one of these ways: a link is redeemed,          *)
LEMMA Redeeming ==
    ASSUME Typed, NEW h \in Handlers, NEW t \in Tokens,
           VerifyEmail(h, t) \/ VerifyEmailHandler(h, t) \/ ResetPassword(h, t)
    PROVE  Arrived(h)
<1>1. PICK kind, allowed :
        /\ GetRequest(h, t, kind, allowed)
        /\ \/ kind \in {"verify", "verify_get"} /\ allowed = verificationPurposesVerifyEmail
           \/ kind = "reset" /\ allowed = verificationPurposesResetPassword
  BY Zenon DEF VerifyEmail, VerifyEmailHandler, ResetPassword
<1>2. PICK e \in Emails, i \in Identifiers :
        /\ requests[e][i].token = t
        /\ verificationPurposeAllowed(i, link[t].type, allowed)
        /\ Start(h, "lookup", [Idle EXCEPT !.kind = kind, !.email = link[t].email,
                                !.identifier = i, !.id = requests[e][i].id,
                                !.token = t])
  BY <1>1, Zenon DEF GetRequest
<1> DEFINE l == [Idle EXCEPT !.kind = kind, !.email = link[t].email,
                             !.identifier = i, !.id = requests[e][i].id, !.token = t]
<1>3. /\ Unread(l) /\ l.write = <<>> /\ l.kind = kind /\ l.token = t
      /\ l.id = requests[e][i].id /\ l.email = link[t].email
  BY SMT DEF Idle, IsLocal, Fields, Unread
<1>4. link[t].type \in allowed
  BY <1>2, Zenon DEF verificationPurposeAllowed
<1>5. At(h, "lookup", l)
  BY <1>2, Zenon DEF Start
<1> HIDE DEF l
<1>6. Drawn("lookup", l)
  BY <1>1, <1>2, <1>3, <1>4, NewRedeemer, Zenon
<1>7. expired' = expired /\ UNCHANGED <<accounts, links, proofs>>
  BY <1>1, Zenon DEF GetRequest
<1> QED
  BY <1>5, <1>6, <1>7, Zenon DEF Arrived, Typed, LinksOK

(* someone signs up, is invited or asks for a magic link,                  *)
LEMMA SigningUp ==
    ASSUME Typed, NEW h \in Handlers, NEW e \in Emails,
           \/ \E p \in Passwords : SignUp(h, e, p)
           \/ InviteMembers(h, e)
           \/ MagicLinkSignUp(h, e)
    PROVE  Arrived(h)
<1>1. PICK kind \in {"signup", "invite", "magic"}, i \in {"signup", "magic"},
           p \in Passwords \cup {Empty} :
        /\ Start(h, "add", [Idle EXCEPT !.kind = kind, !.email = e, !.identifier = i,
                                        !.write = [password |-> p]])
        /\ UNCHANGED <<accounts, links, expired, proofs>>
  BY Zenon DEF SignUp, InviteMembers, MagicLinkSignUp
<1> DEFINE l == [Idle EXCEPT !.kind = kind, !.email = e, !.identifier = i,
                             !.write = [password |-> p]]
<1>2. /\ Unread(l) /\ Unfound(l) /\ l.kind = kind /\ l.email = e /\ l.identifier = i
      /\ l.write = [password |-> p]
  BY SMT DEF Idle, IsLocal, Fields, Unread, Unfound
<1>3. At(h, "add", l) /\ expired' = expired
  BY <1>1, Zenon DEF Start
<1> HIDE DEF l
<1>4. IsWrite(l.write) /\ ~Sets(l.write, TRUE) /\ "password" \in DOMAIN l.write
  BY <1>2, PasswordWrite, Zenon
<1>5. l.kind \in {"signup", "invite", "magic", "forgot", "resend"} /\ l.kind # "resend"
  BY <1>2, SMT
<1>6. l.identifier \in Identifiers
  BY <1>2, Zenon DEF Identifiers
<1>7. Drawn("add", l)
  BY <1>2, <1>4, <1>5, <1>6, NewHandler, Zenon
<1> QED
  BY <1>1, <1>3, <1>7, Zenon DEF Arrived, Typed, LinksOK

(* someone asks for a reset or for another mail,                           *)
LEMMA AskingAgain ==
    ASSUME Typed, NEW h \in Handlers, NEW e \in Emails,
           \/ ForgotPassword(h, e) \/ LoginUnverified(h, e)
           \/ \E i \in {"signup", "forgot", "update"} : ResendVerifyEmail(h, e, i)
    PROVE  Arrived(h)
<1>1. CASE ForgotPassword(h, e)
  <2> DEFINE l == [Idle EXCEPT !.kind = "forgot", !.email = e, !.identifier = "forgot"]
  <2>1. /\ Unread(l) /\ Unfound(l) /\ l.kind = "forgot" /\ l.email = e
        /\ l.identifier = "forgot" /\ l.write = <<>>
    BY SMT DEF Idle, IsLocal, Fields, Unread, Unfound
  <2>2. At(h, "mint", l) /\ UNCHANGED <<accounts, links, expired, proofs>>
    BY <1>1, Zenon DEF ForgotPassword, Start
  <2> HIDE DEF l
  <2>3. l.kind \in {"signup", "invite", "magic", "forgot", "resend"}
    BY <2>1, SMT
  <2>4. l.identifier \in Identifiers /\ IsWrite(l.write) /\ ~Sets(l.write, TRUE)
    BY <2>1, NoWrite, Zenon DEF Identifiers
  <2>5. Drawn("mint", l)
    BY <2>1, <2>3, <2>4, NewHandler, Zenon
  <2> QED
    BY <2>2, <2>5, Zenon DEF Arrived, Typed, LinksOK
<1>2. CASE LoginUnverified(h, e)
  <2> DEFINE l == [Idle EXCEPT !.kind = "login", !.email = e,
                     !.id = requests[e]["signup"].id, !.token = requests[e]["signup"].token]
  <2>1. /\ Unread(l) /\ l.kind = "login" /\ l.write = <<>>
        /\ l.id = requests[e]["signup"].id /\ l.token = requests[e]["signup"].token
    BY SMT DEF Idle, IsLocal, Fields, Unread
  <2>2. /\ At(h, "unlink", l) /\ requests[e]["signup"] # NoRequest
        /\ expired' = expired \cup {requests[e]["signup"].token}
        /\ UNCHANGED <<accounts, links, proofs>>
    BY <1>2, Zenon DEF LoginUnverified, Start
  <2> HIDE DEF l
  <2>3. "signup" \in Identifiers /\ l.kind \in Unlinks
    BY <2>1, Zenon DEF Identifiers, Unlinks
  <2>4. Drawn("unlink", l)
    <3>1. l.kind # "resend"
      BY <2>1, SMT
    <3> QED
      BY <2>1, <2>2, <2>3, <3>1, NewFinder, Zenon
  <2>5. expired' \subseteq 1..nextToken
    BY <2>2, <2>3, KnownRequest, Zenon DEF Typed, LinksOK
  <2> QED
    BY <2>2, <2>4, <2>5, Zenon DEF Arrived
<1>3. CASE \E i \in {"signup", "forgot", "update"} : ResendVerifyEmail(h, e, i)
  <2>1. PICK i \in {"signup", "forgot", "update"} : ResendVerifyEmail(h, e, i)
    BY <1>3, Zenon
  <2> DEFINE l == [Idle EXCEPT !.kind = "resend", !.email = e, !.identifier = i]
             r == requests[e][i]
             m == [l EXCEPT !.id = r.id, !.token = r.token]
  <2>2. /\ Unread(l) /\ Unfound(l) /\ l.kind = "resend" /\ l.email = e /\ l.identifier = i
        /\ l.write = <<>>
    BY SMT DEF Idle, IsLocal, Fields, Unread, Unfound
  <2>3. /\ Unread(m) /\ m.kind = "resend" /\ m.write = <<>> /\ m.email = e
        /\ m.identifier = i /\ m.id = r.id /\ m.token = r.token
    BY SMT DEF Idle, IsLocal, Fields, Unread
  <2>4. /\ \/ r # NoRequest /\ At(h, "unlink", m)
           \/ At(h, "mint", l)
        /\ UNCHANGED <<accounts, links, expired, proofs>>
    BY <2>1, Zenon DEF ResendVerifyEmail, Start
  <2> HIDE DEF m
  <2>5. i \in Identifiers
    BY Zenon DEF Identifiers
  <2>6. ASSUME r # NoRequest PROVE Drawn("unlink", m)
    BY <2>3, <2>5, <2>6, NewFinder, Zenon DEF Unlinks
  <2> HIDE DEF l, r
  <2>7. Drawn("mint", l)
    <3>1. l.kind \in {"signup", "invite", "magic", "forgot", "resend"}
      BY <2>2, SMT
    <3>2. l.identifier \in Identifiers /\ IsWrite(l.write) /\ ~Sets(l.write, TRUE)
      BY <2>2, <2>5, NoWrite, Zenon
    <3> QED
      BY <2>2, <3>1, <3>2, NewHandler, Zenon
  <2> QED
    BY <2>4, <2>6, <2>7, Zenon DEF Arrived, Typed, LinksOK
<1> QED
  BY <1>1, <1>2, <1>3, Zenon

(* an account is edited or deleted,                                        *)
LEMMA EditingAccounts ==
    ASSUME Typed, NEW h \in Handlers, NEW u \in Accounts,
           \/ DeleteUser(h, u)
           \/ \E d \in ProfileEdits \cup AccessEdits : EditUser(h, u, d)
           \/ \E e \in Emails, d \in ProfileEdits : ChangeEmail(h, u, e, d.write)
    PROVE  Arrived(h)
<1>1. CASE DeleteUser(h, u)
  <2> DEFINE l == [Idle EXCEPT !.kind = "delete", !.account = u,
                               !.email = users[u].email]
  <2>1. /\ IsLocal(l) /\ Unfound(l) /\ l.kind = "delete" /\ l.account = u
        /\ l.email = users[u].email /\ l.seen = Empty /\ l.write = <<>>
    BY SMT DEF Idle, IsLocal, Fields, Unfound
  <2>2. /\ At(h, "erase", l) /\ users[u] # Empty
        /\ UNCHANGED <<accounts, links, expired, proofs>>
    BY <1>1, Zenon DEF DeleteUser, Start
  <2> HIDE DEF l
  <2>3. Drawn("erase", l)
    BY <2>1, <2>2, NewDelete, Zenon
  <2> QED
    BY <2>2, <2>3, Zenon DEF Arrived, Typed, LinksOK
<1>2. ASSUME NEW d \in ProfileEdits \cup AccessEdits, EditUser(h, u, d) PROVE Arrived(h)
  <2> DEFINE l == [Idle EXCEPT !.kind = d.kind, !.account = u,
                               !.seen = users[u], !.write = d.write]
  <2>1. /\ IsLocal(l) /\ Unfound(l) /\ l.kind = d.kind /\ l.account = u
        /\ l.seen = users[u] /\ l.write = d.write
    BY SMT DEF Idle, IsLocal, Fields, Unfound
  <2>2. /\ At(h, "save", l) /\ users[u] # Empty
        /\ UNCHANGED <<accounts, links, expired, proofs>>
    BY <1>2, Zenon DEF EditUser, Start
  <2> HIDE DEF l
  <2>3. /\ IsWrite(l.write) /\ l.kind \in {"user", "admin"}
        /\ Sets(l.write, TRUE) => l.kind = "admin"
    BY <2>1, EditWrite, Zenon
  <2>4. l.kind # "magic" /\ l.kind \in {"magic", "user", "admin", "profile"}
    BY <2>3, SMT
  <2>5. Drawn("save", l)
    BY <2>1, <2>2, <2>3, <2>4, NewReader, Zenon
  <2> QED
    BY <2>2, <2>5, Zenon DEF Arrived, Typed, LinksOK
<1>3. ASSUME NEW e \in Emails, NEW d \in ProfileEdits, ChangeEmail(h, u, e, d.write)
      PROVE  Arrived(h)
  <2> DEFINE w == Overlay(d.write, EmailColumns(e))
             l == [Idle EXCEPT !.kind = "profile", !.email = e,
                               !.identifier = "update", !.account = u,
                               !.seen = users[u], !.write = w]
  <2>1. IsWrite(w) /\ ~Sets(w, TRUE)
    BY EditWrite, EmailWrite, Zenon
  <2>2. /\ At(h, "mint", l) /\ users[u] # Empty
        /\ UNCHANGED <<accounts, links, expired, proofs>>
    BY <1>3, Zenon DEF ChangeEmail, Start
  <2> HIDE DEF w
  <2>3. /\ IsLocal(l) /\ Unfound(l) /\ l.kind = "profile" /\ l.account = u
        /\ l.email = e /\ l.identifier = "update" /\ l.seen = users[u] /\ l.write = w
    BY SMT DEF Idle, IsLocal, Fields, Unfound
  <2> HIDE DEF l
  <2>4. /\ l.identifier \in Identifiers
        /\ l.kind \in {"magic", "user", "admin", "profile"}
    BY <2>3, Zenon DEF Identifiers
  <2>5. Drawn("mint", l)
    BY <2>1, <2>2, <2>3, <2>4, NewReader, Zenon
  <2> QED
    BY <2>2, <2>5, Zenon DEF Arrived, Typed, LinksOK
<1> QED
  BY <1>1, <1>2, <1>3, Zenon

(* a known address asks for a magic link.                                  *)
LEMMA MagicLogin ==
    ASSUME Typed, NEW h \in Handlers, NEW e \in Emails, MagicLinkLogin(h, e)
    PROVE  Arrived(h)
<1>1. PICK u \in Accounts :
        /\ users[u] # Empty
        /\ Start(h, "save", [Idle EXCEPT !.kind = "magic", !.email = e,
                              !.identifier = "magic", !.account = u,
                              !.seen = users[u]])
  BY Zenon DEF MagicLinkLogin, GetUserByEmail
<1> DEFINE l == [Idle EXCEPT !.kind = "magic", !.email = e, !.identifier = "magic",
                             !.account = u, !.seen = users[u]]
<1>2. /\ IsLocal(l) /\ Unfound(l) /\ l.kind = "magic" /\ l.account = u
      /\ l.email = e /\ l.identifier = "magic" /\ l.seen = users[u] /\ l.write = <<>>
  BY SMT DEF Idle, IsLocal, Fields, Unfound
<1>3. At(h, "save", l) /\ UNCHANGED <<accounts, links, expired, proofs>>
  BY <1>1, Zenon DEF MagicLinkLogin, Start
<1> HIDE DEF l
<1>4. Drawn("save", l)
  BY <1>1, <1>2, NewReader, NoWrite, Zenon DEF Identifiers
<1> QED
  BY <1>3, <1>4, Zenon DEF Arrived, Typed, LinksOK

(* So an arrival only moves its handler, to a label it is fit for.         *)
LEMMA ArriveMoves ==
    ASSUME Typed, NEW h \in Handlers, Arrive(h)
    PROVE  Arrived(h)
BY Redeeming, SigningUp, AskingAgain, EditingAccounts, MagicLogin, Zenon DEF Arrive

-----------------------------------------------------------------------------
(* Types: what a handler keeps while it and others move.                   *)
LEMMA IdleFits ==
    ASSUME NEW a \in Nat, NEW t \in Nat, NEW claims
    PROVE  Fits("idle", Idle, a, t, claims)
<1>1. /\ IsLocal(Idle) /\ Idle.kind = "none" /\ Idle.account = 0 /\ Idle.seen = Empty
      /\ Idle.write = <<>> /\ Idle.id = 0 /\ Idle.token = 0
  BY SMT DEF Idle, IsLocal, Fields
<1>2. KindOK("idle", Idle, claims) /\ LabelOK("idle", Idle)
  BY <1>1, SMT DEF KindOK, LabelOK, Redeems, Unlinks
<1> QED
  BY <1>1, <1>2, NoWrite, SMT DEF Fits

(* Accounts and links are added, never renamed.                            *)
Grows ==
    /\ nextAccount <= nextAccount' /\ nextToken <= nextToken'
    /\ \A t \in 1..nextToken : link'[t] = link[t]

(* What a handler is fit for stays true as numbers are given out.          *)
LEMMA FitsKept ==
    ASSUME Typed, nextAccount' \in Nat, nextToken' \in Nat, Grows,
           NEW label, NEW l, LocalOK(label, l)
    PROVE  Fits(label, l, nextAccount', nextToken', link')
<1>1. nextAccount \in Nat /\ nextToken \in Nat
  BY SMT DEF Typed, UsersOK, RequestsOK
<1>2. l.account \in 0..nextAccount /\ l.id \in 0..nextToken /\ l.token \in 0..nextToken
  BY Zenon DEF LocalOK, Fits
<1>3. l.account \in 0..nextAccount' /\ l.id \in 0..nextToken' /\ l.token \in 0..nextToken'
  BY <1>1, <1>2, SMT DEF Grows
<1>4. KindOK(label, l, link)
  BY Zenon DEF LocalOK, Fits
<1>5. KindOK(label, l, link')
  <2>1. CASE l.token = 0
    <3>1. l.kind \notin Redeems
      BY <1>4, <2>1, Zenon DEF KindOK
    <3> QED
      BY <1>4, <3>1, Zenon DEF KindOK
  <2>2. CASE l.token # 0
    <3>1. l.token \in 1..nextToken
      BY <1>1, <1>2, <2>2, SMT
    <3>2. link'[l.token] = link[l.token]
      BY <3>1, Zenon DEF Grows
    <3> QED
      BY <1>4, <3>2, Zenon DEF KindOK
  <2> QED
    BY <2>1, <2>2, Zenon
<1> QED
  BY <1>3, <1>5, Zenon DEF LocalOK, Fits

(* When one handler moves to a label it is fit for, all are fit.           *)
LEMMA MoveTyped ==
    ASSUME Typed, nextAccount' \in Nat, nextToken' \in Nat, Grows,
           NEW h \in Handlers, NEW label \in Labels, NEW l, At(h, label, l),
           Fits(label, l, nextAccount', nextToken', link')
    PROVE  LocalsOK'
<1>1. pc \in [Handlers -> Labels] /\ local = [g \in Handlers |-> local[g]]
  BY Zenon DEF Typed, LocalsOK
<1>2. pc' \in [Handlers -> Labels] /\ local' = [g \in Handlers |-> local'[g]]
  BY <1>1, Zenon DEF At
<1>3. ASSUME NEW g \in Handlers
      PROVE  Fits(pc'[g], local'[g], nextAccount', nextToken', link')
  <2>1. CASE g = h
    BY <1>1, <2>1, Zenon DEF At
  <2>2. CASE g # h
    <3>1. pc'[g] = pc[g] /\ local'[g] = local[g]
      BY <1>1, <2>2, Zenon DEF At
    <3>2. LocalOK(pc[g], local[g])
      BY Zenon DEF Typed, LocalsOK
    <3> QED
      BY <3>1, <3>2, FitsKept, Zenon
  <2> QED
    BY <2>1, <2>2, Zenon
<1> QED
  BY <1>2, <1>3, Zenon DEF LocalsOK, LocalOK

(* A handler goes on with the locals it has.                               *)
LEMMA GoesOn ==
    ASSUME NEW label, NEW next, NEW l, NEW a, NEW t, NEW claims,
           Fits(label, l, a, t, claims),
           \/ label = "add" /\ next \in {"create", "mint"}
           \/ label = "create" /\ next = "mint"
           \/ label = "unlink" /\ l.kind = "resend" /\ next = "mint"
           \/ label = "mint" /\ l.kind = "profile" /\ next = "save"
           \/ label = "save" /\ l.kind = "magic" /\ next = "mint"
           \/ label = "save" /\ l.kind \in Redeems /\ next \in {"gate", "spend"}
           \/ label = "gate" /\ next = "spend"
           \/ label = "erase" /\ next = "cleanup"
    PROVE  Fits(next, l, a, t, claims)
<1>1. KindOK(label, l, claims) /\ LabelOK(label, l)
  BY Zenon DEF Fits
<1>2. KindOK(next, l, claims)
  BY <1>1, SMT DEF KindOK, Redeems, Unlinks
<1>3. LabelOK(next, l)
  BY <1>1, SMT DEF KindOK, LabelOK, Redeems, Unlinks
<1> QED
  BY <1>2, <1>3, Zenon DEF Fits

-----------------------------------------------------------------------------
(* Types: the table of requests.                                           *)
LEMMA RequestTyped ==
    ASSUME Typed, NEW e \in Emails, NEW i \in Identifiers
    PROVE  /\ requests[e][i].id \in 0..nextToken /\ requests[e][i].token \in 0..nextToken
           /\ requests[e][i] = [id |-> requests[e][i].id, token |-> requests[e][i].token]
           /\ requests[e][i].id = 0 <=> requests[e][i].token = 0
<1>1. /\ requests[e][i] \in [id : 0..nextToken, token : 0..nextToken]
      /\ requests[e][i].id = 0 <=> requests[e][i].token = 0
  BY Zenon DEF Typed, RequestsOK
<1> QED
  BY <1>1, SMT

(* No two keys hold the same token.                                        *)
LEMMA OneKeyPerToken ==
    ASSUME Typed, NEW e \in Emails, NEW f \in Emails, NEW i \in Identifiers,
           NEW j \in Identifiers, requests[e][i].token # 0,
           requests[e][i].token = requests[f][j].token
    PROVE  e = f /\ i = j
<1>1. \A a, b \in Emails, c, d \in Identifiers :
        requests[a][c].token # 0 /\ requests[a][c].token = requests[b][d].token
          => a = b /\ c = d
  BY Zenon DEF Typed, RequestsOK
<1> QED
  BY <1>1, SMT

(* A new link: its key holds a token that no other key holds.              *)
LEMMA AddShape ==
    ASSUME Typed, NEW e \in Emails, NEW i \in Identifiers, NEW type,
           AddVerificationRequest(e, i, type)
    PROVE  /\ nextToken' = nextToken + 1 /\ nextToken \in Nat /\ nextToken' \in Tokens
           /\ requests'[e][i] = [id |-> IF requests[e][i].id = 0 THEN nextToken'
                                        ELSE requests[e][i].id,
                                 token |-> nextToken']
           /\ \A f \in Emails, j \in Identifiers :
                f # e \/ j # i => requests'[f][j] = requests[f][j]
           /\ requests' = [f \in Emails |-> requests'[f]]
           /\ \A f \in Emails : requests'[f] = [j \in Identifiers |-> requests'[f][j]]
           /\ owed' = (owed \ {requests[e][i].token}) \cup {nextToken'}
           /\ raced' = raced
           /\ link' = [link EXCEPT ![nextToken'] = [email |-> e, type |-> type]]
<1>1. nextToken \in Nat
  BY SMT DEF Typed, RequestsOK
<1>2. /\ nextToken + 1 \in Tokens /\ nextToken' = nextToken + 1
      /\ owed' = (owed \ {requests[e][i].token}) \cup {nextToken + 1} /\ raced' = raced
      /\ requests' = [requests EXCEPT
             ![e][i] = [id |-> IF @.id = 0 THEN nextToken + 1 ELSE @.id,
                        token |-> nextToken + 1]]
      /\ link' = [link EXCEPT ![nextToken + 1] = [email |-> e, type |-> type]]
  BY Zenon DEF AddVerificationRequest
<1>3. /\ requests = [f \in Emails |-> requests[f]]
      /\ \A f \in Emails : requests[f] = [j \in Identifiers |-> requests[f][j]]
  BY Zenon DEF Typed, RequestsOK
<1> DEFINE new == [id |-> IF requests[e][i].id = 0 THEN nextToken + 1
                          ELSE requests[e][i].id, token |-> nextToken + 1]
<1>4. requests' = [requests EXCEPT ![e] = [requests[e] EXCEPT ![i] = new]]
  BY <1>2, Zenon
<1> HIDE DEF new
<1>5. /\ requests' = [f \in Emails |-> requests'[f]]
      /\ requests'[e] = [requests[e] EXCEPT ![i] = new]
      /\ \A f \in Emails : f # e => requests'[f] = requests[f]
  BY <1>3, <1>4, Zenon
<1>6. /\ requests'[e][i] = new
      /\ \A j \in Identifiers : j # i => requests'[e][j] = requests[e][j]
      /\ requests'[e] = [j \in Identifiers |-> requests'[e][j]]
  BY <1>3, <1>5, Zenon
<1>7. requests'[e][i] = [id |-> IF requests[e][i].id = 0 THEN nextToken'
                                ELSE requests[e][i].id, token |-> nextToken']
  BY <1>2, <1>6, Zenon DEF new
<1>8. \A f \in Emails, j \in Identifiers :
        f # e \/ j # i => requests'[f][j] = requests[f][j]
  BY <1>5, <1>6, Zenon
<1>9. \A f \in Emails : requests'[f] = [j \in Identifiers |-> requests'[f][j]]
  <2>1. ASSUME NEW f \in Emails PROVE requests'[f] = [j \in Identifiers |-> requests'[f][j]]
    <3>1. CASE f = e
      BY <1>6, <3>1, Zenon
    <3>2. CASE f # e
      <4>1. requests'[f] = requests[f]
        BY <1>5, <3>2, Zenon
      <4> QED
        BY <1>3, <4>1, Zenon
    <3> QED
      BY <3>1, <3>2, Zenon
  <2> QED
    BY <2>1, Zenon
<1>10. /\ nextToken' \in Tokens /\ owed' = (owed \ {requests[e][i].token}) \cup {nextToken'}
       /\ link' = [link EXCEPT ![nextToken'] = [email |-> e, type |-> type]]
  BY <1>2, Zenon
<1> QED
  BY <1>1, <1>2, <1>5, <1>7, <1>8, <1>9, <1>10, Zenon

(* A new request keeps the tables typed and every earlier link.            *)
LEMMA AddTyped ==
    ASSUME Typed, NEW e \in Emails, NEW i \in Identifiers, NEW type,
           AddVerificationRequest(e, i, type), UNCHANGED expired
    PROVE  RequestsOK' /\ LinksOK' /\ nextToken < nextToken'
           /\ \A t \in 1..nextToken : link'[t] = link[t]
<1>1. /\ nextToken' = nextToken + 1 /\ nextToken \in Nat /\ nextToken' \in Tokens
      /\ requests'[e][i] = [id |-> IF requests[e][i].id = 0 THEN nextToken'
                                   ELSE requests[e][i].id, token |-> nextToken']
      /\ \A f \in Emails, j \in Identifiers :
           f # e \/ j # i => requests'[f][j] = requests[f][j]
      /\ requests' = [f \in Emails |-> requests'[f]]
      /\ \A f \in Emails : requests'[f] = [j \in Identifiers |-> requests'[f][j]]
      /\ owed' = (owed \ {requests[e][i].token}) \cup {nextToken'} /\ raced' = raced
      /\ link' = [link EXCEPT ![nextToken'] = [email |-> e, type |-> type]]
  BY AddShape, Zenon
<1>2. nextToken' \in 0..MaxToken /\ nextToken < nextToken' /\ MaxToken \in Nat
  BY <1>1, LinkAssumption, SMT DEF Tokens
<1>3. link' = [t \in Tokens |-> link'[t]]
  BY <1>1, Zenon DEF Typed, RequestsOK
<1>4. \A t \in 1..nextToken : link'[t] = link[t]
  <2>1. \A t \in 1..nextToken : t \in Tokens /\ t # nextToken'
    BY <1>1, <1>2, SMT DEF Tokens
  <2>2. link = [t \in Tokens |-> link[t]]
    BY Zenon DEF Typed, RequestsOK
  <2> QED
    BY <1>1, <2>1, <2>2, Zenon
<1>5. ASSUME NEW f \in Emails, NEW j \in Identifiers
      PROVE  /\ requests'[f][j] \in [id : 0..nextToken', token : 0..nextToken']
             /\ requests'[f][j].id = 0 <=> requests'[f][j].token = 0
             /\ requests'[f][j].token \in 0..nextToken \/ (f = e /\ j = i)
  <2>1. CASE f = e /\ j = i
    <3>1. requests[e][i].id \in 0..nextToken
      BY RequestTyped, Zenon
    <3> QED
      BY <1>1, <1>2, <2>1, <3>1, SMT
  <2>2. CASE ~(f = e /\ j = i)
    <3>1. requests'[f][j] = requests[f][j]
      BY <1>1, <2>2, Zenon
    <3>2. /\ requests[f][j].id \in 0..nextToken /\ requests[f][j].token \in 0..nextToken
          /\ requests[f][j] = [id |-> requests[f][j].id, token |-> requests[f][j].token]
          /\ requests[f][j].id = 0 <=> requests[f][j].token = 0
      BY RequestTyped, Zenon
    <3>3. requests[f][j].id \in 0..nextToken' /\ requests[f][j].token \in 0..nextToken'
      BY <1>1, <3>2, SMT
    <3> QED
      BY <3>1, <3>2, <3>3, SMT
  <2> QED
    BY <2>1, <2>2, Zenon
<1>6. requests' \in [Emails -> [Identifiers -> [id : 0..nextToken', token : 0..nextToken']]]
  <2> DEFINE R == [id : 0..nextToken', token : 0..nextToken']
  <2>1. \A f \in Emails, j \in Identifiers : requests'[f][j] \in R
    BY <1>5, Zenon
  <2> HIDE DEF R
  <2>2. \A f \in Emails : requests'[f] \in [Identifiers -> R]
    BY <1>1, <2>1, Zenon
  <2>3. requests' \in [Emails -> [Identifiers -> R]]
    BY <1>1, <2>2, Zenon
  <2> QED
    BY <2>3, Zenon DEF R
<1>7. ASSUME NEW f \in Emails, NEW g \in Emails,
             NEW j \in Identifiers, NEW k \in Identifiers,
             requests'[f][j].token # 0, requests'[f][j].token = requests'[g][k].token
      PROVE  f = g /\ j = k
  <2>1. requests'[e][i].token = nextToken' /\ nextToken' \notin 0..nextToken
    BY <1>1, SMT
  <2>2. CASE f = e /\ j = i
    BY <1>5, <1>7, <2>1, <2>2, Zenon
  <2>3. CASE g = e /\ k = i
    BY <1>5, <1>7, <2>1, <2>3, Zenon
  <2>4. CASE ~(f = e /\ j = i) /\ ~(g = e /\ k = i)
    <3>1. requests'[f][j] = requests[f][j] /\ requests'[g][k] = requests[g][k]
      BY <1>1, <2>4, Zenon
    <3>2. requests[f][j].token # 0 /\ requests[f][j].token = requests[g][k].token
      BY <1>7, <3>1, Zenon
    <3> QED
      BY <3>2, OneKeyPerToken, SMT
  <2> QED
    BY <2>2, <2>3, <2>4, Zenon
<1>8. RequestsOK'
  <2>1. \A f \in Emails, j \in Identifiers :
          requests'[f][j].id = 0 <=> requests'[f][j].token = 0
    BY <1>5, Zenon
  <2>2. \A f, g \in Emails, j, k \in Identifiers :
          requests'[f][j].token # 0 /\ requests'[f][j].token = requests'[g][k].token
            => f = g /\ j = k
    BY <1>7, SMT
  <2> QED
    BY <1>2, <1>3, <1>6, <2>1, <2>2, Zenon DEF RequestsOK
<1>9. LinksOK'
  <2>1. 1..nextToken \subseteq 1..nextToken' /\ nextToken' \in 1..nextToken'
    BY <1>1, SMT
  <2>2. owed \subseteq 1..nextToken /\ raced \subseteq 1..nextToken
        /\ expired \subseteq 1..nextToken
    BY Zenon DEF Typed, LinksOK
  <2> QED
    BY <1>1, <2>1, <2>2, Zenon DEF LinksOK
<1> QED
  BY <1>2, <1>4, <1>8, <1>9, Zenon

(* Requests deleted: the keys in hit hold none any more.                   *)
Clears(hit) ==
    /\ requests' = [e \in Emails |-> [i \in Identifiers |->
                      IF <<e, i>> \in hit THEN NoRequest ELSE requests[e][i]]]
    /\ UNCHANGED <<link, nextToken>>

Gone(hit) == {requests[x[1]][x[2]].token : x \in hit}

(* Deleting rows keeps the table typed.                                    *)
LEMMA ClearTyped ==
    ASSUME Typed, NEW hit, Clears(hit)
    PROVE  RequestsOK'
<1>1. \A e \in Emails, i \in Identifiers :
        requests'[e][i] = IF <<e, i>> \in hit THEN NoRequest ELSE requests[e][i]
  BY Zenon DEF Clears
<1>2. nextToken' = nextToken /\ link' = link /\ nextToken \in Nat
  BY SMT DEF Clears, Typed, RequestsOK
<1>3. NoRequest \in [id : 0..nextToken, token : 0..nextToken]
      /\ NoRequest.id = 0 /\ NoRequest.token = 0
  BY <1>2, SMT DEF NoRequest
<1>4. ASSUME NEW e \in Emails, NEW i \in Identifiers
      PROVE  /\ requests'[e][i] \in [id : 0..nextToken, token : 0..nextToken]
             /\ requests'[e][i].id = 0 <=> requests'[e][i].token = 0
             /\ requests'[e][i].token # 0 => requests'[e][i] = requests[e][i]
  <2>1. /\ requests[e][i] \in [id : 0..nextToken, token : 0..nextToken]
        /\ requests[e][i].id = 0 <=> requests[e][i].token = 0
    BY Zenon DEF Typed, RequestsOK
  <2>2. requests'[e][i] = NoRequest \/ requests'[e][i] = requests[e][i]
    BY <1>1, Zenon
  <2> QED
    BY <1>3, <2>1, <2>2, Zenon
<1>5. requests' \in [Emails -> [Identifiers -> [id : 0..nextToken, token : 0..nextToken]]]
  <2> DEFINE R == [id : 0..nextToken, token : 0..nextToken]
  <2>1. \A e \in Emails, i \in Identifiers : requests'[e][i] \in R
    BY <1>4, Zenon
  <2> HIDE DEF R
  <2>2. \A e \in Emails : requests'[e] = [i \in Identifiers |-> requests'[e][i]]
    BY Zenon DEF Clears
  <2>3. \A e \in Emails : requests'[e] \in [Identifiers -> R]
    BY <2>1, <2>2, Zenon
  <2>4. requests' = [e \in Emails |-> requests'[e]]
    BY Zenon DEF Clears
  <2>5. requests' \in [Emails -> [Identifiers -> R]]
    BY <2>3, <2>4, Zenon
  <2> QED
    BY <2>5, Zenon DEF R
<1>6. ASSUME NEW f \in Emails, NEW g \in Emails,
             NEW j \in Identifiers, NEW k \in Identifiers,
             requests'[f][j].token # 0, requests'[f][j].token = requests'[g][k].token
      PROVE  f = g /\ j = k
  <2>1. requests'[f][j] = requests[f][j] /\ requests'[g][k] = requests[g][k]
    BY <1>4, <1>6, Zenon
  <2>2. requests[f][j].token # 0 /\ requests[f][j].token = requests[g][k].token
    BY <1>6, <2>1, Zenon
  <2> QED
    BY <2>2, OneKeyPerToken, SMT
<1>7. \A f, g \in Emails, j, k \in Identifiers :
        requests'[f][j].token # 0 /\ requests'[f][j].token = requests'[g][k].token
          => f = g /\ j = k
  BY <1>6, SMT
<1>8. \A e \in Emails, i \in Identifiers :
        requests'[e][i].id = 0 <=> requests'[e][i].token = 0
  BY <1>4, Zenon
<1> QED
  BY <1>2, <1>5, <1>7, <1>8, Zenon DEF RequestsOK, Typed

Hit(l) == {x \in Emails \X Identifiers : requests[x[1]][x[2]].id = l.id}

(* What DeleteVerificationRequest does, in those terms.                    *)
LEMMA DeleteShape ==
    ASSUME NEW l, DeleteVerificationRequest(l)
    PROVE  /\ Clears(Hit(l)) /\ owed' = owed \ {l.token}
           /\ raced' = raced \cup (Gone(Hit(l)) \ {l.token})
BY Zenon DEF DeleteVerificationRequest, Clears, Gone, Hit

(* The tokens it closes were all given out.                                *)
LEMMA HitTokens ==
    ASSUME Typed, NEW l, l.id # 0
    PROVE  Gone(Hit(l)) \subseteq 1..nextToken
<1>1. ASSUME NEW x \in Hit(l) PROVE requests[x[1]][x[2]].token \in 1..nextToken
  <2>1. x[1] \in Emails /\ x[2] \in Identifiers /\ requests[x[1]][x[2]].id # 0
    BY Zenon DEF Hit
  <2>2. requests[x[1]][x[2]] # NoRequest
    BY <2>1, SMT DEF NoRequest
  <2> QED
    BY <2>1, <2>2, KnownRequest, Zenon
<1> QED
  BY <1>1, Zenon DEF Gone

(* So it keeps the tables typed.                                           *)
LEMMA DeleteTyped ==
    ASSUME Typed, NEW l, l.id # 0, DeleteVerificationRequest(l), UNCHANGED expired
    PROVE  RequestsOK' /\ LinksOK' /\ nextToken' = nextToken /\ link' = link
<1>1. /\ Clears(Hit(l)) /\ owed' = owed \ {l.token}
      /\ raced' = raced \cup (Gone(Hit(l)) \ {l.token})
  BY DeleteShape, Zenon
<1>2. nextToken' = nextToken /\ link' = link
  BY <1>1, Zenon DEF Clears
<1>3. Gone(Hit(l)) \subseteq 1..nextToken
  BY HitTokens, Zenon
<1>4. LinksOK'
  BY <1>1, <1>2, <1>3, Zenon DEF LinksOK, Typed
<1> QED
  BY <1>1, <1>2, <1>4, ClearTyped, Zenon

(* The clean-up after a deleted account clears every key of its address.   *)
LEMMA CleanupShape ==
    ASSUME Typed, NEW h \in Handlers, Cleanup(h), local[h].email \in Emails
    PROVE  LET hit == {local[h].email} \X Identifiers
               gone == Gone(hit) \ {0}
           IN  /\ Clears(hit)
               /\ \/ owed' = owed \ gone /\ raced' = raced
                  \/ owed' = owed /\ raced' = raced \cup gone
<1> DEFINE e == local[h].email
           hit == {e} \X Identifiers
           none == [i \in Identifiers |-> NoRequest]
<1>1. /\ requests' = [requests EXCEPT ![e] = none]
      /\ UNCHANGED <<link, nextToken>>
  BY Zenon DEF Cleanup
<1>2. requests = [f \in Emails |-> requests[f]]
      /\ \A f \in Emails : requests[f] = [i \in Identifiers |-> requests[f][i]]
  <2>1. PICK R : requests \in [Emails -> [Identifiers -> R]]
    BY Zenon DEF Typed, RequestsOK
  <2> QED
    BY <2>1, Zenon
<1>3. ASSUME NEW f \in Emails
      PROVE  requests'[f] = [i \in Identifiers |->
                               IF <<f, i>> \in hit THEN NoRequest ELSE requests[f][i]]
  <2>1. CASE f = e
    <3>1. requests'[f] = none
      BY <1>1, <1>2, <2>1, Zenon
    <3>2. \A i \in Identifiers : <<f, i>> \in hit
      BY <2>1, Zenon
    <3> QED
      BY <3>1, <3>2, Zenon
  <2>2. CASE f # e
    <3>1. requests'[f] = [i \in Identifiers |-> requests[f][i]]
      BY <1>1, <1>2, <2>2, Zenon
    <3>2. \A i \in Identifiers : <<f, i>> \notin hit
      BY <2>2, Zenon
    <3> QED
      BY <3>1, <3>2, Zenon
  <2> QED
    BY <2>1, <2>2, Zenon
<1>4. requests' = [f \in Emails |-> requests'[f]]
  BY <1>1, <1>2, Zenon
<1>5. Clears(hit)
  BY <1>1, <1>3, <1>4, Zenon DEF Clears
<1>6. Gone(hit) = {requests[e][i].token : i \in Identifiers}
  <2>1. ASSUME NEW t \in Gone(hit) PROVE t \in {requests[e][i].token : i \in Identifiers}
    BY Zenon DEF Gone
  <2>2. ASSUME NEW i \in Identifiers PROVE requests[e][i].token \in Gone(hit)
    <3>1. <<e, i>> \in hit
      BY Zenon
    <3>2. <<e, i>>[1] = e /\ <<e, i>>[2] = i
      BY SMT
    <3> QED
      <4>1. PICK x : x = <<e, i>>
        OBVIOUS
      <4>2. requests[x[1]][x[2]].token \in Gone(hit)
        BY <3>1, <4>1, Zenon DEF Gone
      <4> QED
        BY <3>2, <4>1, <4>2, Zenon
  <2> QED
    BY <2>1, <2>2, Zenon
<1>7. \/ owed' = owed \ (Gone(hit) \ {0}) /\ raced' = raced
      \/ owed' = owed /\ raced' = raced \cup (Gone(hit) \ {0})
  BY <1>6, Zenon DEF Cleanup
<1> QED
  BY <1>5, <1>7, Zenon

-----------------------------------------------------------------------------
(* Types: where a step takes its handler.                                  *)

(* A redemption that has just read its account.                            *)
Reads(h, label, l) ==
    /\ label \in {"gate", "save"}
    /\ l.kind \in Redeems /\ l.token = local[h].token /\ l.id = local[h].id
    /\ l.account \in Accounts /\ l.seen = users[l.account] /\ l.seen # Empty
    /\ <<l.account, l.seen.email>> \in proved'
    /\ label = "gate" => l.seen.verified /\ lapsed' = lapsed \ {h}
    /\ label = "save" => Sets(l.write, TRUE)
    /\ UNCHANGED <<accounts, links, expired>>

Continues(h, label, l) ==
    /\ l = local[h]
    /\ label = "gate" => pc[h] = "save"
    /\ label = "save" => l.kind \notin Redeems

Goes(h, label, l) ==
    /\ label \in Labels
    /\ At(h, label, l)
    /\ LocalOK(label, l)
    /\ \/ label = "idle" /\ l = Idle
       \/ Continues(h, label, l)
       \/ Reads(h, label, l)

(* A handler that finishes is idle, hence fit.                             *)
LEMMA FinishGoes ==
    ASSUME Typed, NEW h \in Handlers, Finish(h)
    PROVE  \E label, l : Goes(h, label, l)
<1>1. At(h, "idle", Idle) /\ "idle" \in Labels
  BY Zenon DEF Finish, Goto, Labels
<1>2. nextAccount \in Nat /\ nextToken \in Nat
  BY SMT DEF Typed, UsersOK, RequestsOK
<1>3. LocalOK("idle", Idle)
  BY <1>2, IdleFits, Zenon DEF LocalOK
<1> QED
  BY <1>1, <1>3, Zenon DEF Goes

(* A handler that goes on with what it has is fit for the next label.      *)
LEMMA GotoGoes ==
    ASSUME Typed, NEW h \in Handlers, NEW next \in Labels, Goto(h, next, local[h]),
           \/ pc[h] = "add" /\ next \in {"create", "mint"}
           \/ pc[h] = "create" /\ next = "mint"
           \/ pc[h] = "unlink" /\ local[h].kind = "resend" /\ next = "mint"
           \/ pc[h] = "mint" /\ local[h].kind = "profile" /\ next = "save"
           \/ pc[h] = "save" /\ local[h].kind = "magic" /\ next = "mint"
           \/ pc[h] = "save" /\ local[h].kind \in Redeems /\ next \in {"gate", "spend"}
           \/ pc[h] = "gate" /\ next = "spend"
           \/ pc[h] = "erase" /\ next = "cleanup"
    PROVE  \E label, l : Goes(h, label, l)
<1> DEFINE l == local[h]
<1>1. At(h, next, l)
  BY Zenon DEF Goto
<1>2. LocalOK(pc[h], l)
  BY Zenon DEF Typed, LocalsOK
<1>3. LocalOK(next, l)
  BY <1>2, GoesOn, Zenon DEF LocalOK
<1>4. Continues(h, next, l)
  <2>1. next = "gate" => pc[h] = "save"
    BY SMT
  <2>2. next = "save" => l.kind = "profile"
    BY SMT
  <2>3. next = "save" => l.kind \notin Redeems
    BY <2>2, SMT DEF Redeems
  <2> QED
    BY <2>1, <2>3, Zenon DEF Continues
<1> QED
  BY <1>1, <1>3, <1>4, Zenon DEF Goes

(* The redemption of a link reads the account of its address.              *)
LEMMA ReadFits ==
    ASSUME Typed, NEW h \in Handlers, pc[h] = "lookup",
           NEW u \in GetUserByEmail(local[h].email), NEW m, IsLocal(m),
           m.kind = local[h].kind, m.email = local[h].email, m.id = local[h].id,
           m.token = local[h].token, m.account = u, m.seen = users[u], IsWrite(m.write),
           m.identifier = local[h].identifier, NEW label \in {"gate", "save"}
    PROVE  LocalOK(label, m) /\ m.kind \in Redeems
<1>1. Fits("lookup", local[h], nextAccount, nextToken, link)
  BY Zenon DEF Typed, LocalsOK, LocalOK
<1>2. u \in Accounts /\ users[u] # Empty /\ users[u].email = m.email
  BY Zenon DEF GetUserByEmail
<1>3. u \in 1..nextAccount /\ users[u] \in Row /\ nextAccount \in Nat
  BY <1>2, KnownAccount, SMT DEF Typed, UsersOK
<1>4. KindOK("lookup", local[h], link) /\ LabelOK("lookup", local[h])
      /\ m.id \in 0..nextToken /\ m.token \in 0..nextToken
  BY <1>1, Zenon DEF Fits
<1>5. m.kind \in Redeems
  BY <1>4, SMT DEF KindOK, Redeems, Unlinks
<1>6. KindOK(label, m, link)
  BY <1>2, <1>4, <1>5, SMT DEF KindOK, Redeems, Unlinks
<1>7. LabelOK(label, m)
  BY <1>2, <1>4, <1>5, SMT DEF LabelOK, Redeems
<1>8. m.account \in 0..nextAccount /\ m.account # 0
  BY <1>3, SMT
<1> QED
  BY <1>2, <1>3, <1>4, <1>5, <1>6, <1>7, <1>8, Zenon DEF LocalOK, Fits

(* The writes of a redeemed link set the verified column.                  *)
LEMMA ProvingWrite ==
    /\ IsWrite([verified |-> TRUE]) /\ Sets([verified |-> TRUE], TRUE)
    /\ \A p \in Passwords : /\ IsWrite([password |-> p, verified |-> TRUE])
                            /\ Sets([password |-> p, verified |-> TRUE], TRUE)
<1>1. ASSUME NEW b \in BOOLEAN, b = TRUE
      PROVE  IsWrite([verified |-> b]) /\ Sets([verified |-> b], b)
  BY SMT DEF IsWrite, Sets, Columns, Value
<1>2. ASSUME NEW b \in BOOLEAN, b = TRUE, NEW p \in Passwords
      PROVE  /\ IsWrite([password |-> p, verified |-> b])
             /\ Sets([password |-> p, verified |-> b], b)
  BY SMT DEF IsWrite, Sets, Columns, Value
<1> QED
  BY <1>1, <1>2, Zenon

(* A verification link's account is read, then gated or saved.             *)
LEMMA ConsumeGoes ==
    ASSUME Typed, NEW h \in Handlers, Consume(h)
    PROVE  \E label, l : Goes(h, label, l)
<1> DEFINE l == local[h]
<1>1. PICK u \in GetUserByEmail(l.email) :
        /\ proved' = proved \cup {<<u, l.email>>}
        /\ LET m == [l EXCEPT !.account = u, !.seen = users[u]]
           IN  IF users[u].verified
               THEN Goto(h, "gate", m)
               ELSE Goto(h, "save", [m EXCEPT !.write = [verified |-> TRUE]])
  BY Zenon DEF Consume
<1>2. /\ pc[h] = "lookup" /\ lapsed' = lapsed \ {h}
      /\ UNCHANGED <<accounts, links, expired>>
  BY Zenon DEF Consume
<1>3. Fits(pc[h], l, nextAccount, nextToken, link)
  BY Zenon DEF Typed, LocalsOK, LocalOK
<1>4. IsLocal(l) /\ IsWrite(l.write)
  BY <1>3, Zenon DEF Fits
<1>5. u \in Accounts /\ users[u] # Empty /\ users[u].email = l.email
  BY Zenon DEF GetUserByEmail
<1> HIDE DEF l
<1>6. CASE users[u].verified
  <2> DEFINE m == [l EXCEPT !.account = u, !.seen = users[u]]
  <2>1. /\ IsLocal(m) /\ m.kind = l.kind /\ m.email = l.email /\ m.id = l.id
        /\ m.token = l.token /\ m.account = u /\ m.seen = users[u] /\ m.write = l.write
        /\ m.identifier = l.identifier
    BY <1>4, SMT DEF IsLocal, Fields, Idle
  <2>2. At(h, "gate", m)
    BY <1>1, <1>6, Zenon DEF Goto
  <2> HIDE DEF m
  <2>3. LocalOK("gate", m) /\ m.kind \in Redeems
    BY <1>2, <1>4, <2>1, ReadFits, Zenon DEF l
  <2>4. Reads(h, "gate", m)
    BY <1>1, <1>2, <1>5, <1>6, <2>1, <2>3, SMT DEF Reads, l
  <2>5. "gate" \in Labels
    BY Zenon DEF Labels
  <2> QED
    BY <2>2, <2>3, <2>4, <2>5, Zenon DEF Goes
<1>7. CASE ~users[u].verified
  <2> DEFINE m == [[l EXCEPT !.account = u, !.seen = users[u]]
                     EXCEPT !.write = [verified |-> TRUE]]
  <2>1. /\ IsLocal(m) /\ m.kind = l.kind /\ m.email = l.email /\ m.id = l.id
        /\ m.token = l.token /\ m.account = u /\ m.seen = users[u]
        /\ m.write = [verified |-> TRUE] /\ m.identifier = l.identifier
    BY <1>4, SMT DEF IsLocal, Fields, Idle
  <2>2. At(h, "save", m)
    BY <1>1, <1>7, Zenon DEF Goto
  <2> HIDE DEF m
  <2>3. IsWrite(m.write) /\ Sets(m.write, TRUE)
    BY <2>1, ProvingWrite, Zenon
  <2>4. LocalOK("save", m) /\ m.kind \in Redeems
    BY <1>2, <2>1, <2>3, ReadFits, Zenon DEF l
  <2>5. Reads(h, "save", m)
    <3>1. <<m.account, m.seen.email>> \in proved'
      BY <1>1, <1>5, <2>1, SMT
    <3>2. m.account \in Accounts /\ m.seen = users[m.account] /\ m.seen # Empty
      BY <1>5, <2>1, Zenon
    <3> QED
      BY <1>2, <2>1, <2>3, <2>4, <3>1, <3>2, Zenon DEF Reads, l
  <2>6. "save" \in Labels
    BY Zenon DEF Labels
  <2> QED
    BY <2>2, <2>4, <2>5, <2>6, Zenon DEF Goes
<1> QED
  BY <1>6, <1>7, Zenon

(* A reset link's account is read, then saved.                             *)
LEMMA ResetGoes ==
    ASSUME Typed, NEW h \in Handlers, NEW p \in Passwords, ResetLookup(h, p)
    PROVE  \E label, l : Goes(h, label, l)
<1> DEFINE l == local[h]
<1>1. PICK u \in GetUserByEmail(l.email) :
        /\ proved' = proved \cup {<<u, l.email>>}
        /\ Goto(h, "save", [l EXCEPT !.account = u, !.seen = users[u],
                              !.write = [password |-> p, verified |-> TRUE]])
  BY Zenon DEF ResetLookup
<1>2. pc[h] = "lookup" /\ UNCHANGED <<accounts, links, expired>>
  BY Zenon DEF ResetLookup
<1>3. Fits(pc[h], l, nextAccount, nextToken, link)
  BY Zenon DEF Typed, LocalsOK, LocalOK
<1>4. IsLocal(l)
  BY <1>3, Zenon DEF Fits
<1>5. u \in Accounts /\ users[u] # Empty /\ users[u].email = l.email
  BY Zenon DEF GetUserByEmail
<1> HIDE DEF l
<1> DEFINE w == [password |-> p, verified |-> TRUE]
           m == [l EXCEPT !.account = u, !.seen = users[u], !.write = w]
<1>6. At(h, "save", m)
  BY <1>1, Zenon DEF Goto
<1>7. IsWrite(w) /\ Sets(w, TRUE)
  BY ProvingWrite, Zenon
<1> HIDE DEF w
<1>8. /\ IsLocal(m) /\ m.kind = l.kind /\ m.email = l.email /\ m.id = l.id
      /\ m.token = l.token /\ m.account = u /\ m.seen = users[u] /\ m.write = w
      /\ m.identifier = l.identifier
  BY <1>4, SMT DEF IsLocal, Fields, Idle
<1> HIDE DEF m
<1>9. LocalOK("save", m) /\ m.kind \in Redeems
  BY <1>2, <1>7, <1>8, ReadFits, Zenon DEF l
<1>10. Reads(h, "save", m)
  <2>1. <<m.account, m.seen.email>> \in proved'
    BY <1>1, <1>5, <1>8, SMT
  <2>2. m.account \in Accounts /\ m.seen = users[m.account] /\ m.seen # Empty
    BY <1>5, <1>8, Zenon
  <2> QED
    BY <1>2, <1>7, <1>8, <1>9, <2>1, <2>2, Zenon DEF Reads, l
<1>11. "save" \in Labels
  BY Zenon DEF Labels
<1> QED
  BY <1>6, <1>9, <1>10, <1>11, Zenon DEF Goes

(* So every step moves its handler to a label it is fit for.               *)
LEMMA StepMoves ==
    ASSUME Typed, NEW h \in Handlers, Step(h)
    PROVE  \E label, l : Goes(h, label, l)
<1>1. CASE \/ AddUser(h) \/ CreateUser(h) \/ Unlink(h) \/ UnlinkFails(h)
           \/ Mint(h) \/ PassGate(h) \/ Erase(h)
  <2>1. {"create", "mint", "save", "spend", "cleanup"} \subseteq Labels
    BY SMT DEF Labels
  <2>2. CASE AddUser(h)
    <3>1. /\ pc[h] = "add"
          /\ Finish(h) \/ \E next \in {"create", "mint"} : Goto(h, next, local[h])
      BY <2>2, Zenon DEF AddUser
    <3> QED
      BY <2>1, <3>1, FinishGoes, GotoGoes, Zenon
  <2>3. CASE CreateUser(h) \/ PassGate(h) \/ Erase(h)
    <3>1. \/ pc[h] = "create" /\ Goto(h, "mint", local[h])
          \/ pc[h] = "gate" /\ Goto(h, "spend", local[h])
          \/ pc[h] = "erase" /\ Goto(h, "cleanup", local[h])
      BY <2>3, Zenon DEF CreateUser, PassGate, Erase
    <3> QED
      BY <2>1, <3>1, GotoGoes, Zenon
  <2>4. CASE Unlink(h) \/ UnlinkFails(h) \/ Mint(h)
    <3>1. \/ Finish(h)
          \/ pc[h] = "unlink" /\ local[h].kind = "resend" /\ Goto(h, "mint", local[h])
          \/ pc[h] = "mint" /\ local[h].kind = "profile" /\ Goto(h, "save", local[h])
      BY <2>4, Zenon DEF Unlink, UnlinkFails, Mint
    <3> QED
      BY <2>1, <3>1, FinishGoes, GotoGoes, Zenon
  <2> QED
    BY <1>1, <2>2, <2>3, <2>4, Zenon
<1>2. CASE Save(h)
  <2>1. /\ pc[h] = "save"
        /\ IF AfterSave(local[h].kind) = "idle" THEN Finish(h)
           ELSE Goto(h, AfterSave(local[h].kind), local[h])
    BY <1>2, Zenon DEF Save
  <2>2. \/ AfterSave(local[h].kind) = "idle"
        \/ AfterSave(local[h].kind) = "mint" /\ local[h].kind = "magic"
        \/ AfterSave(local[h].kind) \in {"gate", "spend"} /\ local[h].kind \in Redeems
    BY SMT DEF AfterSave, Redeems
  <2>3. {"mint", "gate", "spend"} \subseteq Labels
    BY SMT DEF Labels
  <2> QED
    BY <2>1, <2>2, <2>3, FinishGoes, GotoGoes, Zenon
<1>3. CASE \/ MintFails(h) \/ LookupFails(h) \/ SaveFails(h) \/ Withhold(h) \/ Spend(h)
           \/ SpendThenRefuse(h) \/ SpendFails(h) \/ Cleanup(h)
  <2>1. Finish(h)
    BY <1>3, Zenon DEF MintFails, LookupFails, SaveFails, Withhold, Spend,
                       SpendThenRefuse, SpendFails, Cleanup
  <2> QED
    BY <2>1, FinishGoes, Zenon
<1> QED
  BY <1>1, <1>2, <1>3, ConsumeGoes, ResetGoes, Zenon DEF Step

-----------------------------------------------------------------------------
(* Types: the accounts.                                                    *)
LEMMA AccountsStay ==
    ASSUME Typed, UNCHANGED accounts
    PROVE  UsersOK' /\ nextAccount' = nextAccount
BY Zenon DEF Typed, UsersOK, accounts

(* The same for the requests and links.                                    *)
LEMMA LinksStay ==
    ASSUME Typed, UNCHANGED links, expired' \subseteq 1..nextToken
    PROVE  RequestsOK' /\ LinksOK' /\ nextToken' = nextToken /\ link' = link
<1>1. /\ requests' = requests /\ link' = link /\ nextToken' = nextToken
      /\ owed' = owed /\ raced' = raced
  BY Zenon DEF links
<1>2. RequestsOK'
  BY <1>1, SMT DEF Typed, RequestsOK
<1>3. LinksOK'
  BY <1>1, Zenon DEF Typed, LinksOK
<1> QED
  BY <1>1, <1>2, <1>3, Zenon

(* Every handler is fit for its label.                                     *)
LEMMA HandlerFits ==
    ASSUME Typed, NEW h \in Handlers
    PROVE  Fits(pc[h], local[h], nextAccount, nextToken, link)
BY Zenon DEF Typed, LocalsOK, LocalOK

(* CreateUser writes a new, unverified row under the next number.          *)
LEMMA CreateShape ==
    ASSUME Typed, NEW h \in Handlers, CreateUser(h)
    PROVE  \E row \in Row : LET u == nextAccount + 1 IN
             /\ row.verified = FALSE
             /\ u \in Accounts /\ nextAccount' = u
             /\ users' = [users EXCEPT ![u] = row]
             /\ expect' = [expect EXCEPT ![u] = row]
             /\ stale' = stale
<1> DEFINE l == local[h]
           row == [email |-> l.email, password |-> l.write.password,
                   verified |-> FALSE, revoked |-> FALSE]
<1>1. /\ pc[h] = "create" /\ nextAccount + 1 \in Accounts /\ nextAccount' = nextAccount + 1
      /\ users' = [users EXCEPT ![nextAccount + 1] = row]
      /\ expect' = [expect EXCEPT ![nextAccount + 1] = row]
      /\ stale' = stale
  BY Zenon DEF CreateUser
<1>2. LabelOK("create", l) /\ IsWrite(l.write)
  BY <1>1, HandlerFits, Zenon DEF Fits
<1>3. l.email \in Emails /\ "password" \in DOMAIN l.write
  BY <1>2, Zenon DEF LabelOK
<1>4. Value("password", l.write["password"])
  BY <1>2, <1>3, Zenon DEF IsWrite
<1>5. l.write.password \in Passwords \cup {Empty}
  BY <1>4, SMT DEF Value
<1>6. row \in Row /\ row.verified = FALSE
  BY <1>3, <1>5, SMT DEF Row
<1> HIDE DEF row
<1> QED
  BY <1>1, <1>6, Zenon

(* So it keeps the accounts typed;                                         *)
LEMMA CreateTyped ==
    ASSUME Typed, NEW h \in Handlers, CreateUser(h)
    PROVE  UsersOK' /\ nextAccount < nextAccount'
<1>1. PICK row \in Row :
             /\ row.verified = FALSE
             /\ nextAccount + 1 \in Accounts /\ nextAccount' = nextAccount + 1
             /\ users' = [users EXCEPT ![nextAccount + 1] = row]
             /\ expect' = [expect EXCEPT ![nextAccount + 1] = row]
  BY CreateShape, Zenon
<1>2. /\ users \in [Accounts -> Row \cup {Empty}]
      /\ expect \in [Accounts -> Row \cup {Empty}]
      /\ \A u \in Accounts : users[u] # Empty => u <= nextAccount
      /\ nextAccount \in 0..MaxAccount
  BY Zenon DEF Typed, UsersOK
<1>3. /\ users' \in [Accounts -> Row \cup {Empty}]
      /\ expect' \in [Accounts -> Row \cup {Empty}]
  BY <1>1, <1>2, Zenon
<1>4. nextAccount' \in 0..MaxAccount /\ nextAccount < nextAccount'
  BY <1>1, <1>2, LinkAssumption, SMT DEF Accounts
<1>5. ASSUME NEW u \in Accounts, users'[u] # Empty PROVE u <= nextAccount'
  <2>1. CASE u = nextAccount + 1
    BY <1>1, <1>2, <2>1, SMT
  <2>2. CASE u # nextAccount + 1
    <3>1. users[u] # Empty
      BY <1>1, <1>2, <1>5, <2>2, Zenon
    <3>2. u <= nextAccount
      BY <1>2, <3>1, Zenon
    <3> QED
      BY <1>1, <1>2, <3>2, SMT DEF Accounts
  <2> QED
    BY <2>1, <2>2, Zenon
<1> QED
  BY <1>3, <1>4, <1>5, Zenon DEF UsersOK

(* What a handler saves is a row of a known account.                       *)
LEMMA Saving ==
    ASSUME Typed, NEW h \in Handlers, Save(h)
    PROVE  /\ local[h].account \in Accounts /\ local[h].account \in 1..nextAccount
           /\ local[h].seen \in Row /\ local[h].seen # Empty /\ IsWrite(local[h].write)
           /\ Overlay(local[h].seen, local[h].write) \in Row
<1> DEFINE l == local[h]
<1>1. pc[h] = "save"
  BY Zenon DEF Save
<1>2. /\ LabelOK("save", l) /\ IsWrite(l.write) /\ l.account \in 0..nextAccount
      /\ l.seen # Empty => l.seen \in Row /\ l.account # 0
  BY <1>1, HandlerFits, Zenon DEF Fits
<1>3. l.seen # Empty
  BY <1>2, Zenon DEF LabelOK
<1>4. nextAccount \in 0..MaxAccount
  BY Zenon DEF Typed, UsersOK
<1>5. l.account \in Accounts /\ l.account \in 1..nextAccount
  BY <1>2, <1>3, <1>4, LinkAssumption, SMT DEF Accounts
<1> QED
  BY <1>2, <1>3, <1>5, OverlayRow, Zenon

(* so does a save,                                                         *)
LEMMA SaveTyped ==
    ASSUME Typed, NEW h \in Handlers, Save(h)
    PROVE  UsersOK' /\ nextAccount' = nextAccount
<1> DEFINE l == local[h]
           a == l.account
<1>1. /\ users' = [users EXCEPT ![a] = Overlay(l.seen, l.write)]
      /\ expect' = [expect EXCEPT ![a] = IF expect[a] = Empty THEN Empty
                                         ELSE Overlay(expect[a], l.write)]
      /\ nextAccount' = nextAccount
  BY Zenon DEF Save, UpdateUser
<1>2. /\ users \in [Accounts -> Row \cup {Empty}]
      /\ expect \in [Accounts -> Row \cup {Empty}]
      /\ \A u \in Accounts : users[u] # Empty => u <= nextAccount
      /\ nextAccount \in 0..MaxAccount
  BY Zenon DEF Typed, UsersOK
<1>3. /\ a \in Accounts /\ a \in 1..nextAccount /\ IsWrite(l.write)
      /\ Overlay(l.seen, l.write) \in Row
  BY Saving, Zenon
<1>4. expect[a] # Empty => Overlay(expect[a], l.write) \in Row
  BY <1>2, <1>3, OverlayRow, Zenon
<1>5. users' \in [Accounts -> Row \cup {Empty}]
  BY <1>1, <1>2, <1>3, Zenon
<1>6. expect' \in [Accounts -> Row \cup {Empty}]
  BY <1>1, <1>2, <1>3, <1>4, Zenon
<1>7. ASSUME NEW u \in Accounts, users'[u] # Empty PROVE u <= nextAccount
  <2>1. CASE u = a
    BY <1>2, <1>3, <2>1, SMT
  <2>2. CASE u # a
    BY <1>1, <1>2, <1>7, <2>2, Zenon
  <2> QED
    BY <2>1, <2>2, Zenon
<1> QED
  BY <1>1, <1>2, <1>5, <1>6, <1>7, Zenon DEF UsersOK

(* and so does a deletion.                                                 *)
LEMMA EraseTyped ==
    ASSUME Typed, NEW h \in Handlers, Erase(h)
    PROVE  UsersOK' /\ nextAccount' = nextAccount
<1>1. /\ users' = [users EXCEPT ![local[h].account] = Empty]
      /\ expect' = [expect EXCEPT ![local[h].account] = Empty]
      /\ nextAccount' = nextAccount
  BY Zenon DEF Erase
<1>2. /\ users \in [Accounts -> Row \cup {Empty}]
      /\ expect \in [Accounts -> Row \cup {Empty}]
      /\ \A u \in Accounts : users[u] # Empty => u <= nextAccount
      /\ nextAccount \in 0..MaxAccount
  BY Zenon DEF Typed, UsersOK
<1>3. /\ users' \in [Accounts -> Row \cup {Empty}]
      /\ expect' \in [Accounts -> Row \cup {Empty}]
  BY <1>1, <1>2, Zenon
<1>4. \A u \in Accounts : users'[u] # Empty => users'[u] = users[u]
  BY <1>1, <1>2, Zenon
<1> QED
  BY <1>1, <1>2, <1>3, <1>4, Zenon DEF UsersOK

-----------------------------------------------------------------------------
(* Typed is inductive.                                                     *)
LEMMA TypedInit == Init => Typed
<1> SUFFICES ASSUME Init PROVE Typed
  OBVIOUS
<1> USE DEF Init
<1>1. UsersOK
  BY LinkAssumption, SMT DEF UsersOK, Accounts
<1>2. RequestsOK
  <2>1. NoRequest \in [id : 0..nextToken, token : 0..nextToken]
        /\ NoRequest.id = 0 /\ NoRequest.token = 0
    BY SMT DEF NoRequest
  <2>2. /\ \A e \in Emails, i \in Identifiers : requests[e][i] = NoRequest
        /\ requests \in [Emails -> [Identifiers -> {NoRequest}]]
    BY Zenon
  <2>3. requests \in [Emails -> [Identifiers -> [id : 0..nextToken, token : 0..nextToken]]]
    BY <2>1, <2>2, Zenon
  <2>4. nextToken \in 0..MaxToken /\ link = [t \in Tokens |-> link[t]]
    BY LinkAssumption, SMT
  <2> QED
    BY <2>1, <2>2, <2>3, <2>4, Zenon DEF RequestsOK
<1>3. LocalsOK
  <2>1. LocalOK("idle", Idle)
    BY IdleFits, SMT DEF LocalOK
  <2>2. "idle" \in Labels
    BY Zenon DEF Labels
  <2> QED
    BY <2>1, <2>2, Zenon DEF LocalsOK
<1>4. LinksOK
  BY Zenon DEF LinksOK
<1> QED
  BY <1>1, <1>2, <1>3, <1>4, Zenon DEF Typed

(* Which steps write which tables.                                         *)
LEMMA AccountSteps ==
    ASSUME NEW h \in Handlers, Step(h)
    PROVE  UNCHANGED accounts \/ CreateUser(h) \/ Save(h) \/ Erase(h)
BY Zenon DEF Step, AddUser, Unlink, UnlinkFails, Mint, MintFails, Consume, LookupFails,
             ResetLookup, SaveFails, Withhold, PassGate, Spend, SpendThenRefuse,
             SpendFails, Cleanup

(* Which steps change the requests and links,                              *)
LEMMA LinkSteps ==
    ASSUME NEW h \in Handlers, Step(h)
    PROVE  \/ UNCHANGED <<links, expired>> \/ Unlink(h) \/ Spend(h) \/ SpendThenRefuse(h)
           \/ Mint(h) \/ Cleanup(h)
BY Zenon DEF Step, AddUser, CreateUser, UnlinkFails, MintFails, Consume, LookupFails,
             ResetLookup, Save, SaveFails, Withhold, PassGate, SpendFails, Erase

(* and which the proofs.                                                   *)
LEMMA ProofSteps ==
    ASSUME NEW h \in Handlers, Step(h)
    PROVE  \/ UNCHANGED proofs \/ Save(h) \/ Withhold(h) \/ PassGate(h)
           \/ /\ proved \subseteq proved' /\ lapsed' \in {lapsed, lapsed \ {h}}
              /\ confirmed' = confirmed /\ pc[h] = "lookup"
              /\ UNCHANGED <<accounts, links, expired>>
<1>1. CASE Consume(h)
  <2>1. /\ lapsed' = lapsed \ {h} /\ confirmed' = confirmed /\ pc[h] = "lookup"
        /\ UNCHANGED <<accounts, links, expired>> /\ \E x : proved' = proved \cup {x}
    BY <1>1, Zenon DEF Consume
  <2> QED
    BY <2>1, Zenon
<1>2. CASE \E p \in Passwords : ResetLookup(h, p)
  <2>1. /\ lapsed' = lapsed /\ confirmed' = confirmed /\ pc[h] = "lookup"
        /\ UNCHANGED <<accounts, links, expired>> /\ \E x : proved' = proved \cup {x}
    BY <1>2, Zenon DEF ResetLookup
  <2> QED
    BY <2>1, Zenon
<1> QED
  BY <1>1, <1>2, Zenon DEF Step, AddUser, CreateUser, Unlink, UnlinkFails, Mint, MintFails,
       LookupFails, SaveFails, Spend, SpendThenRefuse, SpendFails, Erase, Cleanup

(* What a step leaves of accounts and links.                               *)
LEMMA StepState ==
    ASSUME Typed, NEW h \in Handlers, Step(h)
    PROVE  UsersOK' /\ RequestsOK' /\ LinksOK' /\ Grows
<1>0. nextAccount \in Nat /\ nextToken \in Nat
  BY SMT DEF Typed, UsersOK, RequestsOK
<1>1. UsersOK' /\ nextAccount <= nextAccount'
  <2>1. CASE UNCHANGED accounts
    BY <1>0, <2>1, AccountsStay, SMT
  <2>2. CASE CreateUser(h)
    <3>1. UsersOK' /\ nextAccount < nextAccount'
      BY <2>2, CreateTyped, Zenon
    <3>2. nextAccount' \in Nat
      BY <3>1, SMT DEF UsersOK
    <3>3. nextAccount <= nextAccount'
      BY <1>0, <3>1, <3>2, SMT
    <3> QED
      BY <3>1, <3>3, Zenon
  <2>3. CASE Save(h)
    BY <1>0, <2>3, SaveTyped, SMT
  <2>4. CASE Erase(h)
    BY <1>0, <2>4, EraseTyped, SMT
  <2>5. \/ UNCHANGED accounts \/ CreateUser(h) \/ Save(h) \/ Erase(h)
    BY AccountSteps, Zenon
  <2> QED
    BY <2>1, <2>2, <2>3, <2>4, <2>5, Zenon
<1>2. RequestsOK' /\ LinksOK' /\ nextToken <= nextToken'
      /\ \A t \in 1..nextToken : link'[t] = link[t]
  <2>1. CASE UNCHANGED <<links, expired>>
    <3>1. RequestsOK' /\ LinksOK' /\ nextToken' = nextToken /\ link' = link
      BY <2>1, LinksStay, Zenon DEF Typed, LinksOK
    <3> QED
      BY <1>0, <3>1, SMT
  <2>2. CASE Unlink(h) \/ Spend(h) \/ SpendThenRefuse(h)
    <3>1. pc[h] \in {"unlink", "spend"} /\ DeleteVerificationRequest(local[h])
          /\ UNCHANGED expired
      BY <2>2, Zenon DEF Unlink, Spend, SpendThenRefuse
    <3>2. KindOK(pc[h], local[h], link)
      BY HandlerFits, Zenon DEF Fits
    <3>3. local[h].id # 0
      BY <3>1, <3>2, SMT DEF KindOK, Redeems, Unlinks
    <3>4. RequestsOK' /\ LinksOK' /\ nextToken' = nextToken /\ link' = link
      BY <3>1, <3>3, DeleteTyped, Zenon
    <3> QED
      BY <1>0, <3>4, SMT
  <2>3. CASE Mint(h)
    <3>1. /\ pc[h] = "mint" /\ UNCHANGED expired
          /\ \E type : AddVerificationRequest(local[h].email, local[h].identifier, type)
      BY <2>3, Zenon DEF Mint
    <3>2. LabelOK("mint", local[h])
      BY <3>1, HandlerFits, Zenon DEF Fits
    <3>3. local[h].email \in Emails /\ local[h].identifier \in Identifiers
      BY <3>2, Zenon DEF LabelOK
    <3>4. RequestsOK' /\ LinksOK' /\ nextToken < nextToken'
          /\ \A t \in 1..nextToken : link'[t] = link[t]
      BY <3>1, <3>3, AddTyped, Zenon
    <3>5. nextToken' \in Nat
      BY <3>4, SMT DEF RequestsOK
    <3>6. nextToken <= nextToken'
      BY <1>0, <3>4, <3>5, SMT
    <3> QED
      BY <3>4, <3>6, Zenon
  <2>4. CASE Cleanup(h)
    <3>1. pc[h] = "cleanup" /\ UNCHANGED expired
      BY <2>4, Zenon DEF Cleanup
    <3>2. LabelOK("cleanup", local[h])
      BY <3>1, HandlerFits, Zenon DEF Fits
    <3>3. local[h].email \in Emails
      BY <3>2, Zenon DEF LabelOK
    <3> DEFINE hit == {local[h].email} \X Identifiers
    <3>4. /\ Clears(hit)
          /\ \/ owed' \subseteq owed /\ raced' = raced
             \/ owed' = owed /\ raced' = raced \cup (Gone(hit) \ {0})
      BY <2>4, <3>3, CleanupShape, Zenon
    <3>5. Gone(hit) \ {0} \subseteq 1..nextToken
      <4>1. ASSUME NEW x \in hit
            PROVE  requests[x[1]][x[2]].token \in 0..nextToken
        BY <3>3, RequestTyped, Zenon
      <4>2. Gone(hit) \subseteq 0..nextToken
        BY <4>1, Zenon DEF Gone
      <4> QED
        BY <1>0, <4>2, SMT
    <3> HIDE DEF hit
    <3>6. nextToken' = nextToken /\ link' = link
      BY <3>4, Zenon DEF Clears
    <3>7. LinksOK'
      BY <3>1, <3>4, <3>5, <3>6, Zenon DEF LinksOK, Typed
    <3>8. RequestsOK'
      BY <3>4, ClearTyped, Zenon
    <3> QED
      BY <1>0, <3>6, <3>7, <3>8, SMT
  <2>5. \/ UNCHANGED <<links, expired>> \/ Unlink(h) \/ Spend(h) \/ SpendThenRefuse(h)
        \/ Mint(h) \/ Cleanup(h)
    BY LinkSteps, Zenon
  <2> QED
    BY <2>1, <2>2, <2>3, <2>4, <2>5, Zenon
<1> QED
  BY <1>1, <1>2, Zenon DEF Grows

(* Every step keeps the types.                                             *)
LEMMA TypedStep == Typed /\ [Next]_vars => Typed'
<1> SUFFICES ASSUME Typed, [Next]_vars PROVE Typed'
  OBVIOUS
<1>1. ASSUME NEW h \in Handlers, Arrive(h) PROVE Typed'
  <2>1. Arrived(h)
    BY <1>1, ArriveMoves, Zenon
  <2>2. PICK label, l : At(h, label, l) /\ Drawn(label, l)
    BY <2>1, Zenon DEF Arrived
  <2>3. UsersOK' /\ nextAccount' = nextAccount
    BY <2>1, AccountsStay, Zenon DEF Arrived
  <2>4. RequestsOK' /\ LinksOK' /\ nextToken' = nextToken /\ link' = link
    BY <2>1, LinksStay, Zenon DEF Arrived
  <2>5. nextAccount \in Nat /\ nextToken \in Nat
    BY SMT DEF Typed, UsersOK, RequestsOK
  <2>6. Grows
    BY <2>3, <2>4, <2>5, SMT DEF Grows
  <2>7. label \in Labels /\ Fits(label, l, nextAccount', nextToken', link')
    BY <2>2, <2>3, <2>4, Zenon DEF Drawn, LocalOK, Labels
  <2>8. LocalsOK'
    BY <2>2, <2>3, <2>4, <2>5, <2>6, <2>7, MoveTyped, Zenon
  <2> QED
    BY <2>3, <2>4, <2>8, Zenon DEF Typed
<1>2. ASSUME NEW h \in Handlers, Step(h) PROVE Typed'
  <2>1. UsersOK' /\ RequestsOK' /\ LinksOK' /\ Grows
    BY <1>2, StepState, Zenon
  <2>2. PICK label, l : Goes(h, label, l)
    BY <1>2, StepMoves, Zenon
  <2>3. nextAccount' \in Nat /\ nextToken' \in Nat
    BY <2>1, SMT DEF UsersOK, RequestsOK
  <2>4. label \in Labels /\ At(h, label, l) /\ LocalOK(label, l)
    BY <2>2, Zenon DEF Goes
  <2>5. Fits(label, l, nextAccount', nextToken', link')
    BY <2>1, <2>3, <2>4, FitsKept, Zenon
  <2>6. LocalsOK'
    BY <2>1, <2>3, <2>4, <2>5, MoveTyped, Zenon
  <2> QED
    BY <2>1, <2>6, Zenon DEF Typed
<1>3. CASE UNCHANGED vars
  <2>1. /\ UNCHANGED accounts /\ UNCHANGED links /\ expired' = expired
        /\ pc' = pc /\ local' = local
    BY <1>3, Zenon DEF vars, accounts, links
  <2>2. UsersOK' /\ nextAccount' = nextAccount
    BY <2>1, AccountsStay, Zenon
  <2>3. RequestsOK' /\ LinksOK' /\ nextToken' = nextToken /\ link' = link
    BY <2>1, LinksStay, Zenon DEF Typed, LinksOK
  <2>4. LocalsOK'
    BY <2>1, <2>2, <2>3, Zenon DEF Typed, LocalsOK, LocalOK
  <2> QED
    BY <2>2, <2>3, <2>4, Zenon DEF Typed
<1> QED
  BY <1>1, <1>2, <1>3, Zenon DEF Next

(* The types of the proof imply the type invariant of the module.          *)
LEMMA TypedImplies == Typed => TypeOK
<1> SUFFICES ASSUME Typed PROVE TypeOK
  OBVIOUS
<1>1. nextToken \in 0..MaxToken /\ 0..nextToken \subseteq 0..MaxToken
      /\ 1..nextToken \subseteq Tokens
  BY LinkAssumption, SMT DEF Typed, RequestsOK, Tokens
<1>2. requests \in [Emails -> [Identifiers -> [id : 0..MaxToken, token : 0..MaxToken]]]
  <2>1. [id : 0..nextToken, token : 0..nextToken]
          \subseteq [id : 0..MaxToken, token : 0..MaxToken]
    BY <1>1, SMT
  <2> QED
    BY <2>1, Zenon DEF Typed, RequestsOK
<1> QED
  BY <1>1, <1>2, Zenon DEF Typed, UsersOK, LocalsOK, LinksOK, TypeOK

(* Hence the types always hold.                                            *)
LEMMA AlwaysTyped == Spec => []Typed
BY TypedInit, TypedStep, PTL DEF Spec

(* Every variable keeps its type, whatever handlers overlap.               *)
THEOREM AccountsAreTyped == Spec => []TypeOK
BY AlwaysTyped, TypedImplies, PTL

-----------------------------------------------------------------------------
(* Purposes.                                                               *)
LEMMA PurposeBound == Typed => PurposeIsBound
<1> SUFFICES ASSUME Typed, NEW h \in Handlers,
                    pc[h] \in {"save", "gate", "spend"}, local[h].token # 0
             PROVE  /\ local[h].seen.email = link[local[h].token].email
                    /\ (local[h].kind = "reset") <=> (link[local[h].token].type = "forgot")
  BY Zenon DEF PurposeIsBound
<1>1. KindOK(pc[h], local[h], link)
  BY HandlerFits, Zenon DEF Fits
<1>2. local[h].kind \in Redeems /\ pc[h] # "lookup"
  BY <1>1, SMT DEF KindOK, Redeems, Unlinks
<1> QED
  BY <1>1, <1>2, Zenon DEF KindOK

(* Whoever is about to set a password or to sign in holds a link of that   *)
(* purpose, mailed to the address of the row it read (verify_email_core.go *)
(* and reset_password.go), for any number of handlers and links.           *)
THEOREM PurposeIsAlwaysBound == Spec => []PurposeIsBound
BY AlwaysTyped, PurposeBound, PTL

-----------------------------------------------------------------------------
(* Columns.                                                                *)
LEMMA ColumnsStep ==
    ASSUME Typed, ColumnsAreKept, [Next]_vars
    PROVE  ColumnsAreKept'
<1>1. CASE UNCHANGED accounts
  BY <1>1, Zenon DEF ColumnsAreKept, accounts
<1>2. ASSUME NEW h \in Handlers, CreateUser(h) PROVE ColumnsAreKept'
  <2>1. PICK row \in Row :
             /\ users' = [users EXCEPT ![nextAccount + 1] = row]
             /\ expect' = [expect EXCEPT ![nextAccount + 1] = row]
             /\ stale' = stale
    BY <1>2, CreateShape, Zenon
  <2> QED
    BY <2>1, SMT DEF ColumnsAreKept, Typed, UsersOK
<1>3. ASSUME NEW h \in Handlers, Save(h) PROVE ColumnsAreKept'
  <2> DEFINE l == local[h]
             a == l.account
             row == Overlay(l.seen, l.write)
  <2>1. /\ users' = [users EXCEPT ![a] = row]
        /\ expect' = [expect EXCEPT ![a] = IF expect[a] = Empty THEN Empty
                                           ELSE Overlay(expect[a], l.write)]
        /\ stale' = IF users[a] = l.seen THEN stale ELSE stale \cup {a}
    BY <1>3, Zenon DEF Save, UpdateUser
  <2>2. a \in Accounts /\ l.seen # Empty
    BY <1>3, Saving, Zenon
  <2>3. ASSUME NEW u \in Accounts, users'[u] # expect'[u] PROVE u \in stale'
    <3>1. CASE u = a
      <4>1. CASE users[a] # l.seen
        BY <2>1, <3>1, <4>1, Zenon
      <4>2. CASE users[a] = l.seen /\ expect[a] = users[a]
        <5>1. users'[a] = row
          BY <2>1, <2>2, Zenon DEF Typed, UsersOK
        <5>2. expect'[a] = row
          BY <2>1, <2>2, <4>2, Zenon DEF Typed, UsersOK
        <5> QED
          BY <2>3, <3>1, <5>1, <5>2, Zenon
      <4>3. CASE users[a] = l.seen /\ expect[a] # users[a]
        BY <2>1, <2>2, <3>1, <4>3, Zenon DEF ColumnsAreKept
      <4> QED
        BY <4>1, <4>2, <4>3, Zenon
    <3>2. CASE u # a
      <4>1. users'[u] = users[u] /\ expect'[u] = expect[u]
        BY <2>1, <3>2, Zenon DEF Typed, UsersOK
      <4> QED
        BY <2>1, <2>3, <4>1, Zenon DEF ColumnsAreKept
    <3> QED
      BY <3>1, <3>2, Zenon
  <2> QED
    BY <2>3, Zenon DEF ColumnsAreKept
<1>4. ASSUME NEW h \in Handlers, Erase(h) PROVE ColumnsAreKept'
  <2>1. /\ users' = [users EXCEPT ![local[h].account] = Empty]
        /\ expect' = [expect EXCEPT ![local[h].account] = Empty]
        /\ stale' = stale
    BY <1>4, Zenon DEF Erase
  <2> QED
    BY <2>1, Zenon DEF ColumnsAreKept, Typed, UsersOK
<1>5. ASSUME NEW h \in Handlers, Arrive(h) PROVE UNCHANGED accounts
  BY <1>5, ArriveMoves, Zenon DEF Arrived
<1>6. UNCHANGED vars => UNCHANGED accounts
  BY Zenon DEF vars, accounts
<1> QED
  BY <1>1, <1>2, <1>3, <1>4, <1>5, <1>6, AccountSteps, Zenon DEF Next

(* Although UpdateUser writes whole rows, an account has in each column    *)
(* what the last operation on that column wrote, unless a handler saved a  *)
(* row that had changed since it was read.                                 *)
THEOREM ColumnsAreAlwaysKept == Spec => []ColumnsAreKept
<1>1. Init => ColumnsAreKept
  BY Zenon DEF Init, ColumnsAreKept
<1>2. Typed /\ ColumnsAreKept /\ [Next]_vars => ColumnsAreKept'
  BY ColumnsStep
<1> QED
  BY <1>1, <1>2, AlwaysTyped, PTL DEF Spec

-----------------------------------------------------------------------------
(* Verified addresses.                                                     *)
LEMMA MovedTo ==
    ASSUME Typed, NEW h \in Handlers, NEW label, NEW l, At(h, label, l)
    PROVE  /\ pc'[h] = label /\ local'[h] = l
           /\ \A g \in Handlers : g # h => pc'[g] = pc[g] /\ local'[g] = local[g]
<1>1. pc \in [Handlers -> Labels] /\ local = [g \in Handlers |-> local[g]]
  BY Zenon DEF Typed, LocalsOK
<1> QED
  BY <1>1, Zenon DEF At

(* One handler moves and the proofs only grow: all stay backed.            *)
LEMMA BackedMoves ==
    ASSUME Typed, ProvedInv, proved \subseteq proved', NEW h \in Handlers,
           NEW label, NEW l, At(h, label, l), Backed(l, proved'), VerifiedMeansProved'
    PROVE  ProvedInv'
<1>1. ASSUME NEW g \in Handlers PROVE Backed(local'[g], proved')
  <2>1. CASE g = h
    BY <2>1, MovedTo, Zenon
  <2>2. CASE g # h
    <3>1. local'[g] = local[g] /\ Backed(local[g], proved)
      BY <2>2, MovedTo, Zenon DEF ProvedInv
    <3> QED
      BY <3>1, Zenon DEF Backed
  <2> QED
    BY <2>1, <2>2, Zenon
<1> QED
  BY <1>1, Zenon DEF ProvedInv

(* An idle handler has nothing to back.                                    *)
LEMMA IdleBacked == \A p : Backed(Idle, p)
<1>1. Idle.seen = Empty /\ Idle.write = <<>>
  BY SMT DEF Idle
<1> QED
  BY <1>1, NoWrite, Zenon DEF Backed

(* No handler arrives with a verifying write, but the administrator's.     *)
LEMMA ArriveBacked ==
    ASSUME Typed, ProvedInv, NEW label, NEW l, Drawn(label, l)
    PROVE  Backed(l, proved)
<1>1. /\ l.seen # Empty => l.seen = users[l.account] /\ l.account # 0
      /\ l.account \in 0..nextAccount /\ (Sets(l.write, TRUE) => l.kind = "admin")
  BY Zenon DEF Drawn, LocalOK, Fits
<1>2. nextAccount \in 0..MaxAccount
  BY Zenon DEF Typed, UsersOK
<1>3. l.account # 0 => l.account \in Accounts
  BY <1>1, <1>2, LinkAssumption, SMT DEF Accounts
<1>4. VerifiedMeansProved
  BY Zenon DEF ProvedInv
<1> QED
  BY <1>1, <1>3, <1>4, Zenon DEF Backed, VerifiedMeansProved

(* A handler that takes a verifying write proved the address first.        *)
LEMMA GoesBacked ==
    ASSUME Typed, ProvedInv, proved \subseteq proved', NEW h \in Handlers,
           NEW label, NEW l, Goes(h, label, l)
    PROVE  Backed(l, proved')
<1>1. CASE l = Idle
  BY <1>1, IdleBacked, Zenon
<1>2. CASE l = local[h]
  BY <1>2, Zenon DEF ProvedInv, Backed
<1>3. CASE Reads(h, label, l)
  BY <1>3, Zenon DEF Reads, Backed
<1> QED
  BY <1>1, <1>2, <1>3, Zenon DEF Goes, Continues

(* A saved row is verified only if it was read so or the handler sets the  *)
(* flag, and then its address is the one it was proved for.                *)
LEMMA SavedRow ==
    ASSUME NEW row \in Row, NEW w, IsWrite(w), Overlay(row, w).verified
    PROVE  /\ Overlay(row, w).email = row.email
           /\ Sets(w, TRUE) \/ row.verified
<1>1. ~Sets(w, FALSE)
  <2>1. Sets(w, FALSE) => Overlay(row, w).verified = FALSE
    BY OverlayRow, Zenon
  <2> QED
    BY <2>1, Zenon
<1>2. "email" \notin DOMAIN w
  BY <1>1, Zenon DEF IsWrite
<1>3. Overlay(row, w).email = row.email
  BY <1>2, OverlayRow, Zenon
<1>4. CASE "verified" \in DOMAIN w
  <2>1. Value("verified", w["verified"])
    BY <1>4, Zenon DEF IsWrite
  <2>2. w["verified"] \in BOOLEAN
    BY <2>1, SMT DEF Value
  <2>3. Sets(w, TRUE) \/ Sets(w, FALSE)
    BY <1>4, <2>2, SMT DEF Sets
  <2> QED
    BY <1>1, <1>3, <2>3, Zenon
<1>5. CASE "verified" \notin DOMAIN w
  <2>1. Overlay(row, w).verified = row.verified
    BY <1>5, OverlayRow, Zenon
  <2> QED
    BY <1>3, <2>1, Zenon
<1> QED
  BY <1>4, <1>5, Zenon

(* So the row it saves is verified only with a proof.                      *)
LEMMA SaveProved ==
    ASSUME Typed, ProvedInv, NEW h \in Handlers, Save(h)
    PROVE  VerifiedMeansProved' /\ proved \subseteq proved'
<1> DEFINE l == local[h]
           a == l.account
           row == Overlay(l.seen, l.write)
<1>1. /\ users' = [users EXCEPT ![a] = row]
      /\ proved' = IF l.kind = "admin" /\ Sets(l.write, TRUE)
                   THEN proved \cup {<<a, row.email>>} ELSE proved
  BY Zenon DEF Save, UpdateUser
<1>2. a \in Accounts /\ l.seen \in Row /\ l.seen # Empty /\ IsWrite(l.write)
  BY Saving, Zenon
<1>3. proved \subseteq proved'
  BY <1>1, Zenon
<1>4. ASSUME NEW u \in Accounts, users'[u] # Empty, users'[u].verified
      PROVE  <<u, users'[u].email>> \in proved'
  <2>1. CASE u # a
    <3>1. users'[u] = users[u]
      BY <1>1, <2>1, Zenon DEF Typed, UsersOK
    <3>2. VerifiedMeansProved
      BY Zenon DEF ProvedInv
    <3> QED
      BY <1>3, <1>4, <3>1, <3>2, Zenon DEF VerifiedMeansProved
  <2>2. CASE u = a
    <3>1. users'[u] = row
      BY <1>1, <1>2, <2>2, Zenon DEF Typed, UsersOK
    <3>2. row.verified
      BY <1>4, <3>1, Zenon
    <3>3. row.email = l.seen.email /\ (Sets(l.write, TRUE) \/ l.seen.verified)
      BY <1>2, <3>2, SavedRow, Zenon
    <3>4. Backed(l, proved)
      BY Zenon DEF ProvedInv
    <3>5. CASE l.kind = "admin" /\ Sets(l.write, TRUE)
      <4>1. <<a, row.email>> \in proved'
        BY <1>1, <3>5, Zenon
      <4>2. users'[u].email = row.email
        BY <3>1, Zenon
      <4> QED
        BY <2>2, <4>1, <4>2, Zenon
    <3>6. CASE ~(l.kind = "admin" /\ Sets(l.write, TRUE))
      <4>1. <<a, l.seen.email>> \in proved
        BY <1>2, <3>3, <3>4, <3>6, Zenon DEF Backed
      <4> QED
        BY <1>3, <2>2, <3>1, <3>3, <4>1, Zenon
    <3> QED
      BY <3>5, <3>6, Zenon
  <2> QED
    BY <2>1, <2>2, Zenon
<1> QED
  BY <1>3, <1>4, Zenon DEF VerifiedMeansProved

(* Every step keeps ProvedInv.                                             *)
LEMMA ProvedStep ==
    ASSUME Typed, ProvedInv, [Next]_vars
    PROVE  ProvedInv'
<1>0. VerifiedMeansProved
  BY Zenon DEF ProvedInv
<1>1. ASSUME UNCHANGED accounts, proved \subseteq proved' PROVE VerifiedMeansProved'
  BY <1>0, <1>1, Zenon DEF VerifiedMeansProved, accounts
<1>2. ASSUME NEW h \in Handlers, Arrive(h) PROVE ProvedInv'
  <2>1. Arrived(h)
    BY <1>2, ArriveMoves, Zenon
  <2>2. PICK label, l : At(h, label, l) /\ Drawn(label, l)
    BY <2>1, Zenon DEF Arrived
  <2>3. UNCHANGED accounts /\ proved' = proved
    BY <2>1, Zenon DEF Arrived, proofs
  <2>4. Backed(l, proved')
    BY <2>2, <2>3, ArriveBacked, Zenon
  <2>5. VerifiedMeansProved' /\ proved \subseteq proved'
    BY <1>1, <2>3, Zenon
  <2> QED
    BY <2>2, <2>4, <2>5, BackedMoves, Zenon
<1>3. ASSUME NEW h \in Handlers, Step(h) PROVE ProvedInv'
  <2>1. proved \subseteq proved' /\ VerifiedMeansProved'
    <3>1. CASE Save(h)
      BY <3>1, SaveProved, Zenon
    <3>2. CASE ~Save(h)
      <4>1. proved \subseteq proved'
        BY <1>3, <3>2, ProofSteps, Zenon DEF proofs, Withhold, PassGate, Accept
      <4>2. CASE UNCHANGED accounts
        BY <1>1, <4>1, <4>2, Zenon
      <4>3. CASE CreateUser(h)
        <5>1. PICK row \in Row : /\ row.verified = FALSE
                                 /\ users' = [users EXCEPT ![nextAccount + 1] = row]
          BY <4>3, CreateShape, Zenon
        <5>2. ASSUME NEW u \in Accounts, users'[u].verified PROVE users'[u] = users[u]
          BY <5>1, <5>2, Zenon DEF Typed, UsersOK
        <5> QED
          BY <1>0, <4>1, <5>2, Zenon DEF VerifiedMeansProved
      <4>4. CASE Erase(h)
        <5>1. users' = [users EXCEPT ![local[h].account] = Empty]
          BY <4>4, Zenon DEF Erase
        <5>2. ASSUME NEW u \in Accounts, users'[u] # Empty PROVE users'[u] = users[u]
          BY <5>1, <5>2, Zenon DEF Typed, UsersOK
        <5> QED
          BY <1>0, <4>1, <5>2, Zenon DEF VerifiedMeansProved
      <4> QED
        BY <1>3, <3>2, <4>2, <4>3, <4>4, AccountSteps, Zenon
    <3> QED
      BY <3>1, <3>2, Zenon
  <2>2. PICK label, l : Goes(h, label, l)
    BY <1>3, StepMoves, Zenon
  <2>3. Backed(l, proved') /\ At(h, label, l)
    BY <2>1, <2>2, GoesBacked, Zenon DEF Goes
  <2> QED
    BY <2>1, <2>3, BackedMoves, Zenon
<1>4. CASE UNCHANGED vars
  <2>1. UNCHANGED accounts /\ local' = local /\ proved' = proved
    BY <1>4, Zenon DEF vars, accounts
  <2> QED
    BY <1>1, <2>1, Zenon DEF ProvedInv
<1> QED
  BY <1>2, <1>3, <1>4, Zenon DEF Next

(* An address is verified only if a link mailed to it was accepted for the *)
(* account or an administrator set the flag, however many handlers write   *)
(* back rows they read before.                                             *)
THEOREM VerifiedAlwaysMeansProved == Spec => []VerifiedMeansProved
<1>1. Init => ProvedInv
  BY IdleBacked, Zenon DEF Init, ProvedInv, VerifiedMeansProved
<1>2. Typed /\ ProvedInv /\ [Next]_vars => ProvedInv'
  BY ProvedStep
<1>3. ProvedInv => VerifiedMeansProved
  BY DEF ProvedInv
<1> QED
  BY <1>1, <1>2, <1>3, AlwaysTyped, PTL DEF Spec

-----------------------------------------------------------------------------
(* Accepted links.                                                         *)
LEMMA KeptSave ==
    ASSUME Typed, NEW h \in Handlers, Save(h), NEW a, NEW e, Kept(a, e), a \in Accounts,
           a = local[h].account => ~Sets(local[h].write, FALSE)
    PROVE  Kept(a, e)'
<1> DEFINE l == local[h]
           row == Overlay(l.seen, l.write)
<1>1. /\ users' = [users EXCEPT ![l.account] = row]
      /\ stale' = IF users[l.account] = l.seen THEN stale ELSE stale \cup {l.account}
  BY Zenon DEF Save, UpdateUser
<1>2. l.account \in Accounts /\ l.seen \in Row /\ l.seen # Empty /\ IsWrite(l.write)
  BY Saving, Zenon
<1>3. CASE a # l.account
  <2>1. users'[a] = users[a] /\ (a \in stale => a \in stale')
    BY <1>1, <1>3, Zenon DEF Typed, UsersOK
  <2> QED
    BY <2>1, Zenon DEF Kept
<1>4. CASE a = l.account /\ users[a] # l.seen
  BY <1>1, <1>4, Zenon DEF Kept
<1>5. CASE a = l.account /\ users[a] = l.seen
  <2>1. users'[a] = row /\ stale' = stale
    BY <1>1, <1>2, <1>5, Zenon DEF Typed, UsersOK
  <2>2. ~Sets(l.write, FALSE)
    BY <1>5, Zenon
  <2>3. "email" \notin DOMAIN l.write
    BY <1>2, <2>2, Zenon DEF IsWrite
  <2>4. row.email = l.seen.email
    BY <1>2, <2>3, OverlayRow, Zenon
  <2>5. row.verified \/ row.verified = l.seen.verified
    <3>1. CASE "verified" \in DOMAIN l.write
      <4>1. Value("verified", l.write["verified"])
        BY <1>2, <3>1, Zenon DEF IsWrite
      <4>2. l.write["verified"] \in BOOLEAN
        BY <4>1, SMT DEF Value
      <4>3. Sets(l.write, TRUE)
        BY <2>2, <3>1, <4>2, SMT DEF Sets
      <4>4. row.verified = TRUE
        BY <1>2, <4>3, OverlayRow, Zenon
      <4> QED
        BY <4>4, Zenon
    <3>2. CASE "verified" \notin DOMAIN l.write
      BY <1>2, <3>2, OverlayRow, Zenon
    <3> QED
      BY <3>1, <3>2, Zenon
  <2> HIDE DEF row
  <2> QED
    BY <1>2, <1>5, <2>1, <2>4, <2>5, Zenon DEF Kept
<1> QED
  BY <1>3, <1>4, <1>5, Zenon

(* Only a save that clears the flag can undo what is kept.                 *)
LEMMA KeptStep ==
    ASSUME Typed, NEW h \in Handlers, Step(h), NEW a \in 1..nextAccount, NEW e, Kept(a, e),
           Save(h) /\ a = local[h].account => ~Sets(local[h].write, FALSE)
    PROVE  Kept(a, e)'
<1>1. a \in Accounts /\ a # nextAccount + 1
  BY LinkAssumption, SMT DEF Accounts, Typed, UsersOK
<1>2. CASE UNCHANGED accounts
  BY <1>2, Zenon DEF Kept, accounts
<1>3. CASE CreateUser(h)
  <2>1. users'[a] = users[a] /\ stale' = stale
    BY <1>1, <1>3, CreateShape, Zenon DEF Typed, UsersOK
  <2> QED
    BY <2>1, Zenon DEF Kept
<1>4. CASE Save(h)
  BY <1>1, <1>4, KeptSave, Zenon
<1>5. CASE Erase(h)
  <2>1. (users'[a] = users[a] \/ users'[a] = Empty) /\ stale' = stale
    BY <1>1, <1>5, Zenon DEF Erase, Typed, UsersOK
  <2> QED
    BY <2>1, Zenon DEF Kept
<1> QED
  BY <1>2, <1>3, <1>4, <1>5, AccountSteps, Zenon

(* A handler whose link has been accepted: the account it read, then kept. *)
LEMMA GateAccount ==
    ASSUME Typed, NEW h \in Handlers, pc[h] = "gate"
    PROVE  local[h].account \in 1..nextAccount
<1>1. KindOK("gate", local[h], link) /\ local[h].account \in 0..nextAccount
      /\ (local[h].seen # Empty => local[h].account # 0)
  BY HandlerFits, Zenon DEF Fits
<1>2. local[h].seen # Empty
  BY <1>1, SMT DEF KindOK, Redeems, Unlinks
<1>3. nextAccount \in Nat
  BY SMT DEF Typed, UsersOK
<1> QED
  BY <1>1, <1>2, <1>3, SMT

(* Which steps change lapsed,                                              *)
LEMMA LapsedSteps ==
    ASSUME NEW h \in Handlers, Step(h), NEW g \in Handlers, g # h, g \notin lapsed'
    PROVE  /\ g \notin lapsed
           /\ Save(h) /\ local[g].account = local[h].account
                => ~Sets(local[h].write, FALSE)
<1>1. CASE Save(h)
  <2>1. lapsed' = IF Sets(local[h].write, FALSE)
                  THEN lapsed \cup {k \in Handlers \ {h} :
                                      local[k].account = local[h].account}
                  ELSE lapsed
    BY <1>1, Zenon DEF Save
  <2> QED
    BY <2>1, Zenon
<1>2. CASE ~Save(h)
  <2>1. lapsed' \in {lapsed, lapsed \ {h}}
    BY <1>2, ProofSteps, Zenon DEF proofs, Withhold, PassGate, Accept
  <2> QED
    BY <1>2, <2>1, Zenon
<1> QED
  BY <1>1, <1>2, Zenon

(* which confirm an address,                                               *)
LEMMA ConfirmedSteps ==
    ASSUME NEW h \in Handlers, Step(h), NEW x \in confirmed'
    PROVE  \/ x \in confirmed /\ (Save(h) /\ x[1] = local[h].account
                                    => ~Sets(local[h].write, FALSE))
           \/ /\ ~Save(h) /\ pc[h] = "gate" /\ h \notin lapsed
              /\ x = <<local[h].account, local[h].seen.email>>
<1>1. CASE Save(h)
  <2>1. confirmed' = IF Sets(local[h].write, FALSE)
                     THEN {y \in confirmed : y[1] # local[h].account} ELSE confirmed
    BY <1>1, Zenon DEF Save
  <2> QED
    BY <2>1, Zenon
<1>2. CASE ~Save(h) /\ (Withhold(h) \/ PassGate(h))
  BY <1>2, Zenon DEF Withhold, PassGate, Accept
<1>3. CASE ~Save(h) /\ ~Withhold(h) /\ ~PassGate(h)
  <2>1. confirmed' = confirmed
    BY <1>3, ProofSteps, Zenon DEF proofs
  <2> QED
    BY <1>3, <2>1, Zenon
<1> QED
  BY <1>1, <1>2, <1>3, Zenon

(* and what a save does to the proofs.                                     *)
LEMMA SaveSteps ==
    ASSUME NEW h \in Handlers, Step(h), pc[h] = "save"
    PROVE  Save(h) \/ Finish(h)
BY Zenon DEF Step, AddUser, CreateUser, Unlink, UnlinkFails, Mint, MintFails, Consume,
             LookupFails, ResetLookup, SaveFails, Withhold, PassGate, Spend,
             SpendThenRefuse, SpendFails, Erase, Cleanup

(* A step confirms nothing but what a redeemer saved or saw verified.      *)
LEMMA StepConfirmed ==
    ASSUME Typed, KeptInv, NEW h \in Handlers, Step(h), NEW x \in confirmed'
    PROVE  x[1] \in 1..nextAccount' /\ Kept(x[1], x[2])'
<1>1. x[1] \in 1..nextAccount /\ Kept(x[1], x[2])
      /\ (Save(h) /\ x[1] = local[h].account => ~Sets(local[h].write, FALSE))
  <2>1. CASE x \in confirmed /\ (Save(h) /\ x[1] = local[h].account
                                   => ~Sets(local[h].write, FALSE))
    BY <2>1, Zenon DEF KeptInv
  <2>2. CASE /\ ~Save(h) /\ pc[h] = "gate" /\ h \notin lapsed
             /\ x = <<local[h].account, local[h].seen.email>>
    <3>1. x[1] = local[h].account /\ x[2] = local[h].seen.email
      BY <2>2, SMT
    <3>2. Kept(local[h].account, local[h].seen.email)
      BY <2>2, Zenon DEF KeptInv
    <3> QED
      BY <2>2, <3>1, <3>2, GateAccount, Zenon
  <2> QED
    BY <2>1, <2>2, ConfirmedSteps, Zenon
<1>2. nextAccount \in Nat /\ nextAccount' \in Nat /\ nextAccount <= nextAccount'
  BY StepState, SMT DEF Grows, Typed, UsersOK
<1>3. x[1] \in 1..nextAccount'
  BY <1>1, <1>2, SMT
<1>4. ASSUME NEW a, NEW e, a = x[1], e = x[2] PROVE Kept(a, e)'
  BY <1>1, <1>4, KeptStep, Zenon
<1>5. Kept(x[1], x[2])'
  BY <1>4, Zenon
<1> QED
  BY <1>3, <1>5, Zenon

(* A handler enters the gate with its address verified or already kept.    *)
LEMMA StepGate ==
    ASSUME Typed, KeptInv, NEW h \in Handlers, Step(h), NEW g \in Handlers,
           pc'[g] = "gate", g \notin lapsed', NEW a, NEW e,
           a = local'[g].account, e = local'[g].seen.email
    PROVE  Kept(a, e)'
<1>1. PICK label, l : Goes(h, label, l)
  BY StepMoves, Zenon
<1>2. At(h, label, l) /\ LocalOK(label, l)
  BY <1>1, Zenon DEF Goes
<1>3. CASE g # h
  <2>1. pc[g] = "gate" /\ local'[g] = local[g]
    BY <1>2, <1>3, MovedTo, Zenon
  <2>2. /\ g \notin lapsed
        /\ Save(h) /\ a = local[h].account => ~Sets(local[h].write, FALSE)
    BY <1>3, <2>1, LapsedSteps, Zenon
  <2>3. Kept(a, e) /\ a \in 1..nextAccount
    BY <2>1, <2>2, GateAccount, Zenon DEF KeptInv
  <2> QED
    BY <2>2, <2>3, KeptStep, Zenon
<1>4. CASE g = h
  <2>1. label = "gate" /\ local'[h] = l
    BY <1>2, <1>4, MovedTo, Zenon
  <2>2. CASE Continues(h, label, l)
    <3>1. pc[h] = "save" /\ l = local[h]
      BY <2>1, <2>2, Zenon DEF Continues
    <3>2. ~Finish(h)
      <4>1. Finish(h) => pc'[h] = "idle"
        BY MovedTo, Zenon DEF Finish, Goto
      <4> QED
        BY <1>4, <4>1, SMT
    <3>3. Save(h)
      BY <3>1, <3>2, SaveSteps, Zenon
    <3>4. l.kind \in Redeems
      <4>1. KindOK("gate", l, link)
        BY <1>2, <2>1, Zenon DEF LocalOK, Fits
      <4> QED
        BY <4>1, SMT DEF KindOK, Redeems, Unlinks
    <3>5. Sets(l.write, TRUE)
      BY <3>1, <3>4, Zenon DEF KeptInv
    <3>6. l.account \in Accounts /\ l.seen \in Row /\ IsWrite(l.write)
      BY <3>1, <3>3, Saving, Zenon
    <3>7. Overlay(l.seen, l.write).verified = TRUE
      BY <3>5, <3>6, OverlayRow, Zenon
    <3>8. users' = [users EXCEPT ![l.account] = Overlay(l.seen, l.write)]
      BY <3>1, <3>3, Zenon DEF Save, UpdateUser
    <3>9. users'[a] = Overlay(l.seen, l.write)
      BY <1>4, <2>1, <3>6, <3>8, Zenon DEF Typed, UsersOK
    <3> QED
      BY <3>7, <3>9, Zenon DEF Kept
  <2>3. CASE Reads(h, label, l)
    <3>1. l.seen = users[l.account] /\ l.seen.verified /\ UNCHANGED accounts
      BY <2>1, <2>3, Zenon DEF Reads
    <3>2. users'[a] = l.seen
      BY <1>4, <2>1, <3>1, Zenon DEF accounts
    <3> QED
      BY <3>1, <3>2, Zenon DEF Kept
  <2>4. label # "idle"
    BY <2>1, SMT
  <2> QED
    BY <1>1, <2>2, <2>3, <2>4, Zenon DEF Goes
<1> QED
  BY <1>3, <1>4, Zenon

(* Saving for a redemption sets the flag.                                  *)
SaveProves(label, l) == label = "save" /\ l.kind \in Redeems => Sets(l.write, TRUE)

(* A handler that moves on keeps the write that proves.                    *)
LEMMA MoveProves ==
    ASSUME Typed, KeptInv, NEW h \in Handlers, NEW label, NEW l, At(h, label, l),
           SaveProves(label, l), NEW g \in Handlers
    PROVE  SaveProves(pc'[g], local'[g])
<1>1. CASE g = h
  BY <1>1, MovedTo, Zenon
<1>2. CASE g # h
  BY <1>2, MovedTo, Zenon DEF SaveProves, KeptInv
<1> QED
  BY <1>1, <1>2, Zenon

(* Every step keeps KeptInv.                                               *)
LEMMA KeptInvStep ==
    ASSUME Typed, KeptInv, [Next]_vars
    PROVE  KeptInv'
<1>1. ASSUME NEW h \in Handlers, Arrive(h) PROVE KeptInv'
  <2>1. Arrived(h)
    BY <1>1, ArriveMoves, Zenon
  <2>2. PICK label, l : At(h, label, l) /\ Drawn(label, l)
    BY <2>1, Zenon DEF Arrived
  <2>3. /\ users' = users /\ stale' = stale /\ nextAccount' = nextAccount
        /\ confirmed' = confirmed /\ lapsed' = lapsed
    BY <2>1, Zenon DEF Arrived, accounts, proofs
  <2>4. label # "gate" /\ SaveProves(label, l)
    <3>1. label \in {"add", "save", "mint", "unlink", "lookup", "erase"}
      BY <2>2, Zenon DEF Drawn
    <3>2. label # "gate"
      BY <3>1, SMT
    <3> QED
      BY <2>2, <3>2, Zenon DEF Drawn, SaveProves
  <2>5. \A g \in Handlers : pc'[g] = "gate" => pc[g] = "gate" /\ local'[g] = local[g]
    BY <2>2, <2>4, MovedTo, Zenon
  <2>6. \A g \in Handlers : SaveProves(pc'[g], local'[g])
    BY <2>2, <2>4, MoveProves, Zenon
  <2>7. ASSUME NEW g \in Handlers, pc'[g] = "gate", g \notin lapsed'
        PROVE  Kept(local[g].account, local[g].seen.email)'
    <3>1. Kept(local[g].account, local[g].seen.email) /\ local'[g] = local[g]
      BY <2>3, <2>5, <2>7, Zenon DEF KeptInv
    <3> QED
      BY <2>3, <3>1, Zenon DEF Kept
  <2>8. \A x \in confirmed' : x[1] \in 1..nextAccount' /\ Kept(x[1], x[2])'
    BY <2>3, Zenon DEF KeptInv, Kept
  <2> QED
    BY <2>6, <2>7, <2>8, Zenon DEF KeptInv, SaveProves
<1>2. ASSUME NEW h \in Handlers, Step(h) PROVE KeptInv'
  <2>1. PICK label, l : Goes(h, label, l)
    BY <1>2, StepMoves, Zenon
  <2>2. At(h, label, l)
    BY <2>1, Zenon DEF Goes
  <2>3. SaveProves(label, l)
    <3>1. label = "idle" => label # "save"
      BY SMT
    <3> QED
      BY <2>1, <3>1, Zenon DEF Goes, Continues, Reads, SaveProves
  <2>4. \A g \in Handlers : SaveProves(pc'[g], local'[g])
    BY <2>2, <2>3, MoveProves, Zenon
  <2>5. ASSUME NEW g \in Handlers, pc'[g] = "gate", g \notin lapsed'
        PROVE  Kept(local[g].account, local[g].seen.email)'
    <3>1. ASSUME NEW a, NEW e, a = local'[g].account, e = local'[g].seen.email
          PROVE  Kept(a, e)'
      BY <1>2, <2>5, <3>1, StepGate, Zenon
    <3> QED
      BY <3>1, Zenon
  <2>6. \A x \in confirmed' : x[1] \in 1..nextAccount' /\ Kept(x[1], x[2])'
    BY <1>2, StepConfirmed, Zenon
  <2> QED
    BY <2>4, <2>5, <2>6, Zenon DEF KeptInv, SaveProves
<1>3. CASE UNCHANGED vars
  <2>1. /\ users' = users /\ stale' = stale /\ nextAccount' = nextAccount
        /\ confirmed' = confirmed /\ lapsed' = lapsed /\ pc' = pc /\ local' = local
    BY <1>3, Zenon DEF vars
  <2> QED
    BY <2>1, Zenon DEF KeptInv, Kept
<1> QED
  BY <1>1, <1>2, <1>3, Zenon DEF Next

(* And KeptInv gives the property.                                         *)
LEMMA KeptImplies == Typed /\ KeptInv => ProofIsKept
BY Zenon DEF KeptInv, Kept, ProofIsKept

(* Once a link was accepted the address stays verified, also when the      *)
(* multi-factor gate then withholds the session, until the address is      *)
(* changed or the flag is cleared; only a stale save undoes it.            *)
THEOREM ProofIsAlwaysKept == Spec => []ProofIsKept
<1>1. Init => KeptInv
  <2>1. "idle" # "gate" /\ "idle" # "save"
    BY SMT
  <2> QED
    BY <2>1, Zenon DEF Init, KeptInv
<1>2. Typed /\ KeptInv /\ [Next]_vars => KeptInv'
  BY KeptInvStep
<1> QED
  BY <1>1, <1>2, KeptImplies, AlwaysTyped, PTL DEF Spec

-----------------------------------------------------------------------------
(* Open links.                                                             *)
LEMMA OpenMeans ==
    ASSUME NEW t
    PROVE  t \in OpenTokens <=>
             t # 0 /\ \E e \in Emails, i \in Identifiers : requests[e][i].token = t
BY SMT DEF OpenTokens

(* The same in the next state.                                             *)
LEMMA OpenMeansPrimed ==
    ASSUME NEW t
    PROVE  t \in OpenTokens' <=>
             t # 0 /\ \E e \in Emails, i \in Identifiers : requests'[e][i].token = t
BY SMT DEF OpenTokens

(* Deleting closes the tokens of the deleted rows and no other.            *)
LEMMA ClearOpens ==
    ASSUME Typed, NEW hit \in SUBSET (Emails \X Identifiers), Clears(hit)
    PROVE  OpenTokens' = OpenTokens \ Gone(hit)
<1>1. \A e \in Emails, i \in Identifiers :
        requests'[e][i] = IF <<e, i>> \in hit THEN NoRequest ELSE requests[e][i]
  BY Zenon DEF Clears
<1>2. NoRequest.token = 0
  BY SMT DEF NoRequest
<1>3. ASSUME NEW t \in OpenTokens' PROVE t \in OpenTokens \ Gone(hit)
  <2>1. PICK e \in Emails, i \in Identifiers : t # 0 /\ requests'[e][i].token = t
    BY <1>3, OpenMeansPrimed, Zenon
  <2>2. <<e, i>> \notin hit /\ requests[e][i].token = t
    BY <1>1, <1>2, <2>1, Zenon
  <2>3. t \in OpenTokens
    BY <2>1, <2>2, OpenMeans, Zenon
  <2>4. ASSUME NEW x \in hit, t = requests[x[1]][x[2]].token PROVE FALSE
    <3>1. x[1] \in Emails /\ x[2] \in Identifiers /\ x = <<x[1], x[2]>>
      BY SMT
    <3>2. e = x[1] /\ i = x[2]
      BY <2>1, <2>2, <2>4, <3>1, OneKeyPerToken, SMT
    <3> QED
      BY <2>2, <3>1, <3>2, Zenon
  <2> QED
    BY <2>3, <2>4, Zenon DEF Gone
<1>4. ASSUME NEW t \in OpenTokens, t \notin Gone(hit) PROVE t \in OpenTokens'
  <2>1. PICK e \in Emails, i \in Identifiers : t # 0 /\ requests[e][i].token = t
    BY <1>4, OpenMeans, Zenon
  <2>2. <<e, i>> \notin hit
    <3>1. <<e, i>>[1] = e /\ <<e, i>>[2] = i
      BY SMT
    <3>2. <<e, i>> \in hit => requests[e][i].token \in Gone(hit)
      BY <3>1, SMT DEF Gone
    <3> QED
      BY <1>4, <2>1, <3>2, Zenon
  <2>3. requests'[e][i].token = t
    BY <1>1, <2>1, <2>2, Zenon
  <2> QED
    BY <2>1, <2>3, OpenMeansPrimed, Zenon
<1> QED
  BY <1>3, <1>4, Zenon

(* A new link opens, and closes the one it replaces.                       *)
LEMMA AddOpens ==
    ASSUME Typed, LinksInv, NEW e \in Emails, NEW i \in Identifiers, NEW type,
           AddVerificationRequest(e, i, type)
    PROVE  LinkOpensUntilUsed'
<1>1. /\ nextToken' = nextToken + 1 /\ nextToken \in Nat
      /\ requests'[e][i].token = nextToken'
      /\ \A f \in Emails, j \in Identifiers :
           f # e \/ j # i => requests'[f][j] = requests[f][j]
      /\ owed' = (owed \ {requests[e][i].token}) \cup {nextToken'} /\ raced' = raced
  <2>1. requests'[e][i] = [id |-> IF requests[e][i].id = 0 THEN nextToken'
                                  ELSE requests[e][i].id, token |-> nextToken']
    BY AddShape, Zenon
  <2>2. requests'[e][i].token = nextToken'
    BY <2>1, SMT
  <2> QED
    BY <2>2, AddShape, Zenon
<1>2. nextToken' # 0 /\ nextToken' \notin raced
  BY <1>1, SMT DEF Typed, LinksOK
<1>3. OpenTokens = owed \ raced
  BY Zenon DEF LinksInv, LinkOpensUntilUsed
<1>4. ASSUME NEW t
      PROVE  t \in OpenTokens' <=>
               t = nextToken' \/ (t \in OpenTokens /\ t # requests[e][i].token)
  <2>1. CASE t = nextToken'
    BY <1>1, <1>2, <2>1, OpenMeansPrimed, Zenon
  <2>2. ASSUME t # nextToken', t \in OpenTokens'
        PROVE  t \in OpenTokens /\ t # requests[e][i].token
    <3>1. PICK f \in Emails, j \in Identifiers : t # 0 /\ requests'[f][j].token = t
      BY <2>2, OpenMeansPrimed, Zenon
    <3>2. f # e \/ j # i
      BY <1>1, <2>2, <3>1, Zenon
    <3>3. requests[f][j].token = t
      BY <1>1, <3>1, <3>2, Zenon
    <3>4. t # requests[e][i].token
      BY <3>1, <3>2, <3>3, OneKeyPerToken, SMT
    <3> QED
      BY <3>1, <3>3, <3>4, OpenMeans, Zenon
  <2>3. ASSUME t \in OpenTokens, t # requests[e][i].token PROVE t \in OpenTokens'
    <3>1. PICK f \in Emails, j \in Identifiers : t # 0 /\ requests[f][j].token = t
      BY <2>3, OpenMeans, Zenon
    <3>2. f # e \/ j # i
      BY <2>3, <3>1, Zenon
    <3>3. requests'[f][j].token = t
      BY <1>1, <3>1, <3>2, Zenon
    <3> QED
      BY <3>1, <3>3, OpenMeansPrimed, Zenon
  <2> QED
    BY <2>1, <2>2, <2>3, Zenon
<1>5. OpenTokens' = owed' \ raced'
  BY <1>1, <1>2, <1>3, <1>4, Zenon
<1> QED
  BY <1>5, Zenon DEF LinkOpensUntilUsed

(* A deletion by id takes the link the handler used, and races with        *)
(* another one only if that one came to the same id.                       *)
LEMMA DeleteOpens ==
    ASSUME Typed, LinksInv, NEW h \in Handlers, pc[h] \in {"unlink", "spend"},
           DeleteVerificationRequest(local[h])
    PROVE  LinkOpensUntilUsed'
<1> DEFINE l == local[h]
           gone == Gone(Hit(l))
<1>1. /\ Clears(Hit(l)) /\ owed' = owed \ {l.token}
      /\ raced' = raced \cup (gone \ {l.token})
  BY DeleteShape, Zenon
<1>2. KindOK(pc[h], l, link)
  BY HandlerFits, Zenon DEF Fits
<1>3. l.token # 0
  BY <1>2, SMT DEF KindOK, Redeems, Unlinks
<1>4. OpenTokens' = OpenTokens \ gone
  <2>1. Hit(l) \in SUBSET (Emails \X Identifiers)
    BY Zenon DEF Hit
  <2> QED
    BY <1>1, <2>1, ClearOpens, Zenon
<1>5. OpenTokens = owed \ raced /\ FoundAt(l)
  BY Zenon DEF LinksInv, LinkOpensUntilUsed
<1>6. l.token \in OpenTokens => l.token \in gone
  <2> SUFFICES ASSUME l.token \in OpenTokens PROVE l.token \in gone
    OBVIOUS
  <2>1. PICK e \in Emails, i \in Identifiers : requests[e][i].token = l.token
    BY OpenMeans, Zenon
  <2>2. requests[e][i].id = l.id
    BY <1>3, <1>5, <2>1, Zenon DEF FoundAt
  <2>3. <<e, i>>[1] = e /\ <<e, i>>[2] = i /\ <<e, i>> \in Emails \X Identifiers
    BY SMT
  <2>4. <<e, i>> \in Hit(l)
    BY <2>2, <2>3, SMT DEF Hit
  <2> QED
    BY <2>1, <2>3, <2>4, SMT DEF Gone
<1> HIDE DEF gone, l
<1>7. OpenTokens' = owed' \ raced'
  BY <1>1, <1>4, <1>5, <1>6, Zenon
<1> QED
  BY <1>7, Zenon DEF LinkOpensUntilUsed

(* The clean-up of a deleted account: withdrawn, or raced by a new one.    *)
LEMMA CleanupOpens ==
    ASSUME Typed, LinksInv, NEW h \in Handlers, Cleanup(h)
    PROVE  LinkOpensUntilUsed' /\ \E hit : Clears(hit)
<1>1. pc[h] = "cleanup"
  BY Zenon DEF Cleanup
<1>2. LabelOK("cleanup", local[h])
  BY <1>1, HandlerFits, Zenon DEF Fits
<1>3. local[h].email \in Emails
  BY <1>2, Zenon DEF LabelOK
<1> DEFINE hit == {local[h].email} \X Identifiers
           gone == Gone(hit) \ {0}
<1>4. /\ Clears(hit)
      /\ \/ owed' = owed \ gone /\ raced' = raced
         \/ owed' = owed /\ raced' = raced \cup gone
  BY <1>3, CleanupShape, Zenon
<1>5. hit \in SUBSET (Emails \X Identifiers)
  BY <1>3, SMT
<1> HIDE DEF hit
<1>6. OpenTokens' = OpenTokens \ Gone(hit)
  BY <1>4, <1>5, ClearOpens, Zenon
<1>7. OpenTokens = owed \ raced /\ 0 \notin OpenTokens
  BY OpenMeans, Zenon DEF LinksInv, LinkOpensUntilUsed
<1>8. OpenTokens' = owed' \ raced'
  BY <1>4, <1>6, <1>7, Zenon
<1> QED
  BY <1>4, <1>8, Zenon DEF LinkOpensUntilUsed

(* A handler's request is found under its id or not at all.                *)
LEMMA FoundCleared ==
    ASSUME NEW l, FoundAt(l), NEW hit, Clears(hit)
    PROVE  FoundAt(l)'
<1>1. \A e \in Emails, i \in Identifiers :
        requests'[e][i] = IF <<e, i>> \in hit THEN NoRequest ELSE requests[e][i]
  BY Zenon DEF Clears
<1>2. NoRequest.token = 0
  BY SMT DEF NoRequest
<1> SUFFICES ASSUME l.token # 0, NEW e \in Emails, NEW i \in Identifiers,
                    requests'[e][i].token = l.token
             PROVE  requests'[e][i].id = l.id
  BY Zenon DEF FoundAt
<1>3. requests'[e][i] = requests[e][i]
  BY <1>1, <1>2, Zenon
<1> QED
  BY <1>3, Zenon DEF FoundAt

(* A new request has a token no handler holds.                             *)
LEMMA FoundAdded ==
    ASSUME Typed, NEW l, FoundAt(l), l.token \in 0..nextToken,
           NEW e \in Emails, NEW i \in Identifiers, NEW type,
           AddVerificationRequest(e, i, type)
    PROVE  FoundAt(l)'
<1>1. /\ nextToken' = nextToken + 1 /\ nextToken \in Nat
      /\ \A f \in Emails, j \in Identifiers :
           f # e \/ j # i => requests'[f][j] = requests[f][j]
      /\ requests'[e][i] = [id |-> IF requests[e][i].id = 0 THEN nextToken'
                                   ELSE requests[e][i].id, token |-> nextToken']
  BY AddShape, Zenon
<1>2. requests'[e][i].token # l.token
  BY <1>1, SMT
<1> SUFFICES ASSUME l.token # 0, NEW f \in Emails, NEW j \in Identifiers,
                    requests'[f][j].token = l.token
             PROVE  requests'[f][j].id = l.id
  BY Zenon DEF FoundAt
<1>3. requests'[f][j] = requests[f][j]
  BY <1>1, <1>2, Zenon
<1> QED
  BY <1>3, Zenon DEF FoundAt

(* A step keeps both halves of LinksInv.                                   *)
LEMMA FoundStep ==
    ASSUME Typed, LinksInv, NEW h \in Handlers, Step(h), NEW l, FoundAt(l),
           l.token \in 0..nextToken
    PROVE  FoundAt(l)' /\ LinkOpensUntilUsed'
<1>1. CASE UNCHANGED links
  <2>1. requests' = requests /\ owed' = owed /\ raced' = raced
    BY <1>1, Zenon DEF links
  <2>2. FoundAt(l)'
    BY <2>1, Zenon DEF FoundAt
  <2>3. LinkOpensUntilUsed'
    BY <2>1, SMT DEF LinksInv, LinkOpensUntilUsed, OpenTokens
  <2> QED
    BY <2>2, <2>3, Zenon
<1>2. CASE Unlink(h) \/ Spend(h) \/ SpendThenRefuse(h)
  <2>1. pc[h] \in {"unlink", "spend"} /\ DeleteVerificationRequest(local[h])
    BY <1>2, Zenon DEF Unlink, Spend, SpendThenRefuse
  <2>2. Clears(Hit(local[h]))
    BY <2>1, DeleteShape, Zenon
  <2> QED
    BY <2>1, <2>2, DeleteOpens, FoundCleared, Zenon
<1>3. CASE Mint(h)
  <2>1. /\ pc[h] = "mint"
        /\ \E type : AddVerificationRequest(local[h].email, local[h].identifier, type)
    BY <1>3, Zenon DEF Mint
  <2>2. LabelOK("mint", local[h])
    BY <2>1, HandlerFits, Zenon DEF Fits
  <2>3. local[h].email \in Emails /\ local[h].identifier \in Identifiers
    BY <2>2, Zenon DEF LabelOK
  <2> QED
    BY <2>1, <2>3, AddOpens, FoundAdded, Zenon
<1>4. CASE Cleanup(h)
  BY <1>4, CleanupOpens, FoundCleared, Zenon
<1> QED
  BY <1>1, <1>2, <1>3, <1>4, LinkSteps, Zenon

(* Every step keeps LinksInv.                                              *)
LEMMA LinksInvStep ==
    ASSUME Typed, LinksInv, [Next]_vars
    PROVE  LinksInv'
<1>1. ASSUME NEW h \in Handlers, Arrive(h) PROVE LinksInv'
  <2>1. Arrived(h)
    BY <1>1, ArriveMoves, Zenon
  <2>2. PICK label, l : At(h, label, l) /\ Drawn(label, l)
    BY <2>1, Zenon DEF Arrived
  <2>3. requests' = requests /\ owed' = owed /\ raced' = raced
    BY <2>1, Zenon DEF Arrived, links
  <2>4. FoundAt(l)
    <3> SUFFICES ASSUME l.token # 0, NEW e \in Emails, NEW i \in Identifiers,
                        requests[e][i].token = l.token
                 PROVE  requests[e][i].id = l.id
      BY Zenon DEF FoundAt
    <3>1. PICK f \in Emails, j \in Identifiers :
            requests[f][j].token = l.token /\ requests[f][j].id = l.id
      BY <2>2, Zenon DEF Drawn
    <3>2. e = f /\ i = j
      BY <3>1, OneKeyPerToken, SMT
    <3> QED
      BY <3>1, <3>2, Zenon
  <2>5. ASSUME NEW g \in Handlers PROVE FoundAt(local[g])'
    <3>1. FoundAt(local[g]) /\ (local'[g] = local[g] \/ local'[g] = l)
      BY <2>2, MovedTo, Zenon DEF LinksInv
    <3> QED
      BY <2>3, <2>4, <3>1, Zenon DEF FoundAt
  <2>6. LinkOpensUntilUsed'
    BY <2>3, SMT DEF LinksInv, LinkOpensUntilUsed, OpenTokens
  <2> QED
    BY <2>5, <2>6, Zenon DEF LinksInv
<1>2. ASSUME NEW h \in Handlers, Step(h) PROVE LinksInv'
  <2>1. PICK label, l : Goes(h, label, l)
    BY <1>2, StepMoves, Zenon
  <2>2. At(h, label, l)
    BY <2>1, Zenon DEF Goes
  <2>3. ASSUME NEW g \in Handlers
        PROVE  \E k \in Handlers : local'[g].token = 0 \/
                 (local'[g].token = local[k].token /\ local'[g].id = local[k].id)
    <3>1. Idle.token = 0
      BY SMT DEF Idle
    <3>2. CASE g = h
      <4>1. local'[h] = l
        BY <2>2, MovedTo, Zenon
      <4> QED
        BY <2>1, <3>1, <3>2, <4>1, Zenon DEF Goes, Continues, Reads
    <3>3. CASE g # h
      BY <2>2, <3>3, MovedTo, Zenon
    <3> QED
      BY <3>2, <3>3, Zenon
  <2>4. ASSUME NEW k \in Handlers PROVE FoundAt(local[k]) /\ local[k].token \in 0..nextToken
    BY HandlerFits, Zenon DEF LinksInv, Fits
  <2>5. ASSUME NEW g \in Handlers PROVE FoundAt(local[g])'
    <3>1. PICK k \in Handlers : local'[g].token = 0 \/
                 (local'[g].token = local[k].token /\ local'[g].id = local[k].id)
      BY <2>3, Zenon
    <3>2. PICK m : m = local[k]
      OBVIOUS
    <3>3. FoundAt(m)'
      BY <1>2, <2>4, <3>2, FoundStep, Zenon
    <3> QED
      BY <3>1, <3>2, <3>3, Zenon DEF FoundAt
  <2>6. LinkOpensUntilUsed'
    BY <1>2, <2>4, FoundStep, Zenon
  <2> QED
    BY <2>5, <2>6, Zenon DEF LinksInv
<1>3. CASE UNCHANGED vars
  <2>1. requests' = requests /\ owed' = owed /\ raced' = raced /\ local' = local
    BY <1>3, Zenon DEF vars
  <2>2. LinkOpensUntilUsed'
    BY <2>1, SMT DEF LinksInv, LinkOpensUntilUsed, OpenTokens
  <2> QED
    BY <2>1, <2>2, Zenon DEF LinksInv, FoundAt
<1> QED
  BY <1>1, <1>2, <1>3, Zenon DEF Next

(* The links that open are exactly those mailed and not used, replaced or  *)
(* withdrawn, up to the deletes that race for one id.                      *)
THEOREM LinksOpenUntilUsed == Spec => []LinkOpensUntilUsed
<1>1. Init => LinksInv
  <2> SUFFICES ASSUME Init PROVE LinksInv
    OBVIOUS
  <2>1. Idle.token = 0 /\ NoRequest.token = 0
    BY SMT DEF Idle, NoRequest
  <2>2. \A e \in Emails, i \in Identifiers : requests[e][i] = NoRequest
    BY Zenon DEF Init
  <2>3. \A t : t \notin OpenTokens
    BY <2>1, <2>2, OpenMeans, Zenon
  <2>4. OpenTokens = {} /\ owed = {}
    BY <2>3, Zenon DEF Init
  <2>5. LinkOpensUntilUsed
    BY <2>4, Zenon DEF LinkOpensUntilUsed
  <2> QED
    BY <2>1, <2>5, Zenon DEF Init, LinksInv, FoundAt
<1>2. Typed /\ LinksInv /\ [Next]_vars => LinksInv'
  BY LinksInvStep
<1>3. LinksInv => LinkOpensUntilUsed
  BY DEF LinksInv
<1> QED
  BY <1>1, <1>2, <1>3, AlwaysTyped, PTL DEF Spec

=============================================================================
