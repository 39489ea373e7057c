-------------------------- MODULE MCAuthorizationCode --------------------------
(***************************************************************************)
(* A small instance of AuthorizationCode: a hybrid request of a registered *)
(* client with a secret and a PKCE request of a self-asserted one.         *)
(***************************************************************************)
EXTENDS AuthorizationCode, TLC

CONSTANTS s1, c1, c2, r1, k1, a1, n1, n2, u1

(* Both clients chose the same state parameter and share a redirect URI.   *)
MCRequests ==
    {[state |-> s1, type |-> "hybrid", client |-> c1, redirect |-> r1,
      challenge |-> Empty, resource |-> a1, nonce |-> n1],
     [state |-> s1, type |-> "code", client |-> c2, redirect |-> r1,
      challenge |-> k1, resource |-> a1, nonce |-> n2]}

(* Handlers are interchangeable.  So are users, until Init signs one in:   *)
(* taking u1 for that one loses nothing.                                   *)
Symmetry == Permutations(Handlers)

(* A bound: the user who is signed in first has no account at the social   *)
(* provider.                                                               *)
NoSocialAccount == \A h \in Handlers : local[h].kind = "callback" => local[h].user # u1

MCInit == Init /\ token[1].user = u1

MCSpec == MCInit /\ [][Next]_vars

=============================================================================
