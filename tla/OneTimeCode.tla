----------------------------- MODULE OneTimeCode -----------------------------
(***************************************************************************)
(* What the authorization-code flow promises its clients.  A code is       *)
(* generated for one request.  A completed sign-in makes it redeemable,    *)
(* with a session no code had before.  Whoever redeems it uses that up in  *)
(* the same step and can only be answered with what the request asked for. *)
(* At any point the right can get lost, and then nobody finds it again.    *)
(***************************************************************************)
CONSTANTS Codes, Requests, Sessions, Grants, Empty

VARIABLES
    asked,   \* code |-> the request it was generated for, or Empty
    unused,  \* sessions no sign-in has completed with yet
    ticket,  \* codes that can be redeemed, each with its session
    held,    \* grants of token requests that redeemed a code
    grants   \* grants that were answered with tokens

lifecycle == <<asked, unused, ticket, held, grants>>

Init ==
    /\ asked = [c \in Codes |-> Empty]
    /\ unused \subseteq Sessions
    /\ ticket = {}
    /\ held = {}
    /\ grants = {}

Ask(c, q) ==
    /\ asked[c] = Empty
    /\ asked' = [asked EXCEPT ![c] = q]
    /\ UNCHANGED <<unused, ticket, held, grants>>

(* A sign-in completes the request.  Two sign-ins may complete the same    *)
(* one: the later session replaces the earlier.                            *)
Issue(c, t) ==
    /\ asked[c] # Empty /\ t \in unused
    /\ unused' = unused \ {t}
    /\ ticket' = {x \in ticket : x[1] # c} \cup {<<c, t>>}
    /\ UNCHANGED <<asked, held, grants>>

(* The grant is for the client, redirect URI, verifier or secret and nonce *)
(* of the request, and for no other audience.                              *)
IsFor(g, q) ==
    /\ g.client = q.client /\ g.redirect = q.redirect /\ g.nonce = q.nonce
    /\ g.verifier = q.challenge /\ (q.challenge = Empty => g.secret)
    /\ g.aud \in {q.resource, Empty}

Redeem(c, t) ==
    /\ ticket' = ticket \ {<<c, t>>}
    /\ \E g \in held' : /\ g \in Grants /\ g.code = c /\ g.session = t
                        /\ IsFor(g, asked[c])
                        /\ held' = held \cup {g}
    /\ UNCHANGED <<asked, unused, grants>>

Answer(g) ==
    /\ held' = held \ {g}
    /\ grants' = grants \cup {g}
    /\ UNCHANGED <<asked, unused, ticket>>

Lose ==
    /\ unused' \subseteq unused /\ ticket' \subseteq ticket /\ held' \subseteq held
    /\ UNCHANGED <<asked, grants>>

Next ==
    \/ Lose
    \/ \E c \in Codes, q \in Requests : Ask(c, q)
    \/ \E c \in Codes, t \in Sessions : Issue(c, t)
    \/ \E x \in ticket : Redeem(x[1], x[2])
    \/ \E g \in held : Answer(g)

Spec == Init /\ [][Next]_lifecycle

=============================================================================
