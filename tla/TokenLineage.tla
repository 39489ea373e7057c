----------------------------- MODULE TokenLineage -----------------------------
(***************************************************************************)
(* What the refresh_token grant promises: a refresh token is exchanged at  *)
(* most once, for a successor that carries its family and grant on, and    *)
(* the right to continue a lineage is handed on like a baton.  A usable    *)
(* token is exchanged, the exchange mints one successor, the successor     *)
(* becomes usable.  The baton can get lost on the way (logout, revocation, *)
(* expiry, an error), and then nobody finds it again.                      *)
(***************************************************************************)
EXTENDS Integers

CONSTANTS Nonces, Families, Grants, LegacyNonces, NoNonce, NoFamily

VARIABLES
    claims,  \* the claims of each token, of generation 0 before it is minted
    usable,  \* tokens a client can exchange
    spent,   \* exchanged tokens that may still get their successor
    fresh    \* minted tokens that may still become usable

lineage == <<claims, usable, spent, fresh>>

Minted(n) == claims[n].gen > 0

NewFamily(f) == \A n \in Nonces : Minted(n) => claims[n].fam # f

Init ==
    /\ \E g \in Grants :
          claims = [n \in Nonces |->
                      [fam |-> NoFamily, grant |-> g, parent |-> NoNonce,
                       gen |-> IF n \in LegacyNonces THEN 1 ELSE 0]]
    /\ usable = LegacyNonces
    /\ spent = {}
    /\ fresh = {}

(* The first token of a grant. *)
Start(m, f, g) ==
    /\ ~Minted(m) /\ NewFamily(f)
    /\ claims' = [claims EXCEPT
                    ![m] = [fam |-> f, grant |-> g, parent |-> NoNonce, gen |-> 1]]
    /\ fresh' = fresh \cup {m}
    /\ UNCHANGED <<usable, spent>>

Exchange(n) ==
    /\ n \in usable
    /\ usable' = usable \ {n}
    /\ spent' = spent \cup {n}
    /\ UNCHANGED <<claims, fresh>>

(* The successor of n; a token from before family tracking founds one. *)
Succeed(n, m, f) ==
    /\ n \in spent /\ ~Minted(m)
    /\ claims[n].fam \in {f, NoFamily}
    /\ claims[n].fam = NoFamily => NewFamily(f)
    /\ claims' = [claims EXCEPT
                    ![m] = [fam |-> f, grant |-> claims[n].grant, parent |-> n,
                            gen |-> claims[n].gen + 1]]
    /\ spent' = spent \ {n}
    /\ fresh' = fresh \cup {m}
    /\ UNCHANGED usable

Activate(m) ==
    /\ m \in fresh
    /\ fresh' = fresh \ {m}
    /\ usable' = usable \cup {m}
    /\ UNCHANGED <<claims, spent>>

Lose ==
    /\ usable' \subseteq usable /\ spent' \subseteq spent /\ fresh' \subseteq fresh
    /\ UNCHANGED claims

Next ==
    \/ \E m \in Nonces, f \in Families, g \in Grants : Start(m, f, g)
    \/ \E n \in Nonces : Exchange(n) \/ Activate(n)
    \/ \E m, n \in Nonces, f \in Families : Succeed(n, m, f)
    \/ Lose

Spec == Init /\ [][Next]_lineage

=============================================================================
