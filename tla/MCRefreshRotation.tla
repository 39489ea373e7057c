--------------------------- MODULE MCRefreshRotation ---------------------------
(***************************************************************************)
(* Finite instances of RefreshRotation.  Spec is the whole system;         *)
(* TokenSpec leaves out administrators and the lapse of access entries, so *)
(* that longer chains of rotations fit.                                    *)
(***************************************************************************)
EXTENDS RefreshRotation, TLC

Symmetry == Permutations(Requests) \cup Permutations(Nonces \ LegacyNonces)
              \cup Permutations(Families)

TokenNext ==
    \/ \E r \in Requests : Handler(r)
    \/ Tick
    \/ \E n \in Nonces : Expire(n)

TokenSpec == Init /\ [][TokenNext]_vars

=============================================================================
