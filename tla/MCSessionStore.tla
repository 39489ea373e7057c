----------------------------- MODULE MCSessionStore ----------------------------
(* Finite instances of SessionStore. *)
EXTENDS SessionStore, TLC

Symmetry == Permutations(Users) \cup Permutations(SubKeys) \cup Permutations(Methods)

=============================================================================
