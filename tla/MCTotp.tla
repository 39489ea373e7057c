------------------------------- MODULE MCTotp -------------------------------
(* Handlers and recovery codes are interchangeable.                        *)
EXTENDS Totp, TLC

Symmetry == Permutations(Handlers) \cup Permutations(Codes)
=============================================================================
