------------------------ MODULE MCVerificationRequest ------------------------
(***************************************************************************)
(* A small instance of VerificationRequest: two addresses, two accounts,   *)
(* two requests at a time.                                                 *)
(***************************************************************************)
EXTENDS VerificationRequest, TLC

Symmetry == Permutations(Handlers) \cup Permutations(Emails)
=============================================================================
