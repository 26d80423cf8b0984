---------------------------- MODULE MCUserTokens ----------------------------
(***************************************************************************)
(* UserTokens on small sets.  Tabs and tokens are interchangeable: nothing  *)
(* in the code depends on which they are.                                   *)
(***************************************************************************)
EXTENDS UserTokens, TLC

Symmetry == Permutations(Tabs) \cup Permutations(Tokens)
=============================================================================
