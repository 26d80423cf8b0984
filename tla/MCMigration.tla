----------------------------- MODULE MCMigration -----------------------------
(***************************************************************************)
(* Two users whose principals and profile timestamps are in opposite       *)
(* orders; a chunk holds one entry, so every map needs several steps.      *)
(***************************************************************************)
EXTENDS Migration, TLC

MCUsers == {1, 2}
MCTokenOwners == {1, 2}
MCCustomOwners == {2}
MCProfileTime == (1 :> 1 @@ 2 :> 0)

MCSymmetry == Permutations(Steps)
=============================================================================
