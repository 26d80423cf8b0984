--------------------------- MODULE MCUserProfiles ---------------------------
EXTENDS UserProfiles, TLC

CONSTANTS t1, t2, t3

(* Two tabs of the first user, and one of the second.                       *)
MCOwner == [t \in Tabs |-> IF t = t3 THEN 2 ELSE 1]

Symmetry == Permutations(CallIds)
=============================================================================
