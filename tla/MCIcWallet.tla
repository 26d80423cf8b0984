----------------------------- MODULE MCIcWallet -----------------------------
(* IcWallet with the timers of its schedulers: <<w, n>> for Web Worker w    *)
(* and its n-th restart.  Executions are alike.                             *)
EXTENDS IcWallet, TLC

MCTimers == Workers \X (0..MaxEvents - 1)
Symmetry == Permutations(Runs)
=============================================================================
