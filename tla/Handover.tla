------------------------------- MODULE Handover -------------------------------
(***************************************************************************)
(* What a migration of user data promises to the users: there is one set   *)
(* of user data, it has at most one home where it can be written, and the  *)
(* home moves from the source canister to the target without the data      *)
(* changing on the way.  While it has no home nothing can be written.      *)
(***************************************************************************)
VARIABLES
  home,   \* the canister whose users may write: "source", "target" or "nowhere"
  data    \* the user data

vars == <<home, data>>

Init == home = "source"

Write == home # "nowhere" /\ home' = home

Freeze == home = "source" /\ home' = "nowhere" /\ UNCHANGED data

Open == home = "nowhere" /\ home' = "target" /\ UNCHANGED data

Next == Write \/ Freeze \/ Open

Spec == Init /\ [][Next]_vars
=============================================================================
