----------------------------- MODULE MCBtcSend -----------------------------
(* Instances of BtcSend: one user with one tab, and the addresses of that   *)
(* user on one or two bitcoin networks.                                     *)
EXTENDS BtcSend, TLC

CONSTANTS tab1, mainnet, testnet, u1, u2, u3

MCOneUser == [t \in Tabs |-> "user"]
MCOwner == [a \in Addresses |-> "user"]
MCUtxos == u1 :> mainnet @@ u2 :> mainnet
MCTwoNetworks == u1 :> mainnet @@ u3 :> testnet
============================================================================
