----------------------- MODULE BtcPendingTransactions -----------------------
(***************************************************************************)
(* The pending Bitcoin transactions the backend keeps on its heap:          *)
(* src/backend/src/heap_state/btc_user_pending_tx_state.rs.                 *)
(*                                                                         *)
(* The operators act on the map of one principal, a function from the       *)
(* addresses that have pending transactions to their lists.  A list is the  *)
(* set of its transactions, which differ in their id: nothing depends on    *)
(* their order.                                                             *)
(***************************************************************************)
EXTENDS Integers, FiniteSets

CONSTANTS
  MaxPending,    \* max_pending_transactions: transactions per address
  MaxAddresses,  \* max_addresses_per_user
  Day            \* DAY_IN_NS, in ticks of the clock

ASSUME LimitsAssumption ==
  MaxPending \in Nat \ {0} /\ MaxAddresses \in Nat \ {0} /\ Day \in Nat

NoPending == [a \in {} |-> {}]

GetPending(map, address) == IF address \in DOMAIN map THEN map[address] ELSE {}

(* Mutation of IsOld: the day is forgotten. *)
IsOldAtOnce(tx, now) == tx.created < now

IsOld(tx, now) == tx.created + Day < now

(* Mutation of IsSpent: one utxo that is gone is enough. *)
IsSpentPartly(tx, current) == ~(tx.utxos \subseteq current)

IsSpent(tx, current) == tx.utxos \cap current = {}

StaysPending(tx, current, now) == ~IsOld(tx, now) /\ ~IsSpent(tx, current)

(* Mutation of Prune: addresses without transactions stay. *)
PruneKeepsAddresses(map, current, now) ==
  [a \in DOMAIN map |-> {tx \in map[a] : StaysPending(tx, current, now)}]

(* The utxos of one address decide about the transactions of all addresses. *)
Prune(map, current, now) ==
  LET kept(a) == {tx \in map[a] : StaysPending(tx, current, now)}
  IN  [a \in {b \in DOMAIN map : kept(b) # {}} |-> kept(a)]

MayAdd(map, address) ==
  IF address \in DOMAIN map
  THEN Cardinality(map[address]) < MaxPending
  ELSE Cardinality(DOMAIN map) < MaxAddresses

Add(map, address, tx) ==
  [a \in DOMAIN map \cup {address} |->
     IF a = address THEN GetPending(map, address) \cup {tx} ELSE map[a]]
=============================================================================
