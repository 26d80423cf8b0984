---------------------------- MODULE UtxoSelection ----------------------------
(***************************************************************************)
(* utxos_selection of src/backend/src/bitcoin_utils.rs, which picks the     *)
(* inputs of a Bitcoin transaction: the loop of greedy, and the one that    *)
(* adds inputs for a user with many utxos.  A step of the model is an       *)
(* iteration.  Among utxos of equal value any may be taken: which one       *)
(* depends on the order in which the Bitcoin canister lists them.           *)
(***************************************************************************)
EXTENDS Integers, FiniteSetsExt

CONSTANTS
  Utxos,
  Values,       \* values of utxos
  Targets,      \* amounts to send
  Threshold,    \* UTXOS_COUNT_THRESHOLD
  OutputCount

ASSUME UtxosAssumption == IsFiniteSet(Utxos)
ASSUME ValuesAssumption == Values \subseteq Nat /\ Targets \subseteq Nat
ASSUME CountsAssumption == Threshold \in Nat /\ OutputCount \in Nat

VARIABLES
  value, target, listed,  \* the input
  available, solution, goal,
  step

input == <<value, target, listed>>
vars == <<input, available, solution, goal, step>>

Sum(S) == MapThenSumSet(LAMBDA u : value[u], S)

Init ==
  /\ value \in [Utxos -> Values] /\ target \in Targets /\ listed \in SUBSET Utxos
  /\ available = listed /\ solution = {} /\ goal = target
  /\ step = "greedy"

Take(u) ==
  /\ available' = available \ {u}
  /\ solution' = solution \cup {u}

-----------------------------------------------------------------------------
(* greedy *)
Largest(u) == u \in available /\ \A v \in available : value[v] <= value[u]
Smallest(u, S) == u \in S /\ \A v \in S : value[u] <= value[v]

(* Mutation of Best. *)
BestIsSmallest(u) == Smallest(u, available)

Enough(u) == u \in available /\ value[u] >= goal

(* The largest utxo is taken when none is enough, else the smallest that is. *)
Best(u) ==
  IF \E v \in available : Enough(v)
  THEN Smallest(u, {v \in available : Enough(v)})
  ELSE Largest(u)

(* Mutations of Iterate: the rest is computed without what was missing, *)
(* and a utxo that was taken stays available.                           *)
IterateShort(u) ==
  /\ step = "greedy" /\ goal > 0 /\ Best(u)
  /\ goal' = IF value[u] + 1 >= goal THEN 0 ELSE goal - value[u]
  /\ Take(u)
  /\ UNCHANGED <<input, step>>
IterateAgain(u) ==
  /\ step = "greedy" /\ goal > 0 /\ Best(u)
  /\ goal' = IF value[u] >= goal THEN 0 ELSE goal - value[u]
  /\ solution' = solution \cup {u}
  /\ UNCHANGED <<input, step, available>>

Iterate(u) ==
  /\ step = "greedy" /\ goal > 0 /\ Best(u)
  /\ goal' = IF value[u] >= goal THEN 0 ELSE goal - value[u]
  /\ Take(u)
  /\ UNCHANGED <<input, step>>

(* Not enough: everything is given back. *)
GiveBack ==
  /\ step = "greedy" /\ goal > 0 /\ available = {}
  /\ available' = solution /\ solution' = {}
  /\ step' = "done"
  /\ UNCHANGED <<input, goal>>

FillsUp == solution # {} /\ Cardinality(available) > Threshold

Found ==
  /\ step = "greedy" /\ goal = 0
  /\ step' = IF FillsUp THEN "fill" ELSE "done"
  /\ UNCHANGED <<input, available, solution, goal>>

-----------------------------------------------------------------------------
(* utxos_selection: the smallest utxos are added, one for each output and  *)
(* one more.                                                               *)
Missing == Cardinality(solution) < OutputCount + 1 /\ available # {}

Fill(u) ==
  /\ step = "fill" /\ Missing
  /\ Smallest(u, available)
  /\ Take(u)
  /\ UNCHANGED <<input, goal, step>>

Filled ==
  /\ step = "fill" /\ ~Missing
  /\ step' = "done"
  /\ UNCHANGED <<input, available, solution, goal>>

Next ==
  \/ \E u \in available : Iterate(u) \/ Fill(u)
  \/ GiveBack \/ Found \/ Filled

Spec == Init /\ [][Next]_vars

-----------------------------------------------------------------------------
(* A utxo is available or selected, never both, and an empty selection     *)
(* leaves all of them available (the second postcondition).                *)
TypeOK ==
  /\ value \in [Utxos -> Values] /\ target \in Targets /\ goal \in Nat
  /\ step \in {"greedy", "fill", "done"}
  /\ available \cup solution = listed /\ available \cap solution = {}

(* The first postcondition and the documented property: a selection pays   *)
(* for the target, and there is one whenever the utxos pay for it.  (A     *)
(* target of 0 has the empty selection.)                                   *)
SelectionPays ==
  step = "done" => IF target > 0 /\ Sum(listed) >= target
                   THEN Sum(solution) >= target
                   ELSE solution = {}

(* Greed is optimal here: when greedy ends, no choice of fewer utxos pays  *)
(* for the target, so the fee is the least, and none of the inputs is      *)
(* spare.  (Inputs are only added on purpose, by utxos_selection.)         *)
FewestInputs ==
  step = "greedy" /\ goal = 0 =>
    \A S \in SUBSET listed : Sum(S) >= target => Cardinality(S) >= Cardinality(solution)

=============================================================================
