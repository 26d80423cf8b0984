------------------------ MODULE UtxoSelection_proofs ------------------------
(***************************************************************************)
(* Proofs about the selection of utxos, for every finite set of utxos, all *)
(* their values and every target.                                          *)
(***************************************************************************)
EXTENDS UtxoSelection, FiniteSetTheorems, WellFoundedInduction, TLAPS

-----------------------------------------------------------------------------
(* Sums of values, for any function v that gives utxos a value.  A utxo of  *)
(* value n stands for n units, and the sum of a set is the number of its    *)
(* units.                                                                  *)

Total(v, S) == MapThenSumSet(LAMBDA u : v[u], S)
Units(v, S) == UNION {{u} \X (1..v[u]) : u \in S}

(* The recursion that Sum stands for; first is the element that is taken    *)
(* out of a set.                                                           *)
First(s) == CHOOSE u \in s : TRUE
Adds(v, sum, S) ==
  sum = [s \in SUBSET S |-> IF s = {} THEN 0 ELSE v[First(s)] + sum[s \ {First(s)}]]

(* A box of n units for each member of S.                                   *)
LEMMA Boxes ==
  ASSUME NEW S, IsFiniteSet(S), NEW n \in Nat
  PROVE  /\ IsFiniteSet(S \X (1..n))
         /\ Cardinality(S \X (1..n)) = Cardinality(S) * n
  <1>1. IsFiniteSet(1..n) /\ Cardinality(1..n) = n
    BY FS_Interval
  <1> QED BY <1>1, FS_Product

(* The units of one more utxo.                                              *)
LEMMA OneMoreUtxo ==
  ASSUME NEW v, NEW S, NEW u, u \notin S, IsFiniteSet(Units(v, S)), v[u] \in Nat
  PROVE  /\ IsFiniteSet(Units(v, S \cup {u}))
         /\ Cardinality(Units(v, S \cup {u})) = Cardinality(Units(v, S)) + v[u]
  <1>1. PICK own : own = {u} \X (1..v[u])
    OBVIOUS
  <1>2. IsFiniteSet({u}) /\ Cardinality({u}) = 1
    BY FS_Singleton
  <1>3. IsFiniteSet(own) /\ Cardinality(own) = 1 * v[u]
    BY <1>1, <1>2, Boxes
  <1>4. Units(v, S \cup {u}) = Units(v, S) \cup own
    BY <1>1 DEF Units
  <1>5. Units(v, S) \cap own = {}
    BY <1>1 DEF Units
  <1>6. /\ IsFiniteSet(Units(v, S) \cup own)
        /\ Cardinality(Units(v, S) \cup own) =
             Cardinality(Units(v, S)) + Cardinality(own) - Cardinality(Units(v, S) \cap own)
    BY <1>3, FS_Union
  <1>7. Cardinality(Units(v, S)) \in Nat /\ Cardinality(Units(v, S) \cap own) = 0
    BY <1>5, FS_CardinalityType, FS_EmptySet
  <1>8. Cardinality(own) = v[u]
    BY <1>3
  <1>9. Cardinality(Units(v, S) \cup own) = Cardinality(Units(v, S)) + v[u]
    BY <1>6, <1>7, <1>8
  <1> QED BY <1>4, <1>6, <1>9

(* A finite set of utxos with natural values has finitely many units.       *)
LEMMA UnitsAreFinite ==
  ASSUME NEW v, NEW S, IsFiniteSet(S), \A u \in S : v[u] \in Nat
  PROVE  IsFiniteSet(Units(v, S)) /\ Cardinality(Units(v, S)) \in Nat
  <1>1. PICK all : all = {{u} \X (1..v[u]) : u \in S}
    OBVIOUS
  <1>2. PICK own : own = [u \in S |-> {u} \X (1..v[u])]
    OBVIOUS
  <1>3. own \in Surjection(S, all)
    BY <1>1, <1>2 DEF Surjection
  <1>4. IsFiniteSet(all)
    BY <1>3, FS_Surjection
  <1>5. \A T \in all : IsFiniteSet(T)
    <2>1. ASSUME NEW u \in S PROVE IsFiniteSet({u} \X (1..v[u]))
      BY <2>1, Boxes, FS_Singleton
    <2> QED BY <1>1, <2>1
  <1>6. IsFiniteSet(UNION all)
    BY <1>4, <1>5, FS_UNION
  <1>7. Units(v, S) = UNION all
    BY <1>1 DEF Units
  <1> QED BY <1>6, <1>7, FS_CardinalityType

(* A set of utxos with natural values has as many units as the function of  *)
(* any recursion for its sum says: of the sets on which they differ none is *)
(* the least.                                                               *)
LEMMA SumsCountUnits ==
  ASSUME NEW v, NEW S, IsFiniteSet(S), \A u \in S : v[u] \in Nat, NEW sum, Adds(v, sum, S)
  PROVE  \A s \in SUBSET S : IsFiniteSet(Units(v, s)) /\ sum[s] = Cardinality(Units(v, s))
  <1> DEFINE Fits(s) == IsFiniteSet(Units(v, s)) /\ sum[s] = Cardinality(Units(v, s))
             Odd == {s \in FiniteSubsetsOf(S) : ~Fits(s)}
  <1>1. SUBSET S = FiniteSubsetsOf(S)
    BY FS_Subset DEF FiniteSubsetsOf
  <1>2. SUFFICES Odd = {}
    BY <1>1
  <1>3. SUFFICES ASSUME Odd # {} PROVE FALSE
    OBVIOUS
  <1>4. PICK s \in Odd : \A t \in Odd : ~(<<t, s>> \in StrictSubsetOrdering(S))
    <2>1. IsWellFoundedOn(StrictSubsetOrdering(S), FiniteSubsetsOf(S))
      BY FS_StrictSubsetOrderingWellFounded
    <2> HIDE DEF Odd
    <2>2. Odd \subseteq FiniteSubsetsOf(S)
      BY DEF Odd
    <2> QED BY <1>3, <2>1, <2>2, WFMin
  <1>5. s \in SUBSET S /\ ~Fits(s) /\ IsFiniteSet(s)
    BY <1>1, FS_Subset
  <1>6. sum[s] = IF s = {} THEN 0 ELSE v[First(s)] + sum[s \ {First(s)}]
    BY <1>5 DEF Adds
  <1>7. s # {}
    <2>1. Units(v, {}) = {}
      BY DEF Units
    <2> QED BY <1>5, <1>6, <2>1, FS_EmptySet
  <1>8. First(s) \in s
    BY <1>7 DEF First
  <1>9. PICK t : t = s \ {First(s)}
    OBVIOUS
  <1>10. t \in SUBSET S /\ <<t, s>> \in StrictSubsetOrdering(S)
    BY <1>5, <1>8, <1>9 DEF StrictSubsetOrdering
  <1>11. Fits(t)
    BY <1>1, <1>4, <1>10
  <1>12. v[First(s)] \in Nat /\ First(s) \notin t /\ s = t \cup {First(s)}
    BY <1>5, <1>8, <1>9
  <1>13. /\ IsFiniteSet(Units(v, t \cup {First(s)}))
         /\ Cardinality(Units(v, t \cup {First(s)})) = Cardinality(Units(v, t)) + v[First(s)]
    BY <1>11, <1>12, OneMoreUtxo
  <1>14. Cardinality(Units(v, t)) \in Nat
    BY <1>11, FS_CardinalityType
  <1>15. sum[s] = v[First(s)] + sum[t]
    BY <1>6, <1>7, <1>9
  <1> QED BY <1>5, <1>11, <1>12, <1>13, <1>14, <1>15

(* The sum of the values is the number of units: the recursion of the fold  *)
(* has a solution, and every solution counts units.                         *)
LEMMA SumIsUnits ==
  ASSUME NEW v, NEW S, IsFiniteSet(S), \A u \in S : v[u] \in Nat
  PROVE  Total(v, S) = Cardinality(Units(v, S))
  <1>1. PICK count : count = [s \in SUBSET S |-> Cardinality(Units(v, s))]
    OBVIOUS
  <1>2. ASSUME NEW s \in SUBSET S
        PROVE  count[s] = IF s = {} THEN 0 ELSE v[First(s)] + count[s \ {First(s)}]
    <2>1. CASE s = {}
      <3>1. Units(v, {}) = {}
        BY DEF Units
      <3> QED BY <1>1, <2>1, <3>1, FS_EmptySet
    <2>2. CASE s # {}
      <3>1. PICK u, t : u = First(s) /\ t = s \ {u}
        OBVIOUS
      <3>2. u \in s /\ u \in S /\ u \notin t /\ s = t \cup {u} /\ t \in SUBSET S
        BY <2>2, <3>1 DEF First
      <3>3. IsFiniteSet(t)
        BY <3>2, FS_Subset
      <3>4. IsFiniteSet(Units(v, t)) /\ Cardinality(Units(v, t)) \in Nat
        BY <3>2, <3>3, UnitsAreFinite
      <3>5. Cardinality(Units(v, t \cup {u})) = Cardinality(Units(v, t)) + v[u]
        BY <3>2, <3>4, OneMoreUtxo
      <3>6. count[s] = count[t] + v[u] /\ count[t] \in Nat /\ v[u] \in Nat
        BY <1>1, <3>2, <3>4, <3>5
      <3>7. count[s] = v[u] + count[t]
        BY <3>6
      <3> QED BY <2>2, <3>1, <3>7
    <2> QED BY <2>1, <2>2
  <1>3. Adds(v, count, S)
    BY <1>1, <1>2 DEF Adds
  <1>4. PICK sum : Adds(v, sum, S) /\ Total(v, S) = sum[S]
    BY <1>3 DEF Adds, Total, MapThenSumSet, MapThenFoldSet, First
  <1> QED BY <1>4, SumsCountUnits

(* The sum of a set is that of a part and of the rest.                      *)
LEMMA SumFacts ==
  ASSUME NEW v, NEW S, IsFiniteSet(S), \A u \in S : v[u] \in Nat
  PROVE  /\ Total(v, S) \in Nat
         /\ \A T \in SUBSET S : Total(v, T) \in Nat
         /\ \A T \in SUBSET S : Total(v, S) = Total(v, T) + Total(v, S \ T)
         /\ \A u \in S : Total(v, S) = Total(v, S \ {u}) + v[u]
  <1>1. ASSUME NEW T \in SUBSET S
        PROVE  /\ IsFiniteSet(T) /\ IsFiniteSet(Units(v, T))
               /\ Total(v, T) = Cardinality(Units(v, T)) /\ Total(v, T) \in Nat
    <2>1. IsFiniteSet(T) /\ \A u \in T : v[u] \in Nat
      BY FS_Subset
    <2> QED BY <2>1, UnitsAreFinite, SumIsUnits
  <1>2. ASSUME NEW T \in SUBSET S PROVE Total(v, S) = Total(v, T) + Total(v, S \ T)
    <2>1. Units(v, S) = Units(v, T) \cup Units(v, S \ T) /\ Units(v, T) \cap Units(v, S \ T) = {}
      BY DEF Units
    <2>2. Cardinality(Units(v, T) \cup Units(v, S \ T)) =
            Cardinality(Units(v, T)) + Cardinality(Units(v, S \ T)) - Cardinality(Units(v, T) \cap Units(v, S \ T))
      BY <1>1, FS_Union
    <2>3. Cardinality(Units(v, T) \cap Units(v, S \ T)) = 0
      BY <2>1, FS_EmptySet
    <2>4. Total(v, S) = Cardinality(Units(v, T)) + Cardinality(Units(v, S \ T)) - 0
      BY <1>1, <2>1, <2>2, <2>3
    <2> QED BY <1>1, <2>4
  <1>3. ASSUME NEW u \in S PROVE Total(v, S) = Total(v, S \ {u}) + v[u]
    <2>1. PICK T : T = S \ {u}
      OBVIOUS
    <2>2. T \in SUBSET S /\ u \notin T /\ S = T \cup {u}
      BY <2>1
    <2>3. IsFiniteSet(Units(v, T)) /\ Total(v, T) = Cardinality(Units(v, T)) /\ Total(v, S) = Cardinality(Units(v, S))
      BY <1>1, <2>2
    <2>4. Cardinality(Units(v, T \cup {u})) = Cardinality(Units(v, T)) + v[u]
      BY <2>2, <2>3, OneMoreUtxo
    <2> QED BY <2>1, <2>2, <2>3, <2>4
  <1> QED BY <1>1, <1>2, <1>3

(* A part of a set has no greater sum.                                      *)
LEMMA PartSum ==
  ASSUME NEW v, NEW S, IsFiniteSet(S), \A u \in S : v[u] \in Nat, NEW T \in SUBSET S
  PROVE  /\ Total(v, S) \in Nat /\ Total(v, T) \in Nat /\ Total(v, T) <= Total(v, S)
         /\ Total(v, S) = Total(v, T) + Total(v, S \ T)
  <1>1. PICK rest : rest = S \ T
    OBVIOUS
  <1>2. \A U \in SUBSET S : Total(v, U) \in Nat
    BY SumFacts
  <1>3. Total(v, S) = Total(v, T) + Total(v, S \ T)
    BY SumFacts
  <1>4. rest \in SUBSET S
    BY <1>1
  <1>5. Total(v, rest) \in Nat
    BY <1>2, <1>4
  <1> QED BY <1>1, <1>2, <1>3, <1>5

(* The sum of a set of utxos worth at most, or at least, n each.            *)
LEMMA SumBounds ==
  ASSUME NEW v, NEW S, IsFiniteSet(S), \A u \in S : v[u] \in Nat, NEW n \in Nat
  PROVE  /\ (\A u \in S : v[u] <= n) => Total(v, S) <= Cardinality(S) * n
         /\ (\A u \in S : v[u] >= n) => Total(v, S) >= Cardinality(S) * n
  <1>1. IsFiniteSet(S \X (1..n)) /\ Cardinality(S \X (1..n)) = Cardinality(S) * n
    BY Boxes
  <1>2. IsFiniteSet(Units(v, S)) /\ Total(v, S) = Cardinality(Units(v, S))
    BY UnitsAreFinite, SumIsUnits
  <1>3. ASSUME \A u \in S : v[u] <= n PROVE Total(v, S) <= Cardinality(S) * n
    <2>1. Units(v, S) \subseteq S \X (1..n)
      BY <1>3 DEF Units
    <2> QED BY <1>1, <1>2, <2>1, FS_Subset
  <1>4. ASSUME \A u \in S : v[u] >= n PROVE Total(v, S) >= Cardinality(S) * n
    <2>1. S \X (1..n) \subseteq Units(v, S)
      BY <1>4 DEF Units
    <2>2. Cardinality(S \X (1..n)) <= Cardinality(Units(v, S))
      BY <1>2, <2>1, FS_Subset
    <2>3. Cardinality(S \X (1..n)) \in Nat /\ Cardinality(Units(v, S)) \in Nat
      BY <1>1, <1>2, FS_CardinalityType
    <2>4. PICK a, b : a = Cardinality(S \X (1..n)) /\ b = Cardinality(Units(v, S))
      OBVIOUS
    <2>5. b >= a
      BY <2>2, <2>3, <2>4
    <2> QED BY <1>1, <1>2, <2>4, <2>5
  <1> QED BY <1>3, <1>4

-----------------------------------------------------------------------------
(* Types. *)

Typed == TypeOK /\ listed \subseteq Utxos

(* The utxos of a state have natural values and are finitely many.          *)
LEMMA TypedFacts ==
  ASSUME Typed
  PROVE  /\ IsFiniteSet(listed) /\ available \subseteq listed /\ solution \subseteq listed
         /\ \A u \in listed : value[u] \in Nat
         /\ target \in Nat
  BY UtxosAssumption, ValuesAssumption, FS_Subset DEF Typed, TypeOK

(* Every step keeps the types and moves a utxo as a whole.                  *)
LEMMA TypedStep == ASSUME Typed, [Next]_vars PROVE Typed'
  <1> USE TypedFacts DEF Typed, TypeOK, Take, input
  <1>1. CASE UNCHANGED vars
    BY <1>1 DEF vars
  <1>2. CASE GiveBack \/ Found \/ Filled
    BY <1>2 DEF GiveBack, Found, Filled
  <1>3. ASSUME NEW u \in available, Iterate(u) PROVE Typed'
    <2>1. goal' \in Nat
      BY <1>3 DEF Iterate
    <2> QED BY <1>3, <2>1 DEF Iterate
  <1>4. ASSUME NEW u \in available, Fill(u) PROVE Typed'
    BY <1>4 DEF Fill
  <1> QED BY <1>1, <1>2, <1>3, <1>4 DEF Next

LEMMA TypedHolds == Spec => []Typed
  <1>1. Init => Typed
    BY ValuesAssumption DEF Init, Typed, TypeOK
  <1> QED BY <1>1, TypedStep, PTL DEF Spec

(* A utxo is never selected twice nor lost, and what is missing stays a     *)
(* natural number.                                                          *)
THEOREM UtxosAreKept == Spec => []TypeOK
  <1>1. Typed => TypeOK
    BY DEF Typed
  <1> QED BY <1>1, TypedHolds, PTL

-----------------------------------------------------------------------------
(* A selection pays.  While greedy runs, what is selected and what is still *)
(* missing make up the target.                                              *)

Pays ==
  /\ solution # {} => target > 0
  /\ step = "fill" => solution # {}
  /\ step = "greedy" /\ goal > 0 => Total(value, solution) + goal = target
  /\ step = "fill" \/ (step = "greedy" /\ goal = 0) => Total(value, solution) >= target
  /\ step = "done" => IF target > 0 /\ Total(value, listed) >= target
                      THEN Total(value, solution) >= target
                      ELSE solution = {}

PaysInv == Typed /\ Pays

(* The total after a utxo is taken.                                         *)
LEMMA TakeAdds ==
  ASSUME Typed, NEW u \in available, Take(u), UNCHANGED input
  PROVE  /\ Total(value', solution') = Total(value, solution) + value[u]
         /\ Total(value, solution) \in Nat /\ value[u] \in Nat
         /\ solution' # {}
  <1>1. u \notin solution /\ solution' = solution \cup {u} /\ value' = value
        /\ solution' \subseteq listed
    BY TypedFacts DEF Typed, TypeOK, Take, input
  <1>2. IsFiniteSet(solution') /\ \A v \in solution' : value[v] \in Nat
    BY <1>1, TypedFacts, FS_Subset
  <1>3. PICK new : new = solution'
    OBVIOUS
  <1>4. Total(value, new) = Total(value, new \ {u}) + value[u] /\ solution = new \ {u} /\ u \in new
    BY <1>1, <1>2, <1>3, SumFacts
  <1>5. Total(value, solution) \in Nat
    BY <1>1, <1>2, <1>3, <1>4, SumFacts
  <1> QED BY <1>1, <1>2, <1>3, <1>4, <1>5

LEMMA PaysStep == ASSUME PaysInv, [Next]_vars PROVE Pays'
  <1> USE DEF PaysInv, Pays
  <1>1. CASE UNCHANGED vars
    BY <1>1 DEF vars, input
  <1>2. Total(value, solution) \in Nat /\ target \in Nat /\ goal \in Nat
    <2>1. IsFiniteSet(solution) /\ \A v \in solution : value[v] \in Nat
      BY TypedFacts, FS_Subset
    <2> QED BY <2>1, SumFacts, TypedFacts DEF Typed, TypeOK
  <1>3. CASE GiveBack
    <2>1. solution = listed /\ solution' = {} /\ step = "greedy" /\ goal > 0 /\ step' = "done"
          /\ UNCHANGED <<value, target, listed, goal>>
      BY <1>3 DEF GiveBack, Typed, TypeOK, input
    <2>2. Total(value, listed) < target
      BY <1>2, <2>1
    <2>3. Total(value, listed) \in Nat
      BY <1>2, <2>1
    <2> QED BY <1>2, <2>1, <2>2, <2>3
  <1>4. ASSUME Total(value, solution) >= target,
               step' = "done" \/ (step' = "fill" /\ solution # {}),
               UNCHANGED <<value, target, listed, solution, goal>>
        PROVE  Pays'
    <2>1. Total(value, listed) >= target
      <3>1. Total(value, solution) <= Total(value, listed) /\ Total(value, listed) \in Nat
        BY TypedFacts, PartSum
      <3> QED BY <1>2, <1>4, <3>1
    <2>2. /\ step' # "greedy" /\ target' = target /\ solution' = solution
          /\ step' = "fill" => solution # {}
      BY <1>4
    <2>3. Total(value', solution') >= target' /\ Total(value', listed') >= target'
      BY <1>4, <2>1
    <2>4. ~(target > 0) => solution = {}
      OBVIOUS
    <2> QED BY <2>2, <2>3, <2>4
  <1>5. CASE Found
    BY <1>4, <1>5 DEF Found, FillsUp, input
  <1>6. CASE Filled
    BY <1>4, <1>6 DEF Filled, input
  <1>7. ASSUME NEW u \in available, Iterate(u) PROVE Pays'
    <2>1. /\ step = "greedy" /\ step' = "greedy" /\ goal > 0 /\ target' = target
          /\ goal' = IF value[u] >= goal THEN 0 ELSE goal - value[u]
          /\ UNCHANGED input /\ Take(u)
      BY <1>7 DEF Iterate, input
    <2>2. Total(value', solution') = Total(value, solution) + value[u] /\ value[u] \in Nat
      BY <2>1, TakeAdds
    <2>3. target > 0
      BY <1>2, <2>1
    <2>4. goal' > 0 => Total(value', solution') + goal' = target
      BY <1>2, <2>1, <2>2
    <2>5. goal' = 0 => Total(value', solution') >= target
      BY <1>2, <2>1, <2>2
    <2> QED BY <2>1, <2>3, <2>4, <2>5
  <1>8. ASSUME NEW u \in available, Fill(u) PROVE Pays'
    <2>1. step = "fill" /\ step' = "fill" /\ target' = target /\ UNCHANGED input /\ Take(u)
      BY <1>8 DEF Fill, input
    <2>2. Total(value', solution') = Total(value, solution) + value[u] /\ value[u] \in Nat
      BY <2>1, TakeAdds
    <2>3. solution # {} /\ solution' # {} /\ target > 0
      BY <2>1, TakeAdds
    <2> QED BY <1>2, <2>1, <2>2, <2>3
  <1> QED BY <1>1, <1>3, <1>5, <1>6, <1>7, <1>8 DEF Next

LEMMA PaysHolds == Spec => []PaysInv
  <1>1. Init => PaysInv
    <2> SUFFICES ASSUME Init PROVE Pays
      BY ValuesAssumption DEF Init, PaysInv, Typed, TypeOK
    <2>1. Total(value, {}) = 0
      <3>1. Units(value, {}) = {}
        BY DEF Units
      <3> QED BY <3>1, SumIsUnits, FS_EmptySet
    <2> QED BY <2>1, ValuesAssumption DEF Init, Pays
  <1>2. PaysInv /\ [Next]_vars => PaysInv'
    BY TypedStep, PaysStep DEF PaysInv
  <1> QED BY <1>1, <1>2, PTL DEF Spec

(* A selection pays for the target, and there is one whenever the utxos     *)
(* together pay for it; otherwise nothing is selected.                      *)
THEOREM SelectionAlwaysPays == Spec => []SelectionPays
  <1>1. PaysInv => SelectionPays
    BY DEF PaysInv, Pays, SelectionPays, Sum, Total
  <1> QED BY <1>1, PaysHolds, PTL

-----------------------------------------------------------------------------
(* No choice of fewer utxos pays.                                           *)

(* No utxo outside L is worth more than one in it.                          *)
Top(L) == \A u \in L, w \in listed \ L : value[w] <= value[u]

(* All utxos but the last were the largest left, and not enough.            *)
FewestInv ==
  step = "greedy" =>
    IF goal > 0 THEN Top(solution)
    ELSE solution = {} \/
         \E last \in solution, first \in SUBSET solution :
           /\ solution = first \cup {last} /\ last \notin first
           /\ Top(first) /\ Total(value, first) < target

GreedyInv == PaysInv /\ FewestInv

LEMMA FewestStep == ASSUME GreedyInv, [Next]_vars PROVE FewestInv'
  <1> USE DEF GreedyInv, PaysInv, FewestInv, Top
  <1>1. CASE UNCHANGED vars
    BY <1>1 DEF vars, input
  <1>2. CASE GiveBack \/ Found \/ Filled \/ \E u \in available : Fill(u)
    BY <1>2 DEF GiveBack, Found, Filled, Fill
  <1>3. ASSUME NEW u \in available, Iterate(u) PROVE FewestInv'
    <2>1. /\ step = "greedy" /\ step' = "greedy" /\ goal > 0 /\ Best(u)
          /\ goal' = IF value[u] >= goal THEN 0 ELSE goal - value[u]
          /\ UNCHANGED <<value, target, listed>> /\ Take(u)
      BY <1>3 DEF Iterate, input
    <2>2. /\ goal \in Nat /\ target \in Nat /\ value[u] \in Nat
          /\ Top(solution)
          /\ u \notin solution /\ solution' = solution \cup {u}
          /\ available = listed \ solution
      BY <2>1, TypedFacts DEF Typed, TypeOK, Take
    <2>3. CASE value[u] >= goal
      <3>1. goal' = 0 /\ solution \in SUBSET solution' /\ u \in solution'
        BY <2>1, <2>2, <2>3
      <3>2. Total(value, solution) \in Nat /\ Total(value, solution) + goal = target
        BY <2>1, TypedFacts, PartSum DEF Pays
      <3>3. Total(value', solution) < target'
        BY <2>1, <2>2, <3>2
      <3>4. \A x \in solution, w \in listed' \ solution : value'[w] <= value'[x]
        BY <2>1, <2>2
      <3> QED BY <2>2, <3>1, <3>3, <3>4
    <2>4. CASE value[u] < goal
      <3>1. goal' = goal - value[u] /\ goal' > 0
        BY <2>1, <2>2, <2>4
      <3>2. \A w \in available : value[w] \in Nat
        BY TypedFacts
      <3>3. Largest(u)
        <4>1. ASSUME NEW w \in available, Enough(w) PROVE FALSE
          <5>1. PICK enough : enough = {x \in available : Enough(x)}
            OBVIOUS
          <5>2. Smallest(u, enough)
            BY <2>1, <4>1, <5>1 DEF Best
          <5>3. value[u] >= goal
            BY <5>1, <5>2 DEF Smallest, Enough
          <5> QED BY <2>2, <2>4, <5>3
        <4> QED BY <2>1, <4>1 DEF Best
      <3>4. \A x \in solution', w \in listed \ solution' : value[w] <= value[x]
        BY <2>2, <3>3 DEF Largest
      <3> QED BY <2>1, <3>1, <3>4
    <2> QED BY <2>2, <2>3, <2>4
  <1> QED BY <1>1, <1>2, <1>3 DEF Next

LEMMA GreedyHolds == Spec => []GreedyInv
  <1>1. Init => FewestInv
    BY ValuesAssumption DEF Init, FewestInv, Top
  <1>2. GreedyInv /\ [Next]_vars => FewestInv'
    BY FewestStep
  <1>3. PaysInv /\ FewestInv <=> GreedyInv
    BY DEF GreedyInv
  <1> QED BY <1>1, <1>2, <1>3, PaysHolds, PTL DEF Spec

(* A finite set of utxos has one of the least value: the one with the       *)
(* smallest set of cheaper ones.                                            *)
LEMMA Cheapest ==
  ASSUME NEW v, NEW S, IsFiniteSet(S), S # {}, \A u \in S : v[u] \in Nat
  PROVE  \E u \in S : \A w \in S : v[u] <= v[w]
  <1> DEFINE Cheaper(u) == {w \in S : v[w] < v[u]}
  <1>1. PICK T : T = {Cheaper(u) : u \in S}
    OBVIOUS
  <1>2. T \subseteq FiniteSubsetsOf(S) /\ T # {}
    <2>1. \A u \in S : Cheaper(u) \in SUBSET S
      OBVIOUS
    <2>2. T \subseteq SUBSET S /\ T # {}
      BY <1>1, <2>1
    <2> QED BY <2>2, FS_FiniteSubsetsOfFinite
  <1>3. PICK t \in T : \A s \in T : ~(<<s, t>> \in StrictSubsetOrdering(S))
    BY <1>2, WFMin, FS_StrictSubsetOrderingWellFounded
  <1>4. PICK u \in S : t = Cheaper(u)
    BY <1>1, <1>3
  <1>5. ASSUME NEW w \in S, ~(v[u] <= v[w]) PROVE FALSE
    <2>1. v[w] < v[u]
      BY <1>5
    <2>2. Cheaper(w) \subseteq Cheaper(u) /\ w \in Cheaper(u) /\ w \notin Cheaper(w)
      BY <2>1
    <2>3. <<Cheaper(w), Cheaper(u)>> \in StrictSubsetOrdering(S)
      BY <2>2 DEF StrictSubsetOrdering
    <2> QED BY <1>1, <1>3, <1>4, <2>3
  <1> QED BY <1>5

(* Of all sets with at most as many utxos none is worth more than one that  *)
(* holds the largest: what the others have instead is exchanged.            *)
LEMMA TopIsWorthMost ==
  ASSUME NEW v, NEW all, IsFiniteSet(all), \A u \in all : v[u] \in Nat,
         NEW L \in SUBSET all, \A u \in L, w \in all \ L : v[w] <= v[u],
         NEW S \in SUBSET all, Cardinality(S) <= Cardinality(L)
  PROVE  Total(v, S) <= Total(v, L)
  <1>1. PICK A, B, C : A = S \ L /\ B = L \ S /\ C = S \cap L
    OBVIOUS
  <1>2. /\ A \in SUBSET all /\ B \in SUBSET all /\ C \in SUBSET all
        /\ A = S \ C /\ B = L \ C /\ C \in SUBSET S /\ C \in SUBSET L
        /\ S \cap C = C /\ L \cap C = C
    BY <1>1
  <1>3. \A T \in SUBSET all :
          IsFiniteSet(T) /\ (\A u \in T : v[u] \in Nat) /\ Cardinality(T) \in Nat
    BY FS_Subset, FS_CardinalityType
  <1>4. Total(v, S) = Total(v, C) + Total(v, A)
    BY <1>2, <1>3, PartSum
  <1>5. Total(v, L) = Total(v, C) + Total(v, B)
    BY <1>2, <1>3, PartSum
  <1>6. Total(v, A) \in Nat /\ Total(v, B) \in Nat /\ Total(v, C) \in Nat
    BY <1>2, <1>3, PartSum
  <1>7. Cardinality(A) <= Cardinality(B)
    <2>1. Cardinality(A) = Cardinality(S) - Cardinality(C)
      <3>1. IsFiniteSet(S) /\ S \cap C = C /\ A = S \ C
        BY <1>2, <1>3
      <3>2. Cardinality(S \ C) = Cardinality(S) - Cardinality(S \cap C)
        BY <3>1, FS_Difference
      <3> QED BY <3>1, <3>2
    <2>2. Cardinality(B) = Cardinality(L) - Cardinality(C)
      <3>1. IsFiniteSet(L) /\ L \cap C = C /\ B = L \ C
        BY <1>2, <1>3
      <3>2. Cardinality(L \ C) = Cardinality(L) - Cardinality(L \cap C)
        BY <3>1, FS_Difference
      <3> QED BY <3>1, <3>2
    <2>3. Cardinality(A) \in Nat /\ Cardinality(B) \in Nat /\ Cardinality(C) \in Nat
          /\ Cardinality(S) \in Nat /\ Cardinality(L) \in Nat
      BY <1>2, <1>3
    <2> QED BY <2>1, <2>2, <2>3
  <1>8. Total(v, A) <= Total(v, B)
    <2>1. CASE B = {}
      <3>1. Cardinality(B) = 0 /\ Cardinality(A) = 0
        BY <1>2, <1>3, <1>7, <2>1, FS_EmptySet
      <3>2. A = B
        BY <1>2, <1>3, <2>1, <3>1, FS_EmptySet
      <3> QED BY <1>6, <3>2
    <2>2. CASE B # {}
      <3>1. PICK least \in B : \A w \in B : v[least] <= v[w]
        BY <1>2, <1>3, <2>2, Cheapest
      <3>2. PICK n \in Nat : n = v[least]
        BY <1>2, <1>3, <3>1
      <3>3. \A u \in A : v[u] <= n
        BY <1>1, <3>1, <3>2
      <3>4. \A u \in B : v[u] >= n
        BY <1>2, <1>3, <3>1, <3>2
      <3>5. Total(v, A) <= Cardinality(A) * n
        BY <1>2, <1>3, <3>3, SumBounds
      <3>6. Total(v, B) >= Cardinality(B) * n
        BY <1>2, <1>3, <3>4, SumBounds
      <3>7. ASSUME NEW a \in Nat, NEW b \in Nat, a <= b PROVE a * n <= b * n
        <4>1. PICK c \in Nat : b = a + c
          BY <3>7
        <4>2. b * n = a * n + c * n /\ c * n \in Nat
          BY <4>1
        <4> QED BY <4>2
      <3>8. Cardinality(A) * n <= Cardinality(B) * n
        BY <1>2, <1>3, <1>7, <3>7
      <3>9. PICK x \in Int, y \in Int : x = Cardinality(A) * n /\ y = Cardinality(B) * n
        BY <1>2, <1>3
      <3> QED BY <1>6, <3>5, <3>6, <3>8, <3>9
    <2> QED BY <2>1, <2>2
  <1> QED BY <1>4, <1>5, <1>6, <1>8

(* What the invariant says of the end of greedy.                            *)
LEMMA GreedyEnds ==
  ASSUME GreedyInv, step = "greedy", goal = 0, NEW S \in SUBSET listed,
         Cardinality(S) < Cardinality(solution)
  PROVE  Total(value, S) < target
  <1>1. IsFiniteSet(solution) /\ Cardinality(solution) \in Nat /\ goal \in Nat /\ target \in Nat
        /\ IsFiniteSet(S) /\ Cardinality(S) \in Nat
    BY TypedFacts, FS_Subset, FS_CardinalityType DEF GreedyInv, PaysInv, Typed, TypeOK
  <1>2. solution # {}
    BY <1>1, FS_EmptySet
  <1>3. PICK last \in solution, first \in SUBSET solution :
          /\ solution = first \cup {last} /\ last \notin first
          /\ Top(first) /\ Total(value, first) < target
    BY <1>2 DEF GreedyInv, FewestInv
  <1>4. first \in SUBSET listed /\ IsFiniteSet(listed) /\ \A u \in listed : value[u] \in Nat
    BY TypedFacts DEF GreedyInv, PaysInv
  <1>5. Cardinality(solution) = Cardinality(first) + 1 /\ Cardinality(first) \in Nat
    BY <1>1, <1>3, FS_Subset, FS_AddElement, FS_CardinalityType
  <1>6. Cardinality(S) <= Cardinality(first)
    BY <1>1, <1>5
  <1>7. Total(value, S) <= Total(value, first)
    BY <1>3, <1>4, <1>6, TopIsWorthMost DEF Top
  <1>8. Total(value, S) \in Nat /\ Total(value, first) \in Nat
    BY <1>4, PartSum
  <1> QED BY <1>1, <1>3, <1>7, <1>8

(* When greedy ends no choice of fewer utxos pays for the target, so the    *)
(* fee, which grows with the inputs, is the least.                          *)
THEOREM GreedIsOptimal == Spec => []FewestInputs
  <1>1. ASSUME GreedyInv, step = "greedy", goal = 0, NEW S \in SUBSET listed, Sum(S) >= target
        PROVE  Cardinality(S) >= Cardinality(solution)
    <2>1. IsFiniteSet(listed) /\ \A u \in listed : value[u] \in Nat
      BY <1>1, TypedFacts DEF GreedyInv, PaysInv
    <2>2. /\ IsFiniteSet(S) /\ Cardinality(S) \in Nat /\ Total(value, S) \in Nat
          /\ Cardinality(solution) \in Nat /\ target \in Nat
      BY <1>1, <2>1, TypedFacts, PartSum, FS_Subset, FS_CardinalityType DEF GreedyInv, PaysInv
    <2>3. Total(value, S) >= target
      BY <1>1 DEF Sum, Total
    <2> QED BY <1>1, <2>2, <2>3, GreedyEnds
  <1>2. GreedyInv => FewestInputs
    BY <1>1 DEF FewestInputs
  <1> QED BY <1>2, GreedyHolds, PTL

(* None of the inputs greedy takes is spare: without any one of them the    *)
(* rest does not pay.                                                       *)
NoneIsSpare ==
  step = "greedy" /\ goal = 0 => \A u \in solution : Sum(solution \ {u}) < target

(* No input of greedy is spare: each is one more that the fee is paid for.  *)
THEOREM GreedTakesNoSpare == Spec => []NoneIsSpare
  <1>1. ASSUME GreedyInv, step = "greedy", goal = 0, NEW u \in solution
        PROVE  Sum(solution \ {u}) < target
    <2>1. PICK S : S = solution \ {u}
      OBVIOUS
    <2>2. solution \in SUBSET listed /\ S \in SUBSET listed /\ IsFiniteSet(listed)
      BY <1>1, <2>1, TypedFacts DEF GreedyInv, PaysInv
    <2>3. IsFiniteSet(solution) /\ Cardinality(solution) \in Nat
      BY <2>2, FS_Subset, FS_CardinalityType
    <2>4. Cardinality(S) = Cardinality(solution) - 1
      BY <1>1, <2>1, <2>3, FS_RemoveElement
    <2>5. Total(value, S) < target
      BY <1>1, <2>2, <2>3, <2>4, GreedyEnds
    <2> QED BY <2>1, <2>5 DEF Sum, Total
  <1>2. GreedyInv => NoneIsSpare
    BY <1>1 DEF NoneIsSpare
  <1> QED BY <1>2, GreedyHolds, PTL
=============================================================================
