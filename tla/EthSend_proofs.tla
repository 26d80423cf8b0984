--------------------------- MODULE EthSend_proofs ---------------------------
(***************************************************************************)
(* Proofs about EthSend: for any number of wallets, sends and lost answers, *)
(* any amounts.                                                             *)
(***************************************************************************)
EXTENDS EthSend, FiniteSetTheorems, TLAPS

LEMMA AmountsAreNat == \A a \in Amounts \cup {0} : a \in Nat
  BY AmountsAssumption

Ready == {"allowance", "reset", "approve", "pay"}

(* The pool is an interval that starts at the next nonce to be executed.    *)
Contiguous(top) == top \in Nat /\ top >= mined /\ DOMAIN pool = mined..(top - 1)

(* No send waits to submit a nonce beyond it. *)
NoncesInReach ==
  \E top : Contiguous(top) /\ \A w \in Wallets : sends[w].step \in Ready => sends[w].nonce <= top

(* Contiguous determines what getTransactionCount answers. *)
LEMMA PendingCountIsTop ==
  ASSUME mined \in Nat, NEW top, Contiguous(top) PROVE PendingCount = top
  <1>1. Cardinality(DOMAIN pool) = top - mined
    BY FS_Interval DEF Contiguous
  <1>2. \A n \in mined..top :
          (n \notin DOMAIN pool /\ \A m \in mined..(n - 1) : m \in DOMAIN pool) <=> n = top
    BY DEF Contiguous
  <1>3. mined + Cardinality(DOMAIN pool) = top /\ top \in mined..top
    BY <1>1 DEF Contiguous
  <1> QED BY <1>2, <1>3 DEF PendingCount

(* What follows a step of a send. *)
LEMMA FollowingStep ==
  ASSUME NEW s \in Sends, s.step \in {"reset", "approve", "pay"},
         s.step # "pay" => s.deposit, s.id \in 1..MaxSends
  PROVE  /\ Following(s) \in Sends
         /\ Prepared(s) \in Transactions
         /\ s.step = "reset" =>
              /\ Following(s) = [s EXCEPT !.step = "approve", !.nonce = s.nonce + 1]
              /\ Prepared(s) = Approval(0, s.id)
         /\ s.step = "approve" =>
              /\ Following(s) = [s EXCEPT !.step = "pay", !.nonce = s.nonce + 1]
              /\ Prepared(s) = Approval(s.amount, s.id)
         /\ s.step = "pay" =>
              /\ Following(s) = NoSend
              /\ Prepared(s) = IF s.deposit THEN Deposit(s.amount, s.id) ELSE Transfer(s.id)
  <1>1. s.nonce + 1 \in Nat /\ s.amount \in Amounts \cup {0}
    BY DEF Sends
  <1>2. CASE s.step = "reset"
    BY <1>1, <1>2 DEF Following, Prepared, Sends, Transactions, Approval, Steps
  <1>3. CASE s.step = "approve"
    BY <1>1, <1>3 DEF Following, Prepared, Sends, Transactions, Approval, Steps
  <1>4. CASE s.step = "pay"
    BY <1>1, <1>4, SendsAssumption
    DEF Following, Prepared, Sends, Transactions, Deposit, Transfer, NoSend, Steps
  <1> QED BY <1>2, <1>3, <1>4

LEMMA NoSendTyped == NoSend \in Sends
  BY SendsAssumption DEF NoSend, Sends, Steps

(* An amount is checked against an allowance that was read just then.       *)
LEMMA CheckStep ==
  ASSUME NEW amount \in Nat, allowance \in Nat
  PROVE  \/ Check(amount) = "pay" /\ allowance >= amount
         \/ Check(amount) = "reset"
         \/ Check(amount) = "approve" /\ allowance = 0
  BY DEF Check

Numbered ==
  \A w \in Wallets : /\ InProgress(w) => sends[w].id \in 1..MaxSends
                     /\ sends[w].deposit => sends[w].amount > 0
Typed == TypeOK /\ Numbered

LEMMA TypedInit == Init => Typed
  <1> SUFFICES ASSUME Init PROVE Typed
    OBVIOUS
  <1>1. sends \in [Wallets -> Sends] /\ \A w \in Wallets : sends[w] = NoSend
    BY NoSendTyped DEF Init
  <1>2. Numbered
    BY <1>1 DEF Numbered, NoSend, InProgress
  <1>3. allowance \in Nat
    BY AmountsAssumption DEF Init
  <1>4. DOMAIN pool = {}
    BY DEF Init
  <1>5. \A w \in Wallets :
          sends[w].step \in {"allowance", "reset", "approve"} => sends[w].deposit
    BY <1>1 DEF NoSend
  <1>6. /\ mined = 0 /\ begun = 0 /\ lost = 0 /\ ~early /\ ~together
        /\ early \in BOOLEAN /\ together \in BOOLEAN
        /\ done = {} /\ paid = {} /\ reverted = {}
    BY DEF Init
  <1> QED BY <1>1, <1>2, <1>3, <1>4, <1>5, <1>6, SendsAssumption DEF Typed, TypeOK

LEMMA TypedBegin ==
  ASSUME Typed, NEW w \in Wallets, NEW amount \in Amounts \cup {0},
         NEW deposit \in BOOLEAN, deposit => amount > 0, Begin(w, deposit, amount)
  PROVE  Typed'
  <1> DEFINE s == [step |-> "count", deposit |-> deposit, amount |-> amount, nonce |-> 0,
                   id |-> begun + 1]
  <1>1. begun + 1 \in 1..MaxSends /\ s \in Sends
    BY SendsAssumption DEF Begin, Typed, TypeOK, Sends, Steps
  <1>2. sends' = [sends EXCEPT ![w] = s] /\ begun' = begun + 1
    BY DEF Begin
  <1>3. early' \in BOOLEAN /\ together' \in BOOLEAN
    BY DEF Begin
  <1>4. UNCHANGED <<mined, pool, allowance, paid, reverted, done, lost>>
    BY DEF Begin, chainVars
  <1> QED BY <1>1, <1>2, <1>3, <1>4 DEF Typed, TypeOK, Numbered, InProgress

LEMMA TypedEnters ==
  ASSUME Typed, NEW w \in Wallets, Enters(w)
  PROVE  /\ DOMAIN pool' \subseteq Nat
         /\ \A n \in DOMAIN pool' : pool'[n] \in Transactions
         /\ Following(sends[w]) \in Sends
         /\ Following(sends[w]).step = "idle" \/ Following(sends[w]).id \in 1..MaxSends
         /\ Following(sends[w]).step \in {"allowance", "reset", "approve"} => Following(sends[w]).deposit
         /\ Following(sends[w]).deposit => Following(sends[w]).amount > 0
  <1> DEFINE s == sends[w]
  <1>1. /\ s \in Sends /\ s.step \in {"reset", "approve", "pay"} /\ s.id \in 1..MaxSends
        /\ s.step # "pay" => s.deposit
        /\ s.deposit => s.amount > 0
    BY DEF Enters, Typed, TypeOK, Numbered, InProgress
  <1>2. pool' = [n \in DOMAIN pool \cup {s.nonce} |-> IF n = s.nonce THEN Prepared(s) ELSE pool[n]]
    BY DEF Enters
  <1>3. s.nonce \in Nat
    BY <1>1 DEF Sends
  <1>4. DOMAIN pool' \subseteq Nat /\ \A n \in DOMAIN pool' : pool'[n] \in Transactions
    BY <1>1, <1>2, <1>3, FollowingStep DEF Typed, TypeOK
  <1>5. CASE s.step = "pay"
    <2>1. Following(s) = NoSend /\ Following(s) \in Sends
      BY <1>1, <1>5, FollowingStep
    <2> QED BY <1>4, <2>1 DEF NoSend
  <1>6. CASE s.step # "pay"
    <2>1. /\ Following(s) \in Sends
          /\ \/ Following(s) = [s EXCEPT !.step = "approve", !.nonce = s.nonce + 1]
             \/ Following(s) = [s EXCEPT !.step = "pay", !.nonce = s.nonce + 1]
      BY <1>1, <1>6, FollowingStep
    <2>2. Following(s).id = s.id /\ Following(s).deposit = s.deposit /\ Following(s).amount = s.amount
      BY <1>1, <2>1 DEF Sends
    <2> QED BY <1>1, <1>4, <1>6, <2>1, <2>2
  <1> QED BY <1>5, <1>6

(* Types, and the numbers of the sends, are kept by every step.             *)
LEMMA TypedStep == ASSUME Typed, PendingCount \in Nat, [Next]_vars PROVE Typed'
  <1>1. CASE UNCHANGED vars
    BY <1>1 DEF vars, chainVars, userVars, Typed, TypeOK, Numbered, InProgress
  <1>2. ASSUME NEW w \in Wallets, NEW amount \in Amounts, Begin(w, TRUE, amount) PROVE Typed'
    <2>1. amount \in Amounts \cup {0} /\ amount > 0
      BY AmountsAssumption
    <2> QED BY <1>2, <2>1, TypedBegin
  <1>3. ASSUME NEW w \in Wallets, Begin(w, FALSE, 0) PROVE Typed'
    BY <1>3, TypedBegin
  <1>4. ASSUME NEW w \in Wallets, CountTransactions(w) PROVE Typed'
    BY <1>4
    DEF CountTransactions, chainVars, userVars, Typed, TypeOK, Numbered, InProgress, Sends, Steps
  <1>5. ASSUME NEW w \in Wallets, CheckExistingApproval(w) PROVE Typed'
    <2>1. Check(sends[w].amount) \in {"pay", "reset", "approve"}
      BY DEF Check
    <2> QED BY <1>5, <2>1
        DEF CheckExistingApproval, chainVars, userVars, Typed, TypeOK, Numbered, InProgress, Sends, Steps
  <1>6. ASSUME NEW w \in Wallets, Submit(w) \/ SubmitLost(w) PROVE Typed'
    <2>1. Enters(w) /\ UNCHANGED <<mined, allowance, paid, reverted, begun, early, together>>
      BY <1>6 DEF Submit, SubmitLost, Enters, userVars
    <2>2. /\ sends' \in {[sends EXCEPT ![w] = Following(sends[w])], [sends EXCEPT ![w] = NoSend]}
          /\ done' \in {done, done \cup {sends[w].id}}
          /\ lost' \in {lost, lost + 1} /\ (lost' = lost \/ lost < MaxLost)
      BY <1>6 DEF Submit, SubmitLost
    <2>3. sends[w].id \in 1..MaxSends
      BY <2>1 DEF Enters, Typed, Numbered, InProgress
    <2>4. lost' \in 0..MaxLost
      BY <2>2, SendsAssumption DEF Typed, TypeOK
    <2>5. CASE sends' = [sends EXCEPT ![w] = NoSend]
      BY <2>1, <2>2, <2>3, <2>4, <2>5, TypedEnters, NoSendTyped
      DEF Typed, TypeOK, Numbered, InProgress, NoSend
    <2>6. CASE sends' = [sends EXCEPT ![w] = Following(sends[w])]
      BY <2>1, <2>2, <2>3, <2>4, <2>6, TypedEnters
      DEF Typed, TypeOK, Numbered, InProgress
    <2> QED BY <2>2, <2>5, <2>6
  <1>7. ASSUME NEW w \in Wallets, Fail(w) PROVE Typed'
    BY <1>7, NoSendTyped
    DEF Fail, chainVars, userVars, Typed, TypeOK, Numbered, InProgress, NoSend
  <1>8. CASE Mine
    <2>1. /\ mined \in DOMAIN pool /\ mined' = mined + 1
          /\ pool' = [n \in DOMAIN pool \ {mined} |-> pool[n]]
          /\ UNCHANGED <<sends, userVars, done, lost>>
      BY <1>8 DEF Mine
    <2>2. pool[mined] \in Transactions
      BY <2>1 DEF Typed, TypeOK
    <2>3. /\ allowance' \in Nat
          /\ paid' \subseteq 1..MaxSends /\ reverted' \subseteq 1..MaxSends
      BY <1>8, <2>2, AmountsAssumption DEF Mine, Succeed, Revert, Transactions, Typed, TypeOK
    <2> QED BY <2>1, <2>3 DEF userVars, Typed, TypeOK, Numbered, InProgress
  <1> QED BY <1>1, <1>2, <1>3, <1>4, <1>5, <1>6, <1>7, <1>8 DEF Next

-----------------------------------------------------------------------------
(* The nonces of all sends together leave no hole. *)
Reach == Typed /\ NoncesInReach

LEMMA ReachInit == Init => Reach
  <1> SUFFICES ASSUME Init PROVE Reach
    OBVIOUS
  <1>1. Contiguous(0)
    BY DEF Init, Contiguous
  <1>2. \A w \in Wallets : sends[w].step \notin Ready
    BY DEF Init, NoSend, Ready
  <1> QED BY <1>1, <1>2, TypedInit DEF Reach, NoncesInReach

LEMMA ReachStep == ASSUME Reach, [Next]_vars PROVE Reach'
  <1>1. PICK top : Contiguous(top) /\ \A w \in Wallets : sends[w].step \in Ready => sends[w].nonce <= top
    BY DEF Reach, NoncesInReach
  <1>2. mined \in Nat /\ top \in Nat /\ PendingCount = top
    BY <1>1, PendingCountIsTop DEF Reach, Typed, TypeOK, Contiguous
  <1>3. Typed'
    BY <1>2, TypedStep DEF Reach
  <1> SUFFICES NoncesInReach'
    BY <1>3 DEF Reach
  <1>4. CASE UNCHANGED vars
    BY <1>1, <1>4 DEF vars, chainVars, NoncesInReach, Contiguous
  <1>5. ASSUME UNCHANGED <<mined, pool>>,
               NEW w \in Wallets, NEW s, sends' = [sends EXCEPT ![w] = s],
               s.step \in Ready => s.nonce <= top
        PROVE NoncesInReach'
    <2>1. Contiguous(top)'
      BY <1>1, <1>5 DEF Contiguous
    <2>2. \A v \in Wallets : sends'[v].step \in Ready => sends'[v].nonce <= top
      BY <1>1, <1>5 DEF Reach, Typed, TypeOK
    <2> QED BY <2>1, <2>2 DEF NoncesInReach
  <1>6. ASSUME NEW w \in Wallets, NEW deposit, NEW amount, Begin(w, deposit, amount)
        PROVE NoncesInReach'
    <2> DEFINE s == [step |-> "count", deposit |-> deposit, amount |-> amount, nonce |-> 0,
                     id |-> begun + 1]
    <2>1. s.step \notin Ready /\ sends' = [sends EXCEPT ![w] = s] /\ UNCHANGED <<mined, pool>>
      BY <1>6 DEF Begin, Ready, chainVars
    <2> QED BY <1>5, <2>1
  <1>7. ASSUME NEW w \in Wallets, CountTransactions(w) PROVE NoncesInReach'
    <2> DEFINE s == [sends[w] EXCEPT !.nonce = PendingCount,
                                     !.step = IF sends[w].deposit THEN "allowance" ELSE "pay"]
    <2>1. sends' = [sends EXCEPT ![w] = s] /\ UNCHANGED <<mined, pool>>
      BY <1>7 DEF CountTransactions, chainVars
    <2>2. s.nonce = top
      BY <1>2 DEF Reach, Typed, TypeOK, Sends
    <2> HIDE DEF s
    <2>3. s.nonce <= top
      BY <1>2, <2>2
    <2> QED BY <1>5, <1>7, <2>1, <2>3
  <1>8. ASSUME NEW w \in Wallets, CheckExistingApproval(w) PROVE NoncesInReach'
    <2> DEFINE s == [sends[w] EXCEPT !.step = Check(sends[w].amount)]
    <2>1. sends' = [sends EXCEPT ![w] = s] /\ UNCHANGED <<mined, pool>>
      BY <1>8 DEF CheckExistingApproval, chainVars
    <2>2. s.nonce = sends[w].nonce /\ sends[w].step \in Ready
      BY <1>8 DEF CheckExistingApproval, Ready, Reach, Typed, TypeOK, Sends
    <2> QED BY <1>1, <1>5, <2>1, <2>2
  <1>9. ASSUME NEW w \in Wallets, Fail(w) PROVE NoncesInReach'
    <2>1. NoSend.step \notin Ready
      BY DEF NoSend, Ready
    <2> QED BY <1>5, <1>9, <2>1 DEF Fail, chainVars
  <1>10. ASSUME NEW w \in Wallets, Submit(w) \/ SubmitLost(w) PROVE NoncesInReach'
    <2> DEFINE s == sends[w]
    <2>1. Enters(w) /\ UNCHANGED mined
      BY <1>10 DEF Submit, SubmitLost, Enters
    <2>2. /\ s \in Sends /\ s.step \in {"reset", "approve", "pay"} /\ s.id \in 1..MaxSends
          /\ s.step # "pay" => s.deposit
          /\ s.nonce \in Nat /\ s.nonce >= mined /\ s.nonce <= top
      BY <1>1, <2>1 DEF Enters, Reach, Typed, TypeOK, Numbered, InProgress, Sends, Ready
    <2>3. DOMAIN pool' = DOMAIN pool \cup {s.nonce}
      BY <2>1 DEF Enters
    <2>4. PICK newTop \in Nat : newTop = IF s.nonce = top THEN top + 1 ELSE top
      BY <1>2
    <2>5. Contiguous(newTop)'
      BY <1>1, <1>2, <2>1, <2>2, <2>3, <2>4 DEF Contiguous
    <2>6. newTop >= top /\ newTop >= s.nonce + 1
      BY <1>2, <2>2, <2>4
    <2>7. ASSUME NEW f \in {Following(s), NoSend}, f.step \in Ready PROVE f.nonce <= newTop
      <3>1. NoSend.step \notin Ready
        BY DEF NoSend, Ready
      <3>2. f = Following(s) /\ s.step # "pay"
        BY <2>2, <2>7, <3>1, FollowingStep
      <3>3. Following(s).nonce = s.nonce + 1
        BY <2>2, <3>2, FollowingStep DEF Sends
      <3> QED BY <2>6, <3>2, <3>3
    <2>8. PICK f \in {Following(s), NoSend} : sends' = [sends EXCEPT ![w] = f]
      BY <1>10 DEF Submit, SubmitLost
    <2>9. \A v \in Wallets : sends'[v].step \in Ready => sends'[v].nonce <= newTop
      <3> SUFFICES ASSUME NEW v \in Wallets, sends'[v].step \in Ready
                   PROVE sends'[v].nonce <= newTop
        OBVIOUS
      <3>1. CASE v = w
        BY <2>7, <2>8, <3>1 DEF Reach, Typed, TypeOK
      <3>2. CASE v # w
        <4>1. sends'[v] = sends[v] /\ sends[v] \in Sends
          BY <2>8, <3>2 DEF Reach, Typed, TypeOK
        <4> QED BY <1>1, <1>2, <2>6, <4>1 DEF Sends
      <3> QED BY <3>1, <3>2
    <2> QED BY <2>9, <2>5 DEF NoncesInReach
  <1>11. CASE Mine
    <2>1. /\ mined \in DOMAIN pool /\ mined' = mined + 1
          /\ DOMAIN pool' = DOMAIN pool \ {mined} /\ UNCHANGED sends
      BY <1>11 DEF Mine
    <2>2. Contiguous(top)'
      BY <1>1, <1>2, <2>1 DEF Contiguous
    <2> QED BY <1>1, <2>1, <2>2 DEF NoncesInReach
  <1> QED BY <1>4, <1>6, <1>7, <1>8, <1>9, <1>10, <1>11 DEF Next

(* "If we approved a transaction [...] then we increment the nonce for the  *)
(* next transaction.  Otherwise, we can use the nonce we obtained": no send *)
(* leaves a hole, whatever the others do and whatever fails.                *)
THEOREM NoncesLeaveNoGap == Spec => []NoGap
  <1>1. Reach => NoGap
    <2> SUFFICES ASSUME Reach PROVE NoGap
      OBVIOUS
    <2>1. PICK top : Contiguous(top)
      BY DEF Reach, NoncesInReach
    <2> QED BY <2>1 DEF Contiguous, NoGap, Reach, Typed, TypeOK
  <1> QED BY <1>1, ReachInit, ReachStep, PTL DEF Spec

(* Every reachable state is well typed, and only deposits deal with the     *)
(* allowance.                                                               *)
THEOREM TypeCorrect == Spec => []TypeOK
  <1>1. Reach => TypeOK
    BY DEF Reach, Typed
  <1> QED BY <1>1, ReachInit, ReachStep, PTL DEF Spec

-----------------------------------------------------------------------------
(* What a transaction needs of the ones before it. *)
IsReset(tx) == tx.kind = "approve" /\ tx.amount = 0
IsCover(tx, amount) == tx.kind = "approve" /\ tx.amount >= amount
FreshAt(n) == IF n = mined THEN allowance = 0 ELSE IsReset(pool[n - 1])
CoveredAt(n, amount) == IF n = mined THEN allowance >= amount ELSE IsCover(pool[n - 1], amount)

(* One send at a time, which knows the whole pool: an approval follows a    *)
(* reset or an allowance of zero, a deposit what covers it, and so will the *)
(* transaction the send submits next.                                       *)
Alone == \A v, w \in Wallets : InProgress(v) /\ InProgress(w) => v = w
PoolIsHarmless ==
  \A n \in DOMAIN pool :
    /\ pool[n].kind = "approve" /\ pool[n].amount > 0 => FreshAt(n)
    /\ pool[n].kind = "deposit" => CoveredAt(n, pool[n].amount)
SendIsHarmless ==
  \A w \in Wallets :
    LET s == sends[w]
    IN /\ s.step \in {"count", "allowance", "reset"} => DOMAIN pool = {}
       /\ s.step \in Ready => s.nonce >= mined /\ s.nonce \notin DOMAIN pool
       /\ s.step = "approve" => FreshAt(s.nonce)
       /\ s.step = "pay" /\ s.deposit => CoveredAt(s.nonce, s.amount)
Calm == ~early => reverted = {} /\ Alone /\ PoolIsHarmless /\ SendIsHarmless

CalmInv == Reach /\ Calm

LEMMA CalmInit == Init => CalmInv
  <1> SUFFICES ASSUME Init PROVE Calm
    BY ReachInit DEF CalmInv
  <1>1. reverted = {} /\ DOMAIN pool = {} /\ \A w \in Wallets : sends[w] = NoSend
    BY DEF Init
  <1> QED BY <1>1
      DEF Calm, Alone, PoolIsHarmless, SendIsHarmless, InProgress, NoSend, Ready

(* A send changes only itself and submits nothing. *)
LEMMA CalmUpdate ==
  ASSUME CalmInv, ~early, NEW w \in Wallets, NEW s,
         sends' = [sends EXCEPT ![w] = s],
         UNCHANGED <<mined, pool, allowance, reverted>>,
         s.step # "idle" => \A v \in Wallets \ {w} : ~InProgress(v),
         s.step \in {"count", "allowance", "reset"} => DOMAIN pool = {},
         s.step \in Ready => s.nonce >= mined /\ s.nonce \notin DOMAIN pool,
         s.step = "approve" => FreshAt(s.nonce),
         s.step = "pay" /\ s.deposit => CoveredAt(s.nonce, s.amount)
  PROVE  Calm'
  <1>1. \A v \in Wallets : sends'[v] = IF v = w THEN s ELSE sends[v]
    BY DEF CalmInv, Reach, Typed, TypeOK
  <1>2. reverted' = {} /\ PoolIsHarmless'
    BY DEF CalmInv, Calm, PoolIsHarmless, FreshAt, CoveredAt
  <1>3. Alone'
    BY <1>1 DEF CalmInv, Calm, Alone, InProgress
  <1>4. SendIsHarmless'
    BY <1>1 DEF CalmInv, Calm, SendIsHarmless, FreshAt, CoveredAt
  <1> QED BY <1>2, <1>3, <1>4 DEF Calm

(* A transaction is submitted with the first free nonce and needs nothing   *)
(* but what the pool leaves.                                                *)
LEMMA CalmSubmit ==
  ASSUME CalmInv, ~early, NEW w \in Wallets, Submit(w) \/ SubmitLost(w)
  PROVE  Calm'
  <1> DEFINE s == sends[w]
             tx == Prepared(sends[w])
  <1>1. /\ s \in Sends /\ s.step \in {"reset", "approve", "pay"} /\ s.id \in 1..MaxSends
        /\ s.step # "pay" => s.deposit
        /\ s.nonce \in Nat /\ s.nonce >= mined /\ s.nonce \notin DOMAIN pool
        /\ s.amount \in Nat
        /\ pool' = [n \in DOMAIN pool \cup {s.nonce} |-> IF n = s.nonce THEN tx ELSE pool[n]]
        /\ UNCHANGED <<mined, allowance, reverted>>
    <2>1. /\ s.step \in {"reset", "approve", "pay"}
          /\ pool' = [n \in DOMAIN pool \cup {s.nonce} |-> IF n = s.nonce THEN tx ELSE pool[n]]
          /\ UNCHANGED <<mined, allowance, reverted>>
      BY DEF Submit, SubmitLost, Enters
    <2>2. s \in Sends /\ s.id \in 1..MaxSends /\ (s.step # "pay" => s.deposit)
      BY <2>1 DEF CalmInv, Reach, Typed, TypeOK, Numbered, InProgress
    <2>3. s.nonce \in Nat /\ s.amount \in Amounts \cup {0}
      BY <2>2 DEF Sends
    <2>4. s.nonce >= mined /\ s.nonce \notin DOMAIN pool
      BY <2>1 DEF CalmInv, Calm, SendIsHarmless, Ready
    <2> QED BY <2>1, <2>2, <2>3, <2>4, AmountsAreNat
  <1>2. PICK top : Contiguous(top) /\ \A v \in Wallets : sends[v].step \in Ready => sends[v].nonce <= top
    BY DEF CalmInv, Reach, NoncesInReach
  <1>3. mined \in Nat /\ top \in Nat /\ top >= mined /\ DOMAIN pool = mined..(top - 1)
    BY <1>2 DEF CalmInv, Reach, Typed, TypeOK, Contiguous
  <1>4. s.nonce = top
    BY <1>1, <1>2, <1>3 DEF Ready
  <1>5. \A n \in DOMAIN pool : pool'[n] = pool[n] /\ (n # mined => pool'[n - 1] = pool[n - 1])
    BY <1>1, <1>3, <1>4
  <1>6. pool'[top] = tx /\ (top # mined => pool'[top - 1] = pool[top - 1])
    BY <1>1, <1>3, <1>4
  <1>7. /\ s.step = "approve" =>
             IF top = mined THEN allowance = 0 ELSE IsReset(pool[top - 1])
        /\ s.step = "pay" /\ s.deposit =>
             IF top = mined THEN allowance >= s.amount ELSE IsCover(pool[top - 1], s.amount)
    <2>1. /\ s.step = "approve" => FreshAt(s.nonce)
          /\ s.step = "pay" /\ s.deposit => CoveredAt(s.nonce, s.amount)
      BY DEF CalmInv, Calm, SendIsHarmless
    <2> QED BY <1>4, <2>1 DEF FreshAt, CoveredAt
  <1>8. /\ tx.kind = "approve" /\ tx.amount > 0 => s.step = "approve"
        /\ tx.kind = "deposit" => s.step = "pay" /\ s.deposit /\ tx.amount = s.amount
        /\ s.step = "reset" => IsReset(tx)
        /\ s.step = "approve" => IsCover(tx, s.amount)
    <2>1. CASE s.step = "reset"
      <3>1. tx = Approval(0, s.id)
        BY <1>1, <2>1, FollowingStep
      <3> QED BY <2>1, <3>1 DEF Approval, IsReset
    <2>2. CASE s.step = "approve"
      <3>1. tx = Approval(s.amount, s.id)
        BY <1>1, <2>2, FollowingStep
      <3> QED BY <1>1, <2>2, <3>1 DEF Approval, IsCover
    <2>3. CASE s.step = "pay"
      <3>1. tx = IF s.deposit THEN Deposit(s.amount, s.id) ELSE Transfer(s.id)
        BY <1>1, <2>3, FollowingStep
      <3> QED BY <2>3, <3>1 DEF Deposit, Transfer
    <2> QED BY <1>1, <2>1, <2>2, <2>3
  <1>9. PoolIsHarmless'
    <2> SUFFICES ASSUME NEW n \in DOMAIN pool'
                 PROVE  /\ pool'[n].kind = "approve" /\ pool'[n].amount > 0 => FreshAt(n)'
                        /\ pool'[n].kind = "deposit" => CoveredAt(n, pool[n].amount)'
      BY DEF PoolIsHarmless
    <2>1. CASE n = top
      BY <1>1, <1>3, <1>6, <1>7, <1>8, <2>1 DEF FreshAt, CoveredAt
    <2>2. CASE n \in DOMAIN pool
      <3>1. /\ pool[n].kind = "approve" /\ pool[n].amount > 0 => FreshAt(n)
            /\ pool[n].kind = "deposit" => CoveredAt(n, pool[n].amount)
        BY <2>2 DEF CalmInv, Calm, PoolIsHarmless
      <3> QED BY <1>1, <1>5, <2>2, <3>1 DEF FreshAt, CoveredAt
    <2> QED BY <1>1, <1>4, <2>1, <2>2
  <1> DEFINE f == Following(sends[w])
  <1>10. PICK g \in {f, NoSend} : sends' = [sends EXCEPT ![w] = g]
    BY DEF Submit, SubmitLost
  <1>11. \A v \in Wallets : sends'[v] = IF v = w THEN g ELSE sends[v]
    BY <1>10 DEF CalmInv, Reach, Typed, TypeOK
  <1>12. \A v \in Wallets \ {w} : sends[v].step = "idle"
    BY <1>1 DEF CalmInv, Calm, Alone, InProgress
  <1>13. Alone'
    BY <1>11, <1>12 DEF Alone, InProgress
  <1>14. CASE g = NoSend
    BY <1>1, <1>9, <1>11, <1>12, <1>13, <1>14
    DEF Calm, CalmInv, SendIsHarmless, NoSend, Ready
  <1>15. CASE g = f /\ g # NoSend
    <2>1. /\ g.nonce = top + 1 /\ g.deposit = s.deposit /\ g.amount = s.amount
          /\ \/ s.step = "reset" /\ g.step = "approve"
             \/ s.step = "approve" /\ g.step = "pay"
      <3>1. \/ s.step = "reset" /\ g = [s EXCEPT !.step = "approve", !.nonce = s.nonce + 1]
            \/ s.step = "approve" /\ g = [s EXCEPT !.step = "pay", !.nonce = s.nonce + 1]
        BY <1>1, <1>15, FollowingStep
      <3> QED BY <1>1, <1>4, <3>1 DEF Sends
    <2>2. g.nonce >= mined' /\ g.nonce \notin DOMAIN pool' /\ g.nonce # mined' /\ g.nonce - 1 = top
      BY <1>1, <1>3, <1>4, <2>1
    <2>3. g.step = "approve" => FreshAt(g.nonce)'
      BY <1>6, <1>8, <2>1, <2>2 DEF FreshAt
    <2>4. g.step = "pay" => CoveredAt(g.nonce, g.amount)'
      BY <1>6, <1>8, <2>1, <2>2 DEF CoveredAt
    <2>5. SendIsHarmless'
      BY <1>11, <1>12, <2>1, <2>2, <2>3, <2>4 DEF SendIsHarmless, Ready
    <2> QED BY <1>1, <1>9, <1>13, <2>5 DEF Calm, CalmInv
  <1> QED BY <1>10, <1>14, <1>15

(* What is executed leaves what the next transaction needs. *)
LEMMA CalmMine == ASSUME CalmInv, ~early, Mine PROVE Calm'
  <1> DEFINE tx == pool[mined]
  <1>1. PICK top : Contiguous(top) /\ \A w \in Wallets : sends[w].step \in Ready => sends[w].nonce <= top
    BY DEF CalmInv, Reach, NoncesInReach
  <1>2. /\ mined \in Nat /\ top \in Nat /\ DOMAIN pool = mined..(top - 1)
        /\ mined \in DOMAIN pool /\ mined' = mined + 1 /\ tx \in Transactions
        /\ pool' = [n \in DOMAIN pool \ {mined} |-> pool[n]]
        /\ sends' = sends
    BY <1>1 DEF Mine, CalmInv, Reach, Typed, TypeOK, Contiguous
  <1>3. /\ tx.kind = "approve" /\ tx.amount > 0 => allowance = 0
        /\ tx.kind = "deposit" => allowance >= tx.amount
    BY <1>2 DEF CalmInv, Calm, PoolIsHarmless, FreshAt, CoveredAt
  <1>4. Succeed(tx)
    <2>1. allowance \in Nat /\ tx.amount \in Amounts \cup {0}
      BY <1>2 DEF CalmInv, Reach, Typed, TypeOK, Transactions
    <2>2. tx.amount \in Nat
      BY <2>1, AmountsAreNat
    <2> QED BY <1>3, <2>1, <2>2 DEF Mine
  <1>5. reverted' = {}
    BY <1>4 DEF Succeed, CalmInv, Calm
  <1>6. /\ IsReset(tx) => allowance' = 0
        /\ \A amount : IsCover(tx, amount) => allowance' >= amount
    BY <1>4 DEF Succeed, IsReset, IsCover
  <1>7. \A n \in DOMAIN pool' : pool'[n] = pool[n] /\ n # mined
    BY <1>2
  <1>8. \A n \in mined..top : n # mined =>
          /\ FreshAt(n) => FreshAt(n)'
          /\ \A amount : CoveredAt(n, amount) => CoveredAt(n, amount)'
    BY <1>2, <1>6 DEF FreshAt, CoveredAt
  <1>9. PoolIsHarmless'
    BY <1>2, <1>7, <1>8 DEF CalmInv, Calm, PoolIsHarmless
  <1>10. SendIsHarmless'
    <2> SUFFICES ASSUME NEW w \in Wallets
                 PROVE  LET s == sends[w]
                        IN /\ s.step \in {"count", "allowance", "reset"} => DOMAIN pool' = {}
                           /\ s.step \in Ready => s.nonce >= mined' /\ s.nonce \notin DOMAIN pool'
                           /\ s.step = "approve" => FreshAt(s.nonce)'
                           /\ s.step = "pay" /\ s.deposit => CoveredAt(s.nonce, s.amount)'
      BY <1>2 DEF SendIsHarmless
    <2> DEFINE s == sends[w]
    <2>1. /\ s.step \notin {"count", "allowance", "reset"}
          /\ s.step \in Ready => s.nonce >= mined /\ s.nonce \notin DOMAIN pool /\ s.nonce <= top
          /\ s.step = "approve" => FreshAt(s.nonce)
          /\ s.step = "pay" /\ s.deposit => CoveredAt(s.nonce, s.amount)
          /\ s.nonce \in Nat
      BY <1>1, <1>2 DEF CalmInv, Calm, SendIsHarmless, Reach, Typed, TypeOK, Sends
    <2>2. s.step \in Ready => s.nonce = top /\ top # mined /\ top \in mined..top
      BY <1>2, <2>1
    <2>3. /\ s.step = "approve" => FreshAt(s.nonce)'
          /\ s.step = "pay" /\ s.deposit => CoveredAt(s.nonce, s.amount)'
      BY <1>2, <1>8, <2>1, <2>2 DEF Ready
    <2> QED BY <1>2, <2>1, <2>2, <2>3
  <1>11. Alone'
    BY <1>2 DEF CalmInv, Calm, Alone, InProgress
  <1> QED BY <1>5, <1>9, <1>10, <1>11 DEF Calm

LEMMA CalmStep == ASSUME CalmInv, [Next]_vars PROVE CalmInv'
  <1>1. Reach'
    BY ReachStep DEF CalmInv
  <1> SUFFICES ASSUME ~early' PROVE Calm'
    BY <1>1 DEF CalmInv, Calm
  <1>2. PICK top : Contiguous(top) /\ \A w \in Wallets : sends[w].step \in Ready => sends[w].nonce <= top
    BY DEF CalmInv, Reach, NoncesInReach
  <1>3. top \in Nat /\ top >= mined /\ PendingCount = top /\ top \notin DOMAIN pool
    <2>1. mined \in Nat
      BY DEF CalmInv, Reach, Typed, TypeOK
    <2>2. PendingCount = top
      BY <1>2, <2>1, PendingCountIsTop
    <2> QED BY <1>2, <2>1, <2>2 DEF Contiguous
  <1>4. CASE UNCHANGED vars
    BY <1>4 DEF vars, chainVars, userVars, CalmInv, Calm, Alone, PoolIsHarmless, SendIsHarmless,
       FreshAt, CoveredAt, InProgress
  <1>5. ASSUME NEW w \in Wallets, NEW deposit, NEW amount, Begin(w, deposit, amount)
        PROVE Calm'
    <2> DEFINE s == [step |-> "count", deposit |-> deposit, amount |-> amount, nonce |-> 0,
                     id |-> begun + 1]
    <2>1. /\ sends' = [sends EXCEPT ![w] = s] /\ UNCHANGED <<mined, pool, allowance, reverted>>
          /\ ~early /\ DOMAIN pool = {} /\ \A v \in Wallets : ~InProgress(v)
      BY <1>5 DEF Begin, chainVars
    <2> QED BY <2>1, CalmUpdate DEF Ready
  <1>6. ASSUME NEW w \in Wallets, CountTransactions(w) PROVE Calm'
    <2> DEFINE s == [sends[w] EXCEPT !.nonce = PendingCount,
                                     !.step = IF sends[w].deposit THEN "allowance" ELSE "pay"]
    <2>1. /\ sends' = [sends EXCEPT ![w] = s] /\ UNCHANGED <<mined, pool, allowance, reverted>>
          /\ ~early /\ sends[w].step = "count" /\ sends[w] \in Sends
      BY <1>6 DEF CountTransactions, chainVars, userVars, CalmInv, Reach, Typed, TypeOK
    <2>2. DOMAIN pool = {} /\ \A v \in Wallets \ {w} : ~InProgress(v)
      BY <2>1 DEF CalmInv, Calm, Alone, SendIsHarmless, InProgress
    <2>3. /\ s.nonce = top /\ s.deposit = sends[w].deposit
          /\ s.step = IF sends[w].deposit THEN "allowance" ELSE "pay"
      BY <1>3, <2>1 DEF Sends
    <2> HIDE DEF s
    <2> QED BY <1>3, <2>1, <2>2, <2>3, CalmUpdate
  <1>7. ASSUME NEW w \in Wallets, CheckExistingApproval(w) PROVE Calm'
    <2> DEFINE s == [sends[w] EXCEPT !.step = Check(sends[w].amount)]
    <2>1. /\ sends' = [sends EXCEPT ![w] = s] /\ UNCHANGED <<mined, pool, allowance, reverted>>
          /\ ~early /\ sends[w].step = "allowance" /\ sends[w] \in Sends
      BY <1>7 DEF CheckExistingApproval, chainVars, userVars, CalmInv, Reach, Typed, TypeOK
    <2>2. DOMAIN pool = {} /\ \A v \in Wallets \ {w} : ~InProgress(v)
      BY <2>1 DEF CalmInv, Calm, Alone, SendIsHarmless, InProgress
    <2>3. /\ sends[w].nonce >= mined /\ sends[w].nonce \notin DOMAIN pool
          /\ sends[w].nonce <= top /\ sends[w].nonce \in Nat
      BY <1>2, <2>1 DEF CalmInv, Calm, SendIsHarmless, Ready, Sends
    <2>4. /\ s.nonce = sends[w].nonce /\ s.deposit = sends[w].deposit /\ s.amount = sends[w].amount
          /\ s.step = Check(sends[w].amount)
      BY <2>1 DEF Sends
    <2>5. /\ s.step = "approve" => FreshAt(s.nonce)
          /\ s.step = "pay" => CoveredAt(s.nonce, s.amount)
          /\ s.step \in {"pay", "reset", "approve"}
      <3>1. allowance \in Nat /\ sends[w].amount \in Nat
        BY <2>1, AmountsAreNat DEF Sends, CalmInv, Reach, Typed, TypeOK
      <3>2. sends[w].nonce = mined
        <4>1. mined..(top - 1) = {} /\ mined \in Nat
          BY <1>2, <2>2 DEF Contiguous, CalmInv, Reach, Typed, TypeOK
        <4>2. mined > top - 1
          BY <1>3, <4>1
        <4> QED BY <1>3, <2>3, <4>1, <4>2
      <3> HIDE DEF s
      <3> QED BY <2>4, <3>1, <3>2, CheckStep DEF FreshAt, CoveredAt
    <2> HIDE DEF s
    <2> QED BY <1>3, <2>1, <2>2, <2>3, <2>4, <2>5, CalmUpdate
  <1>8. ASSUME NEW w \in Wallets, Submit(w) \/ SubmitLost(w) PROVE Calm'
    <2>1. ~early
      BY <1>8 DEF Submit, SubmitLost, Enters, userVars
    <2> QED BY <1>8, <2>1, CalmSubmit
  <1>9. ASSUME NEW w \in Wallets, Fail(w) PROVE Calm'
    <2>1. /\ sends' = [sends EXCEPT ![w] = NoSend] /\ UNCHANGED <<mined, pool, allowance, reverted>>
          /\ ~early
      BY <1>9 DEF Fail, chainVars, userVars
    <2>2. NoSend.step = "idle"
      BY DEF NoSend
    <2> QED BY <2>1, <2>2, CalmUpdate DEF Ready
  <1>10. CASE Mine
    <2>1. ~early
      BY <1>10 DEF Mine, userVars
    <2> QED BY <1>10, <2>1, CalmMine
  <1> QED BY <1>4, <1>5, <1>6, <1>7, <1>8, <1>9, <1>10 DEF Next

(* Whatever earlier sends have left of the allowance when they failed, no   *)
(* transaction reverts when each send begins once all others are mined.     *)
THEOREM DepositsDontRevert == Spec => []NothingReverts
  <1>1. CalmInv => NothingReverts
    BY DEF CalmInv, Calm, NothingReverts
  <1> QED BY <1>1, CalmInit, CalmStep, PTL DEF Spec

-----------------------------------------------------------------------------
(* Sends that don't overlap: the only one in progress has counted the whole *)
(* pool, so it never replaces a transaction that waits.                     *)
AtTop == \A w \in Wallets : sends[w].step \in Ready => Contiguous(sends[w].nonce)
Listed(i) ==
  \/ i \in paid \cup reverted
  \/ \E n \in DOMAIN pool : pool[n].id = i /\ pool[n].kind # "approve"
Kept == ~together => Alone /\ AtTop /\ \A i \in done : Listed(i)
KeptInv == Reach /\ Kept

(* A send that changes only itself and submits nothing. *)
LEMMA KeptUpdate ==
  ASSUME KeptInv, ~together, NEW w \in Wallets, NEW s,
         sends' = [sends EXCEPT ![w] = s],
         UNCHANGED <<mined, pool, paid, reverted, done>>,
         s.step # "idle" => \A v \in Wallets \ {w} : ~InProgress(v),
         s.step \in Ready => Contiguous(s.nonce)
  PROVE  Kept'
  <1>1. \A v \in Wallets : sends'[v] = IF v = w THEN s ELSE sends[v]
    BY DEF KeptInv, Reach, Typed, TypeOK
  <1>2. Alone'
    BY <1>1 DEF KeptInv, Kept, Alone, InProgress
  <1>3. AtTop'
    BY <1>1 DEF KeptInv, Kept, AtTop, Contiguous
  <1>4. \A i \in done' : Listed(i)'
    BY DEF KeptInv, Kept, Listed
  <1> QED BY <1>2, <1>3, <1>4 DEF Kept

(* A transaction is submitted with the first free nonce, beside all that    *)
(* wait.                                                                    *)
LEMMA KeptSubmit ==
  ASSUME KeptInv, ~together, NEW w \in Wallets, Submit(w) \/ SubmitLost(w)
  PROVE  Kept'
  <1> DEFINE s == sends[w]
             tx == Prepared(sends[w])
  <1>1. Enters(w) /\ UNCHANGED <<mined, paid, reverted>>
    BY DEF Submit, SubmitLost, Enters
  <1>2. /\ s \in Sends /\ s.step \in {"reset", "approve", "pay"} /\ s.id \in 1..MaxSends
        /\ s.step # "pay" => s.deposit
    BY <1>1 DEF Enters, KeptInv, Reach, Typed, TypeOK, Numbered, InProgress, Sends
  <1>3. Contiguous(s.nonce)
    BY <1>2 DEF KeptInv, Kept, AtTop, Ready
  <1>4. /\ DOMAIN pool' = DOMAIN pool \cup {s.nonce}
        /\ pool'[s.nonce] = tx
        /\ \A n \in DOMAIN pool : n # s.nonce /\ pool'[n] = pool[n]
    BY <1>1, <1>3 DEF Enters, Contiguous
  <1>5. \A v \in Wallets \ {w} : ~InProgress(v)
    BY <1>2 DEF KeptInv, Kept, Alone, InProgress
  <1>6. PICK f \in {Following(s), NoSend} : sends' = [sends EXCEPT ![w] = f]
    BY DEF Submit, SubmitLost
  <1>7. \A v \in Wallets : sends'[v] = IF v = w THEN f ELSE sends[v]
    BY <1>6 DEF KeptInv, Reach, Typed, TypeOK
  <1>8. Alone'
    BY <1>5, <1>7 DEF Alone, InProgress
  <1>9. AtTop'
    <2>1. ASSUME f.step \in Ready PROVE f.nonce = s.nonce + 1
      <3>1. NoSend.step \notin Ready
        BY DEF NoSend, Ready
      <3>2. f = Following(s) /\ s.step # "pay"
        BY <1>2, <2>1, <3>1, FollowingStep
      <3> QED BY <1>2, <3>2, FollowingStep DEF Sends
    <2>2. mined \in Nat
      BY DEF KeptInv, Reach, Typed, TypeOK
    <2>3. ASSUME f.step \in Ready PROVE Contiguous(f.nonce)'
      <3>1. s.nonce \in Nat /\ s.nonce >= mined /\ DOMAIN pool = mined..(s.nonce - 1)
        BY <1>3 DEF Contiguous
      <3>2. f.nonce \in Nat /\ f.nonce >= mined /\ f.nonce - 1 = s.nonce
        BY <2>1, <2>2, <2>3, <3>1
      <3>3. DOMAIN pool' = mined..(f.nonce - 1)
        BY <1>4, <2>2, <3>1, <3>2
      <3> QED BY <1>1, <3>2, <3>3 DEF Contiguous
    <2>4. \A v \in Wallets : v # w => sends'[v].step \notin Ready
      BY <1>5, <1>7 DEF InProgress, Ready
    <2> QED BY <1>7, <2>3, <2>4 DEF AtTop
  <1>10. ASSUME NEW i \in done' PROVE Listed(i)'
    <2>1. CASE i \in done
      BY <1>1, <1>4, <2>1 DEF KeptInv, Kept, Listed
    <2>2. CASE i \notin done
      <3>1. i = s.id /\ s.step = "pay"
        BY <1>10, <2>2 DEF Submit, SubmitLost
      <3>2. tx.id = i /\ tx.kind # "approve"
        <4>1. tx = Deposit(s.amount, s.id) \/ tx = Transfer(s.id)
          BY <1>2, <3>1, FollowingStep
        <4> QED BY <3>1, <4>1 DEF Deposit, Transfer
      <3> QED BY <1>4, <3>2 DEF Listed
    <2> QED BY <2>1, <2>2
  <1> QED BY <1>8, <1>9, <1>10 DEF Kept

(* A payment leaves the pool only when it is executed.                      *)
LEMMA KeptMine == ASSUME KeptInv, ~together, Mine PROVE Kept'
  <1> DEFINE tx == pool[mined]
  <1>1. /\ mined \in DOMAIN pool /\ mined' = mined + 1
        /\ DOMAIN pool' = DOMAIN pool \ {mined}
        /\ \A n \in DOMAIN pool' : pool'[n] = pool[n]
        /\ UNCHANGED <<sends, done>>
    BY DEF Mine
  <1>2. /\ mined \in Nat /\ tx \in Transactions
        /\ paid \subseteq paid' /\ reverted \subseteq reverted'
        /\ tx.kind # "approve" => tx.id \in paid' \cup reverted'
    BY <1>1 DEF Mine, Succeed, Revert, KeptInv, Reach, Typed, TypeOK
  <1>3. Alone'
    BY <1>1 DEF KeptInv, Kept, Alone, InProgress
  <1>4. AtTop'
    BY <1>1, <1>2 DEF KeptInv, Kept, AtTop, Contiguous
  <1>5. ASSUME NEW i \in done' PROVE Listed(i)'
    <2>1. Listed(i)
      BY <1>1, <1>5 DEF KeptInv, Kept
    <2>2. CASE i \in paid \cup reverted
      BY <1>2, <2>2 DEF Listed
    <2>3. ASSUME NEW n \in DOMAIN pool, pool[n].id = i, pool[n].kind # "approve"
          PROVE Listed(i)'
      <3>1. CASE n = mined
        BY <1>2, <2>3, <3>1 DEF Listed
      <3>2. CASE n # mined
        BY <1>1, <2>3, <3>2 DEF Listed
      <3> QED BY <3>1, <3>2
    <2> QED BY <2>1, <2>2, <2>3 DEF Listed
  <1> QED BY <1>3, <1>4, <1>5 DEF Kept

(* Every step keeps the invariant.                                          *)
LEMMA KeptStep == ASSUME KeptInv, [Next]_vars PROVE KeptInv'
  <1>1. Reach'
    BY ReachStep DEF KeptInv
  <1> SUFFICES ASSUME ~together' PROVE Kept'
    BY <1>1 DEF KeptInv, Kept
  <1>2. ~together
    BY DEF Next, Begin, CountTransactions, CheckExistingApproval, Submit, SubmitLost, Enters,
           Fail, Mine, vars, userVars
  <1>3. CASE UNCHANGED vars
    BY <1>3 DEF vars, chainVars, userVars, KeptInv, Kept, Alone, InProgress, AtTop,
                Contiguous, Listed
  <1>4. ASSUME NEW w \in Wallets, NEW deposit, NEW amount, Begin(w, deposit, amount)
        PROVE Kept'
    <2> DEFINE s == [step |-> "count", deposit |-> deposit, amount |-> amount, nonce |-> 0,
                     id |-> begun + 1]
    <2>1. /\ sends' = [sends EXCEPT ![w] = s] /\ s.step \notin Ready
          /\ UNCHANGED <<mined, pool, paid, reverted, done>>
      BY <1>4 DEF Begin, chainVars, Ready
    <2>2. \A v \in Wallets : ~InProgress(v)
      BY <1>4 DEF Begin
    <2> HIDE DEF s
    <2> QED BY <1>2, <2>1, <2>2, KeptUpdate
  <1>5. ASSUME NEW w \in Wallets, NEW s, sends' = [sends EXCEPT ![w] = s], InProgress(w),
               UNCHANGED <<mined, pool, paid, reverted, done>>,
               s.step \in Ready => Contiguous(s.nonce)
        PROVE Kept'
    <2>1. \A v \in Wallets \ {w} : ~InProgress(v)
      BY <1>2, <1>5 DEF KeptInv, Kept, Alone
    <2> QED BY <1>2, <1>5, <2>1, KeptUpdate
  <1>6. ASSUME NEW w \in Wallets, CountTransactions(w) PROVE Kept'
    <2> DEFINE s == [sends[w] EXCEPT !.nonce = PendingCount,
                                     !.step = IF sends[w].deposit THEN "allowance" ELSE "pay"]
    <2>1. PICK top : Contiguous(top)
      BY DEF KeptInv, Reach, NoncesInReach
    <2>2. PendingCount = top
      BY <2>1, PendingCountIsTop DEF KeptInv, Reach, Typed, TypeOK
    <2>3. s.nonce = top
      BY <2>2 DEF KeptInv, Reach, Typed, TypeOK, Sends
    <2>4. /\ sends' = [sends EXCEPT ![w] = s] /\ InProgress(w)
          /\ UNCHANGED <<mined, pool, paid, reverted, done>>
      BY <1>6 DEF CountTransactions, chainVars, InProgress
    <2> HIDE DEF s
    <2> QED BY <1>5, <2>1, <2>3, <2>4
  <1>7. ASSUME NEW w \in Wallets, CheckExistingApproval(w) PROVE Kept'
    <2> DEFINE s == [sends[w] EXCEPT !.step = Check(sends[w].amount)]
    <2>1. s.nonce = sends[w].nonce /\ sends[w].step \in Ready
      BY <1>7 DEF CheckExistingApproval, Ready, KeptInv, Reach, Typed, TypeOK, Sends
    <2>2. Contiguous(s.nonce)
      BY <1>2, <2>1 DEF KeptInv, Kept, AtTop
    <2>3. /\ sends' = [sends EXCEPT ![w] = s] /\ InProgress(w)
          /\ UNCHANGED <<mined, pool, paid, reverted, done>>
      BY <1>7 DEF CheckExistingApproval, chainVars, InProgress
    <2> HIDE DEF s
    <2> QED BY <1>5, <2>2, <2>3
  <1>8. ASSUME NEW w \in Wallets, Fail(w) PROVE Kept'
    <2>1. NoSend.step \notin Ready
      BY DEF NoSend, Ready
    <2> QED BY <1>5, <1>8, <2>1 DEF Fail, chainVars
  <1>9. ASSUME NEW w \in Wallets, Submit(w) \/ SubmitLost(w) PROVE Kept'
    BY <1>2, <1>9, KeptSubmit
  <1>10. CASE Mine
    BY <1>2, <1>10, KeptMine
  <1> QED BY <1>3, <1>4, <1>6, <1>7, <1>8, <1>9, <1>10 DEF Next

(* A payment that was reported as sent is executed or waits to be, for any  *)
(* number of sends, as long as no two are in progress at the same time.     *)
THEOREM ReportedPaymentsStay == Spec => []ReportedIsKept
  <1>1. Init => KeptInv
    <2> SUFFICES ASSUME Init PROVE Kept
      BY ReachInit DEF KeptInv
    <2>1. done = {} /\ \A w \in Wallets : sends[w] = NoSend
      BY DEF Init
    <2> QED BY <2>1 DEF Kept, Alone, AtTop, InProgress, NoSend, Ready
  <1>2. KeptInv => ReportedIsKept
    BY DEF KeptInv, Kept, Listed, ReportedIsKept
  <1> QED BY <1>1, <1>2, KeptStep, PTL DEF Spec
=============================================================================
