--------------------------- MODULE IcWallet_proofs ---------------------------
(***************************************************************************)
(* Proofs about IcWallet, for every page size and any number of Web         *)
(* Workers, executions, transactions, triggers, stops, failures and scrolls.*)
(***************************************************************************)
EXTENDS IcWallet, SchedulerTimer_proofs

(* The schedulers of the Web Workers.                                       *)
LEMMA TimerParts ==
  /\ MaxEvents \in Nat /\ MaxEvents >= 1
  /\ \A w \in Workers : w \in Nat /\ 1 <= w /\ w <= MaxEvents
  /\ \A s \in Timers : s[1] \in Workers /\ s[2] \in 0..MaxEvents - 1 /\ s = <<s[1], s[2]>>
  /\ \A w \in Workers, n \in 0..MaxEvents - 1 :
       <<w, n>> \in Timers /\ <<w, n>>[1] = w /\ <<w, n>>[2] = n
  BY WalletAssumption DEF Workers

(* Counts, the messages that wait and the restarts have their types, and    *)
(* the worker in the map has been created.                                  *)
WorkersShape ==
  /\ loads \in Nat /\ created \in Nat /\ kept \in BOOLEAN
  /\ triggers \in Nat /\ failures \in Nat /\ scrolls \in Nat
  /\ created + loads + triggers + scrolls <= MaxEvents
  /\ inbox \in [Workers -> Seq(Messages)] /\ restarts \in [Workers -> 0..MaxEvents - 1]
  /\ kept => created \in Workers

LEMMA CurrentIsTimer ==
  ASSUME WorkersShape, NEW w \in Workers
  PROVE  Current(w) \in Timers /\ Current(w)[1] = w /\ Current(w)[2] = restarts[w]
  <1>1. restarts[w] \in 0..MaxEvents - 1
    BY DEF WorkersShape
  <1> QED BY <1>1, TimerParts DEF Current

(* The next Web Worker is one of Workers.                                   *)
LEMMA NextWorker ==
  ASSUME WorkersShape, loads > 0
  PROVE  created + 1 \in Workers /\ <<created + 1, 0>> \in Timers
  <1>1. created + 1 \in 1..MaxEvents
    BY TimerParts DEF WorkersShape
  <1>2. 0 \in 0..MaxEvents - 1
    BY TimerParts
  <1> QED BY <1>1, <1>2, TimerParts DEF Workers

(* The steps that touch neither the stores, the calls nor the page.         *)
Background ==
  \/ Transact \/ BeginLoad \/ StopWallet
  \/ \E w \in Workers : HandleStop(w) \/ HandleReplace(w)
  \/ \E w \in Workers, r \in Runs : HandleStart(w, r) \/ TriggerWallet(w, r)
  \/ \E r \in Runs : NoSync(r)

(* What is posted, or dropped, does nothing else to the timers.             *)
LEMMA PostStep ==
  ASSUME NEW r \in Runs, NEW newList, NEW newBalance, Post(r, newList, newBalance)
  PROVE  UNCHANGED vars \/ PostMsg(r)
  BY DEF Post, Posts, Drops

LEMMA LoadStep ==
  ASSUME NEW r \in Runs, NEW k, NEW c, Load(r, k, c)
  PROVE  UNCHANGED vars \/ PostMsg(r)
  <1>1. CASE LedgerOnly(run[r].of)
    <2>1. LoadBalance(r, store[run[r].of], k, c)
      BY <1>1 DEF Load
    <2> QED BY <2>1, PostStep DEF LoadBalance
  <1>2. CASE ~LedgerOnly(run[r].of)
    <2>1. LoadTransactions(r, store[run[r].of], k, c)
      BY <1>2 DEF Load
    <2> QED BY <2>1, PostStep DEF LoadTransactions
  <1> QED BY <1>1, <1>2

(* A step of the wallet is a step of one of its timers or leaves all alone. *)
LEMMA TimerStep == ASSUME WorkersShape, [WalletNext]_walletVars PROVE [Next]_vars
  <1>1. CASE UNCHANGED walletVars
    BY <1>1 DEF walletVars
  <1>2. CASE Transact \/ BeginLoad \/ StopWallet \/ StartScroll \/ ScrollIgnored \/ ScrollFails
             \/ \E call \in Calls, k \in 0..MaxTx : ScrollAnswer(call, k)
    BY <1>2 DEF Transact, BeginLoad, StopWallet, StartScroll, ScrollIgnored, ScrollFails, ScrollAnswer
  <1>3. ASSUME NEW w \in Workers, HandleStop(w) \/ HandleReplace(w) PROVE [Next]_vars
    BY <1>3, CurrentIsTimer DEF HandleStop, HandleReplace, Next
  <1>4. ASSUME NEW w \in Workers, NEW r \in Runs, HandleStart(w, r) \/ TriggerWallet(w, r)
        PROVE [Next]_vars
    BY <1>4, CurrentIsTimer DEF HandleStart, TriggerWallet, Next
  <1>5. ASSUME NEW r \in Runs, FinishLoad(r) PROVE [Next]_vars
    BY <1>5, NextWorker DEF FinishLoad, Next
  <1>6. ASSUME NEW r \in Runs, NoSync(r) \/ BeginSync(r) \/ EndSync(r) PROVE [Next]_vars
    BY <1>6 DEF NoSync, BeginSync, EndSync, Next, JobEnds
  <1>7. ASSUME NEW r \in Runs, QueryIgnored(r) PROVE [Next]_vars
    BY <1>7 DEF QueryIgnored
  <1>8. ASSUME NEW r \in Runs, UpdateFails(r) PROVE [Next]_vars
    <2>1. UNCHANGED vars \/ PostMsg(r)
      BY <1>8 DEF UpdateFails, Posts, Drops
    <2> QED BY <2>1 DEF Next
  <1>9. ASSUME NEW r \in Runs, NEW call \in Calls, NEW k \in 0..MaxTx, Answer(r, call, k)
        PROVE [Next]_vars
    <2>1. UNCHANGED vars \/ PostMsg(r)
      BY <1>9, LoadStep DEF Answer
    <2> QED BY <2>1 DEF Next
  <1> QED BY <1>1, <1>2, <1>3, <1>4, <1>5, <1>6, <1>7, <1>8, <1>9 DEF WalletNext, Settles

(* Messages are put into an inbox and taken from it.                        *)
LEMMA InboxTypes ==
  ASSUME WorkersShape, NEW w, NEW messages \in Seq(Messages), NEW message,
         Send(w, messages) \/ Receive(w, message)
  PROVE  inbox' \in [Workers -> Seq(Messages)]
  <1>1. CASE w \notin Workers
    BY <1>1 DEF WorkersShape, Send, Receive
  <1>2. CASE w \in Workers /\ Send(w, messages)
    <2>1. inbox[w] \o messages \in Seq(Messages)
      BY <1>2 DEF WorkersShape
    <2> QED BY <1>2, <2>1 DEF WorkersShape, Send
  <1>3. CASE w \in Workers /\ Receive(w, message)
    <2>1. inbox[w] \in Seq(Messages) /\ inbox[w] # <<>>
      BY <1>3 DEF WorkersShape, Receive, IsNext
    <2>2. Tail(inbox[w]) \in Seq(Messages)
      BY <2>1
    <2> QED BY <1>3, <2>2 DEF WorkersShape, Receive
  <1> QED BY <1>1, <1>2, <1>3

LEMMA WorkersStep == ASSUME WorkersShape, [WalletNext]_walletVars PROVE WorkersShape'
  <1> USE WalletAssumption DEF WorkersShape
  <1>1. CASE UNCHANGED walletVars
    BY <1>1 DEF walletVars, workerVars, scrollVars
  <1>2. CASE BeginLoad
    <2>1. /\ loads' = loads + 1 /\ UNCHANGED <<created, kept, inbox, restarts, triggers>>
          /\ UNCHANGED <<failures, scrolls>> /\ MayHappen
      BY <1>2 DEF BeginLoad, scrollVars
    <2> QED BY <2>1 DEF MayHappen
  <1>3. ASSUME NEW r \in Runs, FinishLoad(r) PROVE WorkersShape'
    <2>1. created' = created + 1 /\ created + 1 \in Workers /\ loads' = loads - 1 /\ loads > 0
      BY <1>3, NextWorker DEF FinishLoad
    <2>2. kept' = TRUE /\ UNCHANGED <<inbox, restarts, triggers, failures, scrolls>>
      BY <1>3 DEF FinishLoad, scrollVars
    <2> QED BY <2>1, <2>2
  <1>4. CASE StopWallet
    <2>1. <<"stop">> \in Seq(Messages)
      BY DEF Messages
    <2>2. inbox' \in [Workers -> Seq(Messages)]
      BY <1>4, <2>1, InboxTypes DEF StopWallet
    <2> QED BY <1>4, <2>2 DEF StopWallet, scrollVars
  <1>5. ASSUME NEW w \in Workers, NEW message, Receive(w, message)
        PROVE inbox' \in [Workers -> Seq(Messages)]
    <2>1. <<>> \in Seq(Messages)
      OBVIOUS
    <2> QED BY <1>5, <2>1, InboxTypes
  <1>6. ASSUME NEW w \in Workers, HandleStop(w) PROVE WorkersShape'
    BY <1>5, <1>6 DEF HandleStop, scrollVars
  <1>7. ASSUME NEW w \in Workers, HandleReplace(w) PROVE WorkersShape'
    <2>1. restarts[w] + 1 \in 0..MaxEvents - 1
      BY <1>7 DEF HandleReplace
    <2>2. restarts' \in [Workers -> 0..MaxEvents - 1]
      BY <1>7, <2>1 DEF HandleReplace
    <2> QED BY <1>5, <1>7, <2>2 DEF HandleReplace, scrollVars
  <1>8. ASSUME NEW w \in Workers, NEW r \in Runs, HandleStart(w, r) PROVE WorkersShape'
    BY <1>5, <1>8 DEF HandleStart, scrollVars
  <1>9. ASSUME NEW w \in Workers, NEW r \in Runs, TriggerWallet(w, r) PROVE WorkersShape'
    <2>1. /\ triggers' = triggers + 1 /\ UNCHANGED <<loads, created, kept, inbox, restarts>>
          /\ UNCHANGED <<failures, scrolls>> /\ MayHappen
      BY <1>9 DEF TriggerWallet, scrollVars
    <2> QED BY <2>1 DEF MayHappen
  <1>10. ASSUME NEW r \in Runs, UpdateFails(r) PROVE WorkersShape'
    <2>1. <<"replace", "start">> \in Seq(Messages)
      BY DEF Messages
    <2>2. inbox' \in [Workers -> Seq(Messages)]
      BY <1>10, <2>1, InboxTypes DEF UpdateFails
    <2> QED BY <1>10, <2>2 DEF UpdateFails, MayHappen, scrollVars
  <1>11. CASE StartScroll \/ ScrollFails
    <2>1. UNCHANGED <<loads, created, kept, inbox, restarts, triggers>>
      BY <1>11 DEF StartScroll, ScrollFails, workerVars
    <2>2. CASE StartScroll
      <3>1. MayHappen /\ scrolls' = scrolls + 1 /\ failures' = failures
        BY <2>2 DEF StartScroll
      <3> QED BY <2>1, <3>1 DEF MayHappen
    <2>3. CASE ScrollFails
      <3>1. failures' = failures + 1 /\ scrolls' = scrolls
        BY <2>3 DEF ScrollFails
      <3> QED BY <2>1, <3>1
    <2> QED BY <1>11, <2>2, <2>3
  <1>12. CASE UNCHANGED <<workerVars, failures, scrolls>>
    BY <1>12 DEF workerVars
  <1>13. CASE Transact \/ ScrollIgnored \/ \E call \in Calls, k \in 0..MaxTx : ScrollAnswer(call, k)
    BY <1>12, <1>13 DEF Transact, ScrollIgnored, ScrollAnswer, scrollVars
  <1>14. ASSUME NEW r \in Runs, NoSync(r) \/ BeginSync(r) \/ EndSync(r) \/ QueryIgnored(r)
                  \/ \E call \in Calls, k \in 0..MaxTx : Answer(r, call, k)
         PROVE WorkersShape'
    BY <1>12, <1>14 DEF NoSync, BeginSync, EndSync, QueryIgnored, Answer, scrollVars
  <1> QED BY <1>1, <1>2, <1>3, <1>4, <1>6, <1>7, <1>8, <1>9, <1>10, <1>11, <1>13, <1>14
          DEF WalletNext, Settles

LEMMA WorkersHold == WalletSpec => []WorkersShape
  <1>1. WalletInit => WorkersShape
    <2> SUFFICES ASSUME WalletInit PROVE WorkersShape
      OBVIOUS
    <2>1. /\ inbox = [w \in Workers |-> <<>>] /\ restarts = [w \in Workers |-> 0]
          /\ 0 \in 0..MaxEvents - 1 /\ <<>> \in Seq(Messages) /\ MaxEvents \in Nat
      BY TimerParts DEF WalletInit
    <2>2. /\ inbox \in [Workers -> Seq(Messages)] /\ restarts \in [Workers -> 0..MaxEvents - 1]
      BY <2>1
    <2>3. loads = 0 /\ created = 0 /\ kept = FALSE /\ triggers = 0 /\ failures = 0 /\ scrolls = 0
      BY DEF WalletInit
    <2>4. /\ loads \in Nat /\ created \in Nat
          /\ triggers \in Nat /\ failures \in Nat /\ scrolls \in Nat
          /\ created + loads + triggers + scrolls <= MaxEvents
      BY <2>1, <2>3
    <2>5. kept \in BOOLEAN /\ ~kept
      BY <2>3
    <2> QED BY <2>2, <2>4, <2>5 DEF WorkersShape
  <1> QED BY <1>1, WorkersStep, PTL DEF WalletSpec

(* The wallet uses the timers as SchedulerTimer allows, so what is proved   *)
(* of timers holds of the wallet.                                           *)
THEOREM WalletImplementsTimer == WalletSpec => Spec
  <1>1. WalletInit => Init
    BY DEF WalletInit
  <1> QED BY <1>1, TimerStep, WorkersHold, PTL DEF WalletSpec, Spec

(* The status of no scheduler of the wallet stays in_progress for want of a *)
(* job that resets it.                                                      *)
THEOREM WalletNeverSticks == WalletSpec => []BusyMeansRunning
  BY WalletImplementsTimer, StatusNeverSticks, PTL

(* Two syncs of a scheduler run at the same time only once it has been      *)
(* stopped.                                                                 *)
THEOREM SyncsDontOverlap == WalletSpec => []OverlapNeedsStop
  BY WalletImplementsTimer, NoOverlapWithoutStop, PTL

-----------------------------------------------------------------------------
(* Filtering a sequence.                                                    *)

(* Positions keep their order when they are counted, and every count is     *)
(* reached.                                                                 *)
LEMMA RanksAreCounts ==
  ASSUME NEW I, IsFiniteSet(I), I \subseteq Int
  PROVE  /\ Cardinality(I) \in Nat
         /\ \A i \in I : Rank(I, i) \in 1..Cardinality(I)
         /\ \A i, j \in I : i < j => Rank(I, i) < Rank(I, j)
         /\ \A n \in 1..Cardinality(I) : \E i \in I : Rank(I, i) = n
  <1> DEFINE Upto(i) == {j \in I : j <= i}
  <1>1. ASSUME NEW i \in I
        PROVE  /\ IsFiniteSet(Upto(i)) /\ Cardinality(Upto(i)) \in Nat
               /\ Cardinality(Upto(i)) <= Cardinality(I) /\ Cardinality(Upto(i)) # 0
    <2>1. Upto(i) \in SUBSET I /\ i \in Upto(i)
      OBVIOUS
    <2> HIDE DEF Upto
    <2> QED BY <2>1, FS_Subset, FS_CardinalityType, FS_EmptySet
  <1>2. Cardinality(I) \in Nat
    BY FS_CardinalityType
  <1>3. ASSUME NEW i \in I PROVE Rank(I, i) \in 1..Cardinality(I)
    BY <1>1, <1>2 DEF Rank
  <1>4. ASSUME NEW i \in I, NEW j \in I, i < j PROVE Rank(I, i) < Rank(I, j)
    <2>1. Upto(i) \subseteq Upto(j) /\ j \in Upto(j) /\ j \notin Upto(i)
      <3>1. i \in Int /\ j \in Int /\ \A x \in I : x \in Int
        OBVIOUS
      <3>2. \A x \in I : x <= i => x <= j
        BY <1>4, <3>1
      <3>3. j <= j /\ ~(j <= i)
        BY <1>4, <3>1
      <3> QED BY <3>2, <3>3
    <2> HIDE DEF Upto
    <2>2. Cardinality(Upto(i)) <= Cardinality(Upto(j)) /\ Cardinality(Upto(j)) # Cardinality(Upto(i))
      BY <1>1, <2>1, FS_Subset
    <2>3. Cardinality(Upto(i)) < Cardinality(Upto(j))
      BY <1>1, <2>2
    <2> QED BY <2>3 DEF Rank, Upto
  <1>5. PICK rank : rank = [i \in I |-> Rank(I, i)]
    OBVIOUS
  <1>6. rank \in Injection(I, 1..Cardinality(I))
    <2>1. rank \in [I -> 1..Cardinality(I)]
      BY <1>3, <1>5
    <2>2. ASSUME NEW i \in I, NEW j \in I, rank[i] = rank[j], i # j PROVE FALSE
      <3>1. i < j \/ j < i
        BY <2>2
      <3>2. Rank(I, i) \in Int /\ Rank(I, j) \in Int /\ Rank(I, i) = Rank(I, j)
        BY <1>3, <1>5, <2>2
      <3>3. CASE i < j
        BY <1>4, <3>2, <3>3
      <3>4. CASE j < i
        BY <1>4, <3>2, <3>4
      <3> QED BY <3>1, <3>3, <3>4
    <2> QED BY <2>1, <2>2 DEF Injection, IsInjective
  <1>7. IsFiniteSet(1..Cardinality(I)) /\ Cardinality(1..Cardinality(I)) = Cardinality(I)
    BY <1>2, FS_Interval
  <1>8. rank \in Surjection(I, 1..Cardinality(I))
    BY <1>6, <1>7, FS_Injection
  <1>9. \A n \in 1..Cardinality(I) : \E i \in I : Rank(I, i) = n
    BY <1>5, <1>8 DEF Surjection
  <1> QED BY <1>2, <1>3, <1>4, <1>9

(* A filtered sequence is a sequence of the elements at the positions that  *)
(* are kept, in the order of these.                                         *)
LEMMA FilterKeeps ==
  ASSUME NEW s \in Seq(Transactions), NEW I \in SUBSET DOMAIN s
  PROVE  /\ Filtered(s, I) \in Seq(Transactions)
         /\ \A i \in I : \E n \in DOMAIN Filtered(s, I) : Filtered(s, I)[n] = s[i]
         /\ \E at \in [DOMAIN Filtered(s, I) -> I] :
              /\ \A n \in DOMAIN Filtered(s, I) : Filtered(s, I)[n] = s[at[n]]
              /\ \A m, n \in DOMAIN Filtered(s, I) : m < n => at[m] < at[n]
  <1>1. IsFiniteSet(I) /\ I \subseteq Int /\ I \in SUBSET Nat
    <2>1. DOMAIN s = 1..Len(s) /\ Len(s) \in Nat
      OBVIOUS
    <2>2. IsFiniteSet(DOMAIN s)
      BY <2>1, FS_Interval
    <2> QED BY <2>1, <2>2, FS_Subset
  <1>2. /\ Cardinality(I) \in Nat
        /\ \A i \in I : Rank(I, i) \in 1..Cardinality(I)
        /\ \A i, j \in I : i < j => Rank(I, i) < Rank(I, j)
        /\ \A n \in 1..Cardinality(I) : \E i \in I : Rank(I, i) = n
    BY <1>1, RanksAreCounts
  <1>3. PICK at : at = [n \in 1..Cardinality(I) |-> CHOOSE i \in I : Rank(I, i) = n]
    OBVIOUS
  <1>4. \A n \in 1..Cardinality(I) : at[n] \in I /\ Rank(I, at[n]) = n
    BY <1>2, <1>3
  <1>5. PICK f : f = Filtered(s, I)
    OBVIOUS
  <1>6. f = [n \in 1..Cardinality(I) |-> s[at[n]]]
    <2>1. Filter[<<s, I>>] = At(s, I)
      BY <1>1 DEF Filter
    <2> QED BY <1>3, <1>5, <2>1 DEF Filtered, At
  <1>7. f \in Seq(Transactions) /\ DOMAIN f = 1..Cardinality(I)
    <2>1. \A n \in 1..Cardinality(I) : s[at[n]] \in Transactions
      BY <1>4
    <2> QED BY <1>2, <1>6, <2>1
  <1>8. ASSUME NEW m \in 1..Cardinality(I), NEW n \in 1..Cardinality(I), m < n
        PROVE  at[m] < at[n]
    <2>1. at[m] \in Int /\ at[n] \in Int /\ at[m] \in I /\ at[n] \in I
          /\ Rank(I, at[m]) = m /\ Rank(I, at[n]) = n
      BY <1>1, <1>4
    <2>2. CASE at[n] < at[m]
      BY <1>2, <1>8, <2>1, <2>2
    <2>3. CASE at[n] = at[m]
      BY <1>8, <2>1, <2>3
    <2> QED BY <2>1, <2>2, <2>3
  <1>9. ASSUME NEW i \in I PROVE \E n \in 1..Cardinality(I) : f[n] = s[i]
    <2>1. PICK n \in 1..Cardinality(I) : n = Rank(I, i)
      BY <1>2
    <2>2. at[n] = i
      <3>1. at[n] \in I /\ Rank(I, at[n]) = Rank(I, i) /\ Rank(I, i) \in Int
        BY <1>4, <2>1
      <3>2. at[n] < i \/ i < at[n] \/ at[n] = i
        BY <1>1, <3>1
      <3>3. ASSUME at[n] < i PROVE FALSE
        BY <1>2, <3>1, <3>3
      <3>4. ASSUME i < at[n] PROVE FALSE
        BY <1>2, <3>1, <3>4
      <3> QED BY <3>2, <3>3, <3>4
    <2> QED BY <1>6, <2>2
  <1>10. at \in [DOMAIN f -> I]
    BY <1>3, <1>4, <1>7
  <1>11. \A n \in DOMAIN f : f[n] = s[at[n]]
    BY <1>6, <1>7
  <1>12. /\ \A i \in I : \E n \in DOMAIN f : f[n] = s[i]
         /\ \A m, n \in DOMAIN f : m < n => at[m] < at[n]
    BY <1>7, <1>8, <1>9
  <1> QED BY <1>5, <1>7, <1>10, <1>11, <1>12

(* Certified transactions are in the order of their ids, the newest first.  *)
InOrder(s) ==
  \A i, j \in DOMAIN s : i < j /\ s[i].certified /\ s[j].certified => s[i].id > s[j].id
Descending(s) == \A i, j \in DOMAIN s : i < j => s[i].id > s[j].id

(* The elements of a filtered sequence, and their order.                    *)
LEMMA FilterElements ==
  ASSUME NEW s \in Seq(Transactions), NEW I \in SUBSET DOMAIN s
  PROVE  /\ Filtered(s, I) \in Seq(Transactions)
         /\ Elements(Filtered(s, I)) = {s[i] : i \in I}
         /\ InOrder(s) => InOrder(Filtered(s, I))
         /\ Descending(s) => Descending(Filtered(s, I))
  <1>1. PICK f : f = Filtered(s, I)
    OBVIOUS
  <1>2. f \in Seq(Transactions) /\ \A i \in I : \E n \in DOMAIN f : f[n] = s[i]
    BY <1>1, FilterKeeps
  <1>3. PICK at \in [DOMAIN f -> I] :
          /\ \A n \in DOMAIN f : f[n] = s[at[n]]
          /\ \A m, n \in DOMAIN f : m < n => at[m] < at[n]
    BY <1>1, FilterKeeps
  <1>4. \A n \in DOMAIN f : at[n] \in I /\ at[n] \in DOMAIN s
    BY <1>3
  <1>5. Elements(f) = {s[i] : i \in I}
    BY <1>2, <1>3, <1>4 DEF Elements
  <1>6. InOrder(s) => InOrder(f)
    BY <1>3, <1>4 DEF InOrder
  <1>7. Descending(s) => Descending(f)
    BY <1>3, <1>4 DEF Descending
  <1> QED BY <1>1, <1>2, <1>5, <1>6, <1>7

(* cleanUp removes the entries with the given ids.                          *)
LEMMA CleanUpElements ==
  ASSUME NEW s \in Seq(Transactions), NEW ids
  PROVE  /\ CleanUp(s, ids) \in Seq(Transactions)
         /\ Elements(CleanUp(s, ids)) = {t \in Elements(s) : t.id \notin ids}
         /\ InOrder(s) => InOrder(CleanUp(s, ids))
  <1>1. PICK I : I = {i \in DOMAIN s : s[i].id \notin ids}
    OBVIOUS
  <1>2. I \in SUBSET DOMAIN s
    BY <1>1
  <1>3. CleanUp(s, ids) = Filtered(s, I)
    BY <1>1 DEF CleanUp
  <1>4. {s[i] : i \in I} = {t \in Elements(s) : t.id \notin ids}
    BY <1>1 DEF Elements
  <1> QED BY <1>2, <1>3, <1>4, FilterElements

(* The elements of a concatenation.                                         *)
LEMMA AppendedElements ==
  ASSUME NEW s \in Seq(Transactions), NEW t \in Seq(Transactions)
  PROVE  /\ s \o t \in Seq(Transactions)
         /\ Elements(s \o t) = Elements(s) \cup Elements(t)
         /\ InOrder(s) /\ InOrder(t)
              /\ (\A a \in Elements(s), b \in Elements(t) : a.certified /\ b.certified => a.id > b.id)
            => InOrder(s \o t)
  <1>1. PICK c : c = s \o t
    OBVIOUS
  <1>2. /\ c \in Seq(Transactions) /\ Len(s) \in Nat /\ Len(t) \in Nat
        /\ DOMAIN s = 1..Len(s) /\ DOMAIN t = 1..Len(t) /\ DOMAIN c = 1..(Len(s) + Len(t))
        /\ \A i \in 1..Len(s) : c[i] = s[i]
        /\ \A i \in 1..Len(t) : c[Len(s) + i] = t[i] /\ Len(s) + i \in DOMAIN c
        /\ \A i \in DOMAIN c : i \notin 1..Len(s) => i - Len(s) \in 1..Len(t) /\ c[i] = t[i - Len(s)]
    BY <1>1
  <1>3. Elements(c) = Elements(s) \cup Elements(t)
    <2>1. ASSUME NEW i \in DOMAIN c PROVE c[i] \in Elements(s) \cup Elements(t)
      BY <1>2 DEF Elements
    <2>2. ASSUME NEW i \in DOMAIN s PROVE s[i] \in Elements(c)
      BY <1>2 DEF Elements
    <2>3. ASSUME NEW i \in DOMAIN t PROVE t[i] \in Elements(c)
      BY <1>2 DEF Elements
    <2> QED BY <2>1, <2>2, <2>3 DEF Elements
  <1>4. ASSUME InOrder(s), InOrder(t),
               \A a \in Elements(s), b \in Elements(t) : a.certified /\ b.certified => a.id > b.id,
               NEW i \in DOMAIN c, NEW j \in DOMAIN c, i < j, c[i].certified, c[j].certified
        PROVE  c[i].id > c[j].id
    <2>1. CASE i \in 1..Len(s) /\ j \in 1..Len(s)
      BY <1>2, <1>4, <2>1 DEF InOrder
    <2>2. CASE i \in 1..Len(s) /\ j \notin 1..Len(s)
      BY <1>2, <1>4, <2>2 DEF Elements
    <2>3. CASE i \notin 1..Len(s)
      <3>1. /\ i - Len(s) \in DOMAIN t /\ j - Len(s) \in DOMAIN t /\ i - Len(s) < j - Len(s)
            /\ c[i] = t[i - Len(s)] /\ c[j] = t[j - Len(s)]
        BY <1>2, <1>4, <2>3
      <3> QED BY <1>4, <3>1 DEF InOrder
    <2> QED BY <2>1, <2>2, <2>3
  <1> QED BY <1>1, <1>2, <1>3, <1>4 DEF InOrder

(* A page: the last transactions, the newest first.                         *)
PageIds(k) == {n \in 1..k : n > k - PageSize}
LEMMA PageElements ==
  ASSUME NEW k \in 0..MaxTx, NEW c \in BOOLEAN
  PROVE  /\ With(Page(k), c) \in Seq(Transactions)
         /\ Descending(With(Page(k), c))
         /\ Elements(With(Page(k), c)) = {[id |-> n, certified |-> c] : n \in PageIds(k)}
  <1>1. PICK p, m : p = With(Page(k), c) /\ m = Least(PageSize, k)
    OBVIOUS
  <1>2. m \in Nat /\ m <= k /\ m <= PageSize /\ (m = k \/ m = PageSize)
        /\ k \in Nat /\ k <= MaxTx /\ PageSize \in Nat
    BY <1>1, WalletAssumption DEF Least
  <1>3. p = [i \in 1..m |-> [id |-> k + 1 - i, certified |-> c]]
    BY <1>1 DEF With, Page
  <1>4. ASSUME NEW i \in 1..m PROVE k + 1 - i \in 1..MaxTx /\ k + 1 - i \in PageIds(k)
    <2>1. /\ i \in Int /\ 1 <= i /\ i <= k /\ i <= PageSize
          /\ k \in Int /\ PageSize \in Int /\ MaxTx \in Int
      BY <1>2, WalletAssumption
    <2>2. PICK n \in Int : n = k + 1 - i
      BY <2>1
    <2>3. 1 <= n /\ n <= k /\ n > k - PageSize /\ n <= MaxTx
      BY <1>2, <2>1, <2>2
    <2> QED BY <2>1, <2>2, <2>3 DEF PageIds
  <1>5. p \in Seq(Transactions)
    <2>1. \A i \in 1..m : [id |-> k + 1 - i, certified |-> c] \in Transactions
      BY <1>4 DEF Transactions
    <2>2. p \in [1..m -> Transactions]
      BY <1>3, <2>1
    <2> QED BY <1>2, <2>2
  <1>6. Descending(p)
    BY <1>2, <1>3 DEF Descending
  <1>7. \A n \in PageIds(k) : k + 1 - n \in 1..m /\ k + 1 - (k + 1 - n) = n
    BY <1>2 DEF PageIds
  <1>8. Elements(p) = {[id |-> n, certified |-> c] : n \in PageIds(k)}
    BY <1>3, <1>4, <1>7 DEF Elements
  <1> QED BY <1>1, <1>5, <1>6, <1>8

-----------------------------------------------------------------------------
(* What loading an answer does to the transactions a scheduler knows.       *)

Certified(n) == [id |-> n, certified |-> TRUE]
NewTxs(known, k, c) == {t \in Elements(With(Page(k), c)) : Certified(t.id) \notin known.txs}
SyncedTxs(known, k, c) ==
  {t \in known.txs : t.id \notin Ids(NewTxs(known, k, c))} \cup NewTxs(known, k, c)
PrunedTxs(known, k, c) == IF c THEN Uncertified(SyncedTxs(known, k, c)) ELSE {}

(* What the page shows if the data of the answer is posted.                 *)
Shows(shown, known, k, c) ==
  /\ shown \in Seq(Transactions)
  /\ Elements(shown) =
       {t \in NewTxs(known, k, c)
                \cup {u \in Elements(list) : u.id \notin Ids(NewTxs(known, k, c))} :
          t.id \notin Ids(PrunedTxs(known, k, c))}
  /\ InOrder(list)
       /\ (\A t \in NewTxs(known, k, c), u \in Elements(list) :
             t.certified /\ u.certified /\ u.id \notin Ids(NewTxs(known, k, c)) => t.id > u.id)
       => InOrder(shown)

Stores == [balance : Balances \cup {NoBalance}, txs : SUBSET Transactions]

(* The new transactions are those of the page without the known ones.       *)
LEMMA UnknownElements ==
  ASSUME NEW known, NEW k \in 0..MaxTx, NEW c \in BOOLEAN
  PROVE  /\ Unknown(known, With(Page(k), c)) \in Seq(Transactions)
         /\ Elements(Unknown(known, With(Page(k), c))) = NewTxs(known, k, c)
         /\ InOrder(Unknown(known, With(Page(k), c)))
  <1>1. PICK p : p = With(Page(k), c)
    OBVIOUS
  <1>2. p \in Seq(Transactions) /\ Descending(p)
    BY <1>1, PageElements
  <1>3. PICK I : I = {i \in DOMAIN p : Certified(p[i].id) \notin known.txs}
    OBVIOUS
  <1>4. I \in SUBSET DOMAIN p
    BY <1>3
  <1>5. Unknown(known, p) = Filtered(p, I)
    BY <1>3 DEF Unknown, Certified
  <1>6. {p[i] : i \in I} = NewTxs(known, k, c)
    BY <1>1, <1>3 DEF NewTxs, Elements
  <1>7. /\ Filtered(p, I) \in Seq(Transactions) /\ Elements(Filtered(p, I)) = {p[i] : i \in I}
        /\ Descending(Filtered(p, I))
    BY <1>2, <1>4, FilterElements
  <1>8. InOrder(Filtered(p, I))
    BY <1>7 DEF InOrder, Descending
  <1> QED BY <1>1, <1>5, <1>6, <1>7, <1>8

(* What is posted: the new transactions before the old ones, all pruned.    *)
LEMMA PostedShows ==
  ASSUME list \in Seq(Transactions), NEW known, NEW k \in 0..MaxTx, NEW c \in BOOLEAN,
         NEW new, new = Unknown(known, With(Page(k), c))
  PROVE  Shows(CleanUp(Prepend(new, list), Ids(PrunedTxs(known, k, c))), known, k, c)
  <1>1. PICK news, pruned : news = NewTxs(known, k, c) /\ pruned = PrunedTxs(known, k, c)
    OBVIOUS
  <1>2. new \in Seq(Transactions) /\ Elements(new) = news /\ InOrder(new)
    BY <1>1, UnknownElements
  <1>3. PICK old : old = CleanUp(list, Ids(news))
    OBVIOUS
  <1>4. /\ old \in Seq(Transactions)
        /\ Elements(old) = {u \in Elements(list) : u.id \notin Ids(news)}
        /\ InOrder(list) => InOrder(old)
    BY <1>3, CleanUpElements
  <1>5. PICK both : both = Prepend(new, list)
    OBVIOUS
  <1>6. both = new \o old
    BY <1>2, <1>3, <1>5 DEF Prepend
  <1>7. /\ both \in Seq(Transactions) /\ Elements(both) = news \cup Elements(old)
        /\ InOrder(new) /\ InOrder(old)
             /\ (\A t \in Elements(new), u \in Elements(old) : t.certified /\ u.certified => t.id > u.id)
           => InOrder(both)
    BY <1>2, <1>4, <1>6, AppendedElements
  <1>8. PICK shown : shown = CleanUp(both, Ids(pruned))
    OBVIOUS
  <1>9. /\ shown \in Seq(Transactions)
        /\ Elements(shown) = {t \in Elements(both) : t.id \notin Ids(pruned)}
        /\ InOrder(both) => InOrder(shown)
    BY <1>7, <1>8, CleanUpElements
  <1>10. ASSUME InOrder(list),
                \A t \in news, u \in Elements(list) :
                  t.certified /\ u.certified /\ u.id \notin Ids(news) => t.id > u.id
         PROVE  InOrder(shown)
    <2>1. \A t \in Elements(new), u \in Elements(old) : t.certified /\ u.certified => t.id > u.id
      BY <1>2, <1>4, <1>10
    <2> QED BY <1>2, <1>4, <1>7, <1>9, <1>10, <2>1
  <1>11. Elements(shown) =
           {t \in news \cup {u \in Elements(list) : u.id \notin Ids(news)} : t.id \notin Ids(pruned)}
    BY <1>4, <1>7, <1>9
  <1>12. Shows(shown, known, k, c)
    BY <1>1, <1>9, <1>10, <1>11 DEF Shows
  <1> QED BY <1>1, <1>5, <1>8, <1>12

(* The effect of an answer with transactions on the store of its scheduler  *)
(* s and on the page, to which it is posted unless the timer is idle.       *)
LoadsTransactions(s, k, c) ==
  /\ store'[s] \in Stores
  /\ store'[s].txs = SyncedTxs(store[s], k, c) \ PrunedTxs(store[s], k, c)
  /\ \E shown : /\ Shows(shown, store[s], k, c)
                /\ list' = shown \/ (timerStatus[s] = "idle" /\ list' = list)
  /\ \/ /\ store'[s].balance = [data |-> k, certified |-> c]
        /\ balance' = store'[s].balance \/ (timerStatus[s] = "idle" /\ balance' = balance)
     \/ store'[s].balance = store[s].balance /\ balance' = balance

(* The same for an answer of the ledger.                                    *)
LoadsBalance(s, k, c) ==
  /\ store'[s] \in Stores /\ store'[s].txs = store[s].txs
  /\ list' = <<>> \/ list' = list
  /\ store'[s].balance \in {store[s].balance, [data |-> k, certified |-> c]}
  /\ balance' \in {balance, [data |-> k, certified |-> c]}

StoresOK == store \in [Timers -> Stores]

(* What Load does whatever it loads.                                        *)
Loads(s) ==
  /\ \A t \in Timers \ {s} : store'[t] = store[t]
  /\ UNCHANGED <<list, balance, crossed>> \/ crossed' = (crossed \/ s # Newest)

LEMMA TransactionsEffect ==
  ASSUME list \in Seq(Transactions), StoresOK, NEW r \in Runs, NEW s \in Timers, run[r].of = s,
         NEW k \in 0..MaxTx, NEW c \in BOOLEAN, LoadTransactions(r, store[s], k, c)
  PROVE  LoadsTransactions(s, k, c) /\ StoresOK' /\ Loads(s)
  <1> DEFINE known == store[s]
  <1>1. PICK new : new = Unknown(known, With(Page(k), c))
    OBVIOUS
  <1>2. new \in Seq(Transactions) /\ Elements(new) = NewTxs(known, k, c)
    BY <1>1, UnknownElements
  <1>3. PICK news \in BOOLEAN : news <=> (new # <<>> \/ NewBalance(known, k, c))
    OBVIOUS
  <1>4. PICK synced : synced = IF news THEN Synced(known, new, k, c) ELSE known
    OBVIOUS
  <1>5. ~news => new = <<>> /\ NewTxs(known, k, c) = {}
    BY <1>2, <1>3 DEF Elements
  <1>6. synced.txs = SyncedTxs(known, k, c)
    <2>1. CASE news
      BY <1>2, <1>4, <2>1 DEF Synced, SyncedTxs
    <2>2. CASE ~news
      <3>1. Ids(NewTxs(known, k, c)) = {}
        BY <1>5, <2>2 DEF Ids
      <3> QED BY <1>4, <1>5, <2>2, <3>1 DEF SyncedTxs
    <2> QED BY <2>1, <2>2
  <1>7. synced.balance = IF news THEN [data |-> k, certified |-> c] ELSE known.balance
    BY <1>4 DEF Synced
  <1>8. PICK pruned : pruned = IF c THEN Uncertified(synced.txs) ELSE {}
    OBVIOUS
  <1>9. pruned = PrunedTxs(known, k, c)
    BY <1>6, <1>8 DEF PrunedTxs
  <1>10. PICK cleaned : cleaned = CleanUp(Prepend(new, list), Ids(pruned))
    OBVIOUS
  <1>11. /\ store' = [store EXCEPT ![s] = [synced EXCEPT !.txs = @ \ pruned]]
         /\ IF news \/ pruned # {}
            THEN Post(r, cleaned, IF news THEN synced.balance ELSE balance)
            ELSE UNCHANGED <<vars, pageVars>>
    BY <1>1, <1>3, <1>4, <1>8, <1>10 DEF LoadTransactions
  <1>12. SyncedTxs(known, k, c) \subseteq Transactions
    <2>1. NewTxs(known, k, c) \subseteq Transactions
      BY <1>2 DEF Elements
    <2> QED BY <2>1 DEF SyncedTxs, StoresOK, Stores
  <1>13. synced \in Stores
    <2>1. CASE news
      BY <1>4, <1>6, <1>12, <2>1 DEF Synced, Balances, Stores
    <2>2. CASE ~news
      BY <1>4, <2>2 DEF StoresOK
    <2> QED BY <2>1, <2>2
  <1>14. PICK kept2 : kept2 = [synced EXCEPT !.txs = @ \ pruned]
    OBVIOUS
  <1>15. /\ kept2 \in Stores /\ kept2.balance = synced.balance
         /\ kept2.txs = SyncedTxs(known, k, c) \ PrunedTxs(known, k, c)
    BY <1>6, <1>9, <1>13, <1>14 DEF Stores
  <1>16. store'[s] = kept2 /\ StoresOK' /\ \A t \in Timers \ {s} : store'[t] = store[t]
    BY <1>11, <1>14, <1>15 DEF StoresOK
  <1>17. CASE news \/ pruned # {}
    <2>1. Shows(cleaned, known, k, c)
      BY <1>1, <1>9, <1>10, PostedShows
    <2>2. Post(r, cleaned, IF news THEN synced.balance ELSE balance)
      BY <1>11, <1>17
    <2>3. \/ /\ list' = cleaned /\ balance' = (IF news THEN synced.balance ELSE balance)
             /\ crossed' = (crossed \/ s # Newest)
          \/ timerStatus[s] = "idle" /\ UNCHANGED <<list, balance, crossed>>
      BY <2>2 DEF Post, Posts, Drops, pageVars
    <2>4. Loads(s)
      BY <1>16, <2>3 DEF Loads
    <2>5. \/ /\ store'[s].balance = [data |-> k, certified |-> c]
             /\ balance' = store'[s].balance \/ (timerStatus[s] = "idle" /\ balance' = balance)
          \/ store'[s].balance = store[s].balance /\ balance' = balance
      BY <1>7, <1>15, <1>16, <2>3
    <2> QED BY <1>15, <1>16, <2>1, <2>3, <2>4, <2>5 DEF LoadsTransactions
  <1>18. CASE ~news /\ pruned = {}
    <2>1. NewTxs(known, k, c) = {} /\ PrunedTxs(known, k, c) = {} /\ Ids({}) = {}
      BY <1>5, <1>9, <1>18 DEF Ids
    <2>2. Shows(list, known, k, c)
      BY <2>1 DEF Shows
    <2>3. UNCHANGED <<list, balance, crossed>>
      BY <1>11, <1>18 DEF pageVars
    <2>4. store'[s].balance = store[s].balance
      BY <1>7, <1>15, <1>16, <1>18
    <2> QED BY <1>15, <1>16, <2>2, <2>3, <2>4 DEF LoadsTransactions, Loads
  <1> QED BY <1>17, <1>18

LEMMA BalanceEffect ==
  ASSUME StoresOK, NEW r \in Runs, NEW s \in Timers, run[r].of = s,
         NEW k \in 0..MaxTx, NEW c \in BOOLEAN, LoadBalance(r, store[s], k, c)
  PROVE  LoadsBalance(s, k, c) /\ StoresOK' /\ Loads(s)
  <1>1. PICK new : new = [data |-> k, certified |-> c]
    OBVIOUS
  <1>2. new \in Balances
    BY <1>1 DEF Balances
  <1>3. CASE NewBalance(store[s], k, c)
    <2>1. store' = [store EXCEPT ![s].balance = new] /\ Post(r, <<>>, new)
      BY <1>1, <1>3 DEF LoadBalance
    <2>2. PICK next : next = [store[s] EXCEPT !.balance = new]
      OBVIOUS
    <2>3. next \in Stores /\ next.txs = store[s].txs /\ next.balance = new
      BY <1>2, <2>2 DEF StoresOK, Stores
    <2>4. store'[s] = next /\ StoresOK' /\ \A t \in Timers \ {s} : store'[t] = store[t]
      BY <2>1, <2>2, <2>3 DEF StoresOK
    <2>5. \/ list' = <<>> /\ balance' = new /\ crossed' = (crossed \/ s # Newest)
          \/ UNCHANGED <<list, balance, crossed>>
      BY <2>1 DEF Post, Posts, Drops, pageVars
    <2> QED BY <1>1, <2>3, <2>4, <2>5 DEF LoadsBalance, Loads
  <1>4. CASE ~NewBalance(store[s], k, c)
    <2>1. UNCHANGED <<store, list, balance, crossed>>
      BY <1>4 DEF LoadBalance, pageVars
    <2> QED BY <2>1 DEF LoadsBalance, Loads, StoresOK
  <1> QED BY <1>3, <1>4

-----------------------------------------------------------------------------
(* Types. *)

(* A call in flight belongs to a job that runs.                             *)
CallsHaveJobs == \A r \in Runs : request[r].pending # {} => Running(r)

DataTypes ==
  /\ ledger \in 0..MaxTx
  /\ StoresOK
  /\ request \in [Runs -> [pending : SUBSET Calls, since : 0..MaxTx]]
  /\ CallsHaveJobs
  /\ list \in Seq(Transactions) /\ balance \in Balances \cup {NoBalance}
  /\ crossed \in BOOLEAN
  /\ scroll \in [pending : SUBSET Calls, start : 1..MaxTx, end : BOOLEAN]

TypeInv == Inv /\ WorkersShape /\ DataTypes

(* Until it ends, a job keeps its execution.                                *)
JobsKeep == \A q \in Runs : Running(q) => run'[q] = run[q]

LEMMA OthersKeep ==
  ASSUME Shape, NEW s, NEW r \in Runs,
         \/ CallStart(s, r) \/ CallTrigger(s, r) \/ Tick(s, r)
         \/ NoIdentity(r) \/ SkipJob(r) \/ BeginJob(r) \/ PostMsg(r) \/ UNCHANGED vars
  PROVE  JobsKeep
  <1>1. CASE PostMsg(r) \/ UNCHANGED vars
    BY <1>1 DEF PostMsg, vars, JobsKeep
  <1>2. CASE CallStart(s, r) \/ CallTrigger(s, r) \/ Tick(s, r)
    BY <1>2 DEF CallStart, CallTrigger, Tick, Enter, Running, JobsKeep, Shape
  <1>3. CASE NoIdentity(r) \/ SkipJob(r) \/ BeginJob(r)
    BY <1>3 DEF NoIdentity, SkipJob, BeginJob, Waits, Enter, Leave, Running, JobsKeep, Shape
  <1> QED BY <1>1, <1>2, <1>3

(* What runs by an execution that is kept runs on.                          *)
LEMMA KeptRuns ==
  ASSUME JobsKeep, NEW q \in Runs, Running(q)
  PROVE  Running(q)' /\ run'[q].of = run[q].of
  BY DEF JobsKeep, Running, Active

LEMMA BackgroundStep ==
  ASSUME TypeInv, Background
  PROVE  /\ UNCHANGED <<store, request, list, balance, crossed, scroll, scrolls, failures>>
         /\ ledger' \in 0..MaxTx /\ ledger' \in {ledger, ledger + 1}
         /\ JobsKeep
  <1>1. Shape /\ ledger \in 0..MaxTx /\ MaxTx \in Nat
    BY WalletAssumption DEF TypeInv, Inv, DataTypes
  <1>2. CASE Transact
    <2>1. ledger < MaxTx /\ ledger' = ledger + 1 /\ UNCHANGED vars
      BY <1>2 DEF Transact
    <2> QED BY <1>1, <1>2, <2>1 DEF Transact, pageVars, scrollVars, vars, JobsKeep
  <1>3. CASE BeginLoad \/ StopWallet
    BY <1>1, <1>3 DEF BeginLoad, StopWallet, pageVars, scrollVars, vars, JobsKeep
  <1>4. ASSUME NEW w \in Workers, HandleStop(w) \/ HandleReplace(w)
        PROVE  /\ UNCHANGED <<store, request, list, balance, crossed, scroll, scrolls, failures>>
               /\ ledger' = ledger /\ JobsKeep
    BY <1>4 DEF HandleStop, HandleReplace, pageVars, scrollVars, Stop, JobsKeep
  <1>5. ASSUME NEW w \in Workers, NEW r \in Runs, HandleStart(w, r) \/ TriggerWallet(w, r)
        PROVE  /\ UNCHANGED <<store, request, list, balance, crossed, scroll, scrolls, failures>>
               /\ ledger' = ledger /\ JobsKeep
    <2>1. CallStart(Current(w), r) \/ CallTrigger(Current(w), r)
      BY <1>5 DEF HandleStart, TriggerWallet
    <2>2. JobsKeep
      BY <1>1, <2>1, OthersKeep
    <2> QED BY <1>5, <2>2 DEF HandleStart, TriggerWallet, pageVars, scrollVars
  <1>6. ASSUME NEW r \in Runs, NoSync(r)
        PROVE  /\ UNCHANGED <<store, request, list, balance, crossed, scroll, scrolls, failures>>
               /\ ledger' = ledger /\ JobsKeep
    <2>1. JobsKeep
      BY <1>1, <1>6, OthersKeep DEF NoSync
    <2> QED BY <1>6, <2>1 DEF NoSync, pageVars, scrollVars
  <1> QED BY <1>1, <1>2, <1>3, <1>4, <1>5, <1>6 DEF Background

(* A new Web Worker: the page and the stores are left alone.                *)
LEMMA FinishLoadStep ==
  ASSUME TypeInv, NEW r \in Runs, FinishLoad(r)
  PROVE  /\ UNCHANGED <<store, request, list, balance, scroll, scrolls, failures, ledger>>
         /\ crossed' = FALSE /\ JobsKeep
  <1>1. CallStart(<<created + 1, 0>>, r)
    BY DEF FinishLoad
  <1>2. JobsKeep
    BY <1>1, OthersKeep DEF TypeInv, Inv
  <1> QED BY <1>2 DEF FinishLoad, scrollVars

(* A job begins, with its two calls.                                        *)
LEMMA BeginSyncStep ==
  ASSUME TypeInv, NEW r \in Runs, BeginSync(r)
  PROVE  /\ UNCHANGED <<store, list, balance, crossed, scroll, scrolls, failures, ledger>>
         /\ request'[r] = [pending |-> Calls, since |-> ledger]
         /\ \A q \in Runs \ {r} : request'[q] = request[q]
         /\ request' \in [Runs -> [pending : SUBSET Calls, since : 0..MaxTx]]
         /\ JobsKeep /\ Running(r)'
  <1>1. BeginJob(r) \/ \E s \in Timers : Tick(s, r)
    BY DEF BeginSync
  <1>2. PICK s \in Timers, kind \in Kinds : Begins(s, r, kind)
    BY <1>1, JobBegins DEF TypeInv, Inv
  <1>3. Enter(s, r, kind, "job")
    BY <1>2 DEF Begins
  <1>4. run'[r].at = "job" /\ run'[r] # Free /\ \A q \in Runs \ {r} : run'[q] = run[q]
    BY <1>3, EnterEffect DEF TypeInv, Inv
  <1>5. Running(r)' /\ ~Running(r)
    BY <1>2, <1>4 DEF Running, Active, Begins
  <1>6. PICK new : new = [pending |-> Calls, since |-> ledger]
    OBVIOUS
  <1>7. new \in [pending : SUBSET Calls, since : 0..MaxTx]
    BY <1>6 DEF TypeInv, DataTypes
  <1>8. request' = [request EXCEPT ![r] = new]
    BY <1>6 DEF BeginSync
  <1>9. /\ request'[r] = new /\ \A q \in Runs \ {r} : request'[q] = request[q]
        /\ request' \in [Runs -> [pending : SUBSET Calls, since : 0..MaxTx]]
    BY <1>7, <1>8 DEF TypeInv, DataTypes
  <1> QED BY <1>4, <1>5, <1>6, <1>9 DEF BeginSync, JobsKeep, pageVars, scrollVars

(* A job ends: its calls have settled.                                      *)
LEMMA EndSyncStep ==
  ASSUME TypeInv, NEW r \in Runs, EndSync(r)
  PROVE  /\ UNCHANGED <<store, list, balance, crossed, scroll, scrolls, failures, ledger>>
         /\ request[r].pending = {} /\ request'[r] = NoRequest
         /\ \A q \in Runs \ {r} : request'[q] = request[q] /\ run'[q] = run[q]
         /\ request' \in [Runs -> [pending : SUBSET Calls, since : 0..MaxTx]]
  <1>1. Leave(r) /\ request' = [request EXCEPT ![r] = NoRequest] /\ request[r].pending = {}
    BY DEF EndSync, JobSucceeds
  <1>2. NoRequest \in [pending : SUBSET Calls, since : 0..MaxTx]
    BY WalletAssumption DEF NoRequest
  <1>3. /\ request'[r] = NoRequest /\ \A q \in Runs \ {r} : request'[q] = request[q]
        /\ request' \in [Runs -> [pending : SUBSET Calls, since : 0..MaxTx]]
    BY <1>1, <1>2 DEF TypeInv, DataTypes
  <1>4. \A q \in Runs \ {r} : run'[q] = run[q]
    BY <1>1, LeaveEffect DEF TypeInv, Inv
  <1> QED BY <1>1, <1>3, <1>4 DEF EndSync, pageVars, scrollVars

(* Settling a call keeps the types of the calls, and adds none.             *)
LEMMA SettleStep ==
  ASSUME TypeInv, NEW r \in Runs, NEW call \in Calls, Settle(r, call)
  PROVE  /\ request' \in [Runs -> [pending : SUBSET Calls, since : 0..MaxTx]]
         /\ \A q \in Runs : /\ request'[q].since = request[q].since
                            /\ request'[q].pending =
                                 IF q = r THEN request[q].pending \ {call} ELSE request[q].pending
         /\ call \in request[r].pending
         /\ Running(r) /\ run[r].of \in Timers
  <1>1. request \in [Runs -> [pending : SUBSET Calls, since : 0..MaxTx]]
    BY DEF TypeInv, DataTypes
  <1>2. request' = [request EXCEPT ![r].pending = @ \ {call}] /\ call \in request[r].pending
    BY DEF Settle
  <1>3. \A q \in Runs : /\ request'[q].since = request[q].since
                        /\ request'[q].pending =
                             IF q = r THEN request[q].pending \ {call} ELSE request[q].pending
    BY <1>1, <1>2
  <1>4. request' \in [Runs -> [pending : SUBSET Calls, since : 0..MaxTx]]
    BY <1>1, <1>2
  <1>5. Running(r)
    BY <1>2 DEF TypeInv, DataTypes, CallsHaveJobs
  <1>6. run[r].of \in Timers
    BY <1>5, ActiveShape DEF TypeInv, Inv, Running
  <1> QED BY <1>2, <1>3, <1>4, <1>5, <1>6

LEMMA QueryIgnoredStep ==
  ASSUME TypeInv, NEW r \in Runs, QueryIgnored(r)
  PROVE  /\ UNCHANGED <<store, list, balance, crossed, scroll, scrolls, failures, ledger>>
         /\ Settle(r, "query") /\ "query" \in Calls /\ JobsKeep
  BY DEF QueryIgnored, pageVars, scrollVars, vars, JobsKeep, Calls

(* An update fails: the page is emptied or told nothing.                    *)
LEMMA UpdateFailsStep ==
  ASSUME TypeInv, NEW r \in Runs, UpdateFails(r)
  PROVE  /\ UNCHANGED <<store, scroll, scrolls, ledger>> /\ failures' = failures + 1
         /\ Settle(r, "update") /\ "update" \in Calls /\ JobsKeep
         /\ \/ list' = <<>> /\ balance' = NoBalance /\ timerStatus[run[r].of] # "idle"
            \/ UNCHANGED <<list, balance, crossed>> /\ timerStatus[run[r].of] = "idle"
         /\ crossed' \in BOOLEAN
         /\ UNCHANGED vars \/ PostMsg(r)
  <1>1. \/ Posts(r, <<>>, NoBalance) \/ Drops(r)
    BY DEF UpdateFails
  <1>2. UNCHANGED vars \/ PostMsg(r)
    BY <1>1 DEF Posts, Drops
  <1>3. JobsKeep
    BY <1>2, OthersKeep DEF TypeInv, Inv
  <1>4. crossed' \in BOOLEAN
    BY <1>1 DEF Posts, Drops, pageVars, TypeInv, DataTypes
  <1>5. \/ list' = <<>> /\ balance' = NoBalance /\ timerStatus[run[r].of] # "idle"
        \/ UNCHANGED <<list, balance, crossed>> /\ timerStatus[run[r].of] = "idle"
    BY <1>1 DEF Posts, PostMsg, Drops, pageVars
  <1> QED BY <1>2, <1>3, <1>4, <1>5 DEF UpdateFails, Calls, scrollVars

(* A call answers before its update has settled.                            *)
LEMMA AnswerStep ==
  ASSUME TypeInv, NEW r \in Runs, NEW call \in Calls, NEW k \in 0..MaxTx, Answer(r, call, k)
  PROVE  LET s == run[r].of
             c == (call = "update")
         IN /\ Settle(r, call) /\ "update" \in request[r].pending
            /\ k \in Answers(call, request[r].since)
            /\ UNCHANGED <<ledger, scroll, scrolls, failures>> /\ UNCHANGED workerVars
            /\ UNCHANGED vars \/ PostMsg(r)
            /\ JobsKeep /\ StoresOK' /\ Loads(s)
            /\ IF LedgerOnly(s) THEN LoadsBalance(s, k, c) ELSE LoadsTransactions(s, k, c)
  <1>1. PICK s : s = run[r].of
    OBVIOUS
  <1>2. PICK c \in BOOLEAN : c = (call = "update")
    OBVIOUS
  <1>3. /\ Settle(r, call) /\ "update" \in request[r].pending /\ Load(r, k, c)
        /\ UNCHANGED <<ledger, scroll, scrolls, failures>> /\ UNCHANGED workerVars
        /\ k \in Answers(call, request[r].since)
    BY <1>2 DEF Answer, CertifiedDone, scrollVars
  <1>4. s \in Timers
    BY <1>1, <1>3, SettleStep
  <1>5. UNCHANGED vars \/ PostMsg(r)
    BY <1>3, LoadStep
  <1>6. JobsKeep
    BY <1>5, OthersKeep DEF TypeInv, Inv
  <1>7. list \in Seq(Transactions) /\ StoresOK
    BY DEF TypeInv, DataTypes
  <1>8. CASE LedgerOnly(s)
    <2>1. LoadBalance(r, store[s], k, c)
      BY <1>1, <1>3, <1>8 DEF Load
    <2>2. LoadsBalance(s, k, c) /\ StoresOK' /\ Loads(s)
      BY <1>1, <1>4, <1>7, <2>1, BalanceEffect
    <2> QED BY <1>1, <1>2, <1>3, <1>5, <1>6, <1>8, <2>2
  <1>9. CASE ~LedgerOnly(s)
    <2>1. LoadTransactions(r, store[s], k, c)
      BY <1>1, <1>3, <1>9 DEF Load
    <2>2. LoadsTransactions(s, k, c) /\ StoresOK' /\ Loads(s)
      BY <1>1, <1>4, <1>7, <2>1, TransactionsEffect
    <2> QED BY <1>1, <1>2, <1>3, <1>5, <1>6, <1>9, <2>2
  <1> QED BY <1>8, <1>9

(* The types after an answer.                                               *)
LEMMA AnswerTypes ==
  ASSUME TypeInv, NEW r \in Runs, NEW call \in Calls, NEW k \in 0..MaxTx, Answer(r, call, k)
  PROVE  list' \in Seq(Transactions) /\ balance' \in Balances \cup {NoBalance} /\ crossed' \in BOOLEAN
  <1>1. PICK s : s = run[r].of
    OBVIOUS
  <1>2. PICK c \in BOOLEAN : c = (call = "update")
    OBVIOUS
  <1>3. /\ Loads(s) /\ StoresOK' /\ s \in Timers
        /\ IF LedgerOnly(s) THEN LoadsBalance(s, k, c) ELSE LoadsTransactions(s, k, c)
    <2>1. Settle(r, call)
      BY AnswerStep
    <2> QED BY <1>1, <1>2, <2>1, AnswerStep, SettleStep
  <1>4. crossed' \in BOOLEAN
    BY <1>3 DEF Loads, TypeInv, DataTypes
  <1>5. [data |-> k, certified |-> c] \in Balances
    BY DEF Balances
  <1>6. list \in Seq(Transactions) /\ balance \in Balances \cup {NoBalance} /\ <<>> \in Seq(Transactions)
        /\ store[s].balance \in Balances \cup {NoBalance}
    BY <1>3 DEF TypeInv, DataTypes, StoresOK, Stores
  <1>7. CASE LoadsBalance(s, k, c)
    BY <1>4, <1>5, <1>6, <1>7 DEF LoadsBalance
  <1>8. CASE LoadsTransactions(s, k, c)
    <2>1. list' \in Seq(Transactions)
      BY <1>6, <1>8 DEF LoadsTransactions, Shows
    <2>2. balance' \in Balances \cup {NoBalance}
      BY <1>5, <1>6, <1>8 DEF LoadsTransactions
    <2> QED BY <1>4, <2>1, <2>2
  <1> QED BY <1>3, <1>7, <1>8

(* The scroll appends the page before its start.                            *)
LEMMA ScrollStep ==
  ASSUME TypeInv, NEW call \in Calls, NEW k \in 0..MaxTx, ScrollAnswer(call, k)
  PROVE  \E top \in 0..MaxTx, c \in BOOLEAN :
           /\ top <= k /\ c = (call = "update")
           /\ With(Page(top), c) \in Seq(Transactions)
           /\ list' = list \o With(Page(top), c)
           /\ scroll' \in [pending : SUBSET Calls, start : 1..MaxTx, end : BOOLEAN]
           /\ scroll.pending # {} /\ k \in Answers(call, ledger)
           /\ UNCHANGED <<vars, ledger, store, request, balance, crossed, failures, scrolls>>
  <1>1. PICK top : top = Least(k, scroll.start - 1)
    OBVIOUS
  <1>2. scroll \in [pending : SUBSET Calls, start : 1..MaxTx, end : BOOLEAN]
    BY DEF TypeInv, DataTypes
  <1>3. top \in 0..MaxTx /\ top <= k
    BY <1>1, <1>2, WalletAssumption DEF Least
  <1>4. PICK c \in BOOLEAN : c = (call = "update")
    OBVIOUS
  <1>5. With(Page(top), c) \in Seq(Transactions)
    BY <1>3, PageElements
  <1>6. /\ list' = list \o With(Page(top), c)
        /\ scroll' = [scroll EXCEPT !.pending = @ \ {call}, !.end = @ \/ Page(top) = <<>>]
        /\ scroll.pending # {} /\ k \in Answers(call, ledger)
        /\ UNCHANGED <<vars, ledger, store, request, balance, crossed, failures, scrolls>>
    BY <1>1, <1>4 DEF ScrollAnswer
  <1>7. scroll' \in [pending : SUBSET Calls, start : 1..MaxTx, end : BOOLEAN]
    BY <1>2, <1>6
  <1> QED BY <1>3, <1>4, <1>5, <1>6, <1>7

LEMMA TypeStep == ASSUME TypeInv, [WalletNext]_walletVars PROVE TypeInv'
  <1>1. Inv' /\ WorkersShape'
    BY TimerStep, InvStep, WorkersStep DEF TypeInv
  <1> SUFFICES DataTypes'
    BY <1>1 DEF TypeInv
  <1>2. CASE UNCHANGED walletVars
    BY <1>2 DEF walletVars, vars, pageVars, scrollVars, TypeInv, DataTypes, StoresOK, CallsHaveJobs,
                Running, Active
  <1>3. ASSUME JobsKeep, UNCHANGED request PROVE CallsHaveJobs'
    BY <1>3, KeptRuns DEF TypeInv, DataTypes, CallsHaveJobs
  <1>4. CASE Background
    <2>1. CallsHaveJobs'
      BY <1>3, <1>4, BackgroundStep
    <2> QED BY <1>4, <2>1, BackgroundStep DEF TypeInv, DataTypes, StoresOK
  <1>5. ASSUME NEW r \in Runs, FinishLoad(r) PROVE DataTypes'
    <2>1. CallsHaveJobs'
      BY <1>3, <1>5, FinishLoadStep
    <2> QED BY <1>5, <2>1, FinishLoadStep DEF TypeInv, DataTypes, StoresOK
  <1>6. ASSUME NEW r \in Runs, BeginSync(r) PROVE DataTypes'
    <2>1. CallsHaveJobs'
      BY <1>6, BeginSyncStep, KeptRuns DEF TypeInv, DataTypes, CallsHaveJobs
    <2> QED BY <1>6, <2>1, BeginSyncStep DEF TypeInv, DataTypes, StoresOK
  <1>7. ASSUME NEW r \in Runs, EndSync(r) PROVE DataTypes'
    <2>1. CallsHaveJobs'
      BY <1>7, EndSyncStep DEF TypeInv, DataTypes, CallsHaveJobs, NoRequest, Running, Active
    <2> QED BY <1>7, <2>1, EndSyncStep DEF TypeInv, DataTypes, StoresOK
  <1>8. ASSUME NEW r \in Runs, NEW call \in Calls, Settle(r, call), JobsKeep PROVE CallsHaveJobs'
    BY <1>8, SettleStep, KeptRuns DEF TypeInv, DataTypes, CallsHaveJobs
  <1>9. ASSUME NEW r \in Runs, QueryIgnored(r) PROVE DataTypes'
    <2>1. CallsHaveJobs' /\ request' \in [Runs -> [pending : SUBSET Calls, since : 0..MaxTx]]
      BY <1>8, <1>9, QueryIgnoredStep, SettleStep
    <2> QED BY <1>9, <2>1, QueryIgnoredStep DEF TypeInv, DataTypes, StoresOK
  <1>10. ASSUME NEW r \in Runs, UpdateFails(r) PROVE DataTypes'
    <2>1. CallsHaveJobs' /\ request' \in [Runs -> [pending : SUBSET Calls, since : 0..MaxTx]]
      BY <1>8, <1>10, UpdateFailsStep, SettleStep
    <2>2. <<>> \in Seq(Transactions)
      OBVIOUS
    <2> QED BY <1>10, <2>1, <2>2, UpdateFailsStep DEF TypeInv, DataTypes, StoresOK
  <1>11. ASSUME NEW r \in Runs, NEW call \in Calls, NEW k \in 0..MaxTx, Answer(r, call, k)
         PROVE  DataTypes'
    <2>1. Settle(r, call) /\ JobsKeep /\ StoresOK' /\ UNCHANGED <<ledger, scroll>>
      BY <1>11, AnswerStep
    <2>2. CallsHaveJobs' /\ request' \in [Runs -> [pending : SUBSET Calls, since : 0..MaxTx]]
      BY <1>8, <2>1, SettleStep
    <2> QED BY <1>11, <2>1, <2>2, AnswerTypes DEF TypeInv, DataTypes
  <1>12. ASSUME UNCHANGED vars PROVE JobsKeep
    BY <1>12 DEF vars, JobsKeep
  <1>13. CASE StartScroll
    <2>1. UNCHANGED <<vars, ledger, store, request, list, balance, crossed>> /\ list # <<>>
          /\ scroll' = [scroll EXCEPT !.pending = Calls, !.start = list[Len(list)].id]
      BY <1>13 DEF StartScroll, pageVars
    <2>2. Len(list) \in DOMAIN list /\ list \in Seq(Transactions)
      BY <2>1 DEF TypeInv, DataTypes
    <2>3. list[Len(list)].id \in 1..MaxTx
      <3>1. PICK t \in Transactions : t = list[Len(list)]
        BY <2>2
      <3> QED BY <3>1 DEF Transactions
    <2>4. scroll' \in [pending : SUBSET Calls, start : 1..MaxTx, end : BOOLEAN]
      BY <2>1, <2>3 DEF TypeInv, DataTypes
    <2>5. CallsHaveJobs'
      BY <1>3, <1>12, <2>1
    <2> QED BY <2>1, <2>4, <2>5 DEF TypeInv, DataTypes, StoresOK
  <1>14. CASE ScrollIgnored \/ ScrollFails
    <2>1. UNCHANGED <<vars, ledger, store, request, crossed>>
      BY <1>14 DEF ScrollIgnored, ScrollFails, pageVars
    <2>2. scroll' \in [pending : SUBSET Calls, start : 1..MaxTx, end : BOOLEAN]
      BY <1>14 DEF ScrollIgnored, ScrollFails, TypeInv, DataTypes
    <2>3. CallsHaveJobs' /\ <<>> \in Seq(Transactions)
      BY <1>3, <1>12, <2>1
    <2>4. (list' = <<>> /\ balance' = NoBalance) \/ (list' = list /\ balance' = balance)
      BY <1>14 DEF ScrollIgnored, ScrollFails, pageVars
    <2>5. list' \in Seq(Transactions) /\ balance' \in Balances \cup {NoBalance}
      BY <2>3, <2>4 DEF TypeInv, DataTypes
    <2> QED BY <2>1, <2>2, <2>3, <2>5 DEF TypeInv, DataTypes, StoresOK
  <1>15. ASSUME NEW call \in Calls, NEW k \in 0..MaxTx, ScrollAnswer(call, k) PROVE DataTypes'
    <2>1. PICK more \in Seq(Transactions) :
            /\ list' = list \o more
            /\ scroll' \in [pending : SUBSET Calls, start : 1..MaxTx, end : BOOLEAN]
            /\ UNCHANGED <<vars, ledger, store, request, balance, crossed>>
      BY <1>15, ScrollStep
    <2>2. list' \in Seq(Transactions)
      BY <2>1 DEF TypeInv, DataTypes
    <2>3. CallsHaveJobs'
      BY <1>3, <1>12, <2>1
    <2> QED BY <2>1, <2>2, <2>3 DEF TypeInv, DataTypes, StoresOK
  <1> QED BY <1>2, <1>4, <1>5, <1>6, <1>7, <1>9, <1>10, <1>11, <1>13, <1>14, <1>15
          DEF WalletNext, Settles, Background

LEMMA TypeHolds == WalletSpec => []TypeInv
  <1>1. WalletInit => DataTypes
    <2> SUFFICES ASSUME WalletInit PROVE DataTypes
      OBVIOUS
    <2>1. \A r \in Runs : request[r] = NoRequest
      BY DEF WalletInit
    <2>2. CallsHaveJobs
      BY <2>1 DEF CallsHaveJobs, NoRequest
    <2>3. /\ ledger \in 0..MaxTx
          /\ request \in [Runs -> [pending : SUBSET Calls, since : 0..MaxTx]]
          /\ scroll \in [pending : SUBSET Calls, start : 1..MaxTx, end : BOOLEAN]
      BY WalletAssumption DEF WalletInit, NoRequest, NoScroll, Least
    <2>4. StoresOK
      <3>1. EmptyStore \in Stores
        BY DEF EmptyStore, Stores
      <3> QED BY <3>1 DEF WalletInit, StoresOK
    <2>5. list \in Seq(Transactions) /\ balance \in Balances \cup {NoBalance} /\ crossed \in BOOLEAN
      <3>1. <<>> \in Seq(Transactions)
        OBVIOUS
      <3>2. list = <<>> /\ balance = NoBalance
        BY DEF WalletInit
      <3>3. crossed = FALSE
        BY DEF WalletInit
      <3> QED BY <3>1, <3>2, <3>3
    <2> QED BY <2>2, <2>3, <2>4, <2>5 DEF DataTypes
  <1>2. WalletSpec => []Inv
    BY WalletImplementsTimer, InvHolds, PTL
  <1>3. ASSUME TypeInv, [WalletNext]_walletVars PROVE DataTypes'
    BY <1>3, TypeStep DEF TypeInv
  <1> QED BY <1>1, <1>2, <1>3, WorkersHold, PTL DEF WalletSpec, TypeInv

(* The stores of the schedulers and of the page, the messages and the       *)
(* counts have their types, and calls are only in flight for a job that     *)
(* runs.                                                                    *)
THEOREM WalletTypes == WalletSpec => []WalletTypeOK
  <1>1. TypeInv => WalletTypeOK
    BY DEF TypeInv, WorkersShape, DataTypes, StoresOK, Stores, CallsHaveJobs, WalletTypeOK
  <1> QED BY <1>1, TypeHolds, PTL

-----------------------------------------------------------------------------
(* What a query left in memory. *)

(* A scheduler that only asks the ledger has no transactions.               *)
MemoryInv == NoQueryInMemory /\ \A s \in Timers : LedgerOnly(s) => store[s].txs = {}

(* A pending update of a scheduler stays pending while its job runs.        *)
LEMMA PendingStays ==
  ASSUME JobsKeep, NEW s, UpdatePendingOf(s),
         \A q \in Runs : "update" \in request[q].pending /\ run[q].of = s =>
                           "update" \in request'[q].pending
  PROVE  UpdatePendingOf(s)'
  <1>1. PICK q \in Runs : RunningOf(s, q) /\ "update" \in request[q].pending
    BY DEF UpdatePendingOf
  <1>2. Running(q)' /\ run'[q].of = s
    BY <1>1, KeptRuns DEF RunningOf
  <1>3. "update" \in request'[q].pending
    BY <1>1 DEF RunningOf
  <1> QED BY <1>1, <1>2, <1>3 DEF UpdatePendingOf, RunningOf

(* The steps of the scroll leave the schedulers alone.                      *)
Scrolls ==
  \/ StartScroll \/ ScrollIgnored \/ ScrollFails
  \/ \E call \in Calls, k \in 0..MaxTx : ScrollAnswer(call, k)

LEMMA ScrollsStep ==
  ASSUME WorkersShape, Scrolls
  PROVE  UNCHANGED <<vars, workerVars, ledger, store, request, crossed>>
         /\ (failures' = 0 => failures = 0)
  <1>1. failures \in Nat /\ scrolls \in Nat
    BY DEF WorkersShape
  <1>2. CASE StartScroll \/ ScrollIgnored
    BY <1>2 DEF StartScroll, ScrollIgnored, pageVars
  <1>3. CASE ScrollFails
    BY <1>1, <1>3 DEF ScrollFails
  <1>4. ASSUME NEW call \in Calls, NEW k \in 0..MaxTx, ScrollAnswer(call, k)
        PROVE  /\ UNCHANGED <<vars, workerVars, ledger, store, request, crossed>>
               /\ failures' = failures
    BY <1>4 DEF ScrollAnswer
  <1> QED BY <1>2, <1>3, <1>4 DEF Scrolls

(* Transactions that are not certified enter a store with a query whose     *)
(* update is still to answer, and that update prunes them unless it fails.  *)
LEMMA MemoryStep == ASSUME TypeInv, MemoryInv, [WalletNext]_walletVars PROVE MemoryInv'
  <1>1. failures \in Nat /\ WorkersShape
    BY DEF TypeInv, WorkersShape
  <1>2. ASSUME UNCHANGED store, failures' = 0 => failures = 0,
               \A s \in Timers : UpdatePendingOf(s) => UpdatePendingOf(s)'
        PROVE  MemoryInv'
    BY <1>2 DEF MemoryInv, NoQueryInMemory
  <1>3. ASSUME JobsKeep, UNCHANGED request
        PROVE  \A s \in Timers : UpdatePendingOf(s) => UpdatePendingOf(s)'
    BY <1>3, PendingStays
  <1>4. CASE UNCHANGED walletVars \/ Scrolls
    <2>1. UNCHANGED <<store, request, vars>> /\ (failures' = 0 => failures = 0)
      BY <1>1, <1>4, ScrollsStep DEF walletVars
    <2>2. JobsKeep
      BY <2>1 DEF vars, JobsKeep
    <2> QED BY <1>2, <1>3, <2>1, <2>2
  <1>5. CASE Background
    BY <1>2, <1>3, <1>5, BackgroundStep
  <1>6. ASSUME NEW r \in Runs, FinishLoad(r) PROVE MemoryInv'
    BY <1>2, <1>3, <1>6, FinishLoadStep
  <1>7. ASSUME NEW r \in Runs, BeginSync(r) PROVE MemoryInv'
    <2>1. /\ UNCHANGED <<store, failures>> /\ JobsKeep
          /\ \A q \in Runs : "update" \in request[q].pending => "update" \in request'[q].pending
      BY <1>7, BeginSyncStep DEF Calls
    <2> QED BY <1>2, <2>1, PendingStays
  <1>8. ASSUME NEW r \in Runs, EndSync(r) PROVE MemoryInv'
    <2>1. /\ UNCHANGED <<store, failures>> /\ request[r].pending = {}
          /\ \A q \in Runs \ {r} : request'[q] = request[q] /\ run'[q] = run[q]
      BY <1>8, EndSyncStep
    <2>2. ASSUME NEW s \in Timers, UpdatePendingOf(s) PROVE UpdatePendingOf(s)'
      <3>1. PICK q \in Runs : RunningOf(s, q) /\ "update" \in request[q].pending
        BY <2>2 DEF UpdatePendingOf
      <3>2. q # r
        BY <2>1, <3>1
      <3> QED BY <2>1, <3>1, <3>2 DEF UpdatePendingOf, RunningOf, Running, Active
    <2> QED BY <1>2, <2>1, <2>2
  <1>9. ASSUME NEW r \in Runs, QueryIgnored(r) PROVE MemoryInv'
    <2>1. UNCHANGED <<store, failures>> /\ JobsKeep /\ Settle(r, "query") /\ "query" \in Calls
      BY <1>9, QueryIgnoredStep
    <2>2. \A q \in Runs : "update" \in request[q].pending => "update" \in request'[q].pending
      BY <2>1, SettleStep
    <2> QED BY <1>2, <2>1, <2>2, PendingStays
  <1>10. ASSUME NEW r \in Runs, UpdateFails(r) PROVE MemoryInv'
    <2>1. UNCHANGED store /\ failures' = failures + 1
      BY <1>10, UpdateFailsStep
    <2> QED BY <1>1, <2>1 DEF MemoryInv, NoQueryInMemory
  <1>11. ASSUME NEW r \in Runs, NEW call \in Calls, NEW k \in 0..MaxTx, Answer(r, call, k)
         PROVE  MemoryInv'
    <2>1. PICK s : s = run[r].of
      OBVIOUS
    <2>2. PICK c \in BOOLEAN : c = (call = "update")
      OBVIOUS
    <2>3. /\ Settle(r, call) /\ "update" \in request[r].pending /\ failures' = failures
          /\ JobsKeep /\ StoresOK' /\ Loads(s)
          /\ IF LedgerOnly(s) THEN LoadsBalance(s, k, c) ELSE LoadsTransactions(s, k, c)
      BY <1>11, <2>1, <2>2, AnswerStep
    <2>4. /\ \A q \in Runs : request'[q].pending =
                               IF q = r THEN request[q].pending \ {call} ELSE request[q].pending
          /\ Running(r) /\ s \in Timers
      BY <2>1, <2>3, SettleStep
    <2>5. ASSUME NEW t \in Timers \ {s}
          PROVE  store'[t] = store[t] /\ (UpdatePendingOf(t) => UpdatePendingOf(t)')
      <3>1. store'[t] = store[t]
        BY <2>3 DEF Loads
      <3>2. \A q \in Runs : run[q].of = t => q # r
        BY <2>1
      <3> QED BY <2>3, <2>4, <3>1, <3>2, PendingStays
    <2>6. LedgerOnly(s) => store'[s].txs = {}
      BY <2>3, <2>4 DEF LoadsBalance, MemoryInv
    <2>7. ASSUME failures = 0, NEW t \in store'[s].txs, ~t.certified PROVE UpdatePendingOf(s)'
      <3>1. CASE call = "query"
        <4>1. "update" \in request'[r].pending
          BY <2>3, <2>4, <3>1
        <4>2. Running(r)' /\ run'[r].of = s
          BY <2>1, <2>3, <2>4, KeptRuns
        <4> QED BY <4>1, <4>2 DEF UpdatePendingOf, RunningOf
      <3>2. CASE call = "update"
        <4>1. ~LedgerOnly(s)
          BY <2>6, <2>7
        <4>2. c = TRUE
          BY <2>2, <3>2
        <4>3. store'[s].txs = SyncedTxs(store[s], k, TRUE) \ PrunedTxs(store[s], k, TRUE)
          BY <2>3, <4>1, <4>2 DEF LoadsTransactions
        <4> QED BY <2>7, <4>3 DEF PrunedTxs, Uncertified
      <3> QED BY <3>1, <3>2 DEF Calls
    <2>8. \A t \in Timers : LedgerOnly(t) => store'[t].txs = {}
      BY <2>5, <2>6 DEF MemoryInv
    <2>9. NoQueryInMemory'
      <3> SUFFICES ASSUME failures' = 0, NEW t \in Timers, NEW u \in store'[t].txs, ~u.certified
                   PROVE  UpdatePendingOf(t)'
        BY DEF NoQueryInMemory
      <3>1. failures = 0
        BY <2>3
      <3>2. CASE t = s
        BY <2>7, <3>1, <3>2
      <3>3. CASE t # s
        BY <2>5, <3>1, <3>3 DEF MemoryInv, NoQueryInMemory
      <3> QED BY <3>2, <3>3
    <2> QED BY <2>8, <2>9 DEF MemoryInv, LedgerOnly
  <1> QED BY <1>4, <1>5, <1>6, <1>7, <1>8, <1>9, <1>10, <1>11
          DEF WalletNext, Settles, Background, Scrolls

(* The invariant holds in every behaviour.                                  *)
LEMMA MemoryHolds == WalletSpec => []MemoryInv
  <1>1. WalletInit => MemoryInv
    <2> SUFFICES ASSUME WalletInit PROVE MemoryInv
      OBVIOUS
    <2>1. \A s \in Timers : store[s].txs = {}
      BY DEF WalletInit, EmptyStore
    <2> QED BY <2>1 DEF MemoryInv, NoQueryInMemory
  <1> QED BY <1>1, MemoryStep, TypeHolds, PTL DEF WalletSpec

(* "There should not be any query in memory when update calls have been     *)
(* resolved", for every scheduler, whatever the replicas answer and whenever*)
(* workers are stopped, replaced and restarted.                             *)
THEOREM QueriesDontStay == WalletSpec => []NoQueryInMemory
  <1>1. MemoryInv => NoQueryInMemory
    BY DEF MemoryInv
  <1> QED BY <1>1, MemoryHolds, PTL

-----------------------------------------------------------------------------
(* What is certified did happen. *)

TxsUpTo(txs, n) == \A t \in txs : t.certified => t.id <= n
BalanceUpTo(b, n) == b # NoBalance /\ b.certified => b.data <= n
RealStore(s, n) == TxsUpTo(s.txs, n) /\ BalanceUpTo(s.balance, n)
RealPage == TxsUpTo(Elements(list), ledger) /\ BalanceUpTo(balance, ledger)
Real == RealPage /\ \A s \in Timers : RealStore(store[s], ledger)

LEMMA RealIsCertifiedIsReal == CertifiedIsReal <=> Real
  BY DEF CertifiedIsReal, Real, RealPage, RealStore, TxsUpTo, BalanceUpTo

(* The transactions of an answer are those of its page.                     *)
LEMMA NewTxsAre ==
  ASSUME NEW known, NEW k \in 0..MaxTx, NEW c \in BOOLEAN
  PROVE  /\ NewTxs(known, k, c) \subseteq Transactions
         /\ NewTxs(known, k, c) = {[id |-> n, certified |-> c] :
                                     n \in {m \in PageIds(k) : Certified(m) \notin known.txs}}
         /\ \A t \in NewTxs(known, k, c) : /\ t.certified = c /\ t.id \in PageIds(k) /\ t.id \in 1..k
                                           /\ Certified(t.id) \notin known.txs
  <1>1. Elements(With(Page(k), c)) = {[id |-> n, certified |-> c] : n \in PageIds(k)}
        /\ With(Page(k), c) \in Seq(Transactions)
    BY PageElements
  <1>2. NewTxs(known, k, c) = {[id |-> n, certified |-> c] :
                                 n \in {m \in PageIds(k) : Certified(m) \notin known.txs}}
    BY <1>1 DEF NewTxs
  <1>3. NewTxs(known, k, c) \subseteq Transactions
    BY <1>1 DEF NewTxs, Elements
  <1>4. \A t \in NewTxs(known, k, c) : /\ t.certified = c /\ t.id \in PageIds(k) /\ t.id \in 1..k
                                       /\ Certified(t.id) \notin known.txs
    BY <1>2 DEF PageIds
  <1> QED BY <1>2, <1>3, <1>4

(* An update answers with a state the ledger has had.                       *)
LEMMA UpdateAnswers ==
  ASSUME TypeInv, NEW r \in Runs, NEW call \in Calls, NEW k \in 0..MaxTx,
         k \in Answers(call, request[r].since)
  PROVE  /\ request[r].since \in Int /\ ledger \in Int /\ k \in Int
         /\ call = "update" => request[r].since <= k /\ k <= ledger
  <1>1. request[r].since \in 0..MaxTx /\ ledger \in 0..MaxTx /\ MaxTx \in Int
    BY WalletAssumption DEF TypeInv, DataTypes
  <1>2. ASSUME call = "update" PROVE k \in request[r].since..ledger
    BY <1>2 DEF Answers
  <1> QED BY <1>1, <1>2

(* An answer only brings in certified data up to the ledger.                *)
LEMMA RealAnswer ==
  ASSUME TypeInv, Real, NEW r \in Runs, NEW call \in Calls, NEW k \in 0..MaxTx, Answer(r, call, k)
  PROVE  Real'
  <1>1. PICK s : s = run[r].of
    OBVIOUS
  <1>2. PICK c \in BOOLEAN : c = (call = "update")
    OBVIOUS
  <1>3. /\ Loads(s) /\ ledger' = ledger /\ Settle(r, call)
        /\ k \in Answers(call, request[r].since)
        /\ IF LedgerOnly(s) THEN LoadsBalance(s, k, c) ELSE LoadsTransactions(s, k, c)
    BY <1>1, <1>2, AnswerStep
  <1>4. s \in Timers
    BY <1>1, <1>3, SettleStep
  <1>5. c => k <= ledger
    BY <1>2, <1>3, UpdateAnswers
  <1>6. BalanceUpTo([data |-> k, certified |-> c], ledger)
    BY <1>5 DEF BalanceUpTo
  <1>7. TxsUpTo(NewTxs(store[s], k, c), ledger)
    <2>1. ledger \in Int /\ k \in Int
      BY <1>3, UpdateAnswers
    <2>2. \A t \in NewTxs(store[s], k, c) : t.certified = c /\ t.id \in 1..k
      BY NewTxsAre
    <2> QED BY <1>5, <2>1, <2>2 DEF TxsUpTo
  <1>8. RealStore(store[s], ledger) /\ RealPage
    BY <1>4 DEF Real
  <1>9. RealStore(store'[s], ledger) /\ TxsUpTo(Elements(list'), ledger) /\ BalanceUpTo(balance', ledger)
    <2>1. CASE LedgerOnly(s)
      <3>1. LoadsBalance(s, k, c)
        BY <1>3, <2>1
      <3>2. RealStore(store'[s], ledger)
        BY <1>6, <1>8, <3>1 DEF LoadsBalance, RealStore
      <3>3. TxsUpTo(Elements(<<>>), ledger)
        BY DEF TxsUpTo, Elements
      <3>4. TxsUpTo(Elements(list'), ledger)
        BY <1>8, <3>1, <3>3 DEF LoadsBalance, RealPage
      <3> QED BY <1>6, <1>8, <3>1, <3>2, <3>4 DEF LoadsBalance, RealPage
    <2>2. CASE ~LedgerOnly(s)
      <3>1. LoadsTransactions(s, k, c)
        BY <1>3, <2>2
      <3>2. TxsUpTo(store'[s].txs, ledger)
        BY <1>7, <1>8, <3>1 DEF LoadsTransactions, RealStore, TxsUpTo, SyncedTxs
      <3>3. BalanceUpTo(store'[s].balance, ledger) /\ BalanceUpTo(balance', ledger)
        BY <1>6, <1>8, <3>1 DEF LoadsTransactions, RealStore, RealPage
      <3>4. Elements(list') \subseteq NewTxs(store[s], k, c) \cup Elements(list)
        BY <3>1 DEF LoadsTransactions, Shows
      <3>5. TxsUpTo(Elements(list'), ledger)
        BY <1>7, <1>8, <3>4 DEF RealPage, TxsUpTo
      <3> QED BY <3>2, <3>3, <3>5 DEF RealStore
    <2> QED BY <2>1, <2>2
  <1>10. \A t \in Timers \ {s} : store'[t] = store[t]
    BY <1>3 DEF Loads
  <1>11. \A t \in Timers : RealStore(store'[t], ledger')
    BY <1>3, <1>9, <1>10 DEF Real
  <1>12. RealPage'
    BY <1>3, <1>9 DEF RealPage
  <1> QED BY <1>11, <1>12 DEF Real

LEMMA RealStep == ASSUME TypeInv, Real, [WalletNext]_walletVars PROVE Real'
  <1>1. ledger \in Int /\ StoresOK /\ list \in Seq(Transactions) /\ balance \in Balances \cup {NoBalance}
    BY DEF TypeInv, DataTypes
  <1>2. RealPage /\ \A s \in Timers : RealStore(store[s], ledger)
    BY DEF Real
  <1>3. ASSUME NEW n \in Int, ledger <= n
        PROVE  /\ TxsUpTo(Elements(list), n) /\ BalanceUpTo(balance, n)
               /\ \A s \in Timers : RealStore(store[s], n)
    <2>1. \A txs \in SUBSET Transactions : TxsUpTo(txs, ledger) => TxsUpTo(txs, n)
      BY <1>1, <1>3 DEF TxsUpTo, Transactions
    <2>2. \A b \in Balances \cup {NoBalance} : BalanceUpTo(b, ledger) => BalanceUpTo(b, n)
      BY <1>1, <1>3 DEF BalanceUpTo, Balances
    <2>3. Elements(list) \in SUBSET Transactions
      BY <1>1 DEF Elements
    <2>4. \A s \in Timers : store[s].txs \in SUBSET Transactions
                            /\ store[s].balance \in Balances \cup {NoBalance}
      BY <1>1 DEF StoresOK, Stores
    <2> QED BY <1>1, <1>2, <2>1, <2>2, <2>3, <2>4 DEF RealPage, RealStore
  <1>4. ASSUME UNCHANGED store, ledger' \in {ledger, ledger + 1},
               \/ list' = <<>> /\ balance' = NoBalance
               \/ UNCHANGED <<list, balance>>
        PROVE  Real'
    <2>1. ledger' \in Int /\ ledger <= ledger'
      BY <1>1, <1>4
    <2>2. \A s \in Timers : RealStore(store'[s], ledger')
      BY <1>3, <1>4, <2>1
    <2>3. TxsUpTo(Elements(list), ledger') /\ BalanceUpTo(balance, ledger')
      BY <1>3, <2>1
    <2>4. TxsUpTo(Elements(<<>>), ledger') /\ BalanceUpTo(NoBalance, ledger')
      BY DEF TxsUpTo, Elements, BalanceUpTo
    <2>5. TxsUpTo(Elements(list'), ledger') /\ BalanceUpTo(balance', ledger')
      BY <1>4, <2>3, <2>4
    <2> QED BY <2>2, <2>5 DEF Real, RealPage
  <1>5. CASE UNCHANGED walletVars \/ StartScroll \/ ScrollIgnored \/ ScrollFails
    BY <1>4, <1>5 DEF walletVars, pageVars, StartScroll, ScrollIgnored, ScrollFails
  <1>6. CASE Background
    BY <1>4, <1>6, BackgroundStep
  <1>7. ASSUME NEW r \in Runs, FinishLoad(r) \/ BeginSync(r) \/ EndSync(r) \/ QueryIgnored(r)
        PROVE  Real'
    BY <1>4, <1>7, FinishLoadStep, BeginSyncStep, EndSyncStep, QueryIgnoredStep
  <1>8. ASSUME NEW r \in Runs, UpdateFails(r) PROVE Real'
    BY <1>4, <1>8, UpdateFailsStep
  <1>9. ASSUME NEW r \in Runs, NEW call \in Calls, NEW k \in 0..MaxTx, Answer(r, call, k)
        PROVE  Real'
    BY <1>9, RealAnswer
  <1>10. ASSUME NEW call \in Calls, NEW k \in 0..MaxTx, ScrollAnswer(call, k) PROVE Real'
    <2>1. PICK top \in 0..MaxTx, c \in BOOLEAN :
            /\ top <= k /\ c = (call = "update")
            /\ With(Page(top), c) \in Seq(Transactions)
            /\ list' = list \o With(Page(top), c)
            /\ k \in Answers(call, ledger)
            /\ UNCHANGED <<ledger, store, balance>>
      BY <1>10, ScrollStep
    <2>2. ASSUME c PROVE k <= ledger
      <3>1. k \in ledger..ledger
        BY <2>1, <2>2 DEF Answers
      <3> QED BY <1>1, <3>1
    <2>3. Elements(With(Page(top), c)) = {[id |-> n, certified |-> c] : n \in PageIds(top)}
      BY PageElements
    <2>4. Elements(list') = Elements(list) \cup {[id |-> n, certified |-> c] : n \in PageIds(top)}
      BY <1>1, <2>1, <2>3, AppendedElements
    <2>5. ASSUME NEW n \in PageIds(top), c PROVE n <= ledger
      BY <1>1, <2>1, <2>2, <2>5 DEF PageIds
    <2>6. TxsUpTo(Elements(list'), ledger)
      BY <1>2, <2>4, <2>5 DEF RealPage, TxsUpTo
    <2>7. RealPage'
      BY <1>2, <2>1, <2>6 DEF RealPage
    <2> QED BY <1>2, <2>1, <2>7 DEF Real
  <1> QED BY <1>5, <1>6, <1>7, <1>8, <1>9, <1>10 DEF WalletNext, Settles, Background

(* "Malicious nodes can forge transactions": what the page shows or a       *)
(* scheduler keeps as certified is on the ledger, whatever single replicas  *)
(* answer, in whatever order, through stops, restarts, failures and scrolls.*)
THEOREM CertifiedAnswersAreReal == WalletSpec => []CertifiedIsReal
  <1>1. WalletInit => Real
    <2> SUFFICES ASSUME WalletInit PROVE Real
      OBVIOUS
    <2>1. /\ list = <<>> /\ balance = NoBalance
          /\ \A s \in Timers : store[s].txs = {} /\ store[s].balance = NoBalance
      BY DEF WalletInit, EmptyStore
    <2> QED BY <2>1 DEF Real, RealPage, RealStore, TxsUpTo, BalanceUpTo, Elements
  <1> QED BY <1>1, RealStep, TypeHolds, RealIsCertifiedIsReal, PTL DEF WalletSpec

-----------------------------------------------------------------------------
(* Schedulers before their start and after their end. *)

(* Nothing has happened to a timer.                                         *)
Unused(s) ==
  /\ \A r \in Runs : Active(r) => run[r].of # s
  /\ intervals[s] = {} /\ stops[s] = 0

(* A step that neither starts, triggers nor stops timer s.                  *)
LeavesOut(s) ==
  \/ \E t \in Timers \ {s}, r \in Runs : CallStart(t, r) \/ CallTrigger(t, r)
  \/ \E t \in Timers \ {s} : Stop(t)
  \/ \E t \in Timers, r \in Runs : Tick(t, r)
  \/ \E r \in Runs : NoIdentity(r) \/ SkipJob(r) \/ BeginJob(r) \/ JobSucceeds(r) \/ PostMsg(r)
  \/ UNCHANGED vars

IntervalsShape == intervals \in [Timers -> SUBSET Handles]

LEMMA UnusedStays ==
  ASSUME Shape, IntervalsShape, NEW s \in Timers, Unused(s), LeavesOut(s)
  PROVE  Unused(s)'
  <1>1. stops \in [Timers -> 0..MaxStops]
    BY DEF Shape
  <1>2. CASE UNCHANGED vars
    BY <1>2 DEF vars, Unused, Active
  <1>3. ASSUME NEW r \in Runs, PostMsg(r) PROVE Unused(s)'
    BY <1>3 DEF PostMsg, Unused, Active
  <1>4. ASSUME NEW t \in Timers \ {s}, Stop(t) PROVE Unused(s)'
    BY <1>1, <1>4 DEF Stop, Unused, Active, IntervalsShape
  <1>5. ASSUME NEW t \in Timers \ {s}, NEW r \in Runs, NEW kind \in Kinds, NEW at \in {"loadIdentity", "job"},
               Enter(t, r, kind, at), UNCHANGED <<intervals, stops>>
        PROVE  Unused(s)'
    <2>1. run'[r].of = t /\ \A q \in Runs \ {r} : run'[q] = run[q]
      BY <1>5, EnterEffect
    <2> QED BY <1>5, <2>1 DEF Unused, Active
  <1>6. ASSUME NEW t \in Timers \ {s}, NEW r \in Runs, CallStart(t, r) \/ CallTrigger(t, r)
        PROVE  Unused(s)'
    <2>1. CASE CallStart(t, r)
      BY <1>5, <2>1 DEF CallStart, Kinds
    <2>2. CASE CallTrigger(t, r)
      BY <1>5, <2>2 DEF CallTrigger, Kinds
    <2> QED BY <1>6, <2>1, <2>2
  <1>7. ASSUME NEW t \in Timers, NEW r \in Runs, Tick(t, r) PROVE Unused(s)'
    <2>1. t # s
      BY <1>7 DEF Tick, Unused
    <2> QED BY <1>5, <1>7, <2>1 DEF Tick, Kinds
  <1>8. ASSUME NEW r \in Runs, BeginJob(r) PROVE Unused(s)'
    <2>1. run[r].of \in Timers /\ run[r].kind \in Kinds /\ run[r].of # s
      BY <1>8, ActiveShape DEF BeginJob, Waits, Unused
    <2> QED BY <1>5, <1>8, <2>1 DEF BeginJob
  <1>9. ASSUME NEW r \in Runs, Leave(r), NEW t, t # s, NEW x,
               intervals' = intervals \/ intervals' = [intervals EXCEPT ![t] = x], UNCHANGED stops
        PROVE  Unused(s)'
    <2>1. run'[r] = Free /\ \A q \in Runs \ {r} : run'[q] = run[q]
      BY <1>9, LeaveEffect
    <2> QED BY <1>9, <2>1 DEF Unused, Active, IntervalsShape
  <1>10. ASSUME NEW r \in Runs, NoIdentity(r) PROVE Unused(s)'
    <2>1. run[r].of # s
      BY <1>10 DEF NoIdentity, Waits, Unused
    <2> QED BY <1>9, <1>10, <2>1 DEF NoIdentity
  <1>11. ASSUME NEW r \in Runs, SkipJob(r) \/ JobSucceeds(r) PROVE Unused(s)'
    <2>1. PICK live : live = intervals[run[r].of]
      OBVIOUS
    <2>2. /\ run[r].of # s /\ Leave(r) /\ UNCHANGED stops
          /\ Schedule(r, live, timer[run[r].of])
      BY <1>11, <2>1 DEF SkipJob, JobSucceeds, Waits, Running, Unused
    <2>3. \E x : intervals' = [intervals EXCEPT ![run[r].of] = x]
      BY <2>2 DEF Schedule
    <2> QED BY <1>9, <2>2, <2>3
  <1> QED BY <1>2, <1>3, <1>4, <1>6, <1>7, <1>8, <1>10, <1>11 DEF LeavesOut

(* Before a Web Worker is created, and before it has been restarted so      *)
(* often, nothing has happened to its scheduler.                            *)
Pristine ==
  \A s \in Timers :
    s[1] > created \/ s[2] > restarts[s[1]] => Unused(s) /\ store[s] = EmptyStore
NoMailBefore == \A w \in Workers : w > created => inbox[w] = <<>>

(* A scheduler that was replaced was stopped; replacing takes a failure;    *)
(* and the worker in the map has not been told to stop.                     *)
ReplacedIsStopped == \A s \in Timers : s[2] < restarts[s[1]] => stops[s] # 0
OnlyStops ==
  failures = 0 =>
    \A w \in Workers : restarts[w] = 0 /\ \A i \in DOMAIN inbox[w] : inbox[w][i] = "stop"
KeptGoesOn == kept /\ failures = 0 => inbox[created] = <<>> /\ stops[<<created, 0>>] = 0
NoScrollYet == scrolls = 0 => scroll.pending = {}

KeptShape ==
  IntervalsShape /\ Pristine /\ NoMailBefore /\ ReplacedIsStopped /\ OnlyStops /\ KeptGoesOn
    /\ NoScrollYet

(* A message is the first of the inbox of a worker that was created.        *)
LEMMA Receives ==
  ASSUME TypeInv, NoMailBefore, NEW w \in Workers, NEW message, Receive(w, message)
  PROVE  /\ w <= created
         /\ inbox[w] # <<>> /\ 1 \in DOMAIN inbox[w] /\ inbox[w][1] = message
         /\ inbox'[w] = Tail(inbox[w]) /\ \A v \in Workers \ {w} : inbox'[v] = inbox[v]
         /\ \A i \in DOMAIN inbox'[w] : i + 1 \in DOMAIN inbox[w] /\ inbox'[w][i] = inbox[w][i + 1]
  <1>1. inbox \in [Workers -> Seq(Messages)] /\ created \in Nat /\ w \in Nat
    BY TimerParts DEF TypeInv, WorkersShape
  <1>2. PICK m \in Seq(Messages) : m = inbox[w]
    BY <1>1
  <1>3. m # <<>> /\ Head(m) = message /\ inbox' = [inbox EXCEPT ![w] = Tail(@)]
    BY <1>2 DEF Receive, IsNext
  <1>4. w <= created
    BY <1>1, <1>2, <1>3 DEF NoMailBefore
  <1>5. 1 \in DOMAIN m /\ m[1] = message
    BY <1>2, <1>3
  <1>6. PICK rest : rest = Tail(m)
    OBVIOUS
  <1>7. inbox'[w] = rest /\ \A v \in Workers \ {w} : inbox'[v] = inbox[v]
    BY <1>1, <1>2, <1>3, <1>6
  <1>8. \A i \in DOMAIN rest : i + 1 \in DOMAIN m /\ rest[i] = m[i + 1]
    BY <1>2, <1>3, <1>6
  <1> QED BY <1>2, <1>3, <1>4, <1>5, <1>6, <1>7, <1>8

(* Web Workers and restarts are only ever added.                            *)
LEMMA Monotone ==
  ASSUME TypeInv, [WalletNext]_walletVars
  PROVE  /\ created \in Nat /\ created' \in Nat /\ created <= created'
         /\ \A w \in Workers : restarts[w] \in Nat /\ restarts'[w] \in Nat /\ restarts[w] <= restarts'[w]
  <1>1. /\ created \in Nat /\ restarts \in [Workers -> 0..MaxEvents - 1] /\ MaxEvents \in Nat
        /\ created' \in Nat /\ restarts' \in [Workers -> 0..MaxEvents - 1]
    BY WorkersStep, TimerParts DEF TypeInv, WorkersShape
  <1>2. created' = created \/ created' = created + 1
    BY <1>1 DEF WalletNext, walletVars, workerVars, Settles, Transact, BeginLoad, FinishLoad, StopWallet,
                HandleStop, HandleReplace, HandleStart, TriggerWallet, NoSync, BeginSync, EndSync, Answer,
                UpdateFails, QueryIgnored, StartScroll, ScrollIgnored, ScrollFails, ScrollAnswer
  <1>3. restarts' = restarts \/ \E w \in Workers : restarts' = [restarts EXCEPT ![w] = @ + 1]
    BY <1>1 DEF WalletNext, walletVars, workerVars, Settles, Transact, BeginLoad, FinishLoad, StopWallet,
                HandleStop, HandleReplace, HandleStart, TriggerWallet, NoSync, BeginSync, EndSync, Answer,
                UpdateFails, QueryIgnored, StartScroll, ScrollIgnored, ScrollFails, ScrollAnswer
  <1>4. \A w \in Workers : restarts[w] <= restarts'[w]
    BY <1>1, <1>3
  <1> QED BY <1>1, <1>2, <1>4

(* The steps that concern no Web Worker.                                    *)
Remaining ==
  \/ UNCHANGED walletVars \/ Transact \/ BeginLoad \/ Scrolls
  \/ \E w \in Workers, r \in Runs : TriggerWallet(w, r)
  \/ \E r \in Runs : NoSync(r) \/ BeginSync(r) \/ EndSync(r) \/ QueryIgnored(r)
  \/ \E r \in Runs, call \in Calls, k \in 0..MaxTx : Answer(r, call, k)

LEMMA RemainingStep ==
  ASSUME TypeInv, Remaining
  PROVE  UNCHANGED <<created, kept, inbox, restarts, stops>> /\ (failures' = 0 => failures = 0)
  <1>1. CASE UNCHANGED walletVars \/ Scrolls
    BY <1>1, ScrollsStep DEF TypeInv, walletVars, workerVars, vars
  <1>2. CASE Transact \/ BeginLoad
    BY <1>2 DEF Transact, BeginLoad, workerVars, vars
  <1>3. ASSUME NEW w \in Workers, NEW r \in Runs, TriggerWallet(w, r)
        PROVE  UNCHANGED <<created, kept, inbox, restarts, stops, failures>>
    BY <1>3 DEF TriggerWallet, CallTrigger
  <1>4. ASSUME NEW r \in Runs, NoSync(r) \/ BeginSync(r) \/ EndSync(r) \/ QueryIgnored(r)
        PROVE  UNCHANGED <<created, kept, inbox, restarts, stops, failures>>
    BY <1>4 DEF NoSync, BeginSync, EndSync, QueryIgnored, workerVars, vars, NoIdentity, SkipJob, BeginJob,
                Tick, JobSucceeds
  <1>5. ASSUME NEW r \in Runs, NEW call \in Calls, NEW k \in 0..MaxTx, Answer(r, call, k)
        PROVE  UNCHANGED <<created, kept, inbox, restarts, stops, failures>>
    BY <1>5, AnswerStep DEF workerVars, vars, PostMsg
  <1> QED BY <1>1, <1>2, <1>3, <1>4, <1>5 DEF Remaining

(* A call is in flight for a scheduler of a worker that was created.        *)
LEMMA ActiveIsCreated ==
  ASSUME TypeInv, Pristine, NEW r \in Runs, Active(r)
  PROVE  /\ run[r].of \in Timers /\ run[r].of[1] \in Workers
         /\ run[r].of[1] <= created /\ run[r].of[2] <= restarts[run[r].of[1]]
  <1>1. PICK s \in Timers : s = run[r].of
    BY ActiveShape DEF TypeInv, Inv
  <1>2. s[1] \in Workers /\ s[1] \in Int /\ s[2] \in Int /\ created \in Int /\ restarts[s[1]] \in Int
    BY TimerParts DEF TypeInv, WorkersShape
  <1>3. ~(s[1] > created) /\ ~(s[2] > restarts[s[1]])
    BY <1>1 DEF Pristine, Unused
  <1> QED BY <1>1, <1>2, <1>3

LEMMA PristineStep == ASSUME TypeInv, KeptShape, [WalletNext]_walletVars PROVE Pristine'
  <1> SUFFICES ASSUME NEW s \in Timers, s[1] > created' \/ s[2] > restarts'[s[1]]
               PROVE  Unused(s)' /\ store'[s] = EmptyStore
    BY DEF Pristine
  <1>1. /\ s[1] \in Workers /\ s[1] \in Nat /\ s[2] \in Nat /\ s = <<s[1], s[2]>>
        /\ created \in Nat /\ created' \in Nat /\ created <= created'
        /\ restarts[s[1]] \in Nat /\ restarts'[s[1]] \in Nat /\ restarts[s[1]] <= restarts'[s[1]]
    BY TimerParts, Monotone
  <1>2. s[1] > created \/ s[2] > restarts[s[1]]
    BY <1>1
  <1>3. Unused(s) /\ store[s] = EmptyStore
    BY <1>2 DEF KeptShape, Pristine
  <1>4. ASSUME NEW w \in Workers, w <= created PROVE Current(w) \in Timers \ {s}
    BY <1>1, <1>2, <1>4, CurrentIsTimer DEF TypeInv
  <1>5. ASSUME LeavesOut(s), UNCHANGED store PROVE Unused(s)' /\ store'[s] = EmptyStore
    BY <1>3, <1>5, UnusedStays DEF KeptShape, TypeInv, Inv
  <1>6. CASE UNCHANGED walletVars \/ Transact \/ BeginLoad \/ StopWallet \/ Scrolls
    <2>1. UNCHANGED <<vars, store>>
      BY <1>6, ScrollsStep DEF walletVars, Transact, BeginLoad, StopWallet, TypeInv
    <2> QED BY <1>5, <2>1 DEF LeavesOut
  <1>7. ASSUME NEW w \in Workers, HandleStop(w) \/ HandleReplace(w)
        PROVE  Unused(s)' /\ store'[s] = EmptyStore
    <2>1. w <= created
      BY <1>7, Receives DEF HandleStop, HandleReplace, KeptShape
    <2>2. Stop(Current(w)) /\ UNCHANGED store
      BY <1>7 DEF HandleStop, HandleReplace
    <2> QED BY <1>4, <1>5, <2>1, <2>2 DEF LeavesOut
  <1>8. ASSUME NEW w \in Workers, NEW r \in Runs, HandleStart(w, r) \/ TriggerWallet(w, r)
        PROVE  Unused(s)' /\ store'[s] = EmptyStore
    <2>1. w <= created
      BY <1>8, Receives DEF HandleStart, TriggerWallet, KeptShape
    <2>2. (CallStart(Current(w), r) \/ CallTrigger(Current(w), r)) /\ UNCHANGED store
      BY <1>8 DEF HandleStart, TriggerWallet
    <2> QED BY <1>4, <1>5, <2>1, <2>2 DEF LeavesOut
  <1>9. ASSUME NEW r \in Runs, FinishLoad(r) PROVE Unused(s)' /\ store'[s] = EmptyStore
    <2>1. PICK t : t = <<created + 1, 0>>
      OBVIOUS
    <2>2. /\ t \in Timers /\ t[1] = created + 1 /\ t[2] = 0
          /\ CallStart(t, r) /\ created' = created + 1 /\ UNCHANGED <<store, restarts>>
      BY <1>9, <2>1, NextWorker DEF FinishLoad, TypeInv
    <2>3. t # s
      BY <1>1, <2>2
    <2> QED BY <1>5, <2>2, <2>3 DEF LeavesOut
  <1>10. ASSUME NEW r \in Runs, NoSync(r) \/ BeginSync(r) \/ EndSync(r)
         PROVE  Unused(s)' /\ store'[s] = EmptyStore
    <2>1. LeavesOut(s) /\ UNCHANGED store
      BY <1>10 DEF NoSync, BeginSync, EndSync, LeavesOut
    <2> QED BY <1>5, <2>1
  <1>11. ASSUME NEW r \in Runs, QueryIgnored(r) \/ UpdateFails(r)
         PROVE  Unused(s)' /\ store'[s] = EmptyStore
    <2>1. UNCHANGED vars \/ PostMsg(r)
      BY <1>11, UpdateFailsStep DEF QueryIgnored
    <2>2. LeavesOut(s) /\ UNCHANGED store
      BY <1>11, <2>1 DEF QueryIgnored, UpdateFails, LeavesOut
    <2> QED BY <1>5, <2>2
  <1>12. ASSUME NEW r \in Runs, NEW call \in Calls, NEW k \in 0..MaxTx, Answer(r, call, k)
         PROVE  Unused(s)' /\ store'[s] = EmptyStore
    <2>1. PICK t : t = run[r].of
      OBVIOUS
    <2>2. Settle(r, call) /\ Loads(t) /\ (UNCHANGED vars \/ PostMsg(r))
      BY <1>12, <2>1, AnswerStep
    <2>3. Running(r)
      BY <2>2, SettleStep
    <2>4. t # s
      BY <1>3, <2>1, <2>3 DEF Unused, Running
    <2>5. store'[s] = store[s]
      BY <2>2, <2>4 DEF Loads
    <2>6. LeavesOut(s)
      BY <2>2 DEF LeavesOut
    <2> QED BY <1>3, <2>5, <2>6, UnusedStays DEF KeptShape, TypeInv, Inv
  <1> QED BY <1>6, <1>7, <1>8, <1>9, <1>10, <1>11, <1>12 DEF WalletNext, Settles, Scrolls

LEMMA MailStep ==
  ASSUME TypeInv, KeptShape, [WalletNext]_walletVars
  PROVE  NoMailBefore' /\ OnlyStops'
  <1>1. /\ created \in Nat /\ created' \in Nat /\ created <= created' /\ failures \in Nat
        /\ \A w \in Workers : w \in Nat
        /\ inbox \in [Workers -> Seq(Messages)] /\ NoMailBefore /\ OnlyStops /\ Pristine
    BY Monotone, TimerParts DEF TypeInv, WorkersShape, KeptShape
  <1>2. ASSUME UNCHANGED <<inbox, restarts>>, failures' = 0 => failures = 0
        PROVE  NoMailBefore' /\ OnlyStops'
    BY <1>1, <1>2 DEF NoMailBefore, OnlyStops
  <1>3. CASE Remaining
    BY <1>2, <1>3, RemainingStep
  <1>4. ASSUME NEW r \in Runs, FinishLoad(r) PROVE NoMailBefore' /\ OnlyStops'
    BY <1>2, <1>4 DEF FinishLoad
  <1>5. ASSUME NEW w \in Workers, NEW message, Receive(w, message), failures' = failures,
               UNCHANGED restarts \/ message # "stop", created' = created
        PROVE  NoMailBefore' /\ OnlyStops'
    <2>1. /\ w <= created
          /\ inbox[w] # <<>> /\ 1 \in DOMAIN inbox[w] /\ inbox[w][1] = message
          /\ \A v \in Workers \ {w} : inbox'[v] = inbox[v]
          /\ \A i \in DOMAIN inbox'[w] : i + 1 \in DOMAIN inbox[w] /\ inbox'[w][i] = inbox[w][i + 1]
      BY <1>1, <1>5, Receives
    <2>2. NoMailBefore'
      BY <1>1, <1>5, <2>1 DEF NoMailBefore
    <2>3. OnlyStops'
      <3> SUFFICES ASSUME failures' = 0 PROVE \A v \in Workers : restarts'[v] = 0
                     /\ \A i \in DOMAIN inbox'[v] : inbox'[v][i] = "stop"
        BY DEF OnlyStops
      <3>1. \A v \in Workers : restarts[v] = 0 /\ \A i \in DOMAIN inbox[v] : inbox[v][i] = "stop"
        BY <1>1, <1>5 DEF OnlyStops
      <3>2. message = "stop" /\ UNCHANGED restarts
        BY <1>5, <2>1, <3>1
      <3> QED BY <2>1, <3>1, <3>2
    <2> QED BY <2>2, <2>3
  <1>6. ASSUME NEW w \in Workers, HandleStop(w) PROVE NoMailBefore' /\ OnlyStops'
    BY <1>5, <1>6 DEF HandleStop
  <1>7. ASSUME NEW w \in Workers, HandleReplace(w) PROVE NoMailBefore' /\ OnlyStops'
    BY <1>5, <1>7 DEF HandleReplace
  <1>8. ASSUME NEW w \in Workers, NEW r \in Runs, HandleStart(w, r) PROVE NoMailBefore' /\ OnlyStops'
    BY <1>5, <1>8 DEF HandleStart
  <1>9. CASE StopWallet
    <2>1. PICK m \in Seq(Messages) : m = inbox[created] /\ created \in Workers
      BY <1>1, <1>9 DEF StopWallet, TypeInv, WorkersShape
    <2>2. PICK more : more = m \o <<"stop">>
      OBVIOUS
    <2>3. /\ inbox' = [inbox EXCEPT ![created] = more]
          /\ UNCHANGED <<created, restarts, failures>>
      BY <1>9, <2>1, <2>2 DEF StopWallet, Send
    <2>4. \A i \in DOMAIN more : more[i] = "stop" \/ (i \in DOMAIN m /\ more[i] = m[i])
      BY <2>1, <2>2
    <2>5. inbox'[created] = more /\ \A v \in Workers \ {created} : inbox'[v] = inbox[v]
      BY <1>1, <2>1, <2>3
    <2>6. NoMailBefore'
      BY <1>1, <2>3, <2>5 DEF NoMailBefore
    <2>7. OnlyStops'
      BY <1>1, <2>1, <2>3, <2>4, <2>5 DEF OnlyStops
    <2> QED BY <2>6, <2>7
  <1>10. ASSUME NEW r \in Runs, UpdateFails(r) PROVE NoMailBefore' /\ OnlyStops'
    <2>1. failures' # 0 /\ Settle(r, "update") /\ "update" \in Calls /\ UNCHANGED created
      BY <1>1, <1>10, UpdateFailsStep DEF UpdateFails
    <2>2. PICK w \in Workers : w = run[r].of[1] /\ w <= created
      BY <1>1, <2>1, SettleStep, ActiveIsCreated DEF Running
    <2>3. \A v \in Workers \ {w} : inbox'[v] = inbox[v]
      BY <1>1, <1>10, <2>2 DEF UpdateFails, Send
    <2>4. NoMailBefore'
      BY <1>1, <2>1, <2>2, <2>3 DEF NoMailBefore
    <2> QED BY <2>1, <2>4 DEF OnlyStops
  <1> QED BY <1>3, <1>4, <1>6, <1>7, <1>8, <1>9, <1>10 DEF WalletNext, Settles, Remaining, Scrolls

LEMMA ReplacedStep ==
  ASSUME TypeInv, KeptShape, [WalletNext]_walletVars
  PROVE  ReplacedIsStopped'
  <1>1. /\ restarts \in [Workers -> 0..MaxEvents - 1] /\ stops \in [Timers -> 0..MaxStops]
        /\ \A s \in Timers : stops[s] \in Nat /\ s[1] \in Workers /\ s[2] \in Nat /\ s = <<s[1], s[2]>>
        /\ \A w \in Workers : restarts[w] \in Nat
    BY TimerParts, BoundsAssumption DEF TypeInv, WorkersShape, Inv, Shape
  <1>2. ASSUME UNCHANGED <<restarts, stops>> PROVE ReplacedIsStopped'
    BY <1>2 DEF KeptShape, ReplacedIsStopped
  <1>3. CASE Remaining
    BY <1>2, <1>3, RemainingStep
  <1>4. ASSUME NEW r \in Runs, FinishLoad(r) \/ UpdateFails(r) PROVE ReplacedIsStopped'
    <2>1. UNCHANGED restarts
      BY <1>4 DEF FinishLoad, UpdateFails
    <2>2. UNCHANGED stops
      BY <1>4, UpdateFailsStep DEF FinishLoad, CallStart, vars, PostMsg
    <2> QED BY <1>2, <2>1, <2>2
  <1>5. CASE StopWallet
    BY <1>2, <1>5 DEF StopWallet, vars
  <1>6. ASSUME NEW w \in Workers, NEW r \in Runs, HandleStart(w, r) PROVE ReplacedIsStopped'
    BY <1>2, <1>6 DEF HandleStart, CallStart
  <1>7. ASSUME NEW w \in Workers, NEW s, s = Current(w), Stop(s)
        PROVE  /\ s \in Timers /\ s[1] = w /\ s[2] = restarts[w]
               /\ stops'[s] # 0 /\ \A t \in Timers : stops[t] # 0 => stops'[t] # 0
    <2>1. s \in Timers /\ s[1] = w /\ s[2] = restarts[w]
      BY <1>7, CurrentIsTimer DEF TypeInv
    <2>2. stops'[s] = stops[s] + 1 /\ \A t \in Timers \ {s} : stops'[t] = stops[t]
      BY <1>1, <1>7, <2>1 DEF Stop
    <2> QED BY <1>1, <2>1, <2>2
  <1>8. ASSUME NEW w \in Workers, HandleStop(w) PROVE ReplacedIsStopped'
    <2>1. \A t \in Timers : stops[t] # 0 => stops'[t] # 0
      BY <1>7, <1>8 DEF HandleStop
    <2> QED BY <1>8, <2>1 DEF HandleStop, KeptShape, ReplacedIsStopped
  <1>9. ASSUME NEW w \in Workers, HandleReplace(w) PROVE ReplacedIsStopped'
    <2>1. PICK s : s = Current(w)
      OBVIOUS
    <2>2. /\ s \in Timers /\ s[1] = w /\ s[2] = restarts[w]
          /\ stops'[s] # 0 /\ \A t \in Timers : stops[t] # 0 => stops'[t] # 0
      BY <1>7, <1>9, <2>1 DEF HandleReplace
    <2>3. restarts'[w] = restarts[w] + 1 /\ \A v \in Workers \ {w} : restarts'[v] = restarts[v]
      BY <1>1, <1>9 DEF HandleReplace
    <2>4. ASSUME NEW t \in Timers, t[2] < restarts'[t[1]] PROVE stops'[t] # 0
      <3>1. CASE t[2] < restarts[t[1]]
        BY <2>2, <3>1 DEF KeptShape, ReplacedIsStopped
      <3>2. CASE ~(t[2] < restarts[t[1]])
        <4>1. t[1] = w
          BY <1>1, <2>3, <2>4, <3>2
        <4>2. t[2] = restarts[w]
          BY <1>1, <2>3, <2>4, <3>2, <4>1
        <4>3. t = s
          BY <1>1, <2>2, <4>1, <4>2
        <4> QED BY <2>2, <4>3
      <3> QED BY <3>1, <3>2
    <2> QED BY <2>4 DEF ReplacedIsStopped
  <1> QED BY <1>3, <1>4, <1>5, <1>6, <1>8, <1>9 DEF WalletNext, Settles, Remaining, Scrolls

LEMMA KeptStep ==
  ASSUME TypeInv, KeptShape, [WalletNext]_walletVars
  PROVE  KeptGoesOn'
  <1> SUFFICES ASSUME kept', failures' = 0
               PROVE  inbox'[created'] = <<>> /\ stops'[<<created', 0>>] = 0
    BY DEF KeptGoesOn
  <1>1. /\ inbox \in [Workers -> Seq(Messages)] /\ stops \in [Timers -> 0..MaxStops]
        /\ failures \in Nat /\ created \in Nat
        /\ KeptGoesOn /\ NoMailBefore /\ Pristine
    BY DEF TypeInv, WorkersShape, Inv, Shape, KeptShape
  <1>2. ASSUME UNCHANGED <<kept, created, inbox, stops>>, failures = 0
        PROVE  inbox'[created'] = <<>> /\ stops'[<<created', 0>>] = 0
    BY <1>1, <1>2 DEF KeptGoesOn
  <1>3. CASE Remaining
    BY <1>2, <1>3, RemainingStep
  <1>4. CASE StopWallet
    BY <1>4 DEF StopWallet
  <1>5. ASSUME NEW r \in Runs, FinishLoad(r)
        PROVE  inbox'[created'] = <<>> /\ stops'[<<created', 0>>] = 0
    <2>1. PICK t \in Timers : t = <<created + 1, 0>> /\ t[1] = created + 1
      BY <1>5, NextWorker, TimerParts DEF FinishLoad, TypeInv
    <2>2. created + 1 \in Workers /\ created' = created + 1 /\ UNCHANGED <<inbox, stops>>
      BY <1>5, NextWorker DEF FinishLoad, TypeInv, CallStart
    <2>3. stops[t] = 0
      BY <1>1, <2>1 DEF Pristine, Unused
    <2>4. inbox[created + 1] = <<>>
      BY <1>1, <2>2 DEF NoMailBefore
    <2> QED BY <2>1, <2>2, <2>3, <2>4
  <1>6. ASSUME NEW w \in Workers, NEW message, Receive(w, message), UNCHANGED <<kept, created>>,
               failures = 0
        PROVE  w # created /\ inbox'[created'] = <<>> /\ created \in Workers
    <2>1. /\ inbox[w] # <<>> /\ \A v \in Workers \ {w} : inbox'[v] = inbox[v]
      BY <1>1, <1>6, Receives
    <2>2. inbox[created] = <<>> /\ created \in Workers
      BY <1>1, <1>6 DEF KeptGoesOn, TypeInv, WorkersShape
    <2> QED BY <1>6, <2>1, <2>2
  <1>7. ASSUME NEW w \in Workers, HandleStop(w) \/ HandleReplace(w)
        PROVE  inbox'[created'] = <<>> /\ stops'[<<created', 0>>] = 0
    <2>1. Stop(Current(w)) /\ UNCHANGED <<kept, created, failures>>
      BY <1>7 DEF HandleStop, HandleReplace
    <2>2. w # created /\ inbox'[created'] = <<>> /\ created \in Workers
      BY <1>6, <1>7, <2>1 DEF HandleStop, HandleReplace
    <2>3. PICK t \in Timers : t = <<created, 0>> /\ t[1] = created
      <3>1. 0 \in 0..MaxEvents - 1
        BY TimerParts
      <3> QED BY <2>2, <3>1, TimerParts
    <2>4. PICK s \in Timers : s = Current(w) /\ s[1] = w
      BY CurrentIsTimer DEF TypeInv
    <2>5. stops'[t] = stops[t]
      BY <1>1, <2>1, <2>2, <2>3, <2>4 DEF Stop
    <2>6. stops[t] = 0
      BY <1>1, <2>1, <2>3 DEF KeptGoesOn
    <2> QED BY <2>1, <2>2, <2>3, <2>5, <2>6
  <1>8. ASSUME NEW w \in Workers, NEW r \in Runs, HandleStart(w, r)
        PROVE  inbox'[created'] = <<>> /\ stops'[<<created', 0>>] = 0
    <2>1. UNCHANGED <<kept, created, failures, stops>>
      BY <1>8 DEF HandleStart, CallStart
    <2>2. inbox'[created'] = <<>>
      BY <1>6, <1>8, <2>1 DEF HandleStart
    <2> QED BY <1>1, <2>1, <2>2 DEF KeptGoesOn
  <1>9. ASSUME NEW r \in Runs, UpdateFails(r) PROVE FALSE
    BY <1>1, <1>9, UpdateFailsStep
  <1> QED BY <1>3, <1>4, <1>5, <1>7, <1>8, <1>9 DEF WalletNext, Settles, Remaining, Scrolls

LEMMA NoScrollStep ==
  ASSUME TypeInv, KeptShape, [WalletNext]_walletVars
  PROVE  NoScrollYet'
  <1>1. scrolls \in Nat /\ NoScrollYet
    BY DEF TypeInv, WorkersShape, KeptShape
  <1>2. CASE StartScroll
    BY <1>1, <1>2 DEF StartScroll, NoScrollYet
  <1>3. CASE ScrollIgnored \/ ScrollFails \/ \E call \in Calls, k \in 0..MaxTx : ScrollAnswer(call, k)
    <2>1. scrolls' = scrolls /\ scroll.pending # {}
      BY <1>3 DEF ScrollIgnored, ScrollFails, ScrollAnswer
    <2> QED BY <1>1, <2>1 DEF NoScrollYet
  <1>4. CASE UNCHANGED <<scroll, scrolls>>
    BY <1>1, <1>4 DEF NoScrollYet
  <1>5. CASE UNCHANGED walletVars \/ Background
    BY <1>4, <1>5, BackgroundStep DEF walletVars, scrollVars
  <1>6. ASSUME NEW r \in Runs, \/ FinishLoad(r) \/ BeginSync(r) \/ EndSync(r) \/ QueryIgnored(r)
                               \/ UpdateFails(r) \/ \E call \in Calls, k \in 0..MaxTx : Answer(r, call, k)
        PROVE  NoScrollYet'
    BY <1>4, <1>6 DEF FinishLoad, BeginSync, EndSync, QueryIgnored, UpdateFails, Answer, scrollVars
  <1> QED BY <1>2, <1>3, <1>5, <1>6 DEF WalletNext, Settles, Background

LEMMA KeptHolds == WalletSpec => [](TypeInv /\ KeptShape)
  <1> DEFINE Rest == Pristine /\ NoMailBefore /\ ReplacedIsStopped /\ OnlyStops /\ KeptGoesOn
                       /\ NoScrollYet
  <1>1. WalletInit => Rest
    <2> SUFFICES ASSUME WalletInit PROVE Rest
      OBVIOUS
    <2>1. /\ \A s \in Timers : intervals[s] = {} /\ stops[s] = 0 /\ store[s] = EmptyStore
          /\ \A r \in Runs : ~Active(r)
      BY DEF WalletInit, Init, Active
    <2>2. /\ \A w \in Workers : inbox[w] = <<>> /\ restarts[w] = 0
          /\ kept = FALSE /\ scroll.pending = {}
      BY DEF WalletInit, NoScroll
    <2>3. Pristine
      BY <2>1 DEF Pristine, Unused
    <2>4. ReplacedIsStopped
      <3>1. \A s \in Timers : s[1] \in Workers /\ s[2] \in Nat
        BY TimerParts
      <3> QED BY <2>2, <3>1 DEF ReplacedIsStopped
    <2>5. NoMailBefore /\ OnlyStops /\ NoScrollYet
      BY <2>2 DEF NoMailBefore, OnlyStops, NoScrollYet
    <2>6. KeptGoesOn
      BY <2>2 DEF KeptGoesOn
    <2> QED BY <2>3, <2>4, <2>5, <2>6
  <1>2. WalletSpec => []IntervalsShape
    <2>1. TypeOK => IntervalsShape
      BY DEF TypeOK, IntervalsShape
    <2> QED BY <2>1, WalletImplementsTimer, TypeCorrect, PTL
  <1>3. ASSUME TypeInv, IntervalsShape, Rest, [WalletNext]_walletVars PROVE Rest'
    <2>1. KeptShape
      BY <1>3 DEF KeptShape
    <2> QED BY <1>3, <2>1, PristineStep, MailStep, ReplacedStep, KeptStep, NoScrollStep
  <1>4. IntervalsShape /\ Rest => KeptShape
    BY DEF KeptShape
  <1> HIDE DEF Rest
  <1> QED BY <1>1, <1>2, <1>3, <1>4, TypeHolds, PTL DEF WalletSpec

-----------------------------------------------------------------------------
(* What the newest scheduler does to the page. *)

(* A transaction is once in the store of a scheduler.                       *)
Once(txs) == \A t, u \in txs : t.id = u.id => t = u
OnceInStores == \A s \in Timers : Once(store[s].txs)

(* Loading an answer keeps it so.                                           *)
LEMMA SyncedOnce ==
  ASSUME NEW known, Once(known.txs), NEW k \in 0..MaxTx, NEW c \in BOOLEAN
  PROVE  Once(SyncedTxs(known, k, c))
  <1>1. \A t, u \in NewTxs(known, k, c) : t.id = u.id => t = u
    BY NewTxsAre
  <1>2. \A t \in NewTxs(known, k, c) : t.id \in Ids(NewTxs(known, k, c))
    BY DEF Ids
  <1> QED BY <1>1, <1>2 DEF Once, SyncedTxs

LEMMA OnceStep == ASSUME TypeInv, OnceInStores, [WalletNext]_walletVars PROVE OnceInStores'
  <1>1. ASSUME UNCHANGED store PROVE OnceInStores'
    BY <1>1 DEF OnceInStores
  <1>2. CASE UNCHANGED walletVars \/ Scrolls
    BY <1>1, <1>2, ScrollsStep DEF walletVars, TypeInv
  <1>3. CASE Background
    BY <1>1, <1>3, BackgroundStep
  <1>4. ASSUME NEW r \in Runs, \/ FinishLoad(r) \/ BeginSync(r) \/ EndSync(r)
                               \/ QueryIgnored(r) \/ UpdateFails(r)
        PROVE  OnceInStores'
    BY <1>1, <1>4 DEF FinishLoad, BeginSync, EndSync, QueryIgnored, UpdateFails
  <1>5. ASSUME NEW r \in Runs, NEW call \in Calls, NEW k \in 0..MaxTx, Answer(r, call, k)
        PROVE  OnceInStores'
    <2>1. PICK s : s = run[r].of
      OBVIOUS
    <2>2. PICK c \in BOOLEAN : c = (call = "update")
      OBVIOUS
    <2>3. /\ Settle(r, call) /\ Loads(s)
          /\ IF LedgerOnly(s) THEN LoadsBalance(s, k, c) ELSE LoadsTransactions(s, k, c)
      BY <1>5, <2>1, <2>2, AnswerStep
    <2>4. s \in Timers
      BY <2>1, <2>3, SettleStep
    <2>5. Once(SyncedTxs(store[s], k, c)) /\ Once(store[s].txs)
      BY <2>4, SyncedOnce DEF OnceInStores
    <2>6. Once(store'[s].txs)
      <3>1. CASE LedgerOnly(s)
        BY <2>3, <2>5, <3>1 DEF LoadsBalance
      <3>2. CASE ~LedgerOnly(s)
        BY <2>3, <2>5, <3>2 DEF LoadsTransactions, Once
      <3> QED BY <3>1, <3>2
    <2>7. \A t \in Timers \ {s} : store'[t] = store[t]
      BY <2>3 DEF Loads
    <2> QED BY <2>6, <2>7 DEF OnceInStores
  <1> QED BY <1>2, <1>3, <1>4, <1>5 DEF WalletNext, Settles, Background, Scrolls

LEMMA OnceHolds == WalletSpec => []OnceInStores
  <1>1. WalletInit => OnceInStores
    BY DEF WalletInit, EmptyStore, OnceInStores, Once
  <1> QED BY <1>1, OnceStep, TypeHolds, PTL DEF WalletSpec

(* The timer of a scheduler that was never stopped is not idle while it has *)
(* a call in flight, so what is new is posted.                              *)
LEMMA UnstoppedPosts ==
  ASSUME TypeInv, NEW s \in Timers, stops[s] = 0, ~LedgerOnly(s), NEW c \in BOOLEAN,
         NEW r \in Runs, s = run[r].of, NEW call \in Calls, c = (call = "update"),
         NEW k \in 0..MaxTx, Answer(r, call, k)
  PROVE  /\ Shows(list', store[s], k, c)
         /\ store'[s].txs = SyncedTxs(store[s], k, c) \ PrunedTxs(store[s], k, c)
         /\ \/ balance' = store'[s].balance
            \/ store'[s].balance = store[s].balance /\ balance' = balance
  <1>1. Settle(r, call) /\ LoadsTransactions(s, k, c)
    BY AnswerStep
  <1>2. Running(r) /\ s \in Timers
    BY <1>1, SettleStep
  <1>3. timerStatus[s] # "idle"
    BY <1>2 DEF TypeInv, Inv, Jobs, JobsAnnounced, RunningOf
  <1> QED BY <1>1, <1>2, <1>3 DEF LoadsTransactions

(* What stays in the store after an answer has an id that is not pruned.    *)
LEMMA KeptIsShown ==
  ASSUME NEW known, Once(known.txs), NEW k \in 0..MaxTx, NEW c \in BOOLEAN,
         NEW t \in SyncedTxs(known, k, c) \ PrunedTxs(known, k, c)
  PROVE  t.id \notin Ids(PrunedTxs(known, k, c))
  <1>1. PrunedTxs(known, k, c) \subseteq SyncedTxs(known, k, c)
    BY DEF PrunedTxs, Uncertified
  <1> QED BY <1>1, SyncedOnce DEF Once, Ids

LEMMA ShownStep ==
  ASSUME TypeInv, KeptShape, OnceInStores, WorkerIsShown, [WalletNext]_walletVars
  PROVE  WorkerIsShown'
  <1> SUFFICES ASSUME kept', ~crossed', failures' = 0, scrolls' = 0
               PROVE  /\ store'[Newest'].txs \subseteq Elements(list')
                      /\ store'[Newest'].balance \in {NoBalance, balance'}
    BY DEF WorkerIsShown
  <1> DEFINE Goal == /\ store'[Newest'].txs \subseteq Elements(list')
                     /\ store'[Newest'].balance \in {NoBalance, balance'}
  <1>1. /\ failures \in Nat /\ scrolls \in Nat /\ WorkersShape /\ OnlyStops
      BY DEF TypeInv, WorkersShape, KeptShape
  <1>2. ASSUME UNCHANGED <<created, restarts, kept, crossed, failures, scrolls>>
        PROVE  Newest' = Newest /\ store[Newest].txs \subseteq Elements(list)
               /\ store[Newest].balance \in {NoBalance, balance}
    BY <1>2 DEF WorkerIsShown, Newest, Current
  <1>3. ASSUME UNCHANGED <<created, restarts, kept, crossed, failures, scrolls>>,
               UNCHANGED <<store, list, balance>>
        PROVE  Goal
    BY <1>2, <1>3
  <1>4. CASE UNCHANGED walletVars
    BY <1>3, <1>4 DEF walletVars, workerVars, pageVars, scrollVars
  <1>5. CASE Transact \/ BeginLoad \/ StopWallet
    BY <1>3, <1>5 DEF Transact, BeginLoad, StopWallet, workerVars, pageVars, scrollVars
  <1>6. ASSUME NEW w \in Workers, HandleStop(w) PROVE Goal
    BY <1>3, <1>6 DEF HandleStop, pageVars, scrollVars
  <1>7. ASSUME NEW w \in Workers, HandleReplace(w) PROVE Goal
    <2>1. failures = 0 /\ Receive(w, "replace")
      BY <1>7 DEF HandleReplace
    <2>2. 1 \in DOMAIN inbox[w] /\ inbox[w][1] = "replace"
      BY <2>1, Receives DEF KeptShape
    <2> QED BY <1>1, <2>1, <2>2 DEF OnlyStops
  <1>8. ASSUME NEW w \in Workers, NEW r \in Runs, HandleStart(w, r) \/ TriggerWallet(w, r) PROVE Goal
    BY <1>3, <1>8 DEF HandleStart, TriggerWallet, pageVars, scrollVars
  <1>9. ASSUME NEW r \in Runs, FinishLoad(r) PROVE Goal
    <2>1. /\ created' = created + 1 /\ created + 1 \in Workers /\ created \in Nat
          /\ UNCHANGED <<restarts, store>>
      BY <1>1, <1>9, NextWorker DEF FinishLoad, WorkersShape
    <2>2. PICK s \in Timers : s = Current(created + 1) /\ s[1] = created + 1
      BY <1>1, <2>1, CurrentIsTimer
    <2>3. Newest' = s
      BY <2>1, <2>2 DEF Newest, Current
    <2>4. store[s] = EmptyStore
      BY <2>1, <2>2 DEF KeptShape, Pristine
    <2> QED BY <2>1, <2>3, <2>4 DEF EmptyStore
  <1>10. ASSUME NEW r \in Runs, NoSync(r) \/ BeginSync(r) \/ EndSync(r) \/ QueryIgnored(r) PROVE Goal
    BY <1>3, <1>10 DEF NoSync, BeginSync, EndSync, QueryIgnored, workerVars, pageVars, scrollVars
  <1>11. ASSUME NEW r \in Runs, UpdateFails(r) PROVE FALSE
    BY <1>1, <1>11, UpdateFailsStep
  <1>12. CASE StartScroll \/ ScrollFails
    BY <1>1, <1>12 DEF StartScroll, ScrollFails
  <1>13. CASE ScrollIgnored \/ \E call \in Calls, k \in 0..MaxTx : ScrollAnswer(call, k)
    <2>1. scrolls' = scrolls /\ scroll.pending # {}
      BY <1>13 DEF ScrollIgnored, ScrollAnswer
    <2> QED BY <2>1 DEF KeptShape, NoScrollYet
  <1>14. ASSUME NEW r \in Runs, NEW call \in Calls, NEW k \in 0..MaxTx, Answer(r, call, k) PROVE Goal
    <2>1. PICK s : s = run[r].of
      OBVIOUS
    <2>2. PICK c \in BOOLEAN : c = (call = "update")
      OBVIOUS
    <2>3. /\ UNCHANGED <<created, restarts, kept, failures, scrolls>> /\ Loads(s) /\ Settle(r, call)
      BY <1>14, <2>1, AnswerStep DEF workerVars
    <2>4. Newest' = Newest /\ s \in Timers
      BY <2>1, <2>3, SettleStep DEF Newest, Current
    <2>5. ~crossed
      BY <2>3 DEF Loads, TypeInv, DataTypes
    <2>6. store[Newest].txs \subseteq Elements(list) /\ store[Newest].balance \in {NoBalance, balance}
      BY <2>3, <2>5 DEF WorkerIsShown
    <2>7. PICK n \in Timers : n = Newest /\ n = <<created, 0>> /\ stops[n] = 0 /\ ~LedgerOnly(n)
      <3>1. created \in Workers /\ restarts[created] = 0 /\ 0 \in 0..MaxEvents - 1
        BY <1>1, <2>3, TimerParts DEF WorkersShape, OnlyStops
      <3>2. PICK n \in Timers : n = <<created, 0>> /\ n[2] = 0
        BY <3>1, TimerParts
      <3>3. stops[n] = 0
        BY <2>3, <3>2 DEF KeptShape, KeptGoesOn
      <3>4. Newest = n
        BY <3>1, <3>2 DEF Newest, Current
      <3> QED BY <3>2, <3>3, <3>4 DEF LedgerOnly
    <2>8. CASE s = n
      <3>1. /\ Shows(list', store[s], k, c)
            /\ store'[s].txs = SyncedTxs(store[s], k, c) \ PrunedTxs(store[s], k, c)
            /\ \/ balance' = store'[s].balance
               \/ store'[s].balance = store[s].balance /\ balance' = balance
        <4>1. stops[s] = 0 /\ ~LedgerOnly(s)
          BY <2>7, <2>8
        <4>2. TypeInv /\ Answer(r, call, k) /\ c = (call = "update") /\ s = run[r].of
          BY <1>14, <2>1, <2>2
        <4> QED BY <2>4, <4>1, <4>2, UnstoppedPosts
      <3>2. Once(store[s].txs) /\ store[s].txs \subseteq Elements(list)
        BY <2>4, <2>6, <2>7, <2>8 DEF OnceInStores
      <3>3. ASSUME NEW t \in SyncedTxs(store[s], k, c) \ PrunedTxs(store[s], k, c)
            PROVE  t \in Elements(list')
        <4>1. t.id \notin Ids(PrunedTxs(store[s], k, c))
          BY <3>2, KeptIsShown
        <4>2. \/ t \in NewTxs(store[s], k, c)
              \/ t \in Elements(list) /\ t.id \notin Ids(NewTxs(store[s], k, c))
          BY <3>2 DEF SyncedTxs
        <4> QED BY <3>1, <4>1, <4>2 DEF Shows
      <3>4. store'[s].txs \subseteq Elements(list')
        BY <3>1, <3>3
      <3>5. store'[s].balance \in {NoBalance, balance'}
        BY <2>6, <2>7, <2>8, <3>1
      <3> QED BY <2>4, <2>7, <2>8, <3>4, <3>5
    <2>9. CASE s # n
      <3>1. UNCHANGED <<list, balance>>
        BY <2>3, <2>7, <2>9 DEF Loads
      <3>2. store'[n] = store[n]
        BY <2>3, <2>9 DEF Loads
      <3> QED BY <2>4, <2>6, <2>7, <3>1, <3>2
    <2> QED BY <2>8, <2>9
  <1> QED BY <1>4, <1>5, <1>6, <1>7, <1>8, <1>9, <1>10, <1>11, <1>12, <1>13, <1>14
          DEF WalletNext, Settles

(* Until an older scheduler posts once more, everything in the store of the *)
(* worker in the map is on the page, with the same flag and the same        *)
(* balance: what it will not post again has arrived.                        *)
THEOREM NothingIsWithheld == WalletSpec => []WorkerIsShown
  <1>1. WalletInit => WorkerIsShown
    <2> SUFFICES ASSUME WalletInit PROVE WorkerIsShown
      OBVIOUS
    <2>1. kept = FALSE
      BY DEF WalletInit
    <2> QED BY <2>1 DEF WorkerIsShown
  <1> QED BY <1>1, ShownStep, KeptHolds, OnceHolds, PTL DEF WalletSpec

-----------------------------------------------------------------------------
(* The page while only the first scheduler writes it. *)

First == <<1, 0>>

LEMMA FirstIsTimer == First \in Timers /\ ~LedgerOnly(First)
  <1>1. 1 \in Workers /\ 0 \in 0..MaxEvents - 1
    BY TimerParts DEF Workers
  <1> QED BY <1>1, TimerParts DEF First, LedgerOnly

(* All executions are of that scheduler then.                               *)
LEMMA OnlyFirstRuns ==
  ASSUME TypeInv, KeptShape, OnlyFirst, NEW r \in Runs, Active(r)
  PROVE  run[r].of = First
  <1>1. PICK s \in Timers : s = run[r].of
    BY ActiveShape DEF TypeInv, Inv
  <1>2. s[1] \in Workers /\ s[1] <= created /\ s[2] <= restarts[s[1]]
    BY <1>1, ActiveIsCreated DEF KeptShape
  <1>3. s[1] \in Nat /\ 1 <= s[1] /\ s[2] \in Nat /\ s = <<s[1], s[2]>>
        /\ created \in Nat /\ created <= 1 /\ restarts[s[1]] \in Nat
    <2>1. s[1] \in Nat /\ 1 <= s[1] /\ s[2] \in 0..MaxEvents - 1 /\ s = <<s[1], s[2]>>
      BY <1>2, TimerParts
    <2>2. s[2] \in Nat
      BY <2>1
    <2>3. created \in Nat /\ created <= 1 /\ restarts[s[1]] \in Nat
      BY <1>2 DEF OnlyFirst, TypeInv, WorkersShape
    <2> QED BY <2>1, <2>2, <2>3
  <1>4. s[1] = 1
    BY <1>2, <1>3
  <1>5. ~(First[2] < restarts[First[1]])
    BY FirstIsTimer DEF OnlyFirst, KeptShape, ReplacedIsStopped
  <1>6. ~(0 < restarts[1])
    BY <1>5 DEF First
  <1>7. s[2] = 0
    BY <1>2, <1>3, <1>4, <1>6
  <1> QED BY <1>1, <1>3, <1>4, <1>7 DEF First

(* Its jobs do not overlap, and what they bring is posted.                  *)
LEMMA OnlyFirstJobs ==
  ASSUME TypeInv, KeptShape, OnlyFirst, NEW r \in Runs, request[r].pending # {}
  PROVE  /\ run[r].of = First /\ timerStatus[First] # "idle" /\ stops[First] = 0
         /\ \A q \in Runs : request[q].pending # {} => q = r
  <1>1. \A q \in Runs : request[q].pending # {} => Running(q)
    BY DEF TypeInv, DataTypes, CallsHaveJobs
  <1>2. \A q \in Runs : request[q].pending # {} => run[q].of = First
    BY <1>1, OnlyFirstRuns DEF Running
  <1>3. stops[First] = 0
    BY FirstIsTimer DEF OnlyFirst
  <1>4. JobsDontOverlap(First)
    BY <1>3, FirstIsTimer DEF TypeInv, Inv, Jobs, OverlapNeedsStop
  <1>5. timerStatus[First] = "in_progress"
    BY <1>1, <1>2, <1>3, FirstIsTimer DEF TypeInv, Inv, Jobs, JobsAnnounced, RunningOf
  <1> QED BY <1>1, <1>2, <1>3, <1>4, <1>5 DEF JobsDontOverlap, RunningOf

(* Once another scheduler came, or the scroll, there always was one.        *)
LEMMA OnlyFirstBefore ==
  ASSUME TypeInv, KeptShape, [WalletNext]_walletVars, OnlyFirst'
  PROVE  OnlyFirst
  <1>1. created <= 1
    BY Monotone DEF OnlyFirst
  <1>2. scrolls \in Nat /\ stops \in [Timers -> 0..MaxStops] /\ MaxStops \in Nat
    BY BoundsAssumption DEF TypeInv, WorkersShape, Inv, Shape
  <1>3. scrolls = 0
    <2>1. scrolls' \in {scrolls, scrolls + 1}
      BY DEF WalletNext, walletVars, scrollVars, Settles, Transact, BeginLoad, FinishLoad, StopWallet,
             HandleStop, HandleReplace, HandleStart, TriggerWallet, NoSync, BeginSync, EndSync, Answer,
             UpdateFails, QueryIgnored, StartScroll, ScrollIgnored, ScrollFails, ScrollAnswer
    <2> QED BY <1>2, <2>1 DEF OnlyFirst
  <1>4. \A s \in Timers : stops[s] = 0
    <2>1. [Next]_vars
      BY TimerStep DEF TypeInv
    <2>2. UNCHANGED stops \/ \E s \in Timers : Stop(s)
      BY <2>1 DEF Next, vars, CallStart, CallTrigger, Tick, NoIdentity, BeginJob, SkipJob, PostMsg,
                  JobEnds, JobSucceeds, JobFails
    <2>3. ASSUME NEW s \in Timers, Stop(s) PROVE FALSE
      <3>1. stops'[s] = stops[s] + 1 /\ stops[s] \in Nat
        BY <1>2, <2>3 DEF Stop
      <3> QED BY <3>1 DEF OnlyFirst
    <2> QED BY <2>2, <2>3 DEF OnlyFirst
  <1> QED BY <1>1, <1>3, <1>4 DEF OnlyFirst

(* top is the state of the last certified answer: its page is certified,    *)
(* and nothing above it is.  An update that is in flight answers with that  *)
(* state or a later one.                                                    *)
LastCertified(top) ==
  /\ top <= ledger
  /\ \A t \in store[First].txs : t.certified => t.id <= top
  /\ \A n \in 1..top : n > top - PageSize => Certified(n) \in store[First].txs
  /\ \A r \in Runs : "update" \in request[r].pending => top <= request[r].since

Checked == (\E t \in Elements(list) : ~t.certified) => UpdatePending
PageFollows ==
  OnlyFirst =>
    /\ Elements(list) \subseteq store[First].txs
    /\ Checked
    /\ InOrder(list)
    /\ \E top \in 0..MaxTx : LastCertified(top)

(* An answer while only the first scheduler writes the page.                *)
LEMMA FirstAnswer ==
  ASSUME TypeInv, KeptShape, OnlyFirst,
         NEW c \in BOOLEAN, NEW r \in Runs, NEW call \in Calls, c = (call = "update"),
         NEW k \in 0..MaxTx, Answer(r, call, k)
  PROVE  /\ Shows(list', store[First], k, c)
         /\ store'[First].txs = SyncedTxs(store[First], k, c) \ PrunedTxs(store[First], k, c)
         /\ Settle(r, call) /\ "update" \in request[r].pending /\ ledger' = ledger
         /\ k \in Answers(call, request[r].since)
         /\ \A q \in Runs : request[q].pending # {} => q = r
  <1>1. /\ Settle(r, call) /\ "update" \in request[r].pending /\ ledger' = ledger
        /\ k \in Answers(call, request[r].since)
    BY AnswerStep
  <1>2. run[r].of = First /\ stops[First] = 0 /\ \A q \in Runs : request[q].pending # {} => q = r
    BY <1>1, OnlyFirstJobs
  <1>3. /\ Shows(list', store[First], k, c)
        /\ store'[First].txs = SyncedTxs(store[First], k, c) \ PrunedTxs(store[First], k, c)
    BY <1>2, FirstIsTimer, UnstoppedPosts
  <1> QED BY <1>1, <1>2, <1>3

(* A query answers while its update is in flight: what is new is not        *)
(* certified, and replaces nothing that is.                                 *)
LEMMA QueryKeepsPage ==
  ASSUME TypeInv, KeptShape, PageFollows, OnlyFirst,
         NEW r \in Runs, NEW k \in 0..MaxTx, Answer(r, "query", k)
  PROVE  PageFollows'
  <1>1. "query" \in Calls /\ FALSE = ("query" = "update") /\ FALSE \in BOOLEAN
    BY DEF Calls
  <1>2. PICK known : known = store[First]
    OBVIOUS
  <1>3. /\ Shows(list', known, k, FALSE)
        /\ store'[First].txs = SyncedTxs(known, k, FALSE) \ PrunedTxs(known, k, FALSE)
        /\ Settle(r, "query") /\ "update" \in request[r].pending /\ ledger' = ledger
    BY <1>1, <1>2, FirstAnswer
  <1>4. store'[First].txs = SyncedTxs(known, k, FALSE)
    BY <1>3 DEF PrunedTxs
  <1>5. Elements(list) \subseteq known.txs /\ InOrder(list)
    BY <1>2 DEF PageFollows
  <1>6. Elements(list') \subseteq store'[First].txs
    BY <1>3, <1>4, <1>5 DEF Shows, SyncedTxs
  <1>7. /\ \A q \in Runs : "update" \in request'[q].pending <=> "update" \in request[q].pending
        /\ \A q \in Runs : request'[q].since = request[q].since
    BY <1>1, <1>3, SettleStep
  <1>8. Checked'
    BY <1>3, <1>7 DEF Checked, UpdatePending
  <1>9. InOrder(list')
    <2>1. \A t \in NewTxs(known, k, FALSE) : ~t.certified
      BY NewTxsAre
    <2> QED BY <1>3, <1>5, <2>1 DEF Shows
  <1>10. PICK top \in 0..MaxTx : LastCertified(top)
    BY DEF PageFollows
  <1>11. \A t \in store'[First].txs : t.certified => t \in known.txs
    BY <1>4, NewTxsAre DEF SyncedTxs
  <1>12. \A n \in 1..top : Certified(n) \in known.txs => Certified(n) \in store'[First].txs
    <2>1. ASSUME NEW n \in 1..top, Certified(n) \in known.txs
          PROVE  n \notin Ids(NewTxs(known, k, FALSE))
      BY <2>1, NewTxsAre DEF Ids
    <2> QED BY <1>4, <2>1 DEF SyncedTxs, Certified
  <1>13. LastCertified(top)'
    BY <1>2, <1>3, <1>7, <1>10, <1>11, <1>12 DEF LastCertified, First
  <1> QED BY <1>6, <1>8, <1>9, <1>13 DEF PageFollows, First

(* What an update adds is newer than all the page shows as certified.       *)
LEMMA UpdateIsNewer ==
  ASSUME NEW top \in 0..MaxTx, LastCertified(top), NEW k \in 0..MaxTx, top <= k,
         NEW t \in NewTxs(store[First], k, TRUE)
  PROVE  t.id \in Int /\ t.id > top
  <1>1. t.id \in 1..k /\ t.id \in PageIds(k) /\ Certified(t.id) \notin store[First].txs
    BY NewTxsAre
  <1>2. t.id > k - PageSize /\ t.id \in Int
    BY <1>1 DEF PageIds
  <1>3. ASSUME t.id <= top PROVE FALSE
    <2>1. t.id \in 1..top /\ t.id > top - PageSize
      BY <1>1, <1>2, <1>3, WalletAssumption
    <2> QED BY <1>1, <2>1 DEF LastCertified
  <1> QED BY <1>2, <1>3

(* The update answers: the page of a state no older than the last one is    *)
(* certified, and everything else that was not certified is pruned.         *)
LEMMA UpdateKeepsPage ==
  ASSUME TypeInv, KeptShape, PageFollows, OnlyFirst,
         NEW r \in Runs, NEW k \in 0..MaxTx, Answer(r, "update", k)
  PROVE  PageFollows'
  <1>1. "update" \in Calls /\ TRUE = ("update" = "update") /\ TRUE \in BOOLEAN
    BY DEF Calls
  <1>2. PICK known, next : known = store[First] /\ next = store'[First]
    OBVIOUS
  <1>3. /\ Shows(list', known, k, TRUE)
        /\ next.txs = SyncedTxs(known, k, TRUE) \ PrunedTxs(known, k, TRUE)
        /\ Settle(r, "update") /\ "update" \in request[r].pending /\ ledger' = ledger
        /\ k \in Answers("update", request[r].since)
        /\ \A q \in Runs : request[q].pending # {} => q = r
    BY <1>1, <1>2, FirstAnswer
  <1>4. PrunedTxs(known, k, TRUE) = Uncertified(SyncedTxs(known, k, TRUE))
    BY DEF PrunedTxs
  <1>5. Elements(list) \subseteq known.txs /\ InOrder(list)
    BY <1>2 DEF PageFollows
  <1>6. /\ Elements(list') \subseteq SyncedTxs(known, k, TRUE)
        /\ \A t \in Elements(list') : t \notin PrunedTxs(known, k, TRUE)
    BY <1>3, <1>5 DEF Shows, SyncedTxs, Ids
  <1>7. Elements(list') \subseteq next.txs /\ \A t \in Elements(list') : t.certified
    BY <1>3, <1>4, <1>6 DEF Uncertified
  <1>8. request[r].since <= k /\ k <= ledger /\ request[r].since \in Int /\ ledger \in Int /\ k \in Int
    BY <1>1, <1>3, UpdateAnswers
  <1>9. \A q \in Runs : "update" \notin request'[q].pending
    <2>1. Settle(r, "update") /\ "update" \in Calls
      BY <1>1, <1>3
    <2>2. \A q \in Runs : request'[q].pending =
             IF q = r THEN request[q].pending \ {"update"} ELSE request[q].pending
      BY <2>1, SettleStep
    <2> QED BY <1>3, <2>2
  <1>10. PICK top \in 0..MaxTx : LastCertified(top)
    BY DEF PageFollows
  <1>11. top <= k /\ top \in Int
    BY <1>3, <1>8, <1>10 DEF LastCertified
  <1>12. \A t \in NewTxs(known, k, TRUE) : t.id \in Int /\ t.id > top
    BY <1>2, <1>10, <1>11, UpdateIsNewer
  <1>13. \A u \in known.txs : u.certified => u.id <= top /\ u.id \in Int
    <2>1. known.txs \subseteq Transactions
      BY <1>2, FirstIsTimer DEF TypeInv, DataTypes, StoresOK, Stores
    <2>2. \A u \in Transactions : u.id \in Int
      BY DEF Transactions
    <2> QED BY <1>2, <1>10, <2>1, <2>2 DEF LastCertified
  <1>14. InOrder(list')
    <2>1. ASSUME NEW t \in NewTxs(known, k, TRUE), NEW u \in Elements(list), u.certified
          PROVE  t.id > u.id
      <3>1. u.id <= top /\ u.id \in Int
        BY <1>5, <1>13, <2>1
      <3>2. t.id \in Int /\ t.id > top
        BY <1>12
      <3> QED BY <1>11, <3>1, <3>2
    <2> QED BY <1>3, <1>5, <2>1 DEF Shows
  <1>15. \A t \in next.txs : t.certified => t.id <= k
    <2>1. ASSUME NEW t \in known.txs, t.certified PROVE t.id <= k
      BY <1>8, <1>11, <1>13, <2>1
    <2>2. ASSUME NEW t \in NewTxs(known, k, TRUE) PROVE t.id <= k
      <3>1. t.id \in 1..k
        BY NewTxsAre
      <3> QED BY <3>1
    <2> QED BY <1>3, <2>1, <2>2 DEF SyncedTxs
  <1>16. ASSUME NEW n \in 1..k, n > k - PageSize PROVE Certified(n) \in next.txs
    <2>1. n \in PageIds(k)
      BY <1>16 DEF PageIds
    <2>2. Certified(n) \in SyncedTxs(known, k, TRUE)
      <3>1. CASE Certified(n) \in known.txs
        <4>1. n \notin Ids(NewTxs(known, k, TRUE))
          BY <3>1, NewTxsAre DEF Ids
        <4> QED BY <3>1, <4>1 DEF SyncedTxs, Certified
      <3>2. CASE Certified(n) \notin known.txs
        <4>1. NewTxs(known, k, TRUE) = {[id |-> m, certified |-> TRUE] :
                                   m \in {i \in PageIds(k) : Certified(i) \notin known.txs}}
          BY NewTxsAre
        <4>2. Certified(n) \in NewTxs(known, k, TRUE)
          BY <2>1, <3>2, <4>1 DEF Certified
        <4> QED BY <4>2 DEF SyncedTxs
      <3> QED BY <3>1, <3>2
    <2> QED BY <1>3, <1>4, <2>2 DEF Uncertified, Certified
  <1>17. LastCertified(k)'
    BY <1>2, <1>3, <1>8, <1>9, <1>15, <1>16 DEF LastCertified, First
  <1>18. Checked'
    BY <1>7 DEF Checked
  <1>19. \E n \in 0..MaxTx : LastCertified(n)'
    BY <1>17
  <1> QED BY <1>2, <1>7, <1>14, <1>18, <1>19 DEF PageFollows, First

(* Every other step leaves the store of the first scheduler and the page    *)
(* alone, except that a failed update empties the page.                     *)
LEMMA QuietStep ==
  ASSUME TypeInv, PageFollows, OnlyFirst, UNCHANGED store, ledger' \in {ledger, ledger + 1},
         list' = list \/ list' = <<>>,
         \A q \in Runs : "update" \in request'[q].pending =>
           \/ "update" \in request[q].pending /\ request'[q].since = request[q].since
           \/ request'[q].since = ledger,
         list' = <<>> \/ (UpdatePending => UpdatePending')
  PROVE  PageFollows'
  <1>1. Elements(list') \subseteq store[First].txs /\ InOrder(list')
    BY DEF PageFollows, Elements, InOrder
  <1>2. Checked'
    <2>1. Elements(<<>>) = {}
      BY DEF Elements
    <2> QED BY <2>1 DEF PageFollows, Checked
  <1>3. PICK top \in 0..MaxTx : LastCertified(top)
    BY DEF PageFollows
  <1>4. ledger \in Int /\ top \in Int
    BY DEF TypeInv, DataTypes
  <1>5. top <= ledger' /\ top <= ledger
    BY <1>3, <1>4 DEF LastCertified
  <1>6. \A q \in Runs : "update" \in request'[q].pending => top <= request'[q].since
    BY <1>3, <1>5 DEF LastCertified
  <1>7. LastCertified(top)'
    BY <1>3, <1>5, <1>6 DEF LastCertified, First
  <1> QED BY <1>1, <1>2, <1>7 DEF PageFollows, First

LEMMA PageStep ==
  ASSUME TypeInv, KeptShape, PageFollows, [WalletNext]_walletVars
  PROVE  PageFollows'
  <1> SUFFICES ASSUME OnlyFirst' PROVE PageFollows'
    BY DEF PageFollows
  <1>1. OnlyFirst
    BY OnlyFirstBefore
  <1>2. ASSUME UNCHANGED <<store, list, request>>, ledger' \in {ledger, ledger + 1} PROVE PageFollows'
    BY <1>1, <1>2, QuietStep DEF UpdatePending
  <1>3. CASE UNCHANGED walletVars
    BY <1>2, <1>3 DEF walletVars, pageVars
  <1>4. CASE Background
    BY <1>2, <1>4, BackgroundStep
  <1>5. ASSUME NEW r \in Runs, FinishLoad(r) PROVE PageFollows'
    BY <1>2, <1>5, FinishLoadStep
  <1>6. ASSUME NEW r \in Runs, BeginSync(r) PROVE PageFollows'
    <2>1. /\ UNCHANGED <<store, list, ledger>>
          /\ request'[r] = [pending |-> Calls, since |-> ledger]
          /\ \A q \in Runs \ {r} : request'[q] = request[q]
      BY <1>6, BeginSyncStep
    <2>2. UpdatePending'
      BY <2>1 DEF UpdatePending, Calls
    <2> QED BY <1>1, <2>1, <2>2, QuietStep
  <1>7. ASSUME NEW r \in Runs, EndSync(r) PROVE PageFollows'
    <2>1. /\ UNCHANGED <<store, list, ledger>> /\ request[r].pending = {} /\ request'[r].pending = {}
          /\ \A q \in Runs \ {r} : request'[q] = request[q]
      BY <1>7, EndSyncStep DEF NoRequest
    <2>2. UpdatePending => UpdatePending'
      BY <2>1 DEF UpdatePending
    <2> QED BY <1>1, <2>1, <2>2, QuietStep
  <1>8. ASSUME NEW r \in Runs, QueryIgnored(r) PROVE PageFollows'
    <2>1. UNCHANGED <<store, list, ledger>> /\ Settle(r, "query") /\ "query" \in Calls
      BY <1>8, QueryIgnoredStep
    <2>2. \A q \in Runs : /\ "update" \in request'[q].pending <=> "update" \in request[q].pending
                          /\ request'[q].since = request[q].since
      BY <2>1, SettleStep
    <2> QED BY <1>1, <2>1, <2>2, QuietStep DEF UpdatePending
  <1>9. ASSUME NEW r \in Runs, UpdateFails(r) PROVE PageFollows'
    <2>1. /\ UNCHANGED <<store, ledger>> /\ Settle(r, "update") /\ "update" \in Calls
          /\ list' = <<>> \/ timerStatus[run[r].of] = "idle"
      BY <1>9, UpdateFailsStep
    <2>2. request[r].pending # {}
      BY <2>1, SettleStep
    <2>3. list' = <<>>
      BY <1>1, <2>1, <2>2, OnlyFirstJobs
    <2>4. \A q \in Runs : /\ "update" \in request'[q].pending => "update" \in request[q].pending
                          /\ request'[q].since = request[q].since
      BY <2>1, SettleStep
    <2> QED BY <1>1, <2>1, <2>3, <2>4, QuietStep
  <1>10. ASSUME NEW r \in Runs, NEW call \in Calls, NEW k \in 0..MaxTx, Answer(r, call, k)
         PROVE  PageFollows'
    <2>1. call = "query" \/ call = "update"
      BY DEF Calls
    <2> QED BY <1>1, <1>10, <2>1, QueryKeepsPage, UpdateKeepsPage
  <1>11. CASE StartScroll
    BY <1>11 DEF StartScroll, OnlyFirst, TypeInv, WorkersShape
  <1>12. CASE ScrollIgnored \/ ScrollFails \/ \E call \in Calls, k \in 0..MaxTx : ScrollAnswer(call, k)
    <2>1. scroll.pending # {}
      BY <1>12 DEF ScrollIgnored, ScrollFails, ScrollAnswer
    <2> QED BY <1>1, <2>1 DEF KeptShape, NoScrollYet, OnlyFirst
  <1> QED BY <1>3, <1>4, <1>5, <1>6, <1>7, <1>8, <1>9, <1>10, <1>11, <1>12
          DEF WalletNext, Settles, Background

LEMMA PageHolds == WalletSpec => []PageFollows
  <1>1. WalletInit => PageFollows
    <2> SUFFICES ASSUME WalletInit PROVE PageFollows
      OBVIOUS
    <2>1. list = <<>> /\ store[First].txs = {} /\ ledger \in 0..MaxTx /\ MaxTx \in Nat
          /\ \A r \in Runs : request[r] = NoRequest
      BY WalletAssumption, FirstIsTimer DEF WalletInit, EmptyStore, Least
    <2>2. Elements(list) \subseteq store[First].txs /\ Checked /\ InOrder(list)
      BY <2>1 DEF Elements, Checked, InOrder
    <2>3. LastCertified(0)
      BY <2>1 DEF LastCertified, NoRequest
    <2>4. 0 \in 0..MaxTx
      BY WalletAssumption
    <2> QED BY <2>2, <2>3, <2>4 DEF PageFollows
  <1> QED BY <1>1, PageStep, KeptHolds, PTL DEF WalletSpec

(* As long as only the first scheduler writes the page, what a query left   *)
(* on it still awaits its update, which certifies, prunes or removes it.    *)
THEOREM ShownQueriesAreChecked == WalletSpec => []QueriesShownAreChecked
  <1>1. PageFollows => QueriesShownAreChecked
    BY DEF PageFollows, Checked, QueriesShownAreChecked
  <1> QED BY <1>1, PageHolds, PTL

(* And between its jobs the page shows each transaction once, the newest    *)
(* first, whatever the queries before said.                                 *)
THEOREM PageIsOrdered == WalletSpec => []ShownInOrder
  <1>1. PageFollows => ShownInOrder
    BY DEF PageFollows, Checked, InOrder, ShownInOrder, Elements
  <1> QED BY <1>1, PageHolds, PTL

(* No step replaces a certified transaction on the page by an uncertified   *)
(* one as long as only the first scheduler writes it: its store remembers   *)
(* what is certified.                                                       *)
THEOREM CertifiedStays == WalletSpec => NoDowngrade
  <1> DEFINE Keeps == OnlyFirst =>
                 \A t \in Elements(list) :
                   t.certified => [t EXCEPT !.certified = FALSE] \notin Elements(list)'
  <1>1. ASSUME TypeInv, KeptShape, OnceInStores, PageFollows, [WalletNext]_walletVars
        PROVE  Keeps
    <2> SUFFICES ASSUME OnlyFirst, NEW t \in Elements(list), t.certified,
                        NEW u \in Elements(list'), u = [t EXCEPT !.certified = FALSE]
                 PROVE  FALSE
      OBVIOUS
    <2>1. t \in Transactions /\ t \in store[First].txs /\ Once(store[First].txs)
      BY <1>1, FirstIsTimer DEF PageFollows, TypeInv, DataTypes, OnceInStores, Elements
    <2>2. t = Certified(t.id) /\ u.id = t.id /\ ~u.certified
      BY <2>1 DEF Transactions, Certified
    <2>3. u \notin Elements(list)
      BY <1>1, <2>1, <2>2 DEF PageFollows, Once
    <2>4. list' # list /\ list' # <<>>
      BY <2>3 DEF Elements
    <2>5. ASSUME NEW r \in Runs, NEW call \in Calls, NEW k \in 0..MaxTx, Answer(r, call, k)
          PROVE  FALSE
      <3>1. PICK c \in BOOLEAN : c = (call = "update")
        OBVIOUS
      <3>2. Shows(list', store[First], k, c)
        BY <1>1, <2>5, <3>1, FirstAnswer
      <3>3. u \in NewTxs(store[First], k, c)
        BY <2>3, <3>2 DEF Shows
      <3>4. Certified(u.id) \notin store[First].txs
        BY <3>3, NewTxsAre
      <3> QED BY <2>1, <2>2, <3>4
    <2>6. CASE UNCHANGED walletVars \/ Background \/ StartScroll
      BY <1>1, <2>4, <2>6, BackgroundStep DEF walletVars, pageVars, StartScroll
    <2>7. CASE ScrollIgnored \/ ScrollFails \/ \E call \in Calls, k \in 0..MaxTx : ScrollAnswer(call, k)
      <3>1. scroll.pending # {}
        BY <2>7 DEF ScrollIgnored, ScrollFails, ScrollAnswer
      <3> QED BY <1>1, <3>1 DEF KeptShape, NoScrollYet, OnlyFirst
    <2>8. ASSUME NEW r \in Runs, FinishLoad(r) \/ BeginSync(r) \/ EndSync(r) \/ QueryIgnored(r)
          PROVE  FALSE
      BY <2>4, <2>8 DEF FinishLoad, BeginSync, EndSync, QueryIgnored, pageVars
    <2>9. ASSUME NEW r \in Runs, UpdateFails(r) PROVE FALSE
      BY <1>1, <2>4, <2>9, UpdateFailsStep
    <2> QED BY <1>1, <2>5, <2>6, <2>7, <2>8, <2>9 DEF WalletNext, Settles, Background
  <1> QED BY <1>1, KeptHolds, OnceHolds, PageHolds, PTL DEF WalletSpec, NoDowngrade
=============================================================================
