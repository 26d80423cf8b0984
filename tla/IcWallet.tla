------------------------------ MODULE IcWallet ------------------------------
(***************************************************************************)
(* The ICP and ICRC wallet of one token: WalletWorkers and the Web Workers  *)
(* it creates (lib/utils/wallet.utils.ts, icp/services, icp/workers), the   *)
(* schedulers by which each of them polls the index canister or the ledger  *)
(* (icp/schedulers), the query and update calls these make                  *)
(* (lib/actors/query.ic.ts), the page's stores (icTransactionsStore,        *)
(* balancesStore) and the infinite scroll that loads older transactions     *)
(* into the same store.                                                     *)
(*                                                                         *)
(* Each scheduler has a timer of SchedulerTimer: <<w, 0>> is the one that   *)
(* Web Worker w is started with, <<w, n>> the one it gets with its n-th     *)
(* restart after an error, which only asks the ledger for the balance.  The *)
(* steps of a worker are steps of that module.  Messages to a worker wait   *)
(* in its inbox.  What a worker posts reaches the page in the step that     *)
(* posts it; the worker could as well have taken that step later.           *)
(***************************************************************************)
EXTENDS SchedulerTimer, Sequences

CONSTANTS
  Icrc,         \* is it an ICRC token (with an index canister), or ICP?
  PageSize,     \* transactions in one answer of the index canister
  MaxTx,        \* bound: transactions of the account
  MaxEvents     \* bound: Web Workers, triggers, failed updates and scrolls together

Workers == 1..MaxEvents

ASSUME WalletAssumption ==
  /\ Icrc \in BOOLEAN /\ PageSize \in Nat \ {0}
  /\ MaxTx \in Nat \ {0} /\ MaxEvents \in Nat \ {0}
  /\ Timers = Workers \X (0..MaxEvents - 1)

VARIABLES
  loads,     \* calls of loadWorker that wait for their new Web Worker
  created,   \* number of Web Workers so far
  kept,      \* is the last one in the map of WalletWorkers?
  inbox,     \* for each Web Worker the messages it has not handled
  restarts,  \* for each Web Worker the restarts of its scheduler
  ledger,    \* number of transactions of the account; they are 1, ..., ledger
  store,     \* for each scheduler its store: balance and transactions
  request,   \* for each execution its two calls: which are in flight, since when
  list,      \* icTransactionsStore[token] of the page
  balance,   \* balancesStore[token] of the page
  crossed,   \* a scheduler has posted since a newer one was started
  scroll,    \* the two calls of loadNextTransactions
  triggers, failures, scrolls

workerVars == <<loads, created, kept, inbox, restarts, triggers>>
pageVars == <<list, balance, crossed>>
scrollVars == <<scroll, scrolls>>
walletVars ==
  <<vars, workerVars, ledger, store, request, pageVars, scrollVars, failures>>

-----------------------------------------------------------------------------
Calls == {"query", "update"}
Messages == {"stop", "replace", "start"}
Transactions == [id : 1..MaxTx, certified : BOOLEAN]

(* Every transaction changes the balance, so the number of transactions     *)
(* stands for it.                                                           *)
Balances == [data : 0..MaxTx, certified : BOOLEAN]
NoBalance == [data |-> "none"]
EmptyStore == [balance |-> NoBalance, txs |-> {}]
NoRequest == [pending |-> {}, since |-> 0]
NoScroll == [pending |-> {}, start |-> 1, end |-> FALSE]

(* The ids of a page, the newest first. *)
Least(a, b) == IF a < b THEN a ELSE b
Page(top) == [i \in 1..Least(PageSize, top) |-> top + 1 - i]
Elements(s) == {s[i] : i \in DOMAIN s}

(* Array.filter: the elements of s at the positions I, in their order.      *)
(* (Filter is a function, for TLC computes its argument once.)              *)
Rank(I, i) == Cardinality({j \in I : j <= i})
At(s, I) == [n \in 1..Cardinality(I) |-> s[CHOOSE i \in I : Rank(I, i) = n]]
Filter == [p \in Seq(Transactions) \X SUBSET Nat |-> At(p[1], p[2])]
Filtered(s, I) == Filter[<<s, I>>]

(* Mutation of With: the flag of the answer is lost. *)
WithoutFlag(ids, certified) == [i \in DOMAIN ids |-> [id |-> ids[i], certified |-> TRUE]]

With(ids, certified) == [i \in DOMAIN ids |-> [id |-> ids[i], certified |-> certified]]

(* What a call can answer: an update, the transactions the canister had at  *)
(* some moment since the call; a query, what one replica says: an older     *)
(* state, or with one transaction that never happened.                      *)
Answers(call, since) ==
  IF call = "update" THEN since..ledger ELSE 0..Least(ledger + 1, MaxTx)

(* The operations of icTransactionsStore. *)
Ids(txs) == {t.id : t \in txs}
CleanUp(entries, ids) == Filtered(entries, {i \in DOMAIN entries : entries[i].id \notin ids})

(* Mutations of Prepend: entries with the same ids stay; no entry stays. *)
PrependOnly(new, entries) == new \o entries
PrependNothingElse(new, entries) == new

Prepend(new, entries) == new \o CleanUp(entries, Ids(Elements(new)))

(* The events that are bounded together; each scroll may fail besides. *)
MayHappen == created + loads + triggers + failures + scrolls < MaxEvents

(* The scheduler a Web Worker uses, the one that was created last, and      *)
(* those without an index canister.                                         *)
Current(w) == <<w, restarts[w]>>
Newest == Current(created)
LedgerOnly(s) == s[2] > 0

Send(w, messages) == inbox' = [inbox EXCEPT ![w] = @ \o messages]
IsNext(w, message) == inbox[w] # <<>> /\ Head(inbox[w]) = message
Receive(w, message) ==
  IsNext(w, message) /\ inbox' = [inbox EXCEPT ![w] = Tail(@)]

(* Mutation of CertifiedDone: late queries are not ignored. *)
NeverDone(pending) == FALSE

(* certifiedDone of queryAndUpdate: the update call has settled. *)
CertifiedDone(pending) == "update" \notin pending

WalletInit ==
  /\ Init
  /\ loads = 0 /\ created = 0 /\ kept = FALSE
  /\ inbox = [w \in Workers |-> <<>>] /\ restarts = [w \in Workers |-> 0]
  /\ ledger \in 0..Least(1, MaxTx)
  /\ store = [s \in Timers |-> EmptyStore]
  /\ request = [r \in Runs |-> NoRequest]
  /\ list = <<>> /\ balance = NoBalance /\ crossed = FALSE
  /\ scroll = NoScroll
  /\ triggers = 0 /\ failures = 0 /\ scrolls = 0

-----------------------------------------------------------------------------
(* Something happens on the ledger. *)
Transact ==
  /\ ledger < MaxTx
  /\ ledger' = ledger + 1
  /\ UNCHANGED <<vars, workerVars, store, request, pageVars, scrollVars, failures>>

-----------------------------------------------------------------------------
(* WalletWorkers.  loadWorker finds no worker in the map; initWalletWorker  *)
(* waits for the import of the script.                                      *)
BeginLoad ==
  /\ ~kept /\ MayHappen
  /\ loads' = loads + 1
  /\ UNCHANGED <<vars, created, kept, inbox, restarts, triggers>>
  /\ UNCHANGED <<ledger, store, request, pageVars, scrollVars, failures>>

(* The new worker is started and put into the map, whatever is there.  The  *)
(* stop it gets first finds no scheduler.                                   *)
FinishLoad(r) ==
  /\ loads > 0
  /\ loads' = loads - 1 /\ created' = created + 1 /\ kept' = TRUE
  /\ CallStart(<<created + 1, 0>>, r)
  /\ crossed' = FALSE
  /\ UNCHANGED <<inbox, restarts, triggers, ledger, store, request, list, balance>>
  /\ UNCHANGED <<scrollVars, failures>>

(* cleanWorkers or onDestroy: the worker in the map is told to stop and     *)
(* forgotten; what the page shows stays.                                    *)
StopWallet ==
  /\ kept
  /\ kept' = FALSE
  /\ Send(created, <<"stop">>)
  /\ UNCHANGED <<vars, loads, created, restarts, triggers>>
  /\ UNCHANGED <<ledger, store, request, pageVars, scrollVars, failures>>

(* onIcpWalletMessage, onIcrcWalletMessage: stop.                           *)
HandleStop(w) ==
  /\ Receive(w, "stop")
  /\ Stop(Current(w))
  /\ UNCHANGED <<loads, created, kept, restarts, triggers>>
  /\ UNCHANGED <<ledger, store, request, pageVars, scrollVars, failures>>

(* Start, in a worker that has a scheduler: that one is stopped, ...  (The  *)
(* bound is never reached: every restart was asked for after a failure.)    *)
HandleReplace(w) ==
  /\ Receive(w, "replace") /\ restarts[w] < MaxEvents - 1
  /\ Stop(Current(w))
  /\ restarts' = [restarts EXCEPT ![w] = @ + 1]
  /\ UNCHANGED <<loads, created, kept, triggers>>
  /\ UNCHANGED <<ledger, store, request, pageVars, scrollVars, failures>>

(* ... and a new one started; the worker handles nothing in between.        *)
HandleStart(w, r) ==
  /\ Receive(w, "start")
  /\ CallStart(Current(w), r)
  /\ UNCHANGED <<loads, created, kept, restarts, triggers>>
  /\ UNCHANGED <<ledger, store, request, pageVars, scrollVars, failures>>

(* oisyTriggerWallet, handled by a worker that was in the map when it was   *)
(* sent: one that has not handled a stop since.                             *)
TriggerWallet(w, r) ==
  /\ MayHappen /\ w <= created
  /\ (kept /\ w = created) \/ \E i \in DOMAIN inbox[w] : inbox[w][i] = "stop"
  /\ ~IsNext(w, "start")
  /\ CallTrigger(Current(w), r)
  /\ triggers' = triggers + 1
  /\ UNCHANGED <<loads, created, kept, inbox, restarts>>
  /\ UNCHANGED <<ledger, store, request, pageVars, scrollVars, failures>>

-----------------------------------------------------------------------------
(* The jobs of the schedulers. *)
NoSync(r) ==
  /\ NoIdentity(r) \/ SkipJob(r)
  /\ UNCHANGED <<workerVars, ledger, store, request, pageVars, scrollVars, failures>>

(* syncWallet: the query and the update leave together. *)
BeginSync(r) ==
  /\ BeginJob(r) \/ \E s \in Timers : Tick(s, r)
  /\ request' = [request EXCEPT ![r] = [pending |-> Calls, since |-> ledger]]
  /\ UNCHANGED <<workerVars, ledger, store, pageVars, scrollVars, failures>>

(* Mutation of EndSync: resolution 'race' instead of 'all_settled'.         *)
EndSyncRace(r) ==
  /\ request[r].pending # Calls
  /\ JobSucceeds(r)
  /\ UNCHANGED <<workerVars, ledger, store, request, pageVars, scrollVars, failures>>

(* All calls have settled.  The job never rejects: queryAndUpdate waits     *)
(* with allSettled.                                                         *)
EndSync(r) ==
  /\ request[r].pending = {}
  /\ JobSucceeds(r)
  /\ request' = [request EXCEPT ![r] = NoRequest]
  /\ UNCHANGED <<workerVars, ledger, store, pageVars, scrollVars, failures>>

Settle(r, call) ==
  /\ call \in request[r].pending
  /\ request' = [request EXCEPT ![r].pending = @ \ {call}]

(* postMsg of a scheduler: the page gets the data, or the timer is idle and *)
(* drops it.                                                                *)
Posts(r, newList, newBalance) ==
  /\ PostMsg(r)
  /\ list' = newList /\ balance' = newBalance
  /\ crossed' = (crossed \/ run[r].of # Newest)
Drops(r) == timerStatus[run[r].of] = "idle" /\ UNCHANGED <<vars, pageVars>>
Post(r, newList, newBalance) == Posts(r, newList, newBalance) \/ Drops(r)

(* Mutations of Unknown: nothing is filtered; certification is not looked at. *)
Fetched(known, txs) == txs
Absent(known, txs) == Filtered(txs, {i \in DOMAIN txs : txs[i].id \notin Ids(known.txs)})

(* syncTransactions: the transactions that are unknown or not certified so  *)
(* far, and whether the balance is another one or has become certified.     *)
Unknown(known, txs) ==
  Filtered(txs, {i \in DOMAIN txs : [id |-> txs[i].id, certified |-> TRUE] \notin known.txs})
NewBalance(known, k, certified) ==
  \/ known.balance = NoBalance
  \/ known.balance.data # k
  \/ ~known.balance.certified /\ certified

Synced(known, new, k, certified) ==
  [balance |-> [data |-> k, certified |-> certified],
   txs |-> {t \in known.txs : t.id \notin Ids(Elements(new))} \cup Elements(new)]

(* Mutation of Uncertified: nothing is pruned. *)
NothingToClean(txs) == {}

(* cleanTransactions: what is not certified once an update has answered. *)
Uncertified(txs) == {t \in txs : ~t.certified}

(* onLoad: syncTransactions, then cleanTransactions if certified.  The      *)
(* store is written whether or not the timer lets the messages through; the *)
(* page handles both messages at once.                                      *)
(* The branch for the first message of an empty account is never needed:    *)
(* the first answer always brings a new balance.  (\E names what is new,    *)
(* so that TLC computes it once.)                                           *)
LoadTransactions(r, known, k, certified) ==
  \E new \in {Unknown(known, With(Page(k), certified))} :
  LET news == new # <<>> \/ NewBalance(known, k, certified)
      synced == IF news THEN Synced(known, new, k, certified) ELSE known
      pruned == IF certified THEN Uncertified(synced.txs) ELSE {}
      cleaned == CleanUp(Prepend(new, list), Ids(pruned))
  IN /\ store' = [store EXCEPT ![run[r].of] = [synced EXCEPT !.txs = @ \ pruned]]
     /\ IF news \/ pruned # {}
        THEN Post(r, cleaned, IF news THEN synced.balance ELSE balance)
        ELSE UNCHANGED <<vars, pageVars>>

(* syncBalance, and syncWallet of the page for data without transactions:   *)
(* what it shows of them is nullified.                                      *)
LoadBalance(r, known, k, certified) ==
  LET new == [data |-> k, certified |-> certified]
  IN IF NewBalance(known, k, certified)
     THEN store' = [store EXCEPT ![run[r].of].balance = new] /\ Post(r, <<>>, new)
     ELSE UNCHANGED <<vars, store, pageVars>>

Load(r, k, certified) ==
  IF LedgerOnly(run[r].of) THEN LoadBalance(r, store[run[r].of], k, certified)
                           ELSE LoadTransactions(r, store[run[r].of], k, certified)

Answer(r, call, k) ==
  /\ ~CertifiedDone(request[r].pending)
  /\ Settle(r, call)
  /\ k \in Answers(call, request[r].since)
  /\ Load(r, k, call = "update")
  /\ UNCHANGED <<workerVars, ledger, scrollVars, failures>>

(* A query that fails is logged, one that answers after the update is       *)
(* dropped.                                                                 *)
QueryIgnored(r) ==
  /\ Settle(r, "query")
  /\ UNCHANGED <<vars, workerVars, ledger, store, pageVars, scrollVars, failures>>

(* onCertifiedError: the page resets both stores, and restarts the worker   *)
(* of an ICRC token without its index canister; the scheduler's store stays. *)
UpdateFails(r) ==
  /\ MayHappen
  /\ Settle(r, "update")
  /\ failures' = failures + 1
  /\ \/ /\ Posts(r, <<>>, NoBalance)
        /\ IF Icrc THEN Send(run[r].of[1], <<"replace", "start">>) ELSE UNCHANGED inbox
     \/ Drops(r) /\ UNCHANGED inbox
  /\ UNCHANGED <<loads, created, kept, restarts, triggers, ledger, store, scrollVars>>

-----------------------------------------------------------------------------
(* IcTransactionsScroll: the page before the last transaction that is       *)
(* shown.  One page is loaded at a time.                                    *)
StartScroll ==
  /\ MayHappen /\ scroll.pending = {} /\ ~scroll.end
  /\ list # <<>>
  /\ scroll' = [scroll EXCEPT !.pending = Calls, !.start = list[Len(list)].id]
  /\ scrolls' = scrolls + 1
  /\ UNCHANGED <<vars, workerVars, ledger, store, request, pageVars, failures>>

(* Both answers are appended; an empty one signals the end. *)
ScrollAnswer(call, k) ==
  LET page == Page(Least(k, scroll.start - 1))
  IN /\ ~CertifiedDone(scroll.pending) /\ call \in scroll.pending
     /\ k \in Answers(call, ledger)
     /\ scroll' = [scroll EXCEPT !.pending = @ \ {call}, !.end = @ \/ page = <<>>]
     /\ list' = list \o With(page, call = "update")
     /\ UNCHANGED <<balance, crossed, scrolls, failures>>
     /\ UNCHANGED <<vars, workerVars, ledger, store, request>>

ScrollIgnored ==
  /\ "query" \in scroll.pending
  /\ scroll' = [scroll EXCEPT !.pending = @ \ {"query"}]
  /\ UNCHANGED <<vars, workerVars, ledger, store, request, pageVars, scrolls, failures>>

ScrollFails ==
  /\ "update" \in scroll.pending
  /\ scroll' = [scroll EXCEPT !.pending = @ \ {"update"}, !.end = TRUE]
  /\ failures' = failures + 1
  /\ list' = <<>> /\ balance' = NoBalance
  /\ UNCHANGED <<vars, workerVars, ledger, store, request, crossed, scrolls>>

-----------------------------------------------------------------------------
Settles(r) == (\E call \in Calls, k \in 0..MaxTx : Answer(r, call, k)) \/ UpdateFails(r)

WalletNext ==
  \/ Transact \/ BeginLoad \/ StopWallet
  \/ \E w \in Workers : HandleStop(w) \/ HandleReplace(w)
  \/ \E w \in Workers, r \in Runs : HandleStart(w, r) \/ TriggerWallet(w, r)
  \/ \E r \in Runs :
       \/ FinishLoad(r) \/ NoSync(r) \/ BeginSync(r) \/ EndSync(r)
       \/ Settles(r) \/ QueryIgnored(r)
  \/ StartScroll \/ ScrollIgnored \/ ScrollFails
  \/ \E call \in Calls, k \in 0..MaxTx : ScrollAnswer(call, k)

WalletSpec == WalletInit /\ [][WalletNext]_walletVars

(* Executions go on: promises and calls settle, as in SchedulerTimer.  So   *)
(* do intervals: some interval of each Web Worker fires again and again.    *)
GoesOn(r) ==
  \/ Active(r) /\ (NoSync(r) \/ BeginSync(r) \/ EndSync(r))
  \/ Settles(r) \/ QueryIgnored(r)
IntervalFires(w) ==
  \E r \in Runs : ~Active(r) /\ BeginSync(r) /\ run'[r].of[1] = w
WalletFairness ==
  /\ \A r \in Runs : WF_walletVars(GoesOn(r))
  /\ \A w \in Workers : SF_walletVars(IntervalFires(w))
FairWalletSpec == WalletSpec /\ WalletFairness

-----------------------------------------------------------------------------
(* Properties. *)

UpdatePending == \E r \in Runs : "update" \in request[r].pending
UpdatePendingOf(s) == \E r \in Runs : RunningOf(s, r) /\ "update" \in request[r].pending

(* Only the scheduler that came first has written the page so far: no other *)
(* one was created, and no stop, which lets the pruning of a running job go *)
(* unposted; nor has the user scrolled.                                     *)
OnlyFirst == created <= 1 /\ scrolls = 0 /\ \A s \in Timers : stops[s] = 0

(* Types; and calls are only in flight for a job that runs.                 *)
WalletTypeOK ==
  /\ loads \in Nat /\ created \in Nat /\ kept \in BOOLEAN
  /\ inbox \in [Workers -> Seq(Messages)] /\ restarts \in [Workers -> 0..MaxEvents - 1]
  /\ ledger \in 0..MaxTx
  /\ store \in [Timers -> [balance : Balances \cup {NoBalance}, txs : SUBSET Transactions]]
  /\ request \in [Runs -> [pending : SUBSET Calls, since : 0..MaxTx]]
  /\ \A r \in Runs : request[r].pending # {} => Running(r)
  /\ list \in Seq(Transactions)
  /\ balance \in Balances \cup {NoBalance}
  /\ crossed \in BOOLEAN
  /\ scroll \in [pending : SUBSET Calls, start : 1..MaxTx, end : BOOLEAN]
  /\ triggers \in Nat /\ failures \in Nat /\ scrolls \in Nat
  /\ created + loads + triggers + scrolls <= MaxEvents

(* "There should not be any query in memory when update calls have been     *)
(* resolved": what a query left in a scheduler's store is certified or      *)
(* pruned by an update of that scheduler, unless an update failed.          *)
NoQueryInMemory ==
  failures = 0 =>
    \A s \in Timers : (\E t \in store[s].txs : ~t.certified) => UpdatePendingOf(s)

(* The same for what the page shows, whatever fails, as long as only the    *)
(* first scheduler writes it.                                               *)
QueriesShownAreChecked ==
  OnlyFirst /\ (\E t \in Elements(list) : ~t.certified) => UpdatePending

(* A scheduler never posts again what its store has certified, so all of it *)
(* must be on the page while its worker is kept.  WalletWorkers does not    *)
(* wait for the worker before it, which may still post: what the new one    *)
(* knows stays on the page until that happens.                              *)
WorkerIsShown ==
  kept /\ ~crossed /\ failures = 0 /\ scrolls = 0 =>
    /\ store[Newest].txs \subseteq Elements(list)
    /\ store[Newest].balance \in {NoBalance, balance}

(* "Malicious nodes can forge transactions": what is shown or kept as       *)
(* certified did happen.                                                    *)
CertifiedIsReal ==
  /\ \A txs \in {Elements(list)} \cup {store[s].txs : s \in Timers} :
       \A t \in txs : t.certified => t.id <= ledger
  /\ \A b \in ({balance} \cup {store[s].balance : s \in Timers}) \ {NoBalance} :
       b.certified => b.data <= ledger

(* Between two jobs of the first scheduler each transaction is shown once,  *)
(* the newest first: the scroll starts below the last one.                  *)
ShownInOrder ==
  OnlyFirst /\ ~UpdatePending =>
    \A i, j \in DOMAIN list : i < j => list[i].id > list[j].id

(* A certified transaction does not become uncertified again.               *)
NoDowngrade ==
  [][OnlyFirst =>
       \A t \in Elements(list) :
         t.certified => [t EXCEPT !.certified = FALSE] \notin Elements(list)']_walletVars

(* While a worker is kept and its interval lives, the newest transaction is *)
(* shown in the end, unless an update fails or an older worker posts, which *)
(* may prune it from the page.                                              *)
NewestShown == list # <<>> /\ list[1] = [id |-> MaxTx, certified |-> TRUE]
LatestIsShown ==
  \A w \in Workers :
    (ledger = MaxTx /\ kept /\ created = w /\ intervals[<<w, 0>>] # {})
      ~> (NewestShown \/ ~kept \/ created # w \/ failures > 0 \/ crossed)
=============================================================================
