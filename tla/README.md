# Verification of the Oisy wallet (ic-eth-wallet)

TLA+ models of the wallet's backend canister and frontend, TLC configurations
that check them on small instances, and proofs, checked by TLAPS, that some
properties hold for every value of the constants. Paths below are relative to
the repository; `backend` is `src/backend/src`, `shared` is `src/shared/src`,
`frontend` is `src/frontend/src`.

## 1. The system

The wallet is a Svelte application that runs in browser tabs, a Rust canister
(the *backend*) on the Internet Computer that keeps what belongs to a user, and
services outside the repository: the *signer* canister that holds the threshold
keys, the Bitcoin canister, ledgers, the *cycles ledger*, exchange rate
providers. Three kinds of concurrency matter:

* A canister runs one message at a time, but an `await` ends the message: other
  calls run before the answer arrives. Whatever was read before the `await` may
  be stale after it.
* A tab is single threaded, with the same interleaving at every `await`. A user
  may have several tabs, and they share nothing but the backend.
* An upgrade of the backend loses its heap and keeps its stable maps.

### Inventory

| Component | State | Operations | Interacts with | What is hard | What makes it correct |
|---|---|---|---|---|---|
| User data migration (`backend/migrate.rs`, `migrate/steps.rs`, `lib.rs`) | `State.migration` (heap), the four stable maps, `config.api` of two canisters | `migrate_user_data_to`, `migration_stop_timer`, `step_migration`, `bulk_up`, `set_guards`, `stats` | calls another backend; closes and opens the endpoints of users through the guards | steps that overlap at their await, rejected and late answers, writes of users, upgrades | nobody is left behind, the target is a copy when it opens, the progress only moves forward, the migration ends |
| Pending Bitcoin transactions (`backend/heap_state`, `lib.rs`) | heap: principal, address, list | `btc_add_pending_transaction`, `btc_get_pending_transactions`, `btc_select_user_utxos_fee` | awaits the Bitcoin canister before it touches the list | time and utxos read at different moments, one call prunes the lists of all addresses, limits, upgrades | a utxo is not spent twice within a day, what is recorded stays recorded while it matters |
| Bitcoin send wizard (`frontend/btc`) | `utxosFee`, step of the wizard, store of pending transactions | open, review, back, close, send | calls the three endpoints and the signer; the wizard that converts BTC to ckBTC sends in the same way | several tabs, closed and reopened wizards, a broadcast whose answer or record is lost | one pending transaction at a time, no competing transaction |
| Worker scheduler (`frontend/lib/schedulers/scheduler.ts`) | `timer`, `timerStatus`, intervals of the engine | `start`, `trigger`, `stop`, `postMsg` | runs the jobs of every wallet worker | start, trigger and the interval interleave at their awaits; stop does not wait | status never sticks, jobs do not overlap, refreshing goes on |
| User profiles (`backend/user_profile*.rs`, `oisy_user.rs`, `shared/impls.rs`; `frontend/lib/services`) | `user_profile` keyed by time and principal, `user_profile_updated`; `userProfileStore` of each tab | `create_user_profile`, `get_user_profile`, `add_user_credential`, `add_user_hidden_dapp_id`, `list_users`; load, close a slide, add a credential | optimistic concurrency by version numbers | several tabs, late and lost answers, equal timestamps, a caller of `list_users` that pages through changing data | a version stands for one content, nothing is lost, the listing misses nobody |
| Token lists (`backend/token.rs`, `lib.rs`; `frontend/eth`, `frontend/icp`, `lib/components/manage`) | two stable maps; stores of user tokens of each tab | set one or many user or custom tokens, remove, list; load, toggle, save, hide | versions as above | several tabs, loads whose answers are late, saves whose answers are lost, the limit of the list | no change is lost unseen, a page shows the list |
| Signer payments, cycles top-up (`backend/signer.rs`) | balances | `allow_signing`, hourly `top_up_cycles_ledger` | cycles ledger, signer | manual and hourly runs interleave at their awaits | the response tells the balances |
| UTXO selection and fees (`backend/bitcoin_utils.rs`) | none | select utxos, estimate fee | `btc_select_user_utxos_fee` | boundaries | pays for the amount when the utxos do, with few inputs |
| Configuration, HTTP, signing proxies (`backend/config.rs`, `state.rs`) | config | init, upgrade, `http_request` | read by all guards | – | – |
| `queryAndUpdate` (`frontend/lib/actors/query.ic.ts`) | flag of the certified answer | query and update of one request | all loads of the frontend | the answers race | certified data is never replaced by a late query, nothing a query claimed stays unchecked |
| Wallet schedulers (`frontend/{icp,btc,sol}/schedulers`) and the page | the map of Web Workers, their inboxes, the store of each scheduler; transactions and balance on the page | load and stop a worker, restart after an error, jobs of the scheduler, cleaning, scrolling | ledgers and indexes, messages to and from the page | a worker is stopped and another one loaded in the middle of a job, two loads overlap, pages overlap | what is certified happened and stays, the newest transaction is shown |
| Ethereum sends (`frontend/eth/services/send.services.ts`) | allowance and transactions of the account, on Ethereum | `send`, `approve` (reset, approve, deposit) | providers, signer, WalletConnect | nonces and allowance are read once and used for several transactions; calls fail in between | no nonce is left out, no transaction reverts |
| Exchange worker (`frontend/lib/workers/exchange.worker.ts`) | timer | start, stop | price providers | as the scheduler, with its own code | no interval with stale tokens |
| Addresses, authentication, idle timer, WalletConnect sessions, sends on ICP and Solana | stores | loads and sequences of calls | external services | – | – |
| User interface, declarations, scripts, e2e tests | – | – | – | – | – |

Every component, modelled or not, is listed in `PROJECT.json` with the reason
why it is left out, and each hazard at its line with the properties for it.

## 2. Modules

| Module | What it is |
|---|---|
| `Migration` | the two backend canisters during a migration, with users, controllers, upgrades |
| `Handover` | abstract: one set of user data moves from one home to another |
| `MCMigration` | instance: two users whose principals and profile times are in opposite orders |
| `Migration_proofs` | types, `EveryoneMoved`, `TargetIsCopy` and `UnlockedLast` for every instance; for steps that do not overlap `ProgressAdvances`, `NewerDataSurvives` and the refinement of `Handover` |
| `BtcPendingTransactions` | operators on the pending transactions of a principal |
| `BtcSend` | wizards, endpoints, signer and Bitcoin around those operators |
| `MCBtcSend` | instances: one user with one tab, on one or two networks |
| `BtcSend_proofs` | types, `OnePendingPerTab`, `Tracked` and `NoDoubleSpend` for every instance |
| `SchedulerTimer` | the instances of `SchedulerTimer`, each with overlapping executions |
| `SchedulerTimer_proofs` | types, `BusyMeansRunning`, `OverlapNeedsStop` and `StoppedJobsAreSilent` for any number of timers and executions |
| `IcWallet` | the Web Workers of an ICP or ICRC wallet, on top of `SchedulerTimer`, and the page they write |
| `MCIcWallet` | instance: the timers of the workers and of their restarts |
| `IcWallet_proofs` | that the wallet implements `SchedulerTimer`; types, the five safety invariants and `NoDowngrade` for every instance |
| `EthSend` | the sends of an Ethereum account from several wallets |
| `EthSend_proofs` | the four properties for every instance |
| `UserProfiles` | the maps and endpoints of the profiles, the tabs, a caller of `list_users` |
| `MCUserProfiles` | instance: two tabs of one user, one of another |
| `UserProfiles_proofs` | the four invariants and `NothingLost` for every instance |
| `UserTokens` | a list of tokens on the backend and on the pages of several tabs |
| `MCUserTokens` | instance: tabs and tokens are interchangeable |
| `UserTokens_proofs` | the three properties for every instance |
| `UtxoSelection` | the loops of `utxos_selection` |
| `UtxoSelection_proofs` | the three invariants for any utxos, and `NoneIsSpare` |
| `TopUp` | overlapping calls of `top_up_cycles_ledger` |

An operator whose comment says "Mutation of X" or "As X, but" is a variant of X
with a plausible bug. It is used nowhere: substituted for X it must make a
property fail, which shows that the property depends on the code. `PROJECT.json`
says which variant breaks which property.

### Migration

State: `db` holds the four stable maps of both canisters, each a function from
keys to the stamp of the write. A key is a pair of time and principal in the
order of the B-tree; the time is 0 in maps keyed by principals alone. `api` is
`config.api`, `migration` the optional `MigrationProgress` with the last key
acknowledged, `timer` the interval timer, `call` the executions of
`step_migration` that are suspended at their await, `requests` the calls
between the canisters, in the order they were sent.

Actions: `MigrateUserDataTo`, `MigrationStopTimer`, `PostUpgrade`, and
`StepLocally` for the phases without a call. The other phases take three steps:
`StepMigration` (everything up to the await, including the copy of the progress
and of the chunk), `Deliver` (the target executes `set_guards`, `stats` or
`bulk_up`) and `Return` (the next progress, computed before, is stored over
whatever is there). `Reject` is a call that is rejected without having run.
`SetTokens` and `StoreProfile` are the writes of users; a write
to one canister is enabled by its guards, and `StoreProfile` changes both
profile maps as `store_new` does.

`PostUpgrade` forgets the migration and the timer, and waits until no call is open.
Its argument is `None` or `Upgrade`, which keep the configuration, or `Init`, which
replaces it with the guards it carries. `scripts/deploy.backend.sh` deploys with `Init` and
without guards, which stands for enabled: a deployment in the middle of a migration
opens the source again, and a migration started later begins anew.

Not in the model: a controller who calls `set_guards` or `set_snapshot` by
hand, upgrades of the target, a second target, and the signing endpoints behind the
threshold key guard.
A call that is rejected has had no effect on the target: these calls wait without
a deadline, and a target that traps is rolled back.

`Handover` has one home for the data and lets it change homes only while nobody
can write. `HandsOver` maps the home to the target once the migration has opened
it, to the source while it is writable, and to nowhere in between, and the data
to the maps of whichever counts.

### Bitcoin

`pending` is the heap of the backend. An endpoint call goes through the stages
*asked*, *answered* (the Bitcoin canister has answered with the utxos of that
moment) and, for the selection, *fees*; the `Continue…` actions are the code
after the await. `wizard` has the step, the address, `utxosFee` and the
transaction of each tab; `store` is the status derived from
`btcPendingSentTransactionsStore`. A pending list is the set of its transactions,
which differ in their id, because nothing depends on their order.
`signed` remembers what the signer has
broadcast and what the backend has recorded; only properties read it.
Amounts and fees are abstracted: any subset of the listed utxos may be what the
selection returns, the empty one when they do not cover the amount. `fee` tells whether
the wizard has a `utxosFee`, waits for one, or has none. The review selects
utxos only when it has none, so a user may go back to the form while they are selected; the
answer is then written into the wizard through the binding of the component that asked,
which is why it counts in whatever step the wizard is. A selection that fails leaves
the wizard in the review: `BtcUtxosFee` dispatches `icBack`, but `BtcSendReview.svelte:66`
does not hand it on. Going back mounts the form again, which loads the
pending transactions. A tab waits for the answer of an endpoint before it calls the same
one again (bound). The wizard that converts BTC to ckBTC
(`btc/components/convert/BtcConvertTokenWizard.svelte`) loads the pending transactions
and calls `sendBtc` as well; it is not modelled and has a `utxosFeeStore` of its own.
Failures after a transaction may have been signed are counted in `faults`; failures before are free.

### Scheduler

`Timers` are the instances of the class; the run has one, a wallet one for each of its
schedulers. `run` holds the executions of `start`, `trigger` and the callback, each
waiting for `loadIdentity` or for its job. `intervals` is what the engine keeps
firing, which can be more than `timer` names. `late` records whether the data
posted last came from a job that had been stopped while no other job ran.

### Wallet worker

`IcWallet` extends `SchedulerTimer`: each of its actions is an action of one of the
timers, or leaves them alone, together with what the job does.

*Workers.* `WalletWorkers` keeps one Web Worker of the token in a map. `loadWorker` looks
whether there is one (`BeginLoad`), awaits the import of the script, and starts the new worker and
puts it into the map whatever is there by then (`FinishLoad`): two calls that overlap
leave two workers, of which the first is never stopped. `cleanWorkers` and `onDestroy`
post a stop and forget the worker (`StopWallet`). Nothing terminates it or waits for
it: it handles the stop when it comes to it (`HandleStop`), and an execution that is in
`loadIdentity` or in its job goes on, and may post to the page, next to any number of
newer workers. `inbox` holds the messages a worker has not handled.

*Restarts.* When an update fails, the page resets its stores. The page of an ICRC
token also posts a new start, without the index canister; the worker, which stops its
scheduler at every start, does so (`HandleReplace`) and starts another one, which asks the ledger for
the balance alone (`HandleStart`). The two are halves of one handler (`replace` and `start` in
the inbox), and the worker does nothing in between. Scheduler `<<w, n>>` is the one of worker `w` after its
`n`-th restart. A job of the replaced scheduler goes on as well. `Icrc` stands for an
ICRC token that has an index canister; one that has none never loads transactions and
is not modelled.

*Data.* `store` is that of each scheduler (`IcWalletTransactionsScheduler.store`), `list`
and `balance` are what the page shows, `request` the query and the update of each job,
`scroll` those of the page's own load of older transactions. `ledger` is the number of
transactions so far; the balance is that number. A transaction is a number and whether
it is certified. An update answers with a state of the ledger since the call; a query
with any earlier one, or with one transaction that never happened. `Load` is the
whole of `syncTransactions` and `cleanTransactions`, or of `syncBalance`: what is posted,
what becomes known, what is removed from the store and from the page. A load asks for
a page of the newest transactions; those between two pages are never loaded
(see section 6).

*Abstractions.* What a worker posts reaches the page in the step that posts it, and both
messages of one answer (the transactions and the clean-up) together; the order of the
messages of one worker is kept, and those of two workers can still arrive in any
order, because each worker could have taken its step later. One scroll runs at a
time, as the code sees to it.

### Ethereum sends

`sends` holds where each send stands: reading the nonce (`getTransactionCount`
with `'pending'`), reading the allowance, resetting, approving, paying. `Submit`
is prepare, sign and `sendTransaction` in one step; `SubmitLost` is the same with
the answer lost, `Fail` any earlier failure. `pool` and `mined` are the account's
transactions on Ethereum, external: they are executed in the order of their
nonces, and one that waits can be replaced by another with the same nonce. Nodes
answer truly, and a pool does not drop what it has accepted. An approval over an
allowance that is not zero may revert, as some tokens do.

### Token lists

`list` is the backend's, `store` what each tab shows, `saving` the save of a tab
from the call to the end of the reload, `loads` the query and update of each
load. A save carries, for every token, what the tab saw when it was sent; a
toggle made earlier on an older snapshot behaves as a call that is longer on its way.
A token is found by what the backend finds it by, so the spelling of addresses is
abstracted. The pages never remove a token; `remove_user_token` can be called
with another tool. A query reads the list at some moment between its call and its
answer, as the update does: lagging or forging replicas are in `IcWallet`.

### UTXO selection and top-up

A step of `UtxoSelection` is an iteration of a loop of `greedy` or of
`utxos_selection`; which of several utxos of the same value is taken is any.
`TopUp` has a call wait for `icrc1_balance_of` and for `deposit`; the balance of the
backend is read, and the cycles leave, in the step between them. A rejected
deposit gives the cycles back.

### User profiles

`user_profile` and `user_profile_updated` are the two maps. A call is sent,
executed and answered in three steps; a tab has several calls open, loses calls
and answers, is reloaded and then no longer hears answers to calls that the
backend still executes (`heard`). A query is followed by the certified load
(`Then`), as the code does. The clock of the backend may stand still between
calls, so several profiles, or several changes of one, share a timestamp.
`ListUsers` is a caller that asks from the latest `updated_timestamp` it was
given and remembers who had a credential. Queries answer truthfully: the model has them
read the profile at some moment between call and answer, as an update does. The frontend
does not rely on that (`queryUnsafeProfile`); with a single replica that lies, a tab
could show a profile that never was until the certified load that follows, and
`VersionIdentifiesContent` and `KeyedByUpdatedTimestamp` speak of tabs whose
queries were answered truly. A version of 0 is Rust's `None`.
Validation of a credential is a nondeterministic outcome.

## 3. Runs

Bounds are constants of the modules and are tested in the guards: `MaxClock`,
`MaxTime`, `MaxUpgrades`, `MaxSends`, `MaxSaves`, `MaxLost`, `MaxFaults`,
`MaxRemovals`, `MaxStarts`, `MaxStops`, `MaxErrors`, `MaxTx`, `MaxEvents`,
`MaxPayments`, and the size of the sets of steps, executions, loads and calls in
flight. In `IcWallet`, `MaxEvents` bounds the workers, triggers, failed updates and
scrolls together, and each scroll may fail besides. All runs check for deadlock but `eth_send`, where everything may be sent
and mined, `utxo_selection`, which ends, and those of the wallet, where a stopped worker rests
and the user may load no other.

| Run | Checks | Instance, and why it is enough |
|---|---|---|
| `migration_overlap` | `EveryoneMoved`, `TargetIsCopy`, `UnlockedLast` | two overlapping steps, two users, chunks of one entry so that every map needs several chunks, one user write after the start, one upgrade. Two steps suffice for every pair of a stale and a fresh answer; steps are symmetric |
| `migration_serial` | `TypeOK`, `ProgressAdvances`, `NewerDataSurvives`, `HandsOver`, `Terminates` | one step in flight, no upgrade, two writes: what the migration promises when nothing overlaps |
| `btc_send_alone` | `TypeOK`, `NoDoubleSpend`, `OnePendingPerTab`, `Tracked` | one tab, two utxos, one confirmed from the start and one later, two transactions and room for both, a clock that passes the day, one failure once signed, one upgrade: 5.2 million states. `OnePendingPerTab` is about behaviours without the failure, `NoDoubleSpend` about those without the upgrade either; `Tracked` holds in all of them, and the theorem has it for any number of tabs |
| `btc_send_networks` | `Tracked` (violated) | two networks |
| `scheduler` | `TypeOK`, `BusyMeansRunning`, `OverlapNeedsStop`, `StoppedJobsAreSilent`, `Refreshes` | three executions in flight, three starts, two stops, two failing jobs |
| `ic_wallet` | `WalletTypeOK`, `NoQueryInMemory`, `QueriesShownAreChecked`, `WorkerIsShown`, `CertifiedIsReal`, `ShownInOrder`, `NoDowngrade` | an ICRC token, two executions at a time, two of the events, two stops of a scheduler, pages of one, two transactions. Two events are two workers, the second loaded after the stop of the first or next to it; or a worker and a failed update, with its restart; or a worker with a trigger or a scroll. A page of one already has a second transaction push the first one off it; with three events or pages of two there are too many states, and the theorems hold for all sizes. Executions are alike (symmetry): 850 000 states. Jobs that throw are in `scheduler` |
| `ic_wallet_live` | `LatestIsShown` | an ICP token, two executions, two events, one stop, one transaction; without symmetry, which is not sound for liveness: 156 000 states |
| `eth_send` | `TypeOK`, `NoGap`, `NothingReverts`, `ReportedIsKept` | two wallets, three sends, two amounts so that an allowance is too small, enough or left over, one lost answer, any number of failures |
| `user_tokens` | `TypeOK`, `SettledShowsTheList`, `NoLostUpdate` | two tabs, two tokens, a list of one, one load at a time in each tab, two saves, one failure, one removal: a tab can be stale by a version, by a removal and by a late answer |
| `utxo_selection` | `TypeOK`, `SelectionPays`, `FewestInputs` | all subsets of four utxos with values from 0 to 3 and targets from 0 to 7, a threshold of one so that inputs are filled up |
| `top_up` | `ResponseTellsBalance` (violated) | two calls, the default share and one that is refused, two payments |
| `user_profiles` | `TypeOK`, `VersionIdentifiesContent`, `NothingLost`, `NobodyMissed`, `KeyedByUpdatedTimestamp` | three tabs of two users, two calls in flight, four actions of users, two times, a limit of one entry so that answers are cut off |

`ProgressAdvances` and `NewerDataSurvives` are not checked with overlapping
steps, where they fail: section 6 lists both.

`NoDoubleSpend` is about what `chain` still lists as unspent; two transactions
compete only if the second is not a day younger than the first, the
period after which the backend takes a transaction for failed
(`btc_user_pending_tx_state.rs:9-10`). It and `Tracked` speak of the utxos that
every list has shown (`Early`): an endpoint that was asked before a utxo was
confirmed prunes a transaction that spends it (section 6).

`NobodyMissed` says nothing about users changed at the time of the cursor or
after it. When as many profiles as the limit share a time, the cursor stays there
until one of them changes again; a caller needs a limit larger than that number.
The run covers both a cursor that stays and profiles that change at the very
time of the cursor; the theorem covers every limit.

The properties of the wallet differ in how many workers they speak of. `NoQueryInMemory` and
`CertifiedIsReal` are about every scheduler, through stops, replaced workers and
restarts. `WorkerIsShown` and `LatestIsShown` are about the newest scheduler next to any number
of older ones, until one of those posts (`crossed`): the code has nothing that keeps an old worker from
pruning the page, and section 6 says what follows. `QueriesShownAreChecked`, `ShownInOrder` and
`NoDowngrade` are about a page that one scheduler has written (`OnlyFirst`), which is as far as they are true.

## 4. Fairness

*Migration.* The timer of period zero fires as long as it is set
(`WF` of a step, only while `timer`), the Internet Computer delivers every call
and answers it (`WF` of `Deliver` and of each `Return`). Nothing is assumed of
users or controllers, nor that calls succeed: `Terminates` says completed or
failed, or stopped.

*Scheduler.* `loadIdentity` and jobs settle, because network calls time out
(`WF` per execution). The interval fires again and again: `SF`, because the
bound on executions in flight can disable `Tick` for a while, which the browser
does not do. Nothing is assumed of start, trigger and stop.

*Wallet worker.* As for the scheduler: `loadIdentity` and the calls settle
(`WF`; a query that comes too late is ignored, an update answers or fails), a job
ends once its calls have, and the intervals of each worker go on firing (`SF`, for the same
reason). Nothing is assumed of the page, the map of workers, the inboxes, the scroll or
the ledger: a stop may wait for ever.

No other run checks liveness, and no other specification has fairness. Wizards
may be abandoned at any point, tabs may close, and a send may wait for ever.

## 5. Proofs

The theorems hold for all constants that satisfy the named assumptions of the
modules (`UsersAssumption`, `OwnersAssumption`, `BoundsAssumption`,
`RunsAssumption`, `ProfilesAssumption`, `LimitsAssumption`, `AmountsAssumption`,
`SendsAssumption`, `MaxTokensAssumption`, `TokensAssumption`,
`WalletAssumption`, `UtxosAssumption`, `ValuesAssumption`, `CountsAssumption`): finite
sets of numbered principals, tokens, tabs, addresses and utxos, positive chunk, page
and ledger sizes, positive limits and amounts, natural bounds and values. Each proof has the same plan:
`Init => IInv`, one lemma per action for `IInv /\ [Next]_vars => IInv'`, and a
temporal step.

*`Migration_proofs`.* `TypeCorrect` and `NobodyLeftBehind`
(`Spec => []EveryoneMoved`), for any number of overlapping steps, upgrades and
rejections. `EveryoneMoved` alone is not inductive: a step in flight may later
store a progress that claims more than the target holds. The invariant is
`TypeOK /\ SourceFrozen /\ ProgressCovered /\ CallsCovered`:

* `SourceFrozen`: while users may write to the source no step is in flight and
  no phase beyond *Pending* has been reached, so no claim can become false by a
  write;
* `ProgressCovered`: every entry the progress claims to have sent has an entry
  of its user on the target;
* `CallsCovered`: the same for the progress each suspended step is going to
  store, unless the step still carries the entry in its chunk and the target
  has not answered.

The argument is about claims: `Return` stores a claim that is covered because
the target has executed the chunk; `StepMigration` computes a claim from a
covered one plus the chunk it carries; a late `Return` replaces one covered claim
by another. Entries on the target are never removed for a user: a profile map
replaces a key by another of the same user, which is why coverage is about
users and not about keys.

The second part of the module has `OnlyCopiesArrive` (`Spec => []TargetIsCopy`) and
`NoLockAfterUnlock` (`Spec => []UnlockedLast`), again for any number of overlapping
steps, upgrades and rejections. Both rest on the order of the queue; `OInv` adds to
the invariant above:

* `CallsAreSteps` and `StartsWithLocks`: what is in flight was sent by a step of this
  attempt, carries entries of the frozen source, and begins with lock requests;
* `QueueInOrder`, `LocksComeFirst`: lock requests are ahead of all others, and
  while one is in the queue nothing behind it is answered, so no phase beyond the
  check of the target has been reached;
* `OpenOnceUnlocked`, `CopyWhileLocked`: hence, once an unlock has been answered no
  lock follows, and from the check that the target is empty on nobody but
  `bulk_up` writes to it while it is locked.

With steps that do not overlap (`OneStep`) more is true. `SerialProgress`
(`ProgressAdvances`) and `SerialKeepsNewer` (`NewerDataSurvives`) need that the
progress is still the one the step has read (`StepsAdvance`) and that the target
stays locked until the unlock is answered (`LockedMeanwhile`); upgrades and
rejections are allowed. `SerialHandsOver` (`HandsOver`) also assumes that the source
is not upgraded, because a migration that is started again takes the home back from
the target. The step that matters is the delivery of the unlock, where the data of
the two canisters must be equal: all entries of the target are copies
(`CopyWhileLocked`), and there are as many as on the source (`Compared`, by the check of
the statistics).

*`SchedulerTimer_proofs`.* `StatusNeverSticks` and `NoOverlapWithoutStop`, from
`Shape /\ BusyMeansRunning /\ JobsAnnounced /\ OverlapNeedsStop`, where `Shape`
is the part of the types the argument needs.
`JobsAnnounced` (without a stop, a running job means that the status is
`in_progress`) is the strengthening: it makes `SkipJob` the only choice of a
second execution. `TypeCorrect` also needs that a start finds a handle that is
not in use: `HandlesFit` counts the intervals and the starts that may still set
one, which are no more than the starts so far. `StoppedJobsPostNothing` rests on
`BusyForAJob`: an `in_progress` status stands for a job that nobody has stopped.

*`BtcSend_proofs`.* For any number of users, tabs, addresses, utxos and
transactions, and any limits.

* `TypeCorrect`: the calls and wizards are consistent (`Calling`, `Wizards`): what
  records a transaction is the wizard that waits for it, utxos are selected for
  the address that shows.
* `OnePendingForEachTab`: a tab that holds selected utxos, or is about to, is a
  *recorder*; `RoomFor` says that the pending transactions of an address and the
  recorders together are no more than the tabs of its user. A selection makes a
  recorder only when the list is empty, and recording ends one.
* `RecordedStaysTracked` assumes `OneNetwork` (a user has one address; the run
  `btc_send_networks` shows why). A list of utxos that has arrived shows every
  early utxo still unspent, and the time it is used with is not later than now
  (`Local`), so what it prunes is old or spent (`PrunedForAReason`).
* `NothingSpentTwice` assumes `OneTab` as well (section 6 shows what two tabs do).
  Every transaction is old, spent, listed or about to be recorded (`AllListed`);
  `RoomFor` with one tab means that recording is never refused (`AddFits`); so a
  tab whose list was empty when it selected utxos can only meet transactions
  that are old or spent (`Spending`).

*`EthSend_proofs`.* `NoncesLeaveNoGap` from `NoncesInReach`: the nonces of the pool
are consecutive, and no send holds a nonce above the one after the last.
`DepositsDontRevert` from `Calm`: as long as no send began early, at most one is on
its way (`Alone`) and begins with an empty pool; each approval in the pool meets an
allowance of zero, each deposit one that covers it, counting the transactions
before it (`PoolIsHarmless`), and the same holds of the transaction a send is about to
submit (`SendIsHarmless`). `ReportedPaymentsStay` from `Kept`: a send that is
alone has counted the whole pool (`AtTop`), so what it submits replaces nothing.

*`UserTokens_proofs`.* `Views`: every entry that a page, a save or an answer has is
one the list had, no newer than the list's, and equal to it when the versions
agree; `NoUpdateIsLost` follows. `Settling`: in a tab whose load began alone there is no other, all it has
read is the list, and once its update is over the page shows the list;
`SettledPagesAreTrue` follows.

*`IcWallet_proofs`.* `WalletImplementsTimer` is a refinement: each action of the
wallet is an action of `SchedulerTimer` or leaves the timers alone, so the theorems about
timers hold of every scheduler of every worker (`WalletNeverSticks`, `SyncsDontOverlap`).
`QueriesDontStay`: an entry that only a query brought is in the store of a scheduler only
while its update is open, and a scheduler without an index canister has no entries (`MemoryInv`).

The other theorems are about what an answer does to the store and to the page.
`Filtered` is JavaScript's `filter`; it takes the positions that are kept in their
order. `RanksAreCounts` shows, with the cardinality theorems of the library, that
counting numbers those positions without a gap, so that `FilterElements` can say which
elements stay and that their order does. From it follow `UnknownElements` (what is
new), `Shows` (what is posted) and `LoadEffect` (a whole answer), on which every step
below rests.

* `WalletTypes` and `CertifiedAnswersAreReal` are inductive with the types of the
  timer (`TypeInv`): a certified answer is a state the ledger has had.
* `NothingIsWithheld` is about the newest worker next to any number of others. `KeptShape`
  says that this worker, while it is in the map and no update has failed, has not been told to
  stop (`KeptGoesOn`), that one not yet created has neither messages nor a store
  (`NoMailBefore`, `Pristine`), and that without a failure there is no restart (`OnlyStops`).
  So its jobs run one after the other under the status `in_progress`, each of their
  answers is posted, and the store of another scheduler that posts is told by `crossed`. Without it the
  timer could be idle and drop what the store takes for shown. `OnceInStores` says that
  ids are unique in a store, so pruning an uncertified entry does not remove a certified
  one from the page.
* `ShownQueriesAreChecked`, `PageIsOrdered` and `CertifiedStays` follow from
  `PageFollows`: as long as only the first scheduler writes the page, it shows nothing
  that the store lacks, and there is a state `top` of the ledger, that of the last certified
  answer, such that the page of `top` is certified in the store, nothing above it is,
  and an update in flight answers with `top` or a later state (`LastCertified`). So what
  an update adds is newer than all that is certified (`UpdateIsNewer`), and prepending it
  keeps the order.

*`UtxoSelection_proofs`.* The sum over a set of utxos is a fold, of which the prover
knows nothing. `SumIsUnits` replaces it by a count: the sum is the number of pairs of a utxo
and a unit of its value, and the library's theorems on cardinality do the rest
(`SumFacts`, `PartSum`, `SumBounds`). The induction theorems of the library take an
operator, which the provers cannot instantiate; the proof takes a least counterexample
instead (`WFMin`, whose parameter is a set).

* `UtxosAreKept` and `SelectionAlwaysPays` from `Typed` and `Pays`: while greedy runs, what is
  selected and what is missing make up the target.
* `GreedIsOptimal` and `GreedTakesNoSpare` from `GreedyInv`: all utxos that were taken but the
  last were the largest left (`Top`) and do not pay together. No set of as many utxos is
  worth more than those, because whatever it has instead can be exchanged
  (`TopIsWorthMost`); so every set that pays has one more, and none of the selection is
  spare.

*`UserProfiles_proofs`.* `TypeCorrect`, `VersionsAreContents`,
`KeysAreTimestamps`, `ListMissesNobody`, `ProfilesAreKept`. The invariant is
`TypeOK /\ KeyedByUpdatedTimestamp /\ VersionIdentifiesContent /\ NobodyMissed /\
HidesNews /\ VerifiedBefore`. `HidesNews`: a call that hides a dApp was sent for a dApp that
is not hidden in the version it carries, so the backend, if it accepts that
version, changes the profile; it is what makes `KeyedByUpdatedTimestamp` hold, in
`add_hidden_dapp_id`, although the function itself stores an unchanged profile
under a new key. `VerifiedBefore`: no credential was verified later than now, so a new one is never
older than the one it replaces.
The listing uses that the entries below the limit are the smallest keys, so any
user whose key is not listed has a key at or after all reported times.

Only model-checked: the three liveness properties (`Terminates`, `Refreshes`,
`LatestIsShown`), which the prover cannot treat. Each other property of a run that is
expected to pass is the statement of a theorem.

## 6. Where the code disagrees with its documentation

Shown by runs that expect a violation:

1. *Pending transactions of other networks are dropped*
   (`btc_user_pending_tx_state.rs:110`): a call prunes the lists of all addresses
   with the utxos of one.
2. *The response of a top-up does not tell the balances* (`signer.rs:206`): when
   nothing is to be done the balance of the ledger is answered in
   `backend_cycles`, and `ledger_balance` is 0 (`shared/types.rs:300,302`).

Seen while modelling, described but not run.

Migration:

* a completed migration is left again (`migrate.rs:184`; the test
  `tests/it/migration.rs:357` says "Migration should be complete, and stay
  complete."): a step that was suspended while another one finished stores the
  successor of the progress it read;
* a failed migration is overwritten by a step that returns later (`lib.rs:703`);
* a late chunk of an overlapping step can replace newer data on the target once
  it is open (`migrate.rs:38`), which is why `NewerDataSurvives` is checked for
  serial steps;
* the source is unlocked for signing with user data disabled, and
  `allow_signing` is guarded by readable user data, so it stays refused after
  `unlock_local` ("Unlocks the local signing APIs", `migrate/steps.rs:84`,
  `lib.rs:599`);
* `MigratedUserTokensUpTo` includes the principal it names, where the comment
  says "up to (but excluding)" (`types.rs:455`);

Bitcoin and payments:

* two tabs spend the same utxo (`lib.rs:370`; `btc_user_pending_tx_state.rs:96`,
  "to avoid double spending"): the check, the signature and the record are three
  calls;
* after a broadcast whose answer is lost the wizard offers the same utxos again,
  until the store of pending transactions is loaded;
* an upgrade loses the pending transactions, and the wizard offers their utxos again as long
  as they are not spent (`state.rs:4`);
* a selection of utxos that fails leaves the user in the review without utxos, for
  `BtcSendReview.svelte:66` does not hand on the `icBack` of `BtcUtxosFee.svelte:49`;
* the list of utxos used to prune is older than the transaction another call has
  recorded during the await, so a fresh transaction can be dropped when it spends
  utxos the list does not show yet (`btc_user_pending_tx_state.rs:97`);
* for a target of 0 the selection is empty although the utxos reach it, against
  the "PROPERTY" of the comment (`bitcoin_utils.rs:15`); the fee is computed after the
  selection and is not part of the target (`lib.rs:400`);
* overlapping top-ups read the same balance and both deposit (`signer.rs:169`).

Workers and wallets:

* a job runs after an error (`scheduler.ts:61`; line 94 says it will no longer be
  called): the interval is set after the first execution has failed and stopped
  the scheduler;
* data is posted after a stop (`scheduler.ts:108`): a stop during `loadIdentity`
  leaves no trace, and a stopped job may leave data on the page that no update has checked;
* an ICRC wallet that was restarted with the ledger only nullifies the transactions of
  the page with each new balance, while a job of the replaced scheduler may still
  post some;
* when a certified error empties the page, the store of the worker keeps what it
  knows, so the page stays empty of those transactions
  (`ic-transactions.services.ts:97`);
* the scroll appends the page of the query and that of the update, so an older
  transaction can be on the page twice; what it has certified can be removed by
  the cleaning of a worker that knew it from a query;
* when more transactions than a page arrive between two polls, those in between
  are not loaded until the user scrolls (`WALLET_PAGINATION`);
* two starts that overlap set two intervals, of which `stop` clears one
  (`scheduler.ts:38`);
* a wallet worker that was told to stop is never terminated (`wallet.utils.ts:37`,
  `worker.icp-wallet.services.ts:58`): a job of it that was waiting for `loadIdentity` runs and posts next
  to the worker that replaced it. Its clean-up removes from the page what only its own query
  brought, although the new worker knows it as certified and will not post it again;
  the page then lacks the transaction until yet another worker is started;
* an ICRC worker that was told to stop can come back: when its update fails before it
  handles the stop, the page tells it to start again with the ledger only
  (`worker.icrc-wallet.services.ts:60`), and nobody stops it any more;
* two calls of `loadWorker` that overlap both find no worker and start one
  (`wallet.utils.ts:57`; line 42 says "Load the worker for the token if it is not already
  loaded."); the one that is not in the map is never stopped;

Ethereum:

* a deposit soon after another one reads an allowance that the first is about to use up,
  leaves its approval out and reverts (`send.services.ts:502`);
* two sends at once may get the same nonce, and one replaces the other although it
  was reported as sent; when an answer is lost, the user who sends again pays twice.

Profiles and tokens:

* an outdated version when a dApp is hidden is not reported to the user: the
  frontend reloads the profile whatever the answer was;
* if as many entries as the limit share one timestamp, a caller of `list_users`
  that asks from the latest time does not get on;
* when a save of tokens is rejected nothing loads the list again, so the
  page keeps its old versions and further saves fail until it is reloaded;
* loads that overlap can leave an older certified list on the page, hence "began alone"
  in `SettledShowsTheList`; a token that is removed and added again starts at version 1,
  hence `removals = 0`;
* `set_many` compares addresses as text and `set_user_token` as parsed, so the
  first can add a token twice; the store of the page knows tokens by address alone.

## 7. What is left out, and the plan

Left out for good: rendering, routing, translations, generated declarations,
build scripts (no protocol state), and what other canisters and services do
inside. Amounts, fees, addresses and texts are data no property here
distinguishes.

Not modelled, and open to the same method: the exchange worker with its own timer
(`ExchangeWorker`, next to `SchedulerTimer`), sessions of WalletConnect, the wallet
workers of Bitcoin, Solana and of ICRC tokens without an index canister, the wizard that converts
BTC to ckBTC, loading of addresses,
authentication and the idle timer, configuration, and sends on ICP and Solana,
which are one call each. The fees are arithmetic over constants.

Theorems left: none that the prover can treat, as far as we see; section 5 says which
properties are only model-checked and why.
