------------------------------- MODULE BtcSend -------------------------------
(***************************************************************************)
(* Sending bitcoins: the wizards of the frontend (src/frontend/src/btc),    *)
(* the three endpoints of the backend that keep a user from spending a      *)
(* utxo twice (src/backend/src/lib.rs), and, external to this repository,   *)
(* the signer canister, the bitcoin canister and the Bitcoin network.       *)
(*                                                                         *)
(* An endpoint awaits the utxos of an address before it touches the pending *)
(* transactions, so the calls of several tabs interleave, and the list of   *)
(* utxos may be older than the moment it is used.                           *)
(***************************************************************************)
EXTENDS BtcPendingTransactions, Sequences

CONSTANTS
  Tabs,       \* browser tabs, each with at most one open wizard
  UserOf,     \* the principal signed in to each tab
  Addresses,  \* the addresses of the users on the bitcoin networks
  OwnerOf,    \* the principal of an address
  AddressOf,  \* the address of each utxo
  Early,      \* the utxos that are confirmed from the start
  MaxClock,   \* bound: last tick
  MaxSends,   \* bound: transactions signed
  MaxFaults,  \* bound: failures once a transaction may have been signed
  MaxUpgrades \* bound: upgrades of the backend

Utxos == DOMAIN AddressOf
Users == {OwnerOf[a] : a \in Addresses}

ASSUME OwnersAssumption ==
  /\ IsFiniteSet(Tabs) /\ IsFiniteSet(Addresses)
  /\ UserOf \in [Tabs -> Users]
  /\ AddressOf \in [Utxos -> Addresses]
  /\ Early \subseteq Utxos
ASSUME BoundsAssumption ==
  {MaxClock, MaxSends, MaxFaults, MaxUpgrades} \subseteq Nat

VARIABLES
  pending,   \* the heap of the backend: principal -> address -> list
  calls,     \* the call of each endpoint a tab is waiting for
  wizard,    \* the wizard of each tab
  store,     \* btcPendingSentTransactionsStore of each tab
  chain,     \* what the bitcoin canister says of a utxo
  signed,    \* the transactions the signer has signed and broadcast
  clock, faults, upgrades

vars == <<pending, calls, wizard, store, chain, signed, clock, faults, upgrades>>
outside == <<chain, clock, upgrades>>

-----------------------------------------------------------------------------
(* Data. *)

Endpoints == {"get", "select", "add"}
Statuses == {"LOADING", "NONE", "SOME", "ERROR"}
WizardSteps == {"CLOSED", "SEND", "REVIEW", "SENDING"}

NoCall == [stage |-> "none"]
Stages == {"asked", "answered", "fees"}
Calls ==
  [stage : Stages, address : Addresses, utxos : SUBSET Utxos, now : 0..MaxClock, tx : 0..MaxSends]

(* A wizard has utxosFee once its utxos are known; it may have none, then.  *)
FeeStates == {"unknown", "asked", "known"}
ClosedWizard(a) ==
  [step |-> "CLOSED", address |-> a, fee |-> "unknown", utxosFee |-> {}, tx |-> 0]

Unspent(a) == {u \in Utxos : AddressOf[u] = a /\ chain[u] = "unspent"}

(* When the backend recorded a transaction in the heap it has now. *)
Unrecorded == -1

Status(list) == IF list = {} THEN "NONE" ELSE "SOME"

(* Only btc_get_pending_transactions reads the time when it is called. *)
Request(t, e, a, tx) ==
  [calls EXCEPT ![t][e] =
     [stage |-> "asked", address |-> a, utxos |-> {},
      now |-> IF e = "get" THEN clock ELSE 0, tx |-> tx]]
Finished(t, e) == [calls EXCEPT ![t][e] = NoCall]

Init ==
  /\ pending = [u \in Users |-> NoPending]
  /\ calls = [t \in Tabs |-> [e \in Endpoints |-> NoCall]]
  /\ wizard \in [Tabs -> {ClosedWizard(a) : a \in Addresses}]
  /\ \A t \in Tabs : OwnerOf[wizard[t].address] = UserOf[t]
  /\ store = [t \in Tabs |-> [a \in Addresses |-> "LOADING"]]
  /\ chain = [u \in Utxos |-> IF u \in Early THEN "unspent" ELSE "absent"]
  /\ signed = <<>>
  /\ clock = 0 /\ faults = 0 /\ upgrades = 0

-----------------------------------------------------------------------------
(* The wizard.  A tab waits for the answer of an endpoint before it calls   *)
(* the same endpoint again (bound).                                         *)

(* The form is mounted: it loads the pending transactions and does not wait. *)
ShowForm(t, opened) ==
  /\ calls[t]["get"] = NoCall
  /\ wizard' = [wizard EXCEPT ![t] = [opened EXCEPT !.step = "SEND"]]
  /\ calls' = Request(t, "get", opened.address, 0)
  /\ UNCHANGED <<pending, store, signed, faults, outside>>

Open(t) ==
  /\ wizard[t].step = "CLOSED"
  /\ \E a \in Addresses : OwnerOf[a] = UserOf[t] /\ ShowForm(t, ClosedWizard(a))

(* The review selects utxos when the wizard has no utxosFee yet. *)
Review(t) ==
  /\ wizard[t].step = "SEND"
  /\ IF wizard[t].fee # "known"
     THEN /\ calls[t]["select"] = NoCall
          /\ calls' = Request(t, "select", wizard[t].address, 0)
          /\ wizard' = [wizard EXCEPT ![t].step = "REVIEW", ![t].fee = "asked"]
     ELSE wizard' = [wizard EXCEPT ![t].step = "REVIEW"] /\ UNCHANGED calls
  /\ UNCHANGED <<pending, store, signed, faults, outside>>

(* The way back to the form is open while utxos are selected; the wizard    *)
(* keeps what it knows.                                                     *)
Back(t) ==
  /\ wizard[t].step = "REVIEW"
  /\ ShowForm(t, wizard[t])

Close(t) ==
  /\ wizard[t].step \in {"SEND", "REVIEW"}
  /\ wizard' = [wizard EXCEPT ![t] = ClosedWizard(wizard[t].address)]
  /\ UNCHANGED <<pending, calls, store, signed, faults, outside>>

(* disableSend guards the button of the review. *)
Send(t) ==
  /\ wizard[t].step = "REVIEW"
  /\ store[t][wizard[t].address] = "NONE"
  /\ wizard[t].utxosFee # {}
  /\ wizard' = [wizard EXCEPT ![t].step = "SENDING"]
  /\ UNCHANGED <<pending, calls, store, signed, faults, outside>>

(* Any error of sendBtc leads back to the review, which keeps utxosFee. *)
FailSend(t) == wizard' = [wizard EXCEPT ![t].step = "REVIEW", ![t].tx = 0]

-----------------------------------------------------------------------------
(* The signer (external): it signs and broadcasts, or refuses. *)

Signing(t) == wizard[t].step = "SENDING" /\ wizard[t].tx = 0
Sign(t) ==
  signed' = Append(signed,
    [address |-> wizard[t].address, utxos |-> wizard[t].utxosFee, at |-> clock,
     recorded |-> Unrecorded])

SignerSends(t) ==
  /\ Signing(t) /\ Len(signed) < MaxSends
  /\ Sign(t)
  /\ wizard' = [wizard EXCEPT ![t].tx = Len(signed) + 1]
  /\ calls' = Request(t, "add", wizard[t].address, Len(signed) + 1)
  /\ UNCHANGED <<pending, store, faults, outside>>

(* The transaction is broadcast, but the answer never reaches the tab. *)
SignerAnswerLost(t) ==
  /\ Signing(t) /\ Len(signed) < MaxSends /\ faults < MaxFaults
  /\ Sign(t)
  /\ FailSend(t)
  /\ faults' = faults + 1
  /\ UNCHANGED <<pending, calls, store, outside>>

SignerRefuses(t) ==
  /\ Signing(t)
  /\ FailSend(t)
  /\ UNCHANGED <<pending, calls, store, signed, faults, outside>>

-----------------------------------------------------------------------------
(* The bitcoin canister (external): get_all_utxos of an endpoint. *)

BitcoinAnswers(t, e) ==
  /\ calls[t][e].stage = "asked"
  /\ calls' = [calls EXCEPT ![t][e].stage = "answered",
                            ![t][e].utxos = Unspent(calls[t][e].address)]
  /\ UNCHANGED <<pending, wizard, store, signed, faults, outside>>

GetRejected(t) ==
  /\ calls[t]["get"].stage = "asked"
  /\ calls' = Finished(t, "get")
  /\ store' = [store EXCEPT ![t][calls[t]["get"].address] = "ERROR"]
  /\ UNCHANGED <<pending, wizard, signed, faults, outside>>

(* The selection is over.  Its answer is for the wizard that asked, in      *)
(* whatever step this one is by then; a closed wizard has forgotten.        *)
Selected(t, fee, utxos) ==
  /\ calls' = Finished(t, "select")
  /\ wizard' = IF wizard[t].fee = "asked"
               THEN [wizard EXCEPT ![t].fee = fee, ![t].utxosFee = utxos]
               ELSE wizard

(* An error leaves the wizard where it is: the review does not hand icBack  *)
(* on.                                                                      *)
SelectFailed(t) == Selected(t, "unknown", {})

SelectRejected(t) ==
  /\ calls[t]["select"].stage \in {"asked", "fees"}
  /\ SelectFailed(t)
  /\ UNCHANGED <<pending, store, signed, faults, outside>>

AddRejected(t) ==
  /\ calls[t]["add"].stage = "asked" /\ faults < MaxFaults
  /\ calls' = Finished(t, "add")
  /\ FailSend(t)
  /\ faults' = faults + 1
  /\ UNCHANGED <<pending, store, signed, outside>>

-----------------------------------------------------------------------------
(* The endpoints, once the utxos have arrived. *)

Pruned(t, c, now) == Prune(pending[UserOf[t]], c.utxos, now)

(* btc_get_pending_transactions read the time before it awaited the utxos. *)
ContinueGet(t) ==
  LET c == calls[t]["get"]
      map == Pruned(t, c, c.now)
  IN  /\ c.stage = "answered"
      /\ pending' = [pending EXCEPT ![UserOf[t]] = map]
      /\ store' = [store EXCEPT ![t][c.address] = Status(GetPending(map, c.address))]
      /\ calls' = Finished(t, "get")
      /\ UNCHANGED <<wizard, signed, faults, outside>>

(* Mutation of ContinueSelect: pending transactions are not looked at. *)
ContinueSelectBlindly(t) ==
  LET c == calls[t]["select"]
  IN  /\ c.stage = "answered"
      /\ pending' = [pending EXCEPT ![UserOf[t]] = Pruned(t, c, clock)]
      /\ calls' = [calls EXCEPT ![t]["select"].stage = "fees"]
      /\ UNCHANGED <<wizard, store, signed, faults, outside>>

(* btc_select_user_utxos_fee up to the await of the fees. *)
ContinueSelect(t) ==
  LET c == calls[t]["select"]
      map == Pruned(t, c, clock)
  IN  /\ c.stage = "answered"
      /\ pending' = [pending EXCEPT ![UserOf[t]] = map]
      /\ IF GetPending(map, c.address) # {}
         THEN SelectFailed(t)
         ELSE calls' = [calls EXCEPT ![t]["select"].stage = "fees"] /\ UNCHANGED wizard
      /\ UNCHANGED <<store, signed, faults, outside>>

(* The fees have arrived: any utxos of the list may cover the amount, or    *)
(* none does.                                                               *)
FeesArrive(t) ==
  /\ calls[t]["select"].stage = "fees"
  /\ \E utxos \in SUBSET calls[t]["select"].utxos : Selected(t, "known", utxos)
  /\ UNCHANGED <<pending, store, signed, faults, outside>>

(* btc_add_pending_transaction; its answer may get lost, and it may refuse  *)
(* although the transaction has been broadcast.                             *)
ContinueAdd(t) ==
  LET c == calls[t]["add"]
      map == Pruned(t, c, clock)
      ok == MayAdd(map, c.address)
      tx == [id |-> c.tx, utxos |-> signed[c.tx].utxos, created |-> clock]
  IN  /\ c.stage = "answered"
      /\ pending' = [pending EXCEPT ![UserOf[t]] = IF ok THEN Add(map, c.address, tx) ELSE map]
      /\ signed' = [signed EXCEPT ![c.tx].recorded = IF ok THEN clock ELSE Unrecorded]
      /\ calls' = Finished(t, "add")
      /\ \/ ok /\ wizard' = [wizard EXCEPT ![t] = ClosedWizard(c.address)] /\ UNCHANGED faults
         \/ (~ok \/ faults < MaxFaults) /\ FailSend(t)
            /\ faults' = IF ok THEN faults + 1 ELSE faults
      /\ UNCHANGED <<store, outside>>

-----------------------------------------------------------------------------
(* The environment. *)

(* A utxo reaches the confirmations the wallet asks for. *)
Confirm(u) ==
  /\ chain[u] = "absent"
  /\ chain' = [chain EXCEPT ![u] = "unspent"]
  /\ UNCHANGED <<pending, calls, wizard, store, signed, clock, faults, upgrades>>

(* So does a transaction: its inputs are no longer listed. *)
Mine(i) ==
  /\ \A u \in signed[i].utxos : chain[u] = "unspent"
  /\ chain' = [u \in Utxos |-> IF u \in signed[i].utxos THEN "spent" ELSE chain[u]]
  /\ UNCHANGED <<pending, calls, wizard, store, signed, clock, faults, upgrades>>

Tick ==
  /\ clock < MaxClock
  /\ clock' = clock + 1
  /\ UNCHANGED <<pending, calls, wizard, store, chain, signed, faults, upgrades>>

(* An upgrade waits for the open calls; it loses the heap. *)
Upgrade ==
  /\ upgrades < MaxUpgrades
  /\ \A t \in Tabs, e \in Endpoints : calls[t][e] = NoCall
  /\ upgrades' = upgrades + 1
  /\ pending' = [u \in Users |-> NoPending]
  /\ signed' = [i \in DOMAIN signed |-> [signed[i] EXCEPT !.recorded = Unrecorded]]
  /\ UNCHANGED <<calls, wizard, store, chain, clock, faults>>

UserActs(t) == Open(t) \/ Review(t) \/ Back(t) \/ Close(t) \/ Send(t)
SignerActs(t) == SignerSends(t) \/ SignerAnswerLost(t) \/ SignerRefuses(t)
BitcoinActs(t) ==
  (\E e \in Endpoints : BitcoinAnswers(t, e)) \/ GetRejected(t) \/ SelectRejected(t) \/ AddRejected(t)
BackendActs(t) == ContinueGet(t) \/ ContinueSelect(t) \/ FeesArrive(t) \/ ContinueAdd(t)

Next ==
  \/ \E t \in Tabs : UserActs(t) \/ SignerActs(t) \/ BitcoinActs(t) \/ BackendActs(t)
  \/ \E u \in Utxos : Confirm(u)
  \/ \E i \in DOMAIN signed : Mine(i)
  \/ Tick
  \/ Upgrade

Spec == Init /\ [][Next]_vars

-----------------------------------------------------------------------------
(* Properties. *)

PendingTransactions == [id : 1..MaxSends, utxos : SUBSET Utxos, created : 0..MaxClock]

(* Types; the lists of the backend are never empty and keep their limits,   *)
(* and they only hold addresses of their principal.                         *)
TypeOK ==
  /\ DOMAIN pending = Users
  /\ \A u \in Users :
       /\ DOMAIN pending[u] \subseteq {a \in Addresses : OwnerOf[a] = u}
       /\ Cardinality(DOMAIN pending[u]) <= MaxAddresses
       /\ \A a \in DOMAIN pending[u] :
            /\ pending[u][a] \subseteq PendingTransactions
            /\ IsFiniteSet(pending[u][a])
            /\ Cardinality(pending[u][a]) \in 1..MaxPending
  /\ calls \in [Tabs -> [Endpoints -> Calls \cup {NoCall}]]
  /\ wizard \in [Tabs -> [step : WizardSteps, address : Addresses, fee : FeeStates,
                         utxosFee : SUBSET Utxos, tx : 0..MaxSends]]
  /\ store \in [Tabs -> [Addresses -> Statuses]]
  /\ chain \in [Utxos -> {"absent", "unspent", "spent"}]
  /\ Len(signed) <= MaxSends
  /\ \A i \in DOMAIN signed :
       signed[i] \in [address : Addresses, utxos : SUBSET Utxos, at : 0..MaxClock,
                     recorded : 0..MaxClock \cup {Unrecorded}]
  /\ clock \in 0..MaxClock /\ faults \in 0..MaxFaults /\ upgrades \in 0..MaxUpgrades

PendingAt(a) == GetPending(pending[OwnerOf[a]], a)

(* The pending transactions exist "to avoid double spending": two broadcast *)
(* transactions compete for a utxo only if the first one is a day old, the  *)
(* time after which the backend takes it for failed.  This is so as long as *)
(* no transaction stays unrecorded and no record is lost, for the utxos     *)
(* that no list of utxos on its way to the backend is too old to show.      *)
NoDoubleSpend ==
  faults = 0 /\ upgrades = 0 =>
    \A i, j \in DOMAIN signed : \A u \in signed[i].utxos \cap signed[j].utxos \cap Early :
      i < j /\ chain[u] = "unspent" => signed[i].at + Day < signed[j].at

(* A transaction the backend has recorded stays in the list of its address  *)
(* until it is a day old or none of its utxos can be spent any more, of     *)
(* those that every list has shown.                                         *)
Tracked ==
  \A i \in DOMAIN signed :
    \/ signed[i].recorded = Unrecorded
    \/ signed[i].recorded + Day < clock
    \/ \A u \in signed[i].utxos \cap Early : chain[u] = "spent"
    \/ \E tx \in PendingAt(signed[i].address) : tx.id = i

(* "For now we'll disable transactions until they are confirmed": a user    *)
(* with one tab never has two pending transactions of an address, however   *)
(* the calls of closed and reopened wizards interleave, unless the answer   *)
(* to one that was recorded is lost.                                        *)
OnePendingPerTab ==
  faults = 0 =>
    \A a \in Addresses : Cardinality(PendingAt(a)) <= Cardinality({t \in Tabs : UserOf[t] = OwnerOf[a]})
=============================================================================
