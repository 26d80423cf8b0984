------------------------------ MODULE EthSend ------------------------------
(***************************************************************************)
(* Sending from the user's Ethereum account: send and approve of            *)
(* src/frontend/src/eth/services/send.services.ts, started by the send      *)
(* wizard of a tab or by a WalletConnect request.                           *)
(*                                                                         *)
(* Converting an ERC-20 token to its ckERC-20 twin takes up to three        *)
(* transactions of the account: the allowance of the minter's helper        *)
(* contract is reset, then set, and a deposit uses it.  Their nonces are    *)
(* counted from one call of getTransactionCount, the allowance is read      *)
(* once, and nothing waits for a transaction to be mined.                   *)
(*                                                                         *)
(* Ethereum is external: transactions of an account are executed in the     *)
(* order of their nonces, and one that waits can be replaced by another     *)
(* with the same nonce.                                                     *)
(***************************************************************************)
EXTENDS Integers, FiniteSets

CONSTANTS
  Wallets,   \* where a send can be started: the tabs, WalletConnect requests
  Amounts,   \* amounts of a deposit
  MaxSends,  \* bound: sends
  MaxLost    \* bound: answers of sendTransaction that are lost

ASSUME AmountsAssumption == Amounts \subseteq Nat \ {0}
ASSUME SendsAssumption == MaxSends \in Nat /\ MaxLost \in Nat

VARIABLES
  mined,      \* executed transactions of the account: its nonce in the latest block
  pool,       \* the transactions that wait, by their nonces
  allowance,  \* of the helper contract, in the latest block
  sends,      \* the send of each wallet
  begun,      \* number of sends; each has a number
  done,       \* the sends that reported success
  paid, reverted,  \* the sends whose payment, or any transaction, was executed so
  early,      \* a send began before all transactions of the others were mined
  together,   \* a send began while another one was in progress
  lost

chainVars == <<mined, pool, allowance, paid, reverted>>
userVars == <<begun, early, together>>
vars == <<chainVars, sends, userVars, done, lost>>

-----------------------------------------------------------------------------
Steps == {"idle", "count", "allowance", "reset", "approve", "pay"}
NoSend == [step |-> "idle", deposit |-> FALSE, amount |-> 0, nonce |-> 0, id |-> 0]
Sends ==
  [step : Steps, deposit : BOOLEAN, amount : Amounts \cup {0}, nonce : Nat, id : 0..MaxSends]

(* A payment is the last transaction of a send: a deposit, or any other     *)
(* transfer, whose amount does not matter here.                             *)
Approval(amount, id) == [kind |-> "approve", amount |-> amount, id |-> id]
Deposit(amount, id) == [kind |-> "deposit", amount |-> amount, id |-> id]
Transfer(id) == [kind |-> "transfer", amount |-> 0, id |-> id]
Transactions ==
  [kind : {"approve", "deposit", "transfer"}, amount : Amounts \cup {0}, id : 1..MaxSends]

InProgress(w) == sends[w].step # "idle"

(* Mutation of PendingCount: getTransactionCount(address, 'latest'). *)
LatestCount == mined

(* getTransactionCount(address, 'pending'): the first nonce that is free.   *)
PendingCount ==
  CHOOSE n \in mined..(mined + Cardinality(DOMAIN pool)) :
    n \notin DOMAIN pool /\ \A m \in mined..(n - 1) : m \in DOMAIN pool

(* What a send submits at each of its steps. *)
Prepared(s) ==
  CASE s.step = "reset" -> Approval(0, s.id)
    [] s.step = "approve" -> Approval(s.amount, s.id)
    [] s.step = "pay" -> IF s.deposit THEN Deposit(s.amount, s.id) ELSE Transfer(s.id)

(* Mutation of Following: the transfer counts a reset that may not have been *)
(* there.                                                                    *)
FollowingSkipsNonce(s) ==
  CASE s.step = "reset" -> [s EXCEPT !.step = "approve", !.nonce = @ + 1]
    [] s.step = "approve" -> [s EXCEPT !.step = "pay", !.nonce = @ + 2]
    [] s.step = "pay" -> NoSend

(* nonceApproval and nonceTransaction. *)
Following(s) ==
  CASE s.step = "reset" -> [s EXCEPT !.step = "approve", !.nonce = @ + 1]
    [] s.step = "approve" -> [s EXCEPT !.step = "pay", !.nonce = @ + 1]
    [] s.step = "pay" -> NoSend

Init ==
  /\ mined = 0 /\ pool = [n \in {} |-> Transfer(1)]
  /\ allowance \in Amounts \cup {0}
  /\ sends = [w \in Wallets |-> NoSend]
  /\ begun = 0 /\ done = {} /\ paid = {} /\ reverted = {}
  /\ early = FALSE /\ together = FALSE /\ lost = 0

-----------------------------------------------------------------------------
(* The user confirms the review, or the request of a connected dApp. *)
Begin(w, deposit, amount) ==
  /\ ~InProgress(w) /\ begun < MaxSends
  /\ begun' = begun + 1
  /\ sends' = [sends EXCEPT ![w] =
       [step |-> "count", deposit |-> deposit, amount |-> amount, nonce |-> 0, id |-> begun + 1]]
  /\ together' = (together \/ \E v \in Wallets : InProgress(v))
  /\ early' = (early \/ DOMAIN pool # {} \/ \E v \in Wallets : InProgress(v))
  /\ UNCHANGED <<chainVars, done, lost>>

(* Mutation of CountTransactions: shouldSendWithApproval is not asked. *)
CountAndApprove(w) ==
  /\ sends[w].step = "count"
  /\ sends' = [sends EXCEPT ![w].nonce = PendingCount, ![w].step = "allowance"]
  /\ UNCHANGED <<chainVars, userVars, done, lost>>

(* approve: the nonce; only a deposit looks at the allowance.               *)
CountTransactions(w) ==
  /\ sends[w].step = "count"
  /\ sends' = [sends EXCEPT ![w].nonce = PendingCount,
                            ![w].step = IF sends[w].deposit THEN "allowance" ELSE "pay"]
  /\ UNCHANGED <<chainVars, userVars, done, lost>>

(* Mutation of Check: an allowance that is too small is not reset. *)
CheckWithoutReset(amount) == IF allowance >= amount THEN "pay" ELSE "approve"

(* checkExistingApproval, by the allowance of the latest block. *)
Check(amount) ==
  CASE allowance >= amount -> "pay"
    [] allowance < amount /\ allowance > 0 -> "reset"
    [] OTHER -> "approve"

CheckExistingApproval(w) ==
  /\ sends[w].step = "allowance"
  /\ sends' = [sends EXCEPT ![w].step = Check(sends[w].amount)]
  /\ UNCHANGED <<chainVars, userVars, done, lost>>

(* A transaction is signed, sent, and enters the pool: nobody else uses its *)
(* nonce, or it replaces the one that waits with it.                        *)
Enters(w) ==
  LET s == sends[w]
  IN /\ s.step \in {"reset", "approve", "pay"}
     /\ s.nonce >= mined
     /\ pool' = [n \in DOMAIN pool \cup {s.nonce} |->
                   IF n = s.nonce THEN Prepared(s) ELSE pool[n]]
     /\ UNCHANGED <<mined, allowance, paid, reverted, userVars>>

Submit(w) ==
  /\ Enters(w)
  /\ sends' = [sends EXCEPT ![w] = Following(@)]
  /\ done' = IF sends[w].step = "pay" THEN done \cup {sends[w].id} ELSE done
  /\ UNCHANGED lost

(* It is sent, but the answer gets lost: the send fails. *)
SubmitLost(w) ==
  /\ lost < MaxLost
  /\ Enters(w)
  /\ sends' = [sends EXCEPT ![w] = NoSend]
  /\ lost' = lost + 1
  /\ UNCHANGED done

(* A request is refused by a provider, the signer or the pool: the wizard   *)
(* returns to the review.                                                   *)
Fail(w) ==
  /\ InProgress(w)
  /\ sends' = [sends EXCEPT ![w] = NoSend]
  /\ UNCHANGED <<chainVars, userVars, done, lost>>

(* The next transaction is executed.  An approval over an allowance that is *)
(* not zero may be refused: some tokens do.  A deposit without enough       *)
(* allowance is.                                                            *)
Succeed(tx) ==
  /\ allowance' = CASE tx.kind = "approve" -> tx.amount
                    [] tx.kind = "deposit" -> allowance - tx.amount
                    [] OTHER -> allowance
  /\ paid' = IF tx.kind = "approve" THEN paid ELSE paid \cup {tx.id}
  /\ UNCHANGED reverted
Revert(tx) ==
  /\ reverted' = reverted \cup {tx.id}
  /\ UNCHANGED <<allowance, paid>>

Mine ==
  /\ mined \in DOMAIN pool
  /\ LET tx == pool[mined]
     IN \/ (tx.kind = "deposit" => allowance >= tx.amount) /\ Succeed(tx)
        \/ tx.kind = "approve" /\ tx.amount > 0 /\ allowance > 0 /\ Revert(tx)
        \/ tx.kind = "deposit" /\ allowance < tx.amount /\ Revert(tx)
  /\ mined' = mined + 1
  /\ pool' = [n \in DOMAIN pool \ {mined} |-> pool[n]]
  /\ UNCHANGED <<sends, userVars, done, lost>>

Next ==
  \/ \E w \in Wallets :
       \/ \E amount \in Amounts : Begin(w, TRUE, amount)
       \/ Begin(w, FALSE, 0)
       \/ CountTransactions(w) \/ CheckExistingApproval(w)
       \/ Submit(w) \/ SubmitLost(w) \/ Fail(w)
  \/ Mine

Spec == Init /\ [][Next]_vars

-----------------------------------------------------------------------------
(* Properties. *)

(* Types; and only deposits deal with the allowance.                        *)
TypeOK ==
  /\ mined \in Nat /\ DOMAIN pool \subseteq Nat
  /\ \A n \in DOMAIN pool : pool[n] \in Transactions
  /\ allowance \in Nat
  /\ sends \in [Wallets -> Sends]
  /\ \A w \in Wallets :
       sends[w].step \in {"allowance", "reset", "approve"} => sends[w].deposit
  /\ begun \in 0..MaxSends
  /\ done \subseteq 1..MaxSends /\ paid \subseteq 1..MaxSends /\ reverted \subseteq 1..MaxSends
  /\ early \in BOOLEAN /\ together \in BOOLEAN /\ lost \in 0..MaxLost

(* The nonces of all sends together leave no hole, whatever fails and       *)
(* however they interleave: a transaction behind a hole would wait for ever. *)
NoGap == \A n \in DOMAIN pool : n >= mined /\ \A m \in mined..n : m \in DOMAIN pool

(* "We check if the existing approval (either null or non-null) is enough   *)
(* for the required amount.  If it isn't and it's non-null, we reset it to  *)
(* zero": no transaction of a send reverts, whatever earlier sends have     *)
(* left behind when they failed, as long as they are all mined.             *)
NothingReverts == ~early => reverted = {}

(* A payment that was reported as sent is executed or waits to be, unless   *)
(* two sends were in progress at the same time.                             *)
ReportedIsKept ==
  ~together =>
    \A i \in done : \/ i \in paid \cup reverted
                    \/ \E n \in DOMAIN pool : pool[n].id = i /\ pool[n].kind # "approve"
=============================================================================
