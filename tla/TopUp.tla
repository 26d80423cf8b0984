-------------------------------- MODULE TopUp --------------------------------
(***************************************************************************)
(* top_up_cycles_ledger of src/backend/src/signer.rs: the backend keeps the *)
(* account from which it pays the signer above a threshold.  The hourly     *)
(* housekeeping timer and controllers call it; calls overlap at their two   *)
(* awaits, while payments take cycles from the account.                     *)
(***************************************************************************)
EXTENDS Integers

CONSTANTS
  Calls,        \* overlapping calls
  Percentages,  \* of requests, the default among them
  Threshold,    \* of every request
  Cycles,       \* of the backend at first
  Payment,      \* what the signer takes for a signature
  MaxPayments   \* bound

VARIABLES
  backend, ledger,  \* the cycles of the backend, and its account's balance
  calls,
  payments          \* history: payments so far

vars == <<backend, ledger, calls, payments>>

(* TopUpCyclesLedgerResponse, and that of a call without one. *)
NoResponse == [ledger_balance |-> 0, backend_cycles |-> 0, topped_up |-> 0]
Free == [step |-> "free", percentage |-> 0, known |-> 0, response |-> NoResponse]

Init ==
  /\ backend = Cycles /\ ledger = 0 /\ payments = 0
  /\ calls = [c \in Calls |-> Free]

InRange(p) == p \in 1..99

Call(c, p) ==
  /\ calls[c].step = "free"
  /\ calls' = [calls EXCEPT ![c] =
       [Free EXCEPT !.step = IF InRange(p) THEN "asked" ELSE "err", !.percentage = p]]
  /\ UNCHANGED <<backend, ledger, payments>>

(* icrc_1_balance_of, on the ledger. *)
BalanceOf(c) ==
  /\ calls[c].step = "asked"
  /\ calls' = [calls EXCEPT ![c].step = "told", ![c].known = ledger]
  /\ UNCHANGED <<backend, ledger, payments>>

Share(p) == (backend \div 100) * p

(* The cycles leave the backend with the call of deposit. *)
SendCycles(c) ==
  LET toSend == Share(calls[c].percentage) IN
  /\ calls[c].step = "told" /\ calls[c].known < Threshold
  /\ backend' = backend - toSend
  /\ calls' = [calls EXCEPT ![c].step = "sent",
       ![c].response = [NoResponse EXCEPT !.backend_cycles = backend - toSend, !.topped_up = toSend]]
  /\ UNCHANGED <<ledger, payments>>

Sufficient(c) ==
  /\ calls[c].step = "told" /\ calls[c].known >= Threshold
  /\ calls' = [calls EXCEPT ![c].step = "ok",
       ![c].response = [NoResponse EXCEPT !.backend_cycles = calls[c].known]]
  /\ UNCHANGED <<backend, ledger, payments>>

(* deposit, on the ledger; its answer is the new balance. *)
Deposit(c) ==
  LET balance == ledger + calls[c].response.topped_up IN
  /\ calls[c].step = "sent"
  /\ ledger' = balance
  /\ calls' = [calls EXCEPT ![c].step = "ok", ![c].known = balance,
                            ![c].response.ledger_balance = balance]
  /\ UNCHANGED <<backend, payments>>

(* A rejected call; the cycles that were attached to it come back. *)
Reject(c) ==
  /\ calls[c].step \in {"asked", "sent"}
  /\ backend' = backend + calls[c].response.topped_up
  /\ calls' = [calls EXCEPT ![c].step = "err"]
  /\ UNCHANGED <<ledger, payments>>

Return(c) ==
  /\ calls[c].step \in {"ok", "err"}
  /\ calls' = [calls EXCEPT ![c] = Free]
  /\ UNCHANGED <<backend, ledger, payments>>

Pay ==
  /\ payments < MaxPayments /\ ledger >= Payment
  /\ ledger' = ledger - Payment /\ payments' = payments + 1
  /\ UNCHANGED <<backend, calls>>

Next ==
  \/ Pay
  \/ \E c \in Calls :
       \/ \E p \in Percentages : Call(c, p)
       \/ BalanceOf(c) \/ SendCycles(c) \/ Sufficient(c) \/ Deposit(c)
       \/ Reject(c) \/ Return(c)

Spec == Init /\ [][Next]_vars

-----------------------------------------------------------------------------
(* A successful response tells the balance of the account after topping up, *)
(* as the ledger told it to this call (shared/src/types.rs, the comments of *)
(* TopUpCyclesLedgerResponse).                                              *)
ResponseTellsBalance ==
  \A c \in Calls : calls[c].step = "ok" => calls[c].response.ledger_balance = calls[c].known
=============================================================================
