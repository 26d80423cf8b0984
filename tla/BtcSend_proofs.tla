--------------------------- MODULE BtcSend_proofs ---------------------------
(***************************************************************************)
(* Proofs about BtcSend: for any number of tabs, users, addresses, utxos,   *)
(* transactions and failures, and any limits of the pending lists.          *)
(***************************************************************************)
EXTENDS BtcSend, FiniteSetTheorems, TLAPS

-----------------------------------------------------------------------------
(* The map of one principal. *)

IsMap(u, m) ==
  /\ DOMAIN m \subseteq {a \in Addresses : OwnerOf[a] = u}
  /\ Cardinality(DOMAIN m) <= MaxAddresses
  /\ \A a \in DOMAIN m :
       /\ m[a] \subseteq PendingTransactions
       /\ IsFiniteSet(m[a])
       /\ Cardinality(m[a]) \in 1..MaxPending

(* Pruning keeps the transactions that stay pending, of every address.      *)
LEMMA PruneKeeps ==
  ASSUME NEW m, NEW current, NEW now, NEW a
  PROVE  GetPending(Prune(m, current, now), a) =
           {tx \in GetPending(m, a) : StaysPending(tx, current, now)}
  BY DEF GetPending, Prune

(* It keeps the limits, and no empty list.                                  *)
LEMMA PruneTyped ==
  ASSUME NEW u, NEW m, IsMap(u, m), NEW current, NEW now
  PROVE  IsMap(u, Prune(m, current, now))
  <1> DEFINE p == Prune(m, current, now)
  <1>1. /\ DOMAIN p \subseteq DOMAIN m
        /\ \A a \in DOMAIN p : p[a] \subseteq m[a] /\ p[a] # {}
    BY DEF Prune
  <1>2. IsFiniteSet(DOMAIN m)
    BY FS_Subset, OwnersAssumption DEF IsMap
  <1>3. Cardinality(DOMAIN p) <= MaxAddresses
    <2>1. IsFiniteSet(DOMAIN p) /\ Cardinality(DOMAIN p) <= Cardinality(DOMAIN m)
      BY <1>1, <1>2, FS_Subset
    <2>2. Cardinality(DOMAIN p) \in Nat /\ Cardinality(DOMAIN m) \in Nat
      BY <1>2, <2>1, FS_CardinalityType
    <2> QED BY <2>1, <2>2, LimitsAssumption DEF IsMap
  <1>4. ASSUME NEW a \in DOMAIN p
        PROVE  IsFiniteSet(p[a]) /\ Cardinality(p[a]) \in 1..MaxPending
    <2>1. IsFiniteSet(m[a]) /\ Cardinality(m[a]) \in 1..MaxPending
      BY <1>1 DEF IsMap
    <2>2. IsFiniteSet(p[a]) /\ Cardinality(p[a]) <= Cardinality(m[a])
      BY <1>1, <2>1, FS_Subset
    <2>3. Cardinality(p[a]) \in Nat /\ Cardinality(p[a]) # 0
      BY <1>1, <2>2, FS_CardinalityType, FS_EmptySet
    <2> QED BY <2>1, <2>2, <2>3, LimitsAssumption
  <1> QED BY <1>1, <1>3, <1>4 DEF IsMap

(* A transaction is added within the limits.                                *)
LEMMA AddTyped ==
  ASSUME NEW u, NEW m, IsMap(u, m), NEW address \in Addresses, OwnerOf[address] = u,
         NEW tx \in PendingTransactions, MayAdd(m, address)
  PROVE  IsMap(u, Add(m, address, tx))
  <1> DEFINE n == Add(m, address, tx)
  <1>1. /\ DOMAIN n = DOMAIN m \cup {address}
        /\ n[address] = GetPending(m, address) \cup {tx}
        /\ \A a \in DOMAIN m : a # address => n[a] = m[a]
    BY DEF Add
  <1>2. Cardinality(DOMAIN n) <= MaxAddresses
    <2>1. CASE address \in DOMAIN m
      <3>1. DOMAIN n = DOMAIN m
        BY <1>1, <2>1
      <3> QED BY <3>1 DEF IsMap
    <2>2. CASE address \notin DOMAIN m
      <3>1. IsFiniteSet(DOMAIN m)
        BY FS_Subset, OwnersAssumption DEF IsMap
      <3>2. Cardinality(DOMAIN n) = Cardinality(DOMAIN m) + 1
        BY <1>1, <2>2, <3>1, FS_AddElement
      <3> QED BY <2>2, <3>1, <3>2, FS_CardinalityType, LimitsAssumption DEF MayAdd
    <2> QED BY <2>1, <2>2
  <1>3. LET l == GetPending(m, address)
        IN  /\ l \subseteq PendingTransactions /\ IsFiniteSet(l)
            /\ Cardinality(l) \in Nat /\ Cardinality(l) < MaxPending
    <2>1. CASE address \in DOMAIN m
      BY <2>1, FS_CardinalityType DEF IsMap, MayAdd, GetPending
    <2>2. CASE address \notin DOMAIN m
      BY <2>2, FS_EmptySet, LimitsAssumption DEF GetPending
    <2> QED BY <2>1, <2>2
  <1>4. /\ n[address] \subseteq PendingTransactions /\ IsFiniteSet(n[address])
        /\ Cardinality(n[address]) \in 1..MaxPending
    <2>1. /\ IsFiniteSet(n[address])
          /\ Cardinality(n[address]) = Cardinality(GetPending(m, address))
             \/ Cardinality(n[address]) = Cardinality(GetPending(m, address)) + 1
      BY <1>1, <1>3, FS_AddElement
    <2>2. n[address] # {} /\ n[address] \subseteq PendingTransactions
      BY <1>1, <1>3
    <2>3. Cardinality(n[address]) # 0
      BY <2>1, <2>2, FS_EmptySet
    <2> QED BY <1>3, <2>1, <2>2, <2>3, LimitsAssumption
  <1> QED BY <1>1, <1>2, <1>4 DEF IsMap

LEMMA NoPendingTyped == \A u : IsMap(u, NoPending)
  BY FS_EmptySet, LimitsAssumption DEF IsMap, NoPending

-----------------------------------------------------------------------------
(* Types *)

InFlight(c) == c.stage # "none"
Wizard ==
  [step : WizardSteps, address : Addresses, fee : FeeStates, utxosFee : SUBSET Utxos,
   tx : 0..MaxSends]
Signed ==
  [address : Addresses, utxos : SUBSET Utxos, at : 0..MaxClock,
   recorded : 0..MaxClock \cup {Unrecorded}]

(* A call of a tab is for an address of its user; one that records a        *)
(* transaction is about one that has been signed, by the wizard that waits. *)
Calling ==
  \A t \in Tabs :
    /\ OwnerOf[wizard[t].address] = UserOf[t]
    /\ \A e \in Endpoints : InFlight(calls[t][e]) => OwnerOf[calls[t][e].address] = UserOf[t]
    /\ wizard[t].tx # 0 <=> InFlight(calls[t]["add"])
    /\ InFlight(calls[t]["add"]) =>
         /\ calls[t]["add"].tx = wizard[t].tx
         /\ calls[t]["add"].address = wizard[t].address
         /\ wizard[t].tx <= Len(signed)

(* Utxos are selected for the wizard that asked, and spent by what sends.   *)
Wizards ==
  \A t \in Tabs :
    /\ wizard[t].step = "CLOSED" => wizard[t].fee = "unknown"
    /\ wizard[t].fee # "known" => wizard[t].utxosFee = {}
    /\ wizard[t].step = "SENDING" => wizard[t].utxosFee # {}
    /\ wizard[t].tx # 0 => wizard[t].step = "SENDING"
    /\ InFlight(calls[t]["select"]) =>
         /\ wizard[t].fee # "known"
         /\ wizard[t].fee = "asked" => calls[t]["select"].address = wizard[t].address

(* The parts of TypeOK that are not about the map of a principal. *)
Flat ==
  /\ calls \in [Tabs -> [Endpoints -> Calls \cup {NoCall}]]
  /\ wizard \in [Tabs -> Wizard]
  /\ store \in [Tabs -> [Addresses -> Statuses]]
  /\ chain \in [Utxos -> {"absent", "unspent", "spent"}]
  /\ signed \in Seq(Signed) /\ Len(signed) <= MaxSends
  /\ clock \in 0..MaxClock /\ faults \in 0..MaxFaults /\ upgrades \in 0..MaxUpgrades
Maps == DOMAIN pending = Users /\ \A u \in Users : IsMap(u, pending[u])

Inv == Maps /\ Flat /\ Calling /\ Wizards

LEMMA CallTyped ==
  /\ ~InFlight(NoCall)
  /\ \A c \in Calls \cup {NoCall} : InFlight(c) => c \in Calls
  /\ \A c \in Calls : InFlight(c)
  BY DEF InFlight, Calls, NoCall, Stages

LEMMA RequestTyped ==
  ASSUME calls \in [Tabs -> [Endpoints -> Calls \cup {NoCall}]], clock \in 0..MaxClock,
         NEW t \in Tabs, NEW e \in Endpoints, NEW a \in Addresses, NEW tx \in 0..MaxSends
  PROVE  /\ Request(t, e, a, tx) \in [Tabs -> [Endpoints -> Calls \cup {NoCall}]]
         /\ \A s \in Tabs, d \in Endpoints :
              s # t \/ d # e => Request(t, e, a, tx)[s][d] = calls[s][d]
         /\ Request(t, e, a, tx)[t][e] \in Calls
         /\ Request(t, e, a, tx)[t][e].address = a
         /\ Request(t, e, a, tx)[t][e].tx = tx
         /\ Request(t, e, a, tx)[t][e].stage = "asked"
         /\ Request(t, e, a, tx)[t][e].now <= clock
  <1> DEFINE c == [stage |-> "asked", address |-> a, utxos |-> {},
                   now |-> IF e = "get" THEN clock ELSE 0, tx |-> tx]
  <1>1. c \in Calls /\ c.now <= clock
    BY BoundsAssumption DEF Calls, Stages
  <1>2. Request(t, e, a, tx) = [calls EXCEPT ![t][e] = c]
    BY DEF Request
  <1> QED BY <1>1, <1>2

LEMMA FinishedTyped ==
  ASSUME calls \in [Tabs -> [Endpoints -> Calls \cup {NoCall}]], NEW t \in Tabs, NEW e \in Endpoints
  PROVE  /\ Finished(t, e) \in [Tabs -> [Endpoints -> Calls \cup {NoCall}]]
         /\ \A s \in Tabs, d \in Endpoints :
              s # t \/ d # e => Finished(t, e)[s][d] = calls[s][d]
         /\ Finished(t, e)[t][e] = NoCall
  BY DEF Finished

LEMMA InvInit == Init => Inv
  <1> SUFFICES ASSUME Init PROVE Inv
    OBVIOUS
  <1>1. Maps
    BY NoPendingTyped DEF Init, Maps
  <1>2. Flat
    <2>1. 0 \in 0..MaxClock /\ 0 \in 0..MaxFaults /\ 0 \in 0..MaxUpgrades /\ 0 \in 0..MaxSends
      BY BoundsAssumption
    <2>2. signed \in Seq(Signed) /\ Len(signed) <= MaxSends
      BY <2>1 DEF Init
    <2>3. wizard \in [Tabs -> Wizard]
      BY <2>1 DEF Init, ClosedWizard, Wizard, WizardSteps, FeeStates
    <2> QED BY <2>1, <2>2, <2>3, OwnersAssumption DEF Init, Flat, Statuses
  <1>3. Calling /\ Wizards
    BY CallTyped DEF Init, Calling, Wizards, ClosedWizard, Endpoints
  <1> QED BY <1>1, <1>2, <1>3 DEF Inv

(* What a user does changes no map; selected utxos that a wizard keeps stay *)
(* those of the address.                                                    *)
LEMMA UserTyped ==
  ASSUME Inv, NEW t \in Tabs, UserActs(t)
  PROVE  /\ Inv' /\ UNCHANGED <<pending, signed, faults, outside>>
         /\ \A s \in Tabs : s # t =>
              wizard'[s] = wizard[s] /\ \A e \in Endpoints : calls'[s][e] = calls[s][e]
         /\ calls'[t]["add"] = calls[t]["add"]
         /\ \A e \in Endpoints : \/ calls'[t][e] = calls[t][e]
                                 \/ calls'[t][e].stage = "asked" /\ calls'[t][e].now <= clock
         /\ \/ wizard'[t].utxosFee = {}
            \/ /\ wizard'[t].utxosFee = wizard[t].utxosFee
               /\ wizard'[t].address = wizard[t].address
  <1>1. PICK w \in Wizard :
          /\ wizard' = [wizard EXCEPT ![t] = w]
          /\ OwnerOf[w.address] = UserOf[t]
          /\ w.tx = 0 <=> wizard[t].tx = 0
          /\ w.tx # 0 => w = wizard[t]
          /\ w.step = "CLOSED" => w.fee = "unknown"
          /\ w.fee # "known" => w.utxosFee = {}
          /\ w.step = "SENDING" => w.utxosFee # {}
          /\ \/ w.utxosFee = {}
             \/ w.utxosFee = wizard[t].utxosFee /\ w.address = wizard[t].address
          /\ \/ w.fee = "unknown" /\ w.utxosFee = {}
             \/ w.fee = wizard[t].fee /\ w.address = wizard[t].address
             \/ w.fee = "asked" /\ calls' = Request(t, "select", w.address, 0)
          /\ \/ calls' = calls
             \/ calls' = Request(t, "get", w.address, 0)
             \/ calls' = Request(t, "select", w.address, 0) /\ w.fee = "asked"
    <2>1. wizard \in [Tabs -> Wizard] /\ wizard[t] \in Wizard
      BY DEF Inv, Flat
    <2>2. OwnerOf[wizard[t].address] = UserOf[t]
      BY DEF Inv, Calling
    <2>3. /\ wizard[t].tx # 0 => wizard[t].step = "SENDING"
          /\ wizard[t].fee # "known" => wizard[t].utxosFee = {}
      BY DEF Inv, Wizards
    <2>4. 0 \in 0..MaxSends
      BY BoundsAssumption
    <2>5. CASE Open(t)
      <3>1. PICK a \in Addresses : OwnerOf[a] = UserOf[t] /\ ShowForm(t, ClosedWizard(a))
        BY <2>5 DEF Open
      <3> DEFINE w == [ClosedWizard(a) EXCEPT !.step = "SEND"]
      <3>2. /\ w \in Wizard /\ w.address = a /\ w.fee = "unknown" /\ w.utxosFee = {}
            /\ w.tx = 0 /\ w.step = "SEND"
        BY <2>4 DEF Wizard, WizardSteps, FeeStates, ClosedWizard
      <3>3. wizard' = [wizard EXCEPT ![t] = w] /\ calls' = Request(t, "get", w.address, 0)
        BY <3>1 DEF ShowForm, ClosedWizard
      <3>4. wizard[t].tx = 0
        BY <2>3, <2>5 DEF Open
      <3> QED BY <3>1, <3>2, <3>3, <3>4
    <2>6. CASE Review(t)
      <3>1. CASE wizard[t].fee = "known"
        <4> DEFINE w == [wizard[t] EXCEPT !.step = "REVIEW"]
        <4>1. w \in Wizard
          BY <2>1 DEF Wizard, WizardSteps
        <4>2. wizard' = [wizard EXCEPT ![t] = w] /\ calls' = calls
          BY <2>1, <2>6, <3>1 DEF Review
        <4> QED BY <2>1, <2>2, <2>3, <2>6, <3>1, <4>1, <4>2 DEF Review, Wizard
      <3>2. CASE wizard[t].fee # "known"
        <4> DEFINE w == [wizard[t] EXCEPT !.step = "REVIEW", !.fee = "asked"]
        <4>1. /\ w \in Wizard /\ w.step = "REVIEW" /\ w.fee = "asked"
              /\ w.address = wizard[t].address /\ w.utxosFee = wizard[t].utxosFee
              /\ w.tx = wizard[t].tx
          BY <2>1 DEF Wizard, WizardSteps, FeeStates
        <4>2. wizard' = [wizard EXCEPT ![t] = w] /\ calls' = Request(t, "select", w.address, 0)
          BY <2>1, <2>6, <3>2, <4>1 DEF Review
        <4>3. wizard[t].tx = 0 /\ wizard[t].utxosFee = {}
          BY <2>3, <2>6, <3>2 DEF Review
        <4> QED BY <2>2, <4>1, <4>2, <4>3
      <3> QED BY <3>1, <3>2
    <2>7. CASE Back(t)
      <3> DEFINE w == [wizard[t] EXCEPT !.step = "SEND"]
      <3>1. /\ w \in Wizard /\ w.step = "SEND" /\ w.fee = wizard[t].fee
            /\ w.address = wizard[t].address /\ w.utxosFee = wizard[t].utxosFee
            /\ w.tx = wizard[t].tx
        BY <2>1 DEF Wizard, WizardSteps
      <3>2. wizard' = [wizard EXCEPT ![t] = w] /\ calls' = Request(t, "get", w.address, 0)
        BY <2>7, <3>1 DEF Back, ShowForm
      <3>3. wizard[t].tx = 0
        BY <2>3, <2>7 DEF Back
      <3> QED BY <2>2, <2>3, <3>1, <3>2, <3>3
    <2>8. CASE Close(t)
      <3> DEFINE w == ClosedWizard(wizard[t].address)
      <3>1. w \in Wizard
        BY <2>1, <2>4 DEF Wizard, WizardSteps, FeeStates, ClosedWizard
      <3> QED BY <2>1, <2>2, <2>3, <2>8, <3>1 DEF Close, ClosedWizard
    <2>9. CASE Send(t)
      <3> DEFINE w == [wizard[t] EXCEPT !.step = "SENDING"]
      <3>1. w \in Wizard
        BY <2>1 DEF Wizard, WizardSteps
      <3> QED BY <2>1, <2>2, <2>3, <2>9, <3>1 DEF Send, Wizard
    <2> QED BY <2>5, <2>6, <2>7, <2>8, <2>9 DEF UserActs
  <1>2. UNCHANGED <<pending, store, signed, faults, outside>>
    BY DEF UserActs, Open, Review, Back, Close, Send, ShowForm
  <1>3. 0 \in 0..MaxSends /\ w.address \in Addresses /\ {"get", "select", "add"} = Endpoints
    BY BoundsAssumption DEF Wizard, Endpoints
  <1>4. /\ calls \in [Tabs -> [Endpoints -> Calls \cup {NoCall}]] /\ clock \in 0..MaxClock
        /\ "get" \in Endpoints /\ "select" \in Endpoints
    BY DEF Inv, Flat, Endpoints
  <1>5. wizard' \in [Tabs -> Wizard] /\ \A s \in Tabs : wizard'[s] = IF s = t THEN w ELSE wizard[s]
    BY <1>1 DEF Inv, Flat
  <1>6. /\ calls' \in [Tabs -> [Endpoints -> Calls \cup {NoCall}]]
        /\ \A s \in Tabs : s # t => \A e \in Endpoints : calls'[s][e] = calls[s][e]
        /\ calls'[t]["add"] = calls[t]["add"]
        /\ \A e \in Endpoints : \/ calls'[t][e] = calls[t][e]
                                \/ /\ InFlight(calls'[t][e]) /\ calls'[t][e].address = w.address
                                   /\ calls'[t][e].stage = "asked" /\ calls'[t][e].now <= clock
        /\ InFlight(calls'[t]["select"]) =>
             /\ w.fee # "known"
             /\ w.fee = "asked" => calls'[t]["select"].address = w.address
    <2>1. InFlight(calls[t]["select"]) =>
            /\ wizard[t].fee # "known"
            /\ wizard[t].fee = "asked" => calls[t]["select"].address = wizard[t].address
      BY DEF Inv, Wizards
    <2>2. CASE calls' = calls
      <3>1. calls' # Request(t, "select", w.address, 0) \/ calls[t]["select"].address = w.address
        BY <1>3, <1>4, <2>2, RequestTyped
      <3>2. InFlight(calls[t]["select"]) =>
              /\ w.fee # "known"
              /\ w.fee = "asked" => calls[t]["select"].address = w.address
        BY <1>1, <2>1, <3>1
      <3> QED BY <1>4, <2>2, <3>2
    <2>3. CASE calls' = Request(t, "get", w.address, 0)
      <3>1. /\ calls' \in [Tabs -> [Endpoints -> Calls \cup {NoCall}]]
            /\ \A s \in Tabs, d \in Endpoints : s # t \/ d # "get" => calls'[s][d] = calls[s][d]
            /\ calls'[t]["get"] \in Calls /\ calls'[t]["get"].address = w.address
            /\ calls'[t]["get"].stage = "asked" /\ calls'[t]["get"].now <= clock
        BY <1>3, <1>4, <2>3, RequestTyped
      <3>2. InFlight(calls'[t]["select"]) =>
              /\ w.fee # "known"
              /\ w.fee = "asked" => calls'[t]["select"].address = w.address
        <4>1. calls'[t]["select"] = calls[t]["select"]
          BY <1>4, <3>1
        <4>2. calls' # Request(t, "select", w.address, 0) \/ calls'[t]["select"].address = w.address
          BY <1>3, <1>4, RequestTyped
        <4> QED BY <1>1, <2>1, <4>1, <4>2
      <3>3. InFlight(calls'[t]["get"])
        BY <3>1, CallTyped
      <3>4. {"get", "select", "add"} = Endpoints
        BY <1>3
      <3> QED BY <2>3, <3>1, <3>2, <3>3, <3>4
    <2>4. CASE calls' = Request(t, "select", w.address, 0) /\ w.fee = "asked"
      <3>1. /\ calls' \in [Tabs -> [Endpoints -> Calls \cup {NoCall}]]
            /\ \A s \in Tabs, d \in Endpoints : s # t \/ d # "select" => calls'[s][d] = calls[s][d]
            /\ calls'[t]["select"] \in Calls /\ calls'[t]["select"].address = w.address
            /\ calls'[t]["select"].stage = "asked" /\ calls'[t]["select"].now <= clock
        BY <1>3, <1>4, <2>4, RequestTyped
      <3>3. InFlight(calls'[t]["select"])
        BY <3>1, CallTyped
      <3>4. {"get", "select", "add"} = Endpoints
        BY <1>3
      <3> QED BY <2>4, <3>1, <3>3, <3>4
    <2> QED BY <1>1, <2>2, <2>3, <2>4
  <1>7. Maps' /\ Flat'
    BY <1>2, <1>5, <1>6 DEF Inv, Maps, Flat, outside
  <1>8. Calling'
    <2>1. /\ OwnerOf[w.address] = UserOf[t]
          /\ w.tx = 0 <=> wizard[t].tx = 0
          /\ w.tx # 0 => w = wizard[t]
      BY <1>1
    <2> QED BY <1>2, <1>5, <1>6, <2>1 DEF Inv, Calling, InFlight, Endpoints
  <1>9. Wizards'
    <2>1. /\ w.step = "CLOSED" => w.fee = "unknown"
          /\ w.fee # "known" => w.utxosFee = {}
          /\ w.step = "SENDING" => w.utxosFee # {}
          /\ w.tx # 0 => w = wizard[t]
      BY <1>1
    <2> QED BY <1>5, <1>6, <2>1 DEF Inv, Wizards, InFlight, Endpoints
  <1>10. \/ wizard'[t].utxosFee = {}
         \/ wizard'[t].utxosFee = wizard[t].utxosFee /\ wizard'[t].address = wizard[t].address
    BY <1>1, <1>5
  <1> QED BY <1>2, <1>5, <1>6, <1>7, <1>8, <1>9, <1>10 DEF Inv

(* What a step has to say of the tab that takes it. *)
TabOk(t) ==
  /\ OwnerOf[wizard[t].address] = UserOf[t]
  /\ \A e \in Endpoints : InFlight(calls[t][e]) => OwnerOf[calls[t][e].address] = UserOf[t]
  /\ wizard[t].tx # 0 <=> InFlight(calls[t]["add"])
  /\ InFlight(calls[t]["add"]) =>
       /\ calls[t]["add"].tx = wizard[t].tx
       /\ calls[t]["add"].address = wizard[t].address
       /\ wizard[t].tx <= Len(signed)
  /\ wizard[t].step = "CLOSED" => wizard[t].fee = "unknown"
  /\ wizard[t].fee # "known" => wizard[t].utxosFee = {}
  /\ wizard[t].step = "SENDING" => wizard[t].utxosFee # {}
  /\ wizard[t].tx # 0 => wizard[t].step = "SENDING"
  /\ InFlight(calls[t]["select"]) =>
       /\ wizard[t].fee # "known"
       /\ wizard[t].fee = "asked" => calls[t]["select"].address = wizard[t].address

LEMMA TabsOk == Inv => \A t \in Tabs : TabOk(t)
  BY DEF Inv, Calling, Wizards, TabOk

LEMMA TabStep ==
  ASSUME Inv, NEW t \in Tabs,
         \A s \in Tabs : s # t =>
           /\ wizard'[s] = wizard[s]
           /\ \A e \in Endpoints : calls'[s][e] = calls[s][e],
         Len(signed) \in Nat, Len(signed') \in Nat, Len(signed) <= Len(signed'),
         TabOk(t)'
  PROVE  Calling' /\ Wizards'
  <1>1. ASSUME NEW s \in Tabs, s # t PROVE TabOk(s)'
    <2>1. /\ TabOk(s) /\ wizard'[s] = wizard[s]
          /\ \A e \in Endpoints : calls'[s][e] = calls[s][e]
          /\ wizard[s].tx \in Nat /\ "add" \in Endpoints /\ "select" \in Endpoints
      BY <1>1, TabsOk, BoundsAssumption DEF Inv, Flat, Wizard, Endpoints
    <2>2. wizard[s].tx <= Len(signed) => wizard[s].tx <= Len(signed')
      BY <2>1
    <2> QED BY <2>1, <2>2 DEF TabOk, InFlight
  <1>2. \A s \in Tabs : TabOk(s)'
    BY <1>1
  <1> QED BY <1>2 DEF TabOk, Calling, Wizards

(* The signer and the answers to the wizard that waits for it. *)
LEMMA SignTyped ==
  ASSUME Inv, NEW t \in Tabs, wizard[t].step = "SENDING", Len(signed) < MaxSends, Sign(t)
  PROVE  /\ signed' \in Seq(Signed) /\ Len(signed') <= MaxSends
         /\ Len(signed') = Len(signed) + 1 /\ Len(signed) \in Nat
         /\ Len(signed') \in 0..MaxSends
         /\ \A i \in 1..Len(signed) : signed'[i] = signed[i]
         /\ signed'[Len(signed')] = [address |-> wizard[t].address, utxos |-> wizard[t].utxosFee,
                                     at |-> clock, recorded |-> Unrecorded]
  <1> DEFINE tx == [address |-> wizard[t].address, utxos |-> wizard[t].utxosFee,
                    at |-> clock, recorded |-> Unrecorded]
  <1>1. tx \in Signed /\ signed \in Seq(Signed)
    BY DEF Inv, Flat, Wizard, Signed
  <1>2. signed' = Append(signed, tx)
    BY DEF Sign
  <1>3. /\ signed' \in Seq(Signed) /\ Len(signed') = Len(signed) + 1 /\ Len(signed) \in Nat
        /\ \A i \in 1..Len(signed) : signed'[i] = signed[i]
        /\ signed'[Len(signed) + 1] = tx
    BY <1>1, <1>2
  <1> QED BY <1>3, BoundsAssumption

LEMMA FailSendTyped ==
  ASSUME Inv, NEW t \in Tabs, FailSend(t)
  PROVE  /\ wizard' \in [Tabs -> Wizard]
         /\ \A s \in Tabs : s # t => wizard'[s] = wizard[s]
         /\ wizard'[t] = [wizard[t] EXCEPT !.step = "REVIEW", !.tx = 0]
         /\ wizard'[t].address = wizard[t].address /\ wizard'[t].utxosFee = wizard[t].utxosFee
         /\ wizard'[t].fee = wizard[t].fee /\ wizard'[t].step = "REVIEW" /\ wizard'[t].tx = 0
  <1>1. 0 \in 0..MaxSends /\ wizard \in [Tabs -> Wizard] /\ "REVIEW" \in WizardSteps
    BY BoundsAssumption DEF Inv, Flat, WizardSteps
  <1>2. wizard' = [wizard EXCEPT ![t] = [wizard[t] EXCEPT !.step = "REVIEW", !.tx = 0]]
    BY DEF FailSend
  <1>3. [wizard[t] EXCEPT !.step = "REVIEW", !.tx = 0] \in Wizard
    BY <1>1 DEF Wizard
  <1> QED BY <1>1, <1>2, <1>3 DEF Wizard

(* A wizard that goes back to its review with no call to record anything.   *)
LEMMA FailedOk ==
  ASSUME Inv, NEW t \in Tabs, FailSend(t), wizard[t].step = "SENDING",
         calls'[t]["select"] = calls[t]["select"], ~InFlight(calls'[t]["add"]),
         \A e \in Endpoints : InFlight(calls'[t][e]) => calls'[t][e] = calls[t][e]
  PROVE  TabOk(t)'
  <1>1. TabOk(t) /\ "select" \in Endpoints /\ "add" \in Endpoints
    BY TabsOk DEF Endpoints
  <1>2. /\ wizard'[t].address = wizard[t].address /\ wizard'[t].step = "REVIEW"
        /\ wizard'[t].tx = 0 /\ wizard'[t].utxosFee = wizard[t].utxosFee
        /\ wizard'[t].fee = wizard[t].fee
    BY FailSendTyped
  <1>3. ~InFlight(calls'[t]["select"])
    BY <1>1 DEF TabOk, InFlight
  <1>4. /\ OwnerOf[wizard'[t].address] = UserOf[t]
        /\ \A e \in Endpoints : InFlight(calls'[t][e]) => OwnerOf[calls'[t][e].address] = UserOf[t]
    BY <1>1, <1>2 DEF TabOk, InFlight
  <1>5. wizard'[t].fee # "known" => wizard'[t].utxosFee = {}
    BY <1>1, <1>2 DEF TabOk
  <1> QED BY <1>2, <1>3, <1>4, <1>5 DEF TabOk, InFlight

LEMMA SignerTyped ==
  ASSUME Inv, NEW t \in Tabs, SignerActs(t)
  PROVE  /\ Inv' /\ UNCHANGED <<pending, outside>> /\ wizard[t].step = "SENDING"
         /\ ~InFlight(calls[t]["add"]) /\ wizard[t].utxosFee # {}
         /\ \A s \in Tabs : /\ wizard'[s].address = wizard[s].address
                             /\ wizard'[s].utxosFee = wizard[s].utxosFee
                             /\ \A e \in Endpoints :
                                  s # t \/ e # "add" => calls'[s][e] = calls[s][e]
         /\ \/ signed' = signed /\ calls' = calls
            \/ /\ Len(signed') = Len(signed) + 1
               /\ \A i \in 1..Len(signed) : signed'[i] = signed[i]
               /\ signed'[Len(signed')] = [address |-> wizard[t].address,
                                           utxos |-> wizard[t].utxosFee,
                                           at |-> clock, recorded |-> Unrecorded]
               /\ \/ faults' = faults + 1 /\ calls' = calls
                  \/ /\ InFlight(calls'[t]["add"]) /\ calls'[t]["add"].tx = Len(signed')
                     /\ calls'[t]["add"].stage = "asked" /\ calls'[t]["add"].now <= clock
  <1>1. Signing(t) /\ wizard[t].step = "SENDING" /\ wizard[t].tx = 0
        /\ UNCHANGED <<pending, store, outside>>
    BY DEF SignerActs, SignerSends, SignerAnswerLost, SignerRefuses, Signing
  <1>2. /\ TabOk(t) /\ ~InFlight(calls[t]["add"]) /\ ~InFlight(calls[t]["select"])
        /\ "add" \in Endpoints
    BY <1>1, TabsOk DEF TabOk, Endpoints
  <1>3. Maps'
    BY <1>1 DEF Inv, Maps
  <1>4. /\ calls \in [Tabs -> [Endpoints -> Calls \cup {NoCall}]] /\ clock \in 0..MaxClock
        /\ wizard \in [Tabs -> Wizard] /\ wizard[t] \in Wizard
        /\ Len(signed) \in Nat
    BY DEF Inv, Flat
  <1>5. CASE SignerSends(t)
    <2> DEFINE w == [wizard[t] EXCEPT !.tx = Len(signed) + 1]
    <2>1. /\ Len(signed') = Len(signed) + 1 /\ Len(signed) + 1 \in 0..MaxSends
          /\ signed' \in Seq(Signed) /\ Len(signed') <= MaxSends
          /\ \A i \in 1..Len(signed) : signed'[i] = signed[i]
          /\ signed'[Len(signed')] = [address |-> wizard[t].address, utxos |-> wizard[t].utxosFee,
                                      at |-> clock, recorded |-> Unrecorded]
      BY <1>1, <1>5, SignTyped DEF SignerSends
    <2>2. /\ wizard' \in [Tabs -> Wizard]
          /\ \A s \in Tabs : s # t => wizard'[s] = wizard[s]
          /\ wizard'[t].tx = Len(signed) + 1 /\ wizard'[t].step = "SENDING"
          /\ wizard'[t].address = wizard[t].address /\ wizard'[t].utxosFee = wizard[t].utxosFee
          /\ wizard'[t].fee = wizard[t].fee
      <3>1. w \in Wizard /\ wizard' = [wizard EXCEPT ![t] = w]
        BY <1>4, <1>5, <2>1 DEF SignerSends, Wizard
      <3> QED BY <1>1, <1>4, <3>1 DEF Wizard
    <2>3. /\ calls' \in [Tabs -> [Endpoints -> Calls \cup {NoCall}]]
          /\ \A s \in Tabs, d \in Endpoints : s # t \/ d # "add" => calls'[s][d] = calls[s][d]
          /\ calls'[t]["add"] \in Calls
          /\ calls'[t]["add"].address = wizard[t].address
          /\ calls'[t]["add"].tx = Len(signed) + 1
          /\ calls'[t]["add"].stage = "asked" /\ calls'[t]["add"].now <= clock
      <3>1. wizard[t].address \in Addresses /\ calls' = Request(t, "add", wizard[t].address, Len(signed) + 1)
        BY <1>4, <1>5 DEF SignerSends, Wizard
      <3> QED BY <1>2, <1>4, <2>1, <3>1, RequestTyped
    <2>4. TabOk(t)'
      <3>1. InFlight(calls'[t]["add"]) /\ calls'[t]["select"] = calls[t]["select"]
        BY <2>3, CallTyped DEF Endpoints
      <3>2. /\ OwnerOf[wizard'[t].address] = UserOf[t]
            /\ \A e \in Endpoints : InFlight(calls'[t][e]) => OwnerOf[calls'[t][e].address] = UserOf[t]
        BY <1>2, <2>2, <2>3 DEF TabOk, InFlight
      <3>3. wizard'[t].tx # 0 /\ wizard'[t].tx <= Len(signed') /\ wizard[t].utxosFee # {}
        BY <1>1, <1>2, <1>4, <2>1, <2>2 DEF TabOk
      <3>4. ~InFlight(calls'[t]["select"])
        BY <1>2, <3>1 DEF InFlight
      <3>5. wizard'[t].fee # "known" => wizard'[t].utxosFee = {}
        BY <1>2, <2>2 DEF TabOk
      <3> QED BY <2>2, <2>3, <3>1, <3>2, <3>3, <3>4, <3>5 DEF TabOk, InFlight
    <2>5. Calling' /\ Wizards'
      BY <1>4, <2>1, <2>2, <2>3, <2>4, TabStep
    <2>6. Flat'
      BY <1>1, <1>5, <2>1, <2>2, <2>3 DEF Inv, Flat, SignerSends, outside
    <2>7. InFlight(calls'[t]["add"])
      BY <2>3, CallTyped
    <2>8. /\ calls'[t]["add"].tx = Len(signed') /\ wizard[t].utxosFee # {}
      BY <1>1, <1>2, <2>1, <2>3 DEF TabOk
    <2> QED BY <1>1, <1>2, <1>3, <2>1, <2>2, <2>3, <2>5, <2>6, <2>7, <2>8 DEF Inv
  <1>6. CASE SignerAnswerLost(t) \/ SignerRefuses(t)
    <2>1. FailSend(t) /\ UNCHANGED calls
      BY <1>6 DEF SignerAnswerLost, SignerRefuses
    <2>2. /\ signed' \in Seq(Signed) /\ Len(signed') <= MaxSends
          /\ Len(signed') \in Nat /\ Len(signed) <= Len(signed')
      <3>1. CASE SignerAnswerLost(t)
        <4>1. Sign(t) /\ Len(signed) < MaxSends
          BY <3>1 DEF SignerAnswerLost
        <4>2. /\ signed' \in Seq(Signed) /\ Len(signed') <= MaxSends
              /\ Len(signed') = Len(signed) + 1
          BY <1>1, <4>1, SignTyped
        <4> QED BY <1>4, <4>2
      <3>2. CASE SignerRefuses(t)
        <4>1. signed' = signed
          BY <3>2 DEF SignerRefuses
        <4>2. signed \in Seq(Signed) /\ Len(signed) <= MaxSends
          BY DEF Inv, Flat
        <4> QED BY <1>4, <4>1, <4>2
      <3> QED BY <1>6, <3>1, <3>2
    <2>3. TabOk(t)'
      BY <1>1, <1>2, <2>1, FailedOk
    <2>4. Calling' /\ Wizards'
      BY <1>4, <2>1, <2>2, <2>3, FailSendTyped, TabStep
    <2>5. Flat'
      <3>1. faults' \in 0..MaxFaults
        BY <1>6, BoundsAssumption DEF SignerAnswerLost, SignerRefuses, Inv, Flat
      <3> QED BY <1>1, <2>1, <2>2, <3>1, FailSendTyped DEF Inv, Flat, outside
    <2>6. \A s \in Tabs : /\ wizard'[s].address = wizard[s].address
                          /\ wizard'[s].utxosFee = wizard[s].utxosFee
      BY <2>1, FailSendTyped
    <2>7. wizard[t].utxosFee # {}
      BY <1>1, <1>2 DEF TabOk
    <2>8. CASE SignerAnswerLost(t)
      <3>1. Sign(t) /\ Len(signed) < MaxSends /\ faults' = faults + 1
        BY <2>8 DEF SignerAnswerLost
      <3> QED BY <1>1, <1>2, <1>3, <2>1, <2>4, <2>5, <2>6, <2>7, <3>1, SignTyped DEF Inv
    <2>9. CASE SignerRefuses(t)
      <3>1. signed' = signed
        BY <2>9 DEF SignerRefuses
      <3> QED BY <1>1, <1>2, <1>3, <2>1, <2>4, <2>5, <2>6, <2>7, <3>1 DEF Inv
    <2> QED BY <1>6, <2>8, <2>9
  <1> QED BY <1>5, <1>6 DEF SignerActs

(* A selection is over: the wizard that asked for it, if it still shows,    *)
(* learns of its utxos.                                                     *)
LEMMA SelectedTyped ==
  ASSUME Inv, NEW t \in Tabs, InFlight(calls[t]["select"]),
         NEW fee \in {"unknown", "known"}, NEW utxos \in SUBSET Utxos,
         Selected(t, fee, utxos), fee = "unknown" => utxos = {}
  PROVE  /\ calls' \in [Tabs -> [Endpoints -> Calls \cup {NoCall}]]
         /\ wizard' \in [Tabs -> Wizard]
         /\ \A s \in Tabs : s # t => wizard'[s] = wizard[s]
         /\ \A s \in Tabs, d \in Endpoints : s # t \/ d # "select" => calls'[s][d] = calls[s][d]
         /\ calls'[t]["select"] = NoCall
         /\ wizard'[t].address = wizard[t].address
         /\ wizard'[t].tx = wizard[t].tx /\ wizard'[t].tx = 0
         /\ wizard'[t].step = wizard[t].step /\ wizard'[t].step # "SENDING"
         /\ \/ wizard'[t] = wizard[t] /\ wizard[t].utxosFee = {}
            \/ /\ wizard[t].fee = "asked" /\ wizard[t].step # "CLOSED"
               /\ calls[t]["select"].address = wizard[t].address
               /\ wizard'[t].fee = fee /\ wizard'[t].utxosFee = utxos
  <1>1. /\ calls \in [Tabs -> [Endpoints -> Calls \cup {NoCall}]]
        /\ wizard \in [Tabs -> Wizard] /\ wizard[t] \in Wizard
        /\ "select" \in Endpoints /\ TabOk(t)
    BY TabsOk DEF Inv, Flat, Endpoints
  <1>2. /\ wizard[t].utxosFee = {} /\ wizard[t].step # "SENDING" /\ wizard[t].tx = 0
        /\ wizard[t].fee = "asked" => /\ wizard[t].step # "CLOSED"
                                      /\ calls[t]["select"].address = wizard[t].address
    BY <1>1 DEF TabOk
  <1>3. /\ calls' \in [Tabs -> [Endpoints -> Calls \cup {NoCall}]]
        /\ \A s \in Tabs, d \in Endpoints : s # t \/ d # "select" => calls'[s][d] = calls[s][d]
        /\ calls'[t]["select"] = NoCall
    BY <1>1, FinishedTyped DEF Selected
  <1>4. CASE wizard[t].fee = "asked"
    <2> DEFINE w == [wizard[t] EXCEPT !.fee = fee, !.utxosFee = utxos]
    <2>1. /\ w \in Wizard /\ w.fee = fee /\ w.utxosFee = utxos /\ w.step = wizard[t].step
          /\ w.address = wizard[t].address /\ w.tx = wizard[t].tx
      BY <1>1 DEF Wizard, FeeStates
    <2>2. wizard' = [wizard EXCEPT ![t] = w]
      BY <1>1, <1>4 DEF Selected
    <2>3. /\ wizard' \in [Tabs -> Wizard] /\ wizard'[t] = w
          /\ \A s \in Tabs : s # t => wizard'[s] = wizard[s]
      BY <1>1, <2>1, <2>2
    <2> QED BY <1>2, <1>3, <1>4, <2>1, <2>3
  <1>5. CASE wizard[t].fee # "asked"
    <2>1. wizard' = wizard
      BY <1>5 DEF Selected
    <2> QED BY <1>1, <1>2, <1>3, <2>1
  <1> QED BY <1>4, <1>5

LEMMA SelectedOk ==
  ASSUME Inv, NEW t \in Tabs, InFlight(calls[t]["select"]), UNCHANGED signed,
         NEW fee \in {"unknown", "known"}, NEW utxos \in SUBSET Utxos,
         Selected(t, fee, utxos), fee = "unknown" => utxos = {}
  PROVE  Calling' /\ Wizards'
  <1>1. TabOk(t) /\ Endpoints = {"get", "select", "add"} /\ Len(signed) \in Nat
    BY TabsOk DEF Endpoints, Inv, Flat
  <1>2. /\ calls'[t]["get"] = calls[t]["get"] /\ calls'[t]["add"] = calls[t]["add"]
        /\ ~InFlight(calls'[t]["select"])
    BY <1>1, SelectedTyped, CallTyped
  <1>3. /\ wizard'[t].address = wizard[t].address /\ wizard'[t].tx = wizard[t].tx
        /\ wizard'[t].step = wizard[t].step /\ wizard'[t].step # "SENDING"
        /\ wizard'[t].tx = 0
    BY SelectedTyped
  <1>4. /\ wizard'[t].step = "CLOSED" => wizard'[t].fee = "unknown"
        /\ wizard'[t].fee # "known" => wizard'[t].utxosFee = {}
    BY <1>1, SelectedTyped DEF TabOk
  <1>5. TabOk(t)'
    <2>1. \A e \in Endpoints : InFlight(calls'[t][e]) => calls'[t][e] = calls[t][e]
      BY <1>1, <1>2
    <2> QED BY <1>1, <1>2, <1>3, <1>4, <2>1 DEF TabOk, InFlight
  <1>6. \A s \in Tabs : s # t =>
          wizard'[s] = wizard[s] /\ \A e \in Endpoints : calls'[s][e] = calls[s][e]
    BY SelectedTyped
  <1> QED BY <1>1, <1>5, <1>6, TabStep

(* A selection that fails leaves the wizard without utxos.                  *)
LEMMA SelectFailedTyped ==
  ASSUME Inv, NEW t \in Tabs, SelectFailed(t), InFlight(calls[t]["select"])
  PROVE  /\ calls' \in [Tabs -> [Endpoints -> Calls \cup {NoCall}]]
         /\ wizard' \in [Tabs -> Wizard]
         /\ \A s \in Tabs : s # t =>
              /\ wizard'[s] = wizard[s]
              /\ \A e \in Endpoints : calls'[s][e] = calls[s][e]
         /\ calls'[t]["select"] = NoCall /\ calls'[t]["add"] = calls[t]["add"]
         /\ calls'[t]["get"] = calls[t]["get"]
         /\ wizard'[t].address = wizard[t].address /\ wizard'[t].utxosFee = {}
         /\ wizard'[t].tx = wizard[t].tx /\ wizard'[t].tx = 0
         /\ wizard'[t].step # "SENDING"
  BY SelectedTyped DEF SelectFailed, Endpoints

LEMMA SelectFailedOk ==
  ASSUME Inv, NEW t \in Tabs, SelectFailed(t), InFlight(calls[t]["select"]),
         UNCHANGED signed
  PROVE  Calling' /\ Wizards'
  BY SelectedOk DEF SelectFailed

(* A call that ends, or goes on for the same address, while its wizard stays.  *)
LEMMA CallGoesOn ==
  ASSUME Inv, NEW t \in Tabs, NEW e \in {"get", "select"}, UNCHANGED <<wizard, signed>>,
         \A s \in Tabs, d \in Endpoints : s # t \/ d # e => calls'[s][d] = calls[s][d],
         InFlight(calls'[t][e]) =>
           InFlight(calls[t][e]) /\ calls'[t][e].address = calls[t][e].address
  PROVE  Calling' /\ Wizards'
  <1>1. TabOk(t) /\ Endpoints = {"get", "select", "add"} /\ Len(signed) \in Nat
    BY TabsOk DEF Endpoints, Inv, Flat
  <1>2. TabOk(t)'
    BY <1>1 DEF TabOk, InFlight
  <1> QED BY <1>1, <1>2, TabStep

LEMMA AnswerTyped ==
  ASSUME Inv, NEW t \in Tabs, NEW e \in Endpoints, BitcoinAnswers(t, e)
  PROVE  /\ calls' \in [Tabs -> [Endpoints -> Calls \cup {NoCall}]]
         /\ \A s \in Tabs, d \in Endpoints : s # t \/ d # e => calls'[s][d] = calls[s][d]
         /\ calls[t][e] \in Calls
         /\ calls'[t][e] \in Calls
         /\ calls'[t][e].address = calls[t][e].address
         /\ calls'[t][e].tx = calls[t][e].tx
         /\ calls'[t][e].now = calls[t][e].now
         /\ calls'[t][e].stage = "answered"
         /\ calls'[t][e].utxos = Unspent(calls[t][e].address)
  <1> DEFINE c == [calls[t][e] EXCEPT !.stage = "answered", !.utxos = Unspent(calls[t][e].address)]
  <1>1. calls \in [Tabs -> [Endpoints -> Calls \cup {NoCall}]]
    BY DEF Inv, Flat
  <1>2. calls[t][e] \in Calls
    BY <1>1 DEF BitcoinAnswers, NoCall
  <1>3. c \in Calls
    BY <1>2 DEF Calls, Stages, Unspent
  <1>4. calls' = [calls EXCEPT ![t][e] = c]
    BY <1>1 DEF BitcoinAnswers
  <1>5. c.address = calls[t][e].address /\ c.tx = calls[t][e].tx /\ c.now = calls[t][e].now
        /\ c.stage = "answered" /\ c.utxos = Unspent(calls[t][e].address)
    BY <1>2 DEF Calls
  <1> QED BY <1>1, <1>2, <1>3, <1>4, <1>5

LEMMA MapsStep ==
  ASSUME Inv, NEW t \in Tabs, NEW m, IsMap(UserOf[t], m),
         pending' = [pending EXCEPT ![UserOf[t]] = m]
  PROVE  /\ Maps'
         /\ pending'[UserOf[t]] = m
         /\ \A u \in Users : u # UserOf[t] => pending'[u] = pending[u]
  BY OwnersAssumption DEF Inv, Maps

LEMMA PrunedTyped ==
  ASSUME Inv, NEW t \in Tabs, NEW c, NEW now
  PROVE  IsMap(UserOf[t], Pruned(t, c, now))
  <1>1. UserOf[t] \in Users /\ IsMap(UserOf[t], pending[UserOf[t]])
    BY OwnersAssumption DEF Inv, Maps
  <1> QED BY <1>1, PruneTyped DEF Pruned

LEMMA CallsTyped ==
  Inv => /\ calls \in [Tabs -> [Endpoints -> Calls \cup {NoCall}]]
         /\ wizard \in [Tabs -> Wizard] /\ Len(signed) \in Nat
         /\ \A t \in Tabs, e \in Endpoints : InFlight(calls[t][e]) => calls[t][e] \in Calls
         /\ {"get", "select", "add"} = Endpoints
  BY CallTyped DEF Inv, Flat, Endpoints

LEMMA BitcoinTyped ==
  ASSUME Inv, NEW t \in Tabs, BitcoinActs(t)
  PROVE  /\ Inv' /\ UNCHANGED <<pending, signed, outside>>
         /\ \/ \E e \in Endpoints : BitcoinAnswers(t, e) /\ UNCHANGED <<wizard, faults>>
            \/ /\ UNCHANGED <<wizard, faults>> /\ calls'[t]["get"] = NoCall
               /\ \A s \in Tabs, d \in Endpoints : s # t \/ d # "get" => calls'[s][d] = calls[s][d]
            \/ SelectFailed(t) /\ InFlight(calls[t]["select"]) /\ UNCHANGED faults
            \/ /\ faults' = faults + 1 /\ calls'[t]["add"] = NoCall /\ FailSend(t)
               /\ \A s \in Tabs, d \in Endpoints : s # t \/ d # "add" => calls'[s][d] = calls[s][d]
  <1>1. CASE \E e \in Endpoints : BitcoinAnswers(t, e)
    <2>1. PICK e \in Endpoints : BitcoinAnswers(t, e)
      BY <1>1
    <2>2. UNCHANGED <<pending, wizard, store, signed, faults, outside>>
      BY <2>1 DEF BitcoinAnswers
    <2>3. InFlight(calls[t][e]) /\ InFlight(calls'[t][e])
      BY <2>1, AnswerTyped, CallTyped
    <2>4. TabOk(t)'
      <3>1. /\ TabOk(t) /\ {"get", "select", "add"} = Endpoints
            /\ \A d \in Endpoints : d # e => calls'[t][d] = calls[t][d]
            /\ calls'[t][e].address = calls[t][e].address
            /\ calls'[t][e].tx = calls[t][e].tx
        BY <2>1, AnswerTyped, TabsOk, CallsTyped
      <3>2. \A d \in Endpoints : /\ InFlight(calls'[t][d]) <=> InFlight(calls[t][d])
                                  /\ calls'[t][d].address = calls[t][d].address
                                  /\ calls'[t][d].tx = calls[t][d].tx
        BY <2>3, <3>1
      <3>3. calls[t]["add"].tx = calls'[t]["add"].tx
        BY <3>1, <3>2
      <3> QED BY <2>2, <3>1, <3>2, <3>3 DEF TabOk
    <2>5. Calling' /\ Wizards'
      BY <2>1, <2>2, <2>4, AnswerTyped, TabStep, CallsTyped
    <2> QED BY <2>1, <2>2, <2>5, AnswerTyped DEF Inv, Maps, Flat, outside
  <1>2. CASE GetRejected(t)
    <2>1. calls' = Finished(t, "get") /\ UNCHANGED <<pending, wizard, signed, faults, outside>>
      BY <1>2 DEF GetRejected
    <2>2. InFlight(calls[t]["get"])
      BY <1>2 DEF GetRejected, InFlight
    <2>3. /\ calls' \in [Tabs -> [Endpoints -> Calls \cup {NoCall}]]
          /\ \A s \in Tabs, d \in Endpoints : s # t \/ d # "get" => calls'[s][d] = calls[s][d]
          /\ ~InFlight(calls'[t]["get"]) /\ calls'[t]["get"] = NoCall
      BY <2>1, FinishedTyped, CallsTyped, CallTyped
    <2>4. Calling' /\ Wizards'
      BY <2>1, <2>3, CallGoesOn
    <2>5. store' \in [Tabs -> [Addresses -> Statuses]]
      BY <1>2 DEF GetRejected, Inv, Flat, Statuses
    <2> QED BY <2>1, <2>3, <2>4, <2>5 DEF Inv, Maps, Flat, outside
  <1>3. CASE SelectRejected(t)
    <2>1. SelectFailed(t) /\ UNCHANGED <<pending, store, signed, faults, outside>>
      BY <1>3 DEF SelectRejected
    <2>2. InFlight(calls[t]["select"])
      BY <1>3 DEF SelectRejected, InFlight
    <2>3. Calling' /\ Wizards'
      BY <2>1, <2>2, SelectFailedOk
    <2> QED BY <2>1, <2>2, <2>3, SelectFailedTyped DEF Inv, Maps, Flat, outside
  <1>4. CASE AddRejected(t)
    <2>1. /\ calls' = Finished(t, "add") /\ FailSend(t) /\ faults < MaxFaults /\ faults' = faults + 1
          /\ UNCHANGED <<pending, store, signed, outside>>
      BY <1>4 DEF AddRejected
    <2>2. /\ calls' \in [Tabs -> [Endpoints -> Calls \cup {NoCall}]]
          /\ \A s \in Tabs, d \in Endpoints : s # t \/ d # "add" => calls'[s][d] = calls[s][d]
          /\ calls'[t]["add"] = NoCall
      <3>1. /\ calls \in [Tabs -> [Endpoints -> Calls \cup {NoCall}]]
            /\ "add" \in Endpoints
        BY CallsTyped
      <3> QED BY <2>1, <3>1, FinishedTyped
    <2>3. wizard[t].step = "SENDING"
      BY <1>4, TabsOk DEF AddRejected, TabOk, InFlight
    <2>4. TabOk(t)'
      BY <2>1, <2>2, <2>3, FailedOk, CallsTyped, CallTyped
    <2>5. Calling' /\ Wizards'
      <3>1. signed' = signed
        BY <2>1
      <3>2. \A s \in Tabs : s # t => /\ wizard'[s] = wizard[s]
                                     /\ \A e \in Endpoints : calls'[s][e] = calls[s][e]
        BY <2>1, <2>2, FailSendTyped
      <3> QED BY <2>4, <3>1, <3>2, TabStep, CallsTyped
    <2>6. faults' \in 0..MaxFaults
      BY <2>1, BoundsAssumption DEF Inv, Flat
    <2> QED BY <2>1, <2>2, <2>5, <2>6, FailSendTyped DEF Inv, Maps, Flat, outside
  <1> QED BY <1>1, <1>2, <1>3, <1>4 DEF BitcoinActs

(* The call that records a transaction, and the transaction. *)
AddCall(t) == calls[t]["add"]
Recorded(t) == [id |-> AddCall(t).tx, utxos |-> signed[AddCall(t).tx].utxos, created |-> clock]

LEMMA AddCallTyped ==
  ASSUME Inv, NEW t \in Tabs, InFlight(AddCall(t))
  PROVE  /\ AddCall(t) \in Calls /\ AddCall(t).address \in Addresses
         /\ AddCall(t).tx \in 1..Len(signed) /\ AddCall(t).tx \in DOMAIN signed
         /\ OwnerOf[AddCall(t).address] = UserOf[t]
         /\ Recorded(t) \in PendingTransactions
         /\ wizard[t].step = "SENDING" /\ wizard[t].utxosFee # {}
         /\ ~InFlight(calls[t]["select"])
         /\ wizard[t].address = AddCall(t).address /\ wizard[t].tx = AddCall(t).tx
  <1>1. /\ TabOk(t) /\ AddCall(t) \in Calls /\ "add" \in Endpoints
        /\ signed \in Seq(Signed) /\ Len(signed) <= MaxSends /\ clock \in 0..MaxClock
        /\ MaxSends \in Nat
    BY TabsOk, CallTyped, BoundsAssumption DEF AddCall, Inv, Flat, Endpoints
  <1>2. /\ AddCall(t).address \in Addresses /\ AddCall(t).tx \in 0..MaxSends
        /\ AddCall(t).tx # 0 /\ AddCall(t).tx <= Len(signed)
        /\ OwnerOf[AddCall(t).address] = UserOf[t]
    BY <1>1 DEF AddCall, Calls, TabOk
  <1>3. AddCall(t).tx \in 1..Len(signed) /\ AddCall(t).tx \in DOMAIN signed
    BY <1>1, <1>2
  <1>4. Recorded(t) \in PendingTransactions
    <2>1. signed[AddCall(t).tx] \in Signed
      BY <1>1, <1>3
    <2>2. signed[AddCall(t).tx].utxos \subseteq Utxos
      BY <2>1 DEF Signed
    <2> QED BY <1>1, <1>2, <1>3, <2>2 DEF Recorded, PendingTransactions
  <1> QED BY <1>1, <1>2, <1>3, <1>4 DEF TabOk, AddCall

LEMMA ContinueGetTyped ==
  ASSUME Inv, NEW t \in Tabs, ContinueGet(t)
  PROVE  /\ Inv' /\ InFlight(calls[t]["get"]) /\ calls[t]["get"].stage = "answered"
         /\ \A s \in Tabs, d \in Endpoints : s # t \/ d # "get" => calls'[s][d] = calls[s][d]
         /\ calls'[t]["get"] = NoCall
         /\ pending'[UserOf[t]] = Pruned(t, calls[t]["get"], calls[t]["get"].now)
         /\ \A u \in Users : u # UserOf[t] => pending'[u] = pending[u]
  <1> DEFINE c == calls[t]["get"]  map == Pruned(t, c, c.now)
  <1>1. /\ calls' = Finished(t, "get") /\ UNCHANGED <<wizard, signed, faults, outside>>
        /\ pending' = [pending EXCEPT ![UserOf[t]] = map] /\ c.stage = "answered"
        /\ store' = [store EXCEPT ![t][c.address] = Status(GetPending(map, c.address))]
    BY DEF ContinueGet
  <1>2. /\ calls \in [Tabs -> [Endpoints -> Calls \cup {NoCall}]] /\ "get" \in Endpoints
    BY CallsTyped
  <1>3. /\ calls' \in [Tabs -> [Endpoints -> Calls \cup {NoCall}]]
        /\ \A s \in Tabs, d \in Endpoints : s # t \/ d # "get" => calls'[s][d] = calls[s][d]
        /\ calls'[t]["get"] = NoCall
    BY <1>1, <1>2, FinishedTyped
  <1>4. Calling' /\ Wizards'
    BY <1>1, <1>3, CallGoesOn, CallTyped
  <1>5. /\ Maps' /\ pending'[UserOf[t]] = map
        /\ \A u \in Users : u # UserOf[t] => pending'[u] = pending[u]
    <2>1. IsMap(UserOf[t], map)
      BY PrunedTyped
    <2> QED BY <1>1, <2>1, MapsStep
  <1>6. store' \in [Tabs -> [Addresses -> Statuses]]
    BY <1>1 DEF Inv, Flat, Statuses, Status
  <1>7. Flat'
    BY <1>1, <1>3, <1>6 DEF Inv, Flat, outside
  <1>8. InFlight(c)
    BY <1>1 DEF InFlight
  <1> QED BY <1>1, <1>3, <1>4, <1>5, <1>7, <1>8 DEF Inv

LEMMA ContinueSelectTyped ==
  ASSUME Inv, NEW t \in Tabs, ContinueSelect(t)
  PROVE  LET c == calls[t]["select"]
             map == Pruned(t, c, clock)
         IN  /\ Inv' /\ InFlight(c) /\ c.stage = "answered" /\ c \in Calls
             /\ UNCHANGED <<signed, faults, outside>>
             /\ pending'[UserOf[t]] = map
             /\ \A u \in Users : u # UserOf[t] => pending'[u] = pending[u]
             /\ \/ SelectFailed(t)
                \/ /\ GetPending(map, c.address) = {}
                   /\ wizard' = wizard
                   /\ \A s \in Tabs, d \in Endpoints :
                        s # t \/ d # "select" => calls'[s][d] = calls[s][d]
                   /\ calls'[t]["select"] = [c EXCEPT !.stage = "fees"]
  <1> DEFINE c == calls[t]["select"]  map == Pruned(t, c, clock)
  <1>1. /\ pending' = [pending EXCEPT ![UserOf[t]] = map] /\ c.stage = "answered"
        /\ UNCHANGED <<store, signed, faults, outside>>
        /\ IF GetPending(map, c.address) # {}
           THEN SelectFailed(t)
           ELSE calls' = [calls EXCEPT ![t]["select"].stage = "fees"] /\ UNCHANGED wizard
    BY DEF ContinueSelect
  <1>2. /\ calls \in [Tabs -> [Endpoints -> Calls \cup {NoCall}]] /\ "select" \in Endpoints
        /\ InFlight(c) /\ c \in Calls
    BY <1>1, CallsTyped DEF InFlight
  <1>3. /\ Maps' /\ pending'[UserOf[t]] = map
        /\ \A u \in Users : u # UserOf[t] => pending'[u] = pending[u]
    BY <1>1, MapsStep, PrunedTyped
  <1>4. CASE SelectFailed(t)
    <2>1. Calling' /\ Wizards'
      BY <1>1, <1>2, <1>4, SelectFailedOk
    <2>2. Flat'
      BY <1>1, <1>2, <1>4, SelectFailedTyped DEF Inv, Flat, outside
    <2> QED BY <1>1, <1>2, <1>3, <1>4, <2>1, <2>2 DEF Inv
  <1>5. CASE /\ GetPending(map, c.address) = {}
             /\ calls' = [calls EXCEPT ![t]["select"].stage = "fees"] /\ UNCHANGED wizard
    <2> DEFINE d == [c EXCEPT !.stage = "fees"]
    <2>1. d \in Calls /\ d.address = c.address
      BY <1>2 DEF Calls, Stages
    <2>2. /\ calls' \in [Tabs -> [Endpoints -> Calls \cup {NoCall}]]
          /\ \A s \in Tabs, e \in Endpoints : s # t \/ e # "select" => calls'[s][e] = calls[s][e]
          /\ calls'[t]["select"] = d
      <3>1. calls' = [calls EXCEPT ![t]["select"] = d]
        BY <1>2, <1>5
      <3> QED BY <1>2, <2>1, <3>1
    <2>3. Calling' /\ Wizards'
      <3>1. UNCHANGED <<wizard, signed>> /\ calls'[t]["select"].address = c.address
        BY <1>1, <1>5, <2>1, <2>2
      <3> QED BY <1>2, <2>2, <3>1, CallGoesOn
    <2>4. Flat'
      BY <1>1, <1>5, <2>2 DEF Inv, Flat, outside
    <2> QED BY <1>1, <1>2, <1>3, <1>5, <2>2, <2>3, <2>4 DEF Inv
  <1> QED BY <1>1, <1>4, <1>5

LEMMA FeesArriveTyped ==
  ASSUME Inv, NEW t \in Tabs, FeesArrive(t)
  PROVE  LET c == calls[t]["select"]
         IN  /\ Inv' /\ c.stage = "fees" /\ InFlight(c) /\ c \in Calls
             /\ UNCHANGED <<pending, signed, faults, outside>>
             /\ \A s \in Tabs, d \in Endpoints :
                  s # t \/ d # "select" => calls'[s][d] = calls[s][d]
             /\ calls'[t]["select"] = NoCall
             /\ \A s \in Tabs : s # t => wizard'[s] = wizard[s]
             /\ \/ wizard'[t] = wizard[t]
                \/ /\ wizard[t].fee = "asked" /\ c.address = wizard[t].address
                   /\ wizard'[t].address = c.address
                   /\ wizard'[t].utxosFee \subseteq c.utxos
                   /\ wizard'[t].step = wizard[t].step /\ wizard'[t].tx = wizard[t].tx
  <1> DEFINE c == calls[t]["select"]
  <1>1. PICK selected \in SUBSET c.utxos : Selected(t, "known", selected)
    BY DEF FeesArrive
  <1>2. c.stage = "fees" /\ UNCHANGED <<pending, store, signed, faults, outside>>
    BY DEF FeesArrive
  <1>3. InFlight(c) /\ c \in Calls
    BY <1>2, CallsTyped DEF InFlight
  <1>4. selected \in SUBSET Utxos
    BY <1>3 DEF Calls
  <1>5. /\ calls' \in [Tabs -> [Endpoints -> Calls \cup {NoCall}]]
        /\ wizard' \in [Tabs -> Wizard]
        /\ \A s \in Tabs : s # t => wizard'[s] = wizard[s]
        /\ \A s \in Tabs, d \in Endpoints : s # t \/ d # "select" => calls'[s][d] = calls[s][d]
        /\ calls'[t]["select"] = NoCall
        /\ wizard'[t].address = wizard[t].address
        /\ wizard'[t].tx = wizard[t].tx /\ wizard'[t].step = wizard[t].step
        /\ \/ wizard'[t] = wizard[t]
           \/ /\ wizard[t].fee = "asked" /\ c.address = wizard[t].address
              /\ wizard'[t].utxosFee = selected
    BY <1>1, <1>3, <1>4, SelectedTyped
  <1>6. Calling' /\ Wizards'
    BY <1>1, <1>2, <1>3, <1>4, SelectedOk
  <1>7. Flat' /\ Maps'
    BY <1>2, <1>5 DEF Inv, Flat, Maps, outside
  <1> QED BY <1>2, <1>3, <1>5, <1>6, <1>7 DEF Inv

LEMMA ContinueAddTyped ==
  ASSUME Inv, NEW t \in Tabs, ContinueAdd(t)
  PROVE  LET c == AddCall(t)
             map == Pruned(t, c, clock)
         IN  /\ Inv' /\ InFlight(c) /\ c.stage = "answered"
             /\ UNCHANGED outside
             /\ \A s \in Tabs, d \in Endpoints : s # t \/ d # "add" => calls'[s][d] = calls[s][d]
             /\ calls'[t]["add"] = NoCall
             /\ \A s \in Tabs : s # t => wizard'[s] = wizard[s]
             /\ \A u \in Users : u # UserOf[t] => pending'[u] = pending[u]
             /\ DOMAIN signed' = DOMAIN signed /\ Len(signed') = Len(signed)
             /\ \A i \in DOMAIN signed :
                  /\ i # c.tx => signed'[i] = signed[i]
                  /\ signed'[i].address = signed[i].address
                  /\ signed'[i].utxos = signed[i].utxos
                  /\ signed'[i].at = signed[i].at
             /\ signed'[c.tx].recorded = IF MayAdd(map, c.address) THEN clock ELSE Unrecorded
             /\ pending'[UserOf[t]] = IF MayAdd(map, c.address)
                                      THEN Add(map, c.address, Recorded(t)) ELSE map
             /\ \/ /\ MayAdd(map, c.address) /\ faults' = faults
                   /\ wizard'[t] = ClosedWizard(c.address)
                \/ /\ FailSend(t)
                   /\ faults' = IF MayAdd(map, c.address) THEN faults + 1 ELSE faults
  <1> DEFINE c == AddCall(t)  map == Pruned(t, c, clock)  ok == MayAdd(map, c.address)
             new == IF ok THEN Add(map, c.address, Recorded(t)) ELSE map
  <1>1. /\ c.stage = "answered" /\ calls' = Finished(t, "add") /\ UNCHANGED <<store, outside>>
        /\ pending' = [pending EXCEPT ![UserOf[t]] = new]
        /\ signed' = [signed EXCEPT ![c.tx].recorded = IF ok THEN clock ELSE Unrecorded]
        /\ \/ ok /\ wizard' = [wizard EXCEPT ![t] = ClosedWizard(c.address)] /\ faults' = faults
           \/ /\ FailSend(t) /\ (~ok \/ faults < MaxFaults)
              /\ faults' = IF ok THEN faults + 1 ELSE faults
    BY DEF ContinueAdd, AddCall, Recorded
  <1>2. /\ calls \in [Tabs -> [Endpoints -> Calls \cup {NoCall}]] /\ "add" \in Endpoints
        /\ InFlight(c) /\ TabOk(t) /\ {"get", "select", "add"} = Endpoints
        /\ wizard \in [Tabs -> Wizard] /\ Len(signed) \in Nat
    BY <1>1, CallsTyped, TabsOk DEF InFlight
  <1>3. /\ c \in Calls /\ c.address \in Addresses
        /\ c.tx \in DOMAIN signed /\ OwnerOf[c.address] = UserOf[t]
        /\ Recorded(t) \in PendingTransactions
        /\ wizard[t].step = "SENDING" /\ ~InFlight(calls[t]["select"])
    BY <1>2, AddCallTyped
  <1>4. IsMap(UserOf[t], new)
    <2>1. IsMap(UserOf[t], map)
      BY PrunedTyped
    <2> QED BY <1>3, <2>1, AddTyped
  <1>5. /\ Maps' /\ pending'[UserOf[t]] = new
        /\ \A u \in Users : u # UserOf[t] => pending'[u] = pending[u]
    BY <1>1, <1>4, MapsStep
  <1>6. /\ calls' \in [Tabs -> [Endpoints -> Calls \cup {NoCall}]]
        /\ \A s \in Tabs, d \in Endpoints : s # t \/ d # "add" => calls'[s][d] = calls[s][d]
        /\ calls'[t]["add"] = NoCall
    BY <1>1, <1>2, FinishedTyped
  <1>7. /\ signed' \in Seq(Signed) /\ DOMAIN signed' = DOMAIN signed /\ Len(signed') = Len(signed)
        /\ \A i \in DOMAIN signed :
             /\ i # c.tx => signed'[i] = signed[i]
             /\ signed'[i].address = signed[i].address
             /\ signed'[i].utxos = signed[i].utxos
             /\ signed'[i].at = signed[i].at
        /\ signed'[c.tx].recorded = IF ok THEN clock ELSE Unrecorded
    <2> DEFINE r == IF ok THEN clock ELSE Unrecorded
               x == [signed[c.tx] EXCEPT !.recorded = r]
    <2>1. signed \in Seq(Signed) /\ r \in 0..MaxClock \cup {Unrecorded}
      BY DEF Inv, Flat
    <2>2. /\ signed[c.tx] \in Signed
      BY <1>3, <2>1
    <2>3. /\ x \in Signed /\ x.recorded = r /\ x.address = signed[c.tx].address
          /\ x.utxos = signed[c.tx].utxos /\ x.at = signed[c.tx].at
      BY <2>1, <2>2 DEF Signed
    <2>4. signed' = [signed EXCEPT ![c.tx] = x]
      BY <1>1
    <2>5. signed' \in Seq(Signed) /\ Len(signed') = Len(signed)
      BY <1>3, <2>1, <2>3, <2>4
    <2>6. /\ DOMAIN signed' = DOMAIN signed /\ signed'[c.tx] = x
          /\ \A i \in DOMAIN signed : i # c.tx => signed'[i] = signed[i]
      BY <1>3, <2>4
    <2> QED BY <2>3, <2>5, <2>6
  <1>8. faults' \in 0..MaxFaults
    BY <1>1, BoundsAssumption DEF Inv, Flat
  <1>9. CASE ok /\ wizard' = [wizard EXCEPT ![t] = ClosedWizard(c.address)] /\ faults' = faults
    <2> DEFINE w == ClosedWizard(c.address)
    <2>1. /\ w \in Wizard /\ w.address = c.address /\ w.step = "CLOSED" /\ w.tx = 0
          /\ w.fee = "unknown" /\ w.utxosFee = {}
      BY <1>3, BoundsAssumption DEF ClosedWizard, Wizard, WizardSteps, FeeStates
    <2>2. /\ wizard' \in [Tabs -> Wizard] /\ wizard'[t] = w
          /\ \A s \in Tabs : s # t => wizard'[s] = wizard[s]
      BY <1>2, <1>9, <2>1
    <2>3. /\ ~InFlight(calls'[t]["add"]) /\ ~InFlight(calls'[t]["select"])
          /\ \A d \in Endpoints : InFlight(calls'[t][d]) => calls'[t][d] = calls[t][d]
      BY <1>2, <1>3, <1>6, CallTyped
    <2>4. TabOk(t)'
      BY <1>2, <1>3, <2>1, <2>2, <2>3 DEF TabOk
    <2>5. Calling' /\ Wizards'
      BY <1>2, <1>6, <1>7, <2>2, <2>4, TabStep
    <2>6. Flat'
      BY <1>1, <1>6, <1>7, <1>8, <2>2 DEF Inv, Flat, outside
    <2> QED BY <1>1, <1>2, <1>5, <1>6, <1>7, <1>9, <2>2, <2>5, <2>6 DEF Inv
  <1>10. CASE FailSend(t) /\ faults' = IF ok THEN faults + 1 ELSE faults
    <2>1. /\ ~InFlight(calls'[t]["add"]) /\ calls'[t]["select"] = calls[t]["select"]
          /\ \A d \in Endpoints : InFlight(calls'[t][d]) => calls'[t][d] = calls[t][d]
      BY <1>2, <1>6, CallTyped
    <2>2. TabOk(t)'
      BY <1>3, <1>10, <2>1, FailedOk
    <2>3. /\ wizard' \in [Tabs -> Wizard]
          /\ \A s \in Tabs : s # t => wizard'[s] = wizard[s]
      BY <1>10, FailSendTyped
    <2>4. Calling' /\ Wizards'
      BY <1>2, <1>6, <1>7, <2>2, <2>3, TabStep
    <2>5. Flat'
      BY <1>1, <1>6, <1>7, <1>8, <2>3 DEF Inv, Flat, outside
    <2> QED BY <1>1, <1>2, <1>5, <1>6, <1>7, <1>10, <2>3, <2>4, <2>5 DEF Inv
  <1> QED BY <1>1, <1>9, <1>10

LEMMA BackendTyped == ASSUME Inv, NEW t \in Tabs, BackendActs(t) PROVE Inv'
  BY ContinueGetTyped, ContinueSelectTyped, FeesArriveTyped, ContinueAddTyped DEF BackendActs

(* The environment. *)
LEMMA OutsideTyped ==
  ASSUME Inv, (\E u \in Utxos : Confirm(u)) \/ (\E i \in DOMAIN signed : Mine(i)) \/ Tick
  PROVE  /\ Inv' /\ UNCHANGED <<pending, calls, wizard, store, signed, faults, upgrades>>
         /\ clock' \in {clock, clock + 1}
         /\ \A u \in Utxos : chain'[u] = chain[u] \/ chain[u] = "absent" \/ chain'[u] = "spent"
  <1>1. UNCHANGED <<pending, calls, wizard, store, signed, faults, upgrades>>
    BY DEF Confirm, Mine, Tick
  <1>2. /\ clock' \in {clock, clock + 1} /\ clock' \in 0..MaxClock
        /\ chain' \in [Utxos -> {"absent", "unspent", "spent"}]
        /\ \A u \in Utxos : chain'[u] = chain[u] \/ chain[u] = "absent" \/ chain'[u] = "spent"
    BY BoundsAssumption DEF Inv, Flat, Confirm, Mine, Tick
  <1>3. Maps' /\ Flat' /\ Calling' /\ Wizards'
    BY <1>1, <1>2 DEF Inv, Maps, Flat, Calling, Wizards
  <1> QED BY <1>1, <1>2, <1>3 DEF Inv

LEMMA UpgradeTyped ==
  ASSUME Inv, Upgrade
  PROVE  /\ Inv' /\ UNCHANGED <<calls, wizard, store, chain, clock, faults>>
         /\ upgrades' = upgrades + 1
         /\ \A u \in Users : pending'[u] = NoPending
         /\ DOMAIN signed' = DOMAIN signed /\ Len(signed') = Len(signed)
         /\ \A i \in DOMAIN signed : signed'[i].recorded = Unrecorded
  <1>1. /\ UNCHANGED <<calls, wizard, store, chain, clock, faults>>
        /\ upgrades < MaxUpgrades /\ upgrades' = upgrades + 1
        /\ pending' = [u \in Users |-> NoPending]
        /\ signed' = [i \in DOMAIN signed |-> [signed[i] EXCEPT !.recorded = Unrecorded]]
    BY DEF Upgrade
  <1>2. Maps'
    BY <1>1, NoPendingTyped DEF Maps
  <1>3. /\ signed' \in Seq(Signed) /\ Len(signed') = Len(signed) /\ DOMAIN signed' = DOMAIN signed
        /\ \A i \in DOMAIN signed : signed'[i].recorded = Unrecorded
    <2>1. /\ signed \in Seq(Signed) /\ Len(signed) \in Nat /\ DOMAIN signed = 1..Len(signed)
          /\ \A i \in DOMAIN signed : signed[i] \in Signed
      BY DEF Inv, Flat
    <2>2. \A x \in Signed : /\ [x EXCEPT !.recorded = Unrecorded] \in Signed
                            /\ [x EXCEPT !.recorded = Unrecorded].recorded = Unrecorded
      BY DEF Signed
    <2>3. \A i \in DOMAIN signed : /\ signed'[i] \in Signed
                                   /\ signed'[i].recorded = Unrecorded
      BY <1>1, <2>1, <2>2
    <2>4. signed' \in [1..Len(signed) -> Signed]
      BY <1>1, <2>1, <2>3
    <2> QED BY <2>1, <2>3, <2>4
  <1>4. upgrades' \in 0..MaxUpgrades
    BY <1>1, BoundsAssumption DEF Inv, Flat
  <1>5. Flat'
    BY <1>1, <1>3, <1>4 DEF Inv, Flat
  <1>6. Calling' /\ Wizards'
    BY <1>1, <1>3 DEF Inv, Calling, Wizards
  <1> QED BY <1>1, <1>2, <1>3, <1>5, <1>6 DEF Inv

LEMMA InvStep == ASSUME Inv, [Next]_vars PROVE Inv'
  <1>1. CASE UNCHANGED vars
    BY <1>1 DEF vars, Inv, Maps, Flat, Calling, Wizards
  <1> QED BY <1>1, UserTyped, SignerTyped, BitcoinTyped, BackendTyped, OutsideTyped, UpgradeTyped
          DEF Next

(* Types, and the limits of the pending lists: no list is empty or longer   *)
(* than MaxPending, no principal has more than MaxAddresses, and all of     *)
(* them are its own.                                                        *)
THEOREM TypeCorrect == Spec => []TypeOK
  <1>1. Inv => TypeOK
    <2> SUFFICES ASSUME Inv PROVE TypeOK
      OBVIOUS
    <2>1. signed \in Seq(Signed) /\ \A i \in DOMAIN signed : signed[i] \in Signed
      BY DEF Inv, Flat
    <2> QED BY <2>1 DEF Inv, Maps, Flat, IsMap, TypeOK, Wizard, Signed
  <1> QED BY <1>1, InvInit, InvStep, PTL DEF Spec

-----------------------------------------------------------------------------
(* One pending transaction per tab *)

(* The tabs that have utxos to spend, or are about to get them.  Each of    *)
(* them may still record a transaction, and has none in the list: when it   *)
(* asked, the list was empty.                                               *)
MayRecord(t, a) ==
  \/ wizard[t].address = a /\ wizard[t].utxosFee # {}
  \/ calls[t]["select"].stage = "fees" /\ calls[t]["select"].address = a
TabsOf(a) == {t \in Tabs : UserOf[t] = OwnerOf[a]}
Recorders(a) == {t \in TabsOf(a) : MayRecord(t, a)}
RoomFor(a) == Cardinality(PendingAt(a)) + Cardinality(Recorders(a)) <= Cardinality(TabsOf(a))
OnePending == faults = 0 => \A a \in Addresses : RoomFor(a)

LEMMA PendingFinite ==
  ASSUME Inv, NEW a \in Addresses
  PROVE  /\ IsFiniteSet(PendingAt(a)) /\ Cardinality(PendingAt(a)) \in Nat
         /\ PendingAt(a) \subseteq PendingTransactions
  <1>1. IsMap(OwnerOf[a], pending[OwnerOf[a]])
    BY DEF Inv, Maps, Users
  <1>2. IsFiniteSet(PendingAt(a)) /\ PendingAt(a) \subseteq PendingTransactions
    BY <1>1, FS_EmptySet DEF PendingAt, GetPending, IsMap
  <1> QED BY <1>2, FS_CardinalityType

LEMMA RecordersFinite ==
  \A a : /\ IsFiniteSet(TabsOf(a)) /\ IsFiniteSet(Recorders(a))
         /\ Cardinality(TabsOf(a)) \in Nat /\ Cardinality(Recorders(a)) \in Nat
         /\ Cardinality(Recorders(a)) <= Cardinality(TabsOf(a))
  <1> SUFFICES ASSUME NEW a
               PROVE  /\ IsFiniteSet(TabsOf(a)) /\ IsFiniteSet(Recorders(a))
                      /\ Cardinality(TabsOf(a)) \in Nat /\ Cardinality(Recorders(a)) \in Nat
                      /\ Cardinality(Recorders(a)) <= Cardinality(TabsOf(a))
    OBVIOUS
  <1>1. IsFiniteSet(TabsOf(a))
    BY FS_Subset, OwnersAssumption DEF TabsOf
  <1>2. IsFiniteSet(Recorders(a)) /\ Cardinality(Recorders(a)) <= Cardinality(TabsOf(a))
    BY <1>1, FS_Subset DEF Recorders
  <1> QED BY <1>1, <1>2, FS_CardinalityType

(* As long as no list and no set of recorders grows there is room. *)
LEMMA RoomKept ==
  ASSUME Inv, Inv', NEW a \in Addresses, RoomFor(a),
         PendingAt(a)' \subseteq PendingAt(a),
         \A t \in TabsOf(a) : MayRecord(t, a)' => MayRecord(t, a)
  PROVE  RoomFor(a)'
  <1>1. Recorders(a)' \subseteq Recorders(a)
    BY DEF Recorders, TabsOf
  <1>2. /\ Cardinality(Recorders(a)') <= Cardinality(Recorders(a))
        /\ Cardinality(Recorders(a)') \in Nat /\ Cardinality(Recorders(a)) \in Nat
    BY <1>1, RecordersFinite, FS_Subset, FS_CardinalityType
  <1>3. /\ Cardinality(PendingAt(a)') <= Cardinality(PendingAt(a))
        /\ Cardinality(PendingAt(a)') \in Nat /\ Cardinality(PendingAt(a)) \in Nat
    BY PendingFinite, FS_Subset, FS_CardinalityType
  <1>4. Cardinality(TabsOf(a)) \in Nat /\ TabsOf(a)' = TabsOf(a)
    BY RecordersFinite DEF TabsOf
  <1> QED BY <1>2, <1>3, <1>4 DEF RoomFor

LEMMA SamePending ==
  ASSUME NEW a \in Addresses, pending'[OwnerOf[a]] = pending[OwnerOf[a]]
  PROVE  PendingAt(a)' = PendingAt(a)
  BY DEF PendingAt

LEMMA PrunedPending ==
  ASSUME NEW t \in Tabs, NEW c, NEW now, NEW a \in Addresses,
         pending'[UserOf[t]] = Pruned(t, c, now),
         \A u \in Users : u # UserOf[t] => pending'[u] = pending[u]
  PROVE  /\ OwnerOf[a] = UserOf[t] =>
              PendingAt(a)' = {tx \in PendingAt(a) : StaysPending(tx, c.utxos, now)}
         /\ OwnerOf[a] # UserOf[t] => PendingAt(a)' = PendingAt(a)
         /\ PendingAt(a)' \subseteq PendingAt(a)
  <1>1. CASE OwnerOf[a] = UserOf[t]
    BY <1>1, PruneKeeps DEF PendingAt, Pruned
  <1>2. CASE OwnerOf[a] # UserOf[t]
    BY <1>2, SamePending DEF Users
  <1> QED BY <1>1, <1>2

(* Recording one: the tab is no longer a recorder. *)
LEMMA RoomOnRecord ==
  ASSUME Inv, Inv', NEW t \in Tabs, ContinueAdd(t), faults' = 0, faults = 0,
         NEW a \in Addresses, RoomFor(a)
  PROVE  RoomFor(a)'
  <1> DEFINE c == AddCall(t)  map == Pruned(t, c, clock)
  <1>1. /\ InFlight(c) /\ calls'[t]["select"] = calls[t]["select"]
        /\ \A s \in Tabs, d \in Endpoints : s # t \/ d # "add" => calls'[s][d] = calls[s][d]
        /\ \A s \in Tabs : s # t => wizard'[s] = wizard[s]
        /\ \A u \in Users : u # UserOf[t] => pending'[u] = pending[u]
        /\ pending'[UserOf[t]] = IF MayAdd(map, c.address)
                                 THEN Add(map, c.address, Recorded(t)) ELSE map
        /\ \/ MayAdd(map, c.address) /\ wizard'[t] = ClosedWizard(c.address)
           \/ ~MayAdd(map, c.address) /\ FailSend(t)
    BY ContinueAddTyped, CallsTyped
  <1>2. /\ wizard[t].utxosFee # {} /\ wizard[t].address = c.address
        /\ ~InFlight(calls[t]["select"]) /\ OwnerOf[c.address] = UserOf[t]
    BY <1>1, AddCallTyped
  <1>3. "select" \in Endpoints /\ \A s \in Tabs : calls'[s]["select"] = calls[s]["select"]
    BY <1>1 DEF Endpoints
  <1>4. CASE ~MayAdd(map, c.address)
    <2>1. wizard'[t].address = wizard[t].address /\ wizard'[t].utxosFee = wizard[t].utxosFee
      BY <1>1, <1>4, FailSendTyped
    <2>2. \A s \in Tabs : MayRecord(s, a)' => MayRecord(s, a)
      BY <1>1, <1>3, <2>1 DEF MayRecord
    <2>3. PendingAt(a)' \subseteq PendingAt(a)
      BY <1>1, <1>4, PrunedPending
    <2> QED BY <2>2, <2>3, RoomKept DEF TabsOf
  <1>5. CASE MayAdd(map, c.address)
    <2>1. wizard'[t].utxosFee = {}
      <3>1. wizard'[t] = ClosedWizard(c.address)
        BY <1>1, <1>5
      <3> QED BY <3>1 DEF ClosedWizard
    <2>2. ~MayRecord(t, a)'
      BY <1>2, <1>3, <2>1 DEF MayRecord, InFlight
    <2>3. \A s \in Tabs : MayRecord(s, a)' => MayRecord(s, a) /\ s # t
      BY <1>1, <1>3, <2>2 DEF MayRecord
    <2>4. CASE a # c.address
      <3>1. PendingAt(a)' \subseteq PendingAt(a)
        <4>1. CASE OwnerOf[a] = UserOf[t]
          <5>1. GetPending(pending'[UserOf[t]], a) = GetPending(map, a)
            BY <1>1, <1>5, <2>4 DEF Add, GetPending
          <5>2. GetPending(map, a) \subseteq GetPending(pending[UserOf[t]], a)
            BY PruneKeeps DEF Pruned
          <5> QED BY <4>1, <5>1, <5>2 DEF PendingAt
        <4>2. CASE OwnerOf[a] # UserOf[t]
          BY <1>1, <4>2, SamePending DEF Users
        <4> QED BY <4>1, <4>2
      <3> QED BY <2>3, <3>1, RoomKept DEF TabsOf
    <2>5. CASE a = c.address
      <3> DEFINE kept == GetPending(map, a)
      <3>1. PendingAt(a)' = kept \cup {Recorded(t)} /\ kept \subseteq PendingAt(a)
        <4>1. kept \subseteq GetPending(pending[UserOf[t]], a)
          BY PruneKeeps DEF Pruned
        <4>2. GetPending(pending'[UserOf[t]], a) = kept \cup {Recorded(t)}
          BY <1>1, <1>5, <2>5 DEF Add, GetPending
        <4> QED BY <1>2, <2>5, <4>1, <4>2 DEF PendingAt
      <3>2. /\ Cardinality(PendingAt(a)') <= Cardinality(PendingAt(a)) + 1
            /\ Cardinality(PendingAt(a)') \in Nat /\ Cardinality(PendingAt(a)) \in Nat
        <4>1. /\ IsFiniteSet(kept) /\ Cardinality(kept) <= Cardinality(PendingAt(a))
              /\ Cardinality(PendingAt(a)) \in Nat /\ Cardinality(kept) \in Nat
          BY <3>1, PendingFinite, FS_Subset, FS_CardinalityType
        <4>2. Cardinality(PendingAt(a)') \in {Cardinality(kept), Cardinality(kept) + 1}
          BY <3>1, <4>1, FS_AddElement
        <4> QED BY <4>1, <4>2
      <3>3. /\ Cardinality(Recorders(a)') <= Cardinality(Recorders(a)) - 1
            /\ Cardinality(Recorders(a)') \in Nat /\ Cardinality(Recorders(a)) \in Nat
        <4>1. t \in Recorders(a) /\ Recorders(a)' \subseteq Recorders(a) \ {t}
          BY <1>2, <2>3, <2>5 DEF Recorders, TabsOf, MayRecord
        <4>2. /\ Cardinality(Recorders(a) \ {t}) = Cardinality(Recorders(a)) - 1
              /\ IsFiniteSet(Recorders(a) \ {t})
          BY <4>1, RecordersFinite, FS_RemoveElement
        <4>3. IsFiniteSet(Recorders(a)') /\ Cardinality(Recorders(a)') <= Cardinality(Recorders(a) \ {t})
          BY <4>1, <4>2, FS_Subset
        <4> QED BY <4>2, <4>3, RecordersFinite, FS_CardinalityType
      <3>4. Cardinality(TabsOf(a)) \in Nat /\ TabsOf(a)' = TabsOf(a)
        BY RecordersFinite DEF TabsOf
      <3> QED BY <3>2, <3>3, <3>4 DEF RoomFor
    <2> QED BY <2>4, <2>5
  <1> QED BY <1>4, <1>5

(* A selection that goes on has found no pending transaction.               *)
LEMMA RoomOnSelect ==
  ASSUME Inv, Inv', NEW t \in Tabs, ContinueSelect(t), NEW a \in Addresses, RoomFor(a)
  PROVE  RoomFor(a)'
  <1> DEFINE c == calls[t]["select"]  map == Pruned(t, c, clock)
  <1>1. /\ InFlight(c) /\ c \in Calls /\ pending'[UserOf[t]] = map
        /\ \A u \in Users : u # UserOf[t] => pending'[u] = pending[u]
    BY ContinueSelectTyped
  <1>2. PendingAt(a)' \subseteq PendingAt(a)
    BY <1>1, PrunedPending
  <1>3. "select" \in Endpoints
    BY DEF Endpoints
  <1>4. CASE SelectFailed(t)
    <2>1. \A s \in Tabs : MayRecord(s, a)' => MayRecord(s, a)
      <3>1. ASSUME NEW s \in Tabs, MayRecord(s, a)' PROVE MayRecord(s, a)
        <4>1. s # t
          BY <1>1, <1>4, <3>1, SelectFailedTyped DEF MayRecord, NoCall
        <4> QED BY <1>1, <1>3, <1>4, <3>1, <4>1, SelectFailedTyped DEF MayRecord
      <3> QED BY <3>1
    <2> QED BY <1>2, <2>1, RoomKept DEF TabsOf
  <1>5. CASE /\ GetPending(map, c.address) = {} /\ wizard' = wizard
             /\ \A s \in Tabs, d \in Endpoints :
                  s # t \/ d # "select" => calls'[s][d] = calls[s][d]
             /\ calls'[t]["select"] = [c EXCEPT !.stage = "fees"]
    <2>1. calls'[t]["select"].address = c.address
      BY <1>1, <1>5 DEF Calls
    <2>2. CASE a # c.address
      <3>1. \A s \in Tabs : MayRecord(s, a)' => MayRecord(s, a)
        BY <1>3, <1>5, <2>1, <2>2 DEF MayRecord
      <3> QED BY <1>2, <3>1, RoomKept DEF TabsOf
    <2>3. CASE a = c.address
      <3>1. PendingAt(a)' = {}
        <4>1. OwnerOf[a] = UserOf[t]
          BY <1>1, <1>3, <2>3, TabsOk DEF TabOk
        <4> QED BY <1>1, <1>5, <2>3, <4>1 DEF PendingAt
      <3>2. Cardinality(PendingAt(a)') = 0
        BY <3>1, FS_EmptySet
      <3>3. /\ Cardinality(Recorders(a)') \in Nat /\ Cardinality(TabsOf(a)) \in Nat
            /\ Cardinality(Recorders(a)') <= Cardinality(TabsOf(a))
        <4>1. Recorders(a)' \subseteq TabsOf(a)
          BY DEF Recorders, TabsOf
        <4> QED BY <4>1, RecordersFinite, FS_Subset, FS_CardinalityType
      <3>4. TabsOf(a)' = TabsOf(a)
        BY DEF TabsOf
      <3> QED BY <3>2, <3>3, <3>4 DEF RoomFor
    <2> QED BY <2>2, <2>3
  <1> QED BY <1>4, <1>5, ContinueSelectTyped

LEMMA OnePendingStep ==
  ASSUME Inv, OnePending, [Next]_vars
  PROVE  OnePending'
  <1> SUFFICES ASSUME faults' = 0, NEW a \in Addresses PROVE RoomFor(a)'
    BY DEF OnePending
  <1>1. Inv'
    BY InvStep
  <1>2. faults = 0 /\ RoomFor(a)
    <2>1. faults \in Nat /\ faults' \in {faults, faults + 1}
      <3>1. ASSUME NEW t \in Tabs, UserActs(t) \/ SignerActs(t) \/ BitcoinActs(t) \/ BackendActs(t)
            PROVE  faults' \in {faults, faults + 1}
        <4>1. CASE UserActs(t)
          BY <4>1, UserTyped
        <4>2. CASE SignerActs(t)
          BY <4>2 DEF SignerActs, SignerSends, SignerAnswerLost, SignerRefuses
        <4>3. CASE BitcoinActs(t)
          BY <4>3, BitcoinTyped
        <4>4. CASE BackendActs(t)
          BY <4>4 DEF BackendActs, ContinueGet, ContinueSelect, FeesArrive, ContinueAdd
        <4> QED BY <3>1, <4>1, <4>2, <4>3, <4>4
      <3>2. CASE UNCHANGED vars
        BY <3>2 DEF vars
      <3> QED BY <3>1, <3>2, OutsideTyped, UpgradeTyped, BoundsAssumption DEF Next, Inv, Flat
    <2> QED BY <2>1 DEF OnePending
  <1>3. "select" \in Endpoints
    BY DEF Endpoints
  <1>4. ASSUME pending' = pending, \A s \in Tabs : MayRecord(s, a)' => MayRecord(s, a)
        PROVE  RoomFor(a)'
    <2>1. PendingAt(a)' = PendingAt(a)
      BY <1>4 DEF PendingAt
    <2> QED BY <1>1, <1>2, <1>4, <2>1, RoomKept DEF TabsOf
  <1>5. ASSUME NEW t \in Tabs, UserActs(t) PROVE RoomFor(a)'
    <2>1. \A s \in Tabs : MayRecord(s, a)' => MayRecord(s, a)
      BY <1>3, <1>5, UserTyped DEF MayRecord
    <2> QED BY <1>4, <1>5, <2>1, UserTyped
  <1>6. ASSUME NEW t \in Tabs, SignerActs(t) PROVE RoomFor(a)'
    <2>1. \A s \in Tabs : MayRecord(s, a)' => MayRecord(s, a)
      BY <1>3, <1>6, SignerTyped DEF MayRecord
    <2> QED BY <1>4, <1>6, <2>1, SignerTyped
  <1>7. ASSUME NEW t \in Tabs, BitcoinActs(t) PROVE RoomFor(a)'
    <2>1. \A s \in Tabs : MayRecord(s, a)' => MayRecord(s, a)
      <3>1. CASE \E e \in Endpoints : BitcoinAnswers(t, e) /\ UNCHANGED <<wizard, faults>>
        BY <1>3, <3>1, AnswerTyped DEF MayRecord
      <3>2. CASE /\ UNCHANGED <<wizard, faults>> /\ calls'[t]["get"] = NoCall
                 /\ \A s \in Tabs, d \in Endpoints : s # t \/ d # "get" => calls'[s][d] = calls[s][d]
        BY <1>3, <3>2 DEF MayRecord
      <3>3. CASE SelectFailed(t) /\ InFlight(calls[t]["select"])
        <4>1. ~MayRecord(t, a)'
          BY <3>3, SelectFailedTyped DEF MayRecord, NoCall
        <4>2. \A s \in Tabs : s # t => (MayRecord(s, a)' => MayRecord(s, a))
          BY <1>3, <3>3, SelectFailedTyped DEF MayRecord
        <4> QED BY <4>1, <4>2
      <3>4. faults' # faults + 1
        BY <1>2
      <3> QED BY <1>7, <3>1, <3>2, <3>3, <3>4, BitcoinTyped
    <2> QED BY <1>4, <1>7, <2>1, BitcoinTyped
  <1>8. ASSUME NEW t \in Tabs, BackendActs(t) PROVE RoomFor(a)'
    <2>1. CASE ContinueGet(t)
      <3>1. PendingAt(a)' \subseteq PendingAt(a)
        BY <2>1, ContinueGetTyped, PrunedPending
      <3>2. \A s \in Tabs : MayRecord(s, a)' => MayRecord(s, a)
        <4>1. wizard' = wizard
          BY <2>1 DEF ContinueGet
        <4> QED BY <1>3, <2>1, <4>1, ContinueGetTyped DEF MayRecord
      <3> QED BY <1>1, <1>2, <3>1, <3>2, RoomKept DEF TabsOf
    <2>2. CASE ContinueSelect(t)
      BY <1>1, <1>2, <2>2, RoomOnSelect
    <2>3. CASE FeesArrive(t)
      <3>1. \A s \in Tabs : MayRecord(s, a)' => MayRecord(s, a)
        <4>1. MayRecord(t, a)' => MayRecord(t, a)
          BY <2>3, FeesArriveTyped DEF MayRecord, NoCall
        <4>2. \A s \in Tabs : s # t => (MayRecord(s, a)' => MayRecord(s, a))
          BY <1>3, <2>3, FeesArriveTyped DEF MayRecord
        <4> QED BY <4>1, <4>2
      <3> QED BY <1>4, <2>3, <3>1, FeesArriveTyped
    <2>4. CASE ContinueAdd(t)
      BY <1>1, <1>2, <2>4, RoomOnRecord
    <2> QED BY <1>8, <2>1, <2>2, <2>3, <2>4 DEF BackendActs
  <1>9. ASSUME (\E u \in Utxos : Confirm(u)) \/ (\E i \in DOMAIN signed : Mine(i)) \/ Tick
               \/ UNCHANGED vars
        PROVE  RoomFor(a)'
    <2>1. UNCHANGED <<pending, calls, wizard>>
      BY <1>9, OutsideTyped DEF vars
    <2> QED BY <1>4, <2>1 DEF MayRecord
  <1>10. ASSUME Upgrade PROVE RoomFor(a)'
    <2>1. PendingAt(a)' \subseteq PendingAt(a)
      BY <1>10, UpgradeTyped DEF PendingAt, GetPending, NoPending, Users
    <2>2. \A s \in Tabs : MayRecord(s, a)' => MayRecord(s, a)
      BY <1>10, UpgradeTyped DEF MayRecord
    <2> QED BY <1>1, <1>2, <2>1, <2>2, RoomKept DEF TabsOf
  <1> QED BY <1>5, <1>6, <1>7, <1>8, <1>9, <1>10 DEF Next

LEMMA OnePendingInit == Init => OnePending
  <1> SUFFICES ASSUME Init, NEW a \in Addresses PROVE RoomFor(a)
    BY DEF OnePending
  <1>1. PendingAt(a) = {}
    BY DEF Init, PendingAt, GetPending, NoPending, Users
  <1>2. Cardinality(PendingAt(a)) = 0
    BY <1>1, FS_EmptySet
  <1> QED BY <1>2, RecordersFinite DEF RoomFor

(* With any number of tabs, an address never has more pending transactions  *)
(* than its user has tabs, however the calls of closed and reopened wizards *)
(* interleave, and whatever is refused or upgraded, unless the answer to a  *)
(* transaction is lost.                                                     *)
THEOREM OnePendingForEachTab == Spec => []OnePendingPerTab
  <1>1. Inv /\ OnePending => OnePendingPerTab
    <2> SUFFICES ASSUME Inv, OnePending, faults = 0, NEW a \in Addresses
                 PROVE  Cardinality(PendingAt(a)) <= Cardinality(TabsOf(a))
      BY DEF OnePendingPerTab, TabsOf
    <2> QED BY PendingFinite, RecordersFinite DEF OnePending, RoomFor
  <1> QED BY <1>1, InvInit, InvStep, OnePendingInit, OnePendingStep, PTL DEF Spec

-----------------------------------------------------------------------------
(* What the utxos of calls, wizards and transactions are *)

OfAddress(us, a) == \A u \in us : AddressOf[u] = a

(* A list of utxos is as old as its answer, and shows every early utxo that *)
(* can still be spent.                                                      *)
CallOk(c) ==
  /\ c.now <= clock
  /\ c.stage # "asked" =>
       /\ OfAddress(c.utxos, c.address)
       /\ \A u \in Early : AddressOf[u] = c.address /\ chain[u] = "unspent" => u \in c.utxos

CallsOk == \A t \in Tabs, e \in Endpoints : InFlight(calls[t][e]) => CallOk(calls[t][e])
WizardsOk == \A t \in Tabs : OfAddress(wizard[t].utxosFee, wizard[t].address)
SignedOk ==
  \A i \in DOMAIN signed : OfAddress(signed[i].utxos, signed[i].address) /\ signed[i].at <= clock
EarlyOk == \A u \in Early : chain[u] \in {"unspent", "spent"}
Local == CallsOk /\ WizardsOk /\ SignedOk /\ EarlyOk

LEMMA LocalInit == Init => Local
  <1> SUFFICES ASSUME Init PROVE Local
    OBVIOUS
  <1>1. CallsOk
    BY CallTyped DEF Init, CallsOk
  <1>2. WizardsOk /\ SignedOk
    BY DEF Init, WizardsOk, SignedOk, OfAddress, ClosedWizard
  <1>3. EarlyOk
    BY OwnersAssumption DEF Init, EarlyOk
  <1> QED BY <1>1, <1>2, <1>3 DEF Local

LEMMA CallOkStays ==
  ASSUME NEW c, NEW d, d = c, CallOk(c), UNCHANGED <<chain, clock>>
  PROVE  /\ d.now <= clock'
         /\ d.stage # "asked" =>
              /\ OfAddress(d.utxos, d.address)
              /\ \A u \in Early : AddressOf[u] = d.address /\ chain'[u] = "unspent" => u \in d.utxos
  BY DEF CallOk

(* A step that leaves the chain and the clock, and what it does to calls.   *)
LEMMA LocalCalls ==
  ASSUME Inv, CallsOk, UNCHANGED <<chain, clock>>,
         \A t \in Tabs, e \in Endpoints :
           \/ calls'[t][e] = calls[t][e]
           \/ ~InFlight(calls'[t][e])
           \/ calls'[t][e].stage = "asked" /\ calls'[t][e].now <= clock
           \/ /\ calls'[t][e].now <= clock
              /\ OfAddress(calls'[t][e].utxos, calls'[t][e].address)
              /\ \A u \in Early : AddressOf[u] = calls'[t][e].address /\ chain[u] = "unspent"
                   => u \in calls'[t][e].utxos
  PROVE  CallsOk'
  <1> SUFFICES ASSUME NEW t \in Tabs, NEW e \in Endpoints, InFlight(calls'[t][e])
               PROVE  CallOk(calls[t][e])'
    BY DEF CallsOk
  <1>1. CASE calls'[t][e] = calls[t][e]
    BY <1>1 DEF CallsOk, CallOk, InFlight
  <1>2. CASE calls'[t][e].stage = "asked" /\ calls'[t][e].now <= clock
    BY <1>2 DEF CallOk
  <1>3. CASE /\ calls'[t][e].now <= clock
             /\ OfAddress(calls'[t][e].utxos, calls'[t][e].address)
             /\ \A u \in Early : AddressOf[u] = calls'[t][e].address /\ chain[u] = "unspent"
                  => u \in calls'[t][e].utxos
    BY <1>3 DEF CallOk
  <1> QED BY <1>1, <1>2, <1>3

LEMMA LocalTabStep ==
  ASSUME Inv, Local, NEW t \in Tabs,
         UserActs(t) \/ SignerActs(t) \/ BitcoinActs(t) \/ BackendActs(t)
  PROVE  Local' /\ UNCHANGED outside
  <1>1. UNCHANGED outside
    BY UserTyped, SignerTyped, BitcoinTyped, ContinueGetTyped, ContinueSelectTyped,
       FeesArriveTyped, ContinueAddTyped
       DEF BackendActs, ContinueGet
  <1>2. UNCHANGED <<chain, clock>> /\ EarlyOk'
    BY <1>1 DEF outside, Local, EarlyOk
  <1>3. {"get", "select", "add"} = Endpoints
    BY DEF Endpoints
  <1>4. CASE UserActs(t)
    <2>1. CallsOk'
      BY <1>2, <1>4, UserTyped, LocalCalls DEF Local
    <2>2. WizardsOk'
      BY <1>4, UserTyped DEF Local, WizardsOk, OfAddress
    <2>3. SignedOk'
      BY <1>2, <1>4, UserTyped DEF Local, SignedOk
    <2> QED BY <1>1, <1>2, <2>1, <2>2, <2>3 DEF Local
  <1>5. CASE SignerActs(t)
    <2>1. CallsOk'
      <3>1. \A s \in Tabs, e \in Endpoints : calls'[s][e] = calls[s][e]
               \/ (calls'[s][e].stage = "asked" /\ calls'[s][e].now <= clock)
        <4>1. \A s \in Tabs, e \in Endpoints :
                s # t \/ e # "add" => calls'[s][e] = calls[s][e]
          BY <1>5, SignerTyped
        <4>2. \/ calls' = calls
              \/ calls'[t]["add"].stage = "asked" /\ calls'[t]["add"].now <= clock
          BY <1>5, SignerTyped
        <4> QED BY <4>1, <4>2
      <3> QED BY <1>2, <3>1, LocalCalls DEF Local
    <2>2. WizardsOk'
      BY <1>5, SignerTyped DEF Local, WizardsOk, OfAddress
    <2>3. SignedOk'
      <3>1. CASE signed' = signed
        BY <1>2, <3>1 DEF Local, SignedOk
      <3>2. CASE /\ Len(signed') = Len(signed) + 1
                 /\ \A i \in 1..Len(signed) : signed'[i] = signed[i]
                 /\ signed'[Len(signed')] = [address |-> wizard[t].address,
                                             utxos |-> wizard[t].utxosFee,
                                             at |-> clock, recorded |-> Unrecorded]
        <4>1. /\ DOMAIN signed = 1..Len(signed) /\ DOMAIN signed' = 1..Len(signed')
              /\ Len(signed) \in Nat /\ clock \in Nat
          BY <1>5, SignerTyped, BoundsAssumption DEF Inv, Flat
        <4>2. \A i \in DOMAIN signed' : i \in DOMAIN signed \/ i = Len(signed')
          BY <3>2, <4>1
        <4>3. ASSUME NEW i \in DOMAIN signed
              PROVE  OfAddress(signed'[i].utxos, signed'[i].address) /\ signed'[i].at <= clock
          BY <3>2, <4>1 DEF Local, SignedOk
        <4>4. LET x == signed'[Len(signed')]
              IN  OfAddress(x.utxos, x.address) /\ x.at <= clock
          BY <3>2, <4>1 DEF Local, WizardsOk
        <4> QED BY <1>2, <4>2, <4>3, <4>4 DEF SignedOk
      <3> QED BY <1>5, <3>1, <3>2, SignerTyped
    <2> QED BY <1>1, <1>2, <2>1, <2>2, <2>3 DEF Local
  <1>6. CASE BitcoinActs(t)
    <2>1. SignedOk'
      BY <1>2, <1>6, BitcoinTyped DEF Local, SignedOk
    <2>2. CASE \E e \in Endpoints : BitcoinAnswers(t, e) /\ UNCHANGED <<wizard, faults>>
      <3>1. PICK e \in Endpoints : BitcoinAnswers(t, e) /\ UNCHANGED <<wizard, faults>>
        BY <2>2
      <3>2. InFlight(calls[t][e])
        BY <3>1 DEF BitcoinAnswers, InFlight
      <3>3. /\ calls'[t][e].now <= clock
            /\ OfAddress(calls'[t][e].utxos, calls'[t][e].address)
            /\ \A u \in Early : AddressOf[u] = calls'[t][e].address /\ chain[u] = "unspent"
                 => u \in calls'[t][e].utxos
        BY <3>1, <3>2, AnswerTyped, OwnersAssumption DEF Local, CallsOk, CallOk, Unspent, OfAddress
      <3>4. CallsOk'
        BY <1>2, <3>1, <3>3, AnswerTyped, LocalCalls DEF Local
      <3>5. WizardsOk'
        BY <3>1 DEF Local, WizardsOk
      <3> QED BY <1>1, <1>2, <2>1, <3>4, <3>5 DEF Local
    <2>3. CASE /\ UNCHANGED <<wizard, faults>> /\ calls'[t]["get"] = NoCall
               /\ \A s \in Tabs, d \in Endpoints : s # t \/ d # "get" => calls'[s][d] = calls[s][d]
      <3>1. CallsOk'
        BY <1>2, <2>3, LocalCalls, CallTyped DEF Local
      <3>2. WizardsOk'
        BY <2>3 DEF Local, WizardsOk
      <3> QED BY <1>1, <1>2, <2>1, <3>1, <3>2 DEF Local
    <2>4. CASE SelectFailed(t) /\ InFlight(calls[t]["select"])
      <3>1. \A s \in Tabs, e \in Endpoints :
              \/ calls'[s][e] = calls[s][e] \/ ~InFlight(calls'[s][e])
              \/ calls'[s][e].stage = "asked" /\ calls'[s][e].now <= clock
        BY <1>3, <2>4, SelectFailedTyped, CallTyped
      <3>2. CallsOk'
        BY <1>2, <3>1, LocalCalls DEF Local
      <3>3. WizardsOk'
        BY <2>4, SelectFailedTyped DEF Local, WizardsOk, OfAddress
      <3> QED BY <1>1, <1>2, <2>1, <3>2, <3>3 DEF Local
    <2>5. CASE /\ calls'[t]["add"] = NoCall /\ FailSend(t)
               /\ \A s \in Tabs, d \in Endpoints : s # t \/ d # "add" => calls'[s][d] = calls[s][d]
      <3>1. CallsOk'
        BY <1>2, <2>5, LocalCalls, CallTyped DEF Local
      <3>2. WizardsOk'
        BY <2>5, FailSendTyped DEF Local, WizardsOk
      <3> QED BY <1>1, <1>2, <2>1, <3>1, <3>2 DEF Local
    <2> QED BY <1>6, <2>2, <2>3, <2>4, <2>5, BitcoinTyped
  <1>7. CASE ContinueGet(t)
    <2>1. CallsOk'
      BY <1>2, <1>7, ContinueGetTyped, LocalCalls, CallTyped DEF Local
    <2>2. WizardsOk' /\ SignedOk'
      BY <1>2, <1>7 DEF ContinueGet, Local, WizardsOk, SignedOk
    <2> QED BY <1>1, <1>2, <2>1, <2>2 DEF Local
  <1>8. CASE ContinueSelect(t)
    <2> DEFINE c == calls[t]["select"]
    <2>1. /\ InFlight(c) /\ c \in Calls /\ c.stage = "answered" /\ CallOk(c)
          /\ UNCHANGED signed
      BY <1>3, <1>8, ContinueSelectTyped DEF Local, CallsOk
    <2>2. SignedOk'
      BY <1>2, <2>1 DEF Local, SignedOk
    <2>3. CASE SelectFailed(t)
      <3>1. \A s \in Tabs, e \in Endpoints :
              \/ calls'[s][e] = calls[s][e] \/ ~InFlight(calls'[s][e])
              \/ calls'[s][e].stage = "asked" /\ calls'[s][e].now <= clock
        BY <1>3, <2>1, <2>3, SelectFailedTyped, CallTyped
      <3>2. CallsOk'
        BY <1>2, <3>1, LocalCalls DEF Local
      <3>3. WizardsOk'
        BY <2>1, <2>3, SelectFailedTyped DEF Local, WizardsOk, OfAddress
      <3> QED BY <1>1, <1>2, <2>2, <3>2, <3>3 DEF Local
    <2>4. CASE /\ wizard' = wizard
               /\ \A s \in Tabs, d \in Endpoints :
                    s # t \/ d # "select" => calls'[s][d] = calls[s][d]
               /\ calls'[t]["select"] = [c EXCEPT !.stage = "fees"]
      <3>1. /\ calls'[t]["select"].now = c.now /\ calls'[t]["select"].address = c.address
            /\ calls'[t]["select"].utxos = c.utxos
        BY <2>1, <2>4 DEF Calls
      <3>2. c.now <= clock /\ OfAddress(c.utxos, c.address)
            /\ \A u \in Early : AddressOf[u] = c.address /\ chain[u] = "unspent"
                 => u \in c.utxos
        BY <2>1 DEF CallOk
      <3>3. \A s \in Tabs, e \in Endpoints :
              \/ calls'[s][e] = calls[s][e]
              \/ /\ calls'[s][e].now <= clock
                 /\ OfAddress(calls'[s][e].utxos, calls'[s][e].address)
                 /\ \A u \in Early : AddressOf[u] = calls'[s][e].address /\ chain[u] = "unspent"
                      => u \in calls'[s][e].utxos
        <4>1. \A s \in Tabs, e \in Endpoints :
                s # t \/ e # "select" => calls'[s][e] = calls[s][e]
          BY <2>4
        <4>2. /\ calls'[t]["select"].now <= clock
              /\ OfAddress(calls'[t]["select"].utxos, calls'[t]["select"].address)
              /\ \A u \in Early : AddressOf[u] = calls'[t]["select"].address /\ chain[u] = "unspent"
                   => u \in calls'[t]["select"].utxos
          BY <3>1, <3>2
        <4> HIDE DEF c
        <4> QED BY <4>1, <4>2
      <3>4. CallsOk'
        BY <1>2, <3>3, LocalCalls DEF Local
      <3>5. WizardsOk'
        BY <2>4 DEF Local, WizardsOk
      <3> QED BY <1>1, <1>2, <2>2, <3>4, <3>5 DEF Local
    <2> QED BY <1>8, <2>3, <2>4, ContinueSelectTyped
  <1>9. CASE FeesArrive(t)
    <2> DEFINE c == calls[t]["select"]
    <2>1. CallsOk'
      BY <1>2, <1>9, FeesArriveTyped, LocalCalls, CallTyped DEF Local
    <2>2. InFlight(c) /\ c.stage = "fees" /\ OfAddress(c.utxos, c.address)
      BY <1>3, <1>9, FeesArriveTyped DEF Local, CallsOk, CallOk
    <2>3. OfAddress(wizard'[t].utxosFee, wizard'[t].address)
      BY <1>9, <2>2, FeesArriveTyped DEF Local, WizardsOk, OfAddress
    <2>4. WizardsOk'
      BY <1>9, <2>3, FeesArriveTyped DEF Local, WizardsOk
    <2>5. SignedOk'
      BY <1>2, <1>9, FeesArriveTyped DEF Local, SignedOk
    <2> QED BY <1>1, <1>2, <2>1, <2>4, <2>5 DEF Local
  <1>10. CASE ContinueAdd(t)
    <2>1. CallsOk'
      BY <1>2, <1>10, ContinueAddTyped, LocalCalls, CallTyped DEF Local
    <2>2. OfAddress(wizard'[t].utxosFee, wizard'[t].address)
      <3>1. CASE wizard'[t] = ClosedWizard(AddCall(t).address)
        BY <3>1 DEF ClosedWizard, OfAddress
      <3>2. CASE FailSend(t)
        BY <3>2, FailSendTyped DEF Local, WizardsOk
      <3> QED BY <1>10, <3>1, <3>2, ContinueAddTyped
    <2>3. WizardsOk'
      BY <1>10, <2>2, ContinueAddTyped DEF Local, WizardsOk
    <2>4. SignedOk'
      BY <1>2, <1>10, ContinueAddTyped DEF Local, SignedOk
    <2> QED BY <1>1, <1>2, <2>1, <2>3, <2>4 DEF Local
  <1> QED BY <1>4, <1>5, <1>6, <1>7, <1>8, <1>9, <1>10 DEF BackendActs

(* Time passes, and early utxos are spent at most once. *)
LEMMA EarlyStep ==
  ASSUME Inv, Local, [Next]_vars
  PROVE  /\ clock \in Nat /\ clock' \in Nat /\ clock <= clock'
         /\ \A u \in Early : /\ chain'[u] \in {"unspent", "spent"}
                             /\ chain[u] = "spent" => chain'[u] = "spent"
  <1>1. clock \in Nat
    BY BoundsAssumption DEF Inv, Flat
  <1>2. ASSUME NEW t \in Tabs, UserActs(t) \/ SignerActs(t) \/ BitcoinActs(t) \/ BackendActs(t)
        PROVE  UNCHANGED <<chain, clock>>
    BY <1>2, LocalTabStep DEF outside
  <1>3. CASE UNCHANGED <<chain, clock>>
    BY <1>1, <1>3 DEF Local, EarlyOk
  <1>4. CASE (\E u \in Utxos : Confirm(u)) \/ (\E i \in DOMAIN signed : Mine(i)) \/ Tick
    <2>1. /\ clock' \in {clock, clock + 1}
          /\ \A u \in Utxos : chain'[u] = chain[u] \/ chain[u] = "absent" \/ chain'[u] = "spent"
      BY <1>4, OutsideTyped
    <2> QED BY <1>1, <2>1, OwnersAssumption DEF Local, EarlyOk
  <1> QED BY <1>2, <1>3, <1>4, UpgradeTyped DEF Next, vars

LEMMA LocalStep == ASSUME Inv, Local, [Next]_vars PROVE Local'
  <1>1. ASSUME UNCHANGED <<calls, wizard>>, DOMAIN signed' = DOMAIN signed,
               \A i \in DOMAIN signed : /\ signed'[i].utxos = signed[i].utxos
                                        /\ signed'[i].address = signed[i].address
                                        /\ signed'[i].at = signed[i].at
        PROVE  Local'
    <2>1. EarlyOk'
      BY EarlyStep DEF EarlyOk
    <2>2. CallsOk'
      <3> SUFFICES ASSUME NEW t \in Tabs, NEW e \in Endpoints, InFlight(calls[t][e])
                   PROVE  CallOk(calls[t][e])'
        BY <1>1 DEF CallsOk
      <3>1. CallOk(calls[t][e]) /\ calls[t][e].now \in Nat
        BY CallsTyped, BoundsAssumption DEF Local, CallsOk, Calls
      <3>2. \A u \in Early : chain'[u] = "unspent" => chain[u] = "unspent"
        BY EarlyStep DEF Local, EarlyOk
      <3> QED BY <1>1, <3>1, <3>2, EarlyStep DEF CallOk
    <2>3. WizardsOk'
      BY <1>1 DEF Local, WizardsOk
    <2>4. SignedOk'
      <3>1. \A i \in DOMAIN signed : signed[i].at \in Nat
        <4>1. \A i \in DOMAIN signed : signed[i] \in Signed
          BY DEF Inv, Flat
        <4> QED BY <4>1, BoundsAssumption DEF Signed
      <3> QED BY <1>1, <3>1, EarlyStep DEF Local, SignedOk
    <2> QED BY <2>1, <2>2, <2>3, <2>4 DEF Local
  <1>2. CASE Upgrade
    <2>1. \A i \in DOMAIN signed : signed[i] \in Signed
      BY DEF Inv, Flat
    <2>2. \A i \in DOMAIN signed : /\ signed'[i].utxos = signed[i].utxos
                                   /\ signed'[i].address = signed[i].address
                                   /\ signed'[i].at = signed[i].at
      BY <1>2, <2>1 DEF Upgrade, Signed
    <2> QED BY <1>1, <1>2, <2>2, UpgradeTyped
  <1>3. CASE UNCHANGED vars
    BY <1>1, <1>3 DEF vars
  <1>4. CASE (\E u \in Utxos : Confirm(u)) \/ (\E i \in DOMAIN signed : Mine(i)) \/ Tick
    BY <1>1, <1>4, OutsideTyped
  <1> QED BY <1>2, <1>3, <1>4, LocalTabStep DEF Next

-----------------------------------------------------------------------------
(* What leaves the list *)

(* Each user has one address: the wallet is used on one bitcoin network.    *)
OneNetwork == \A a, b \in Addresses : OwnerOf[a] = OwnerOf[b] => a = b

Gone(tx) == \A u \in tx.utxos \cap Early : chain[u] = "spent"

Reason(tx) == tx.created + Day < clock \/ Gone(tx)

(* A transaction is only pruned when it is a day old, or when every early   *)
(* utxo it spends is spent.                                                 *)
LEMMA PrunedForAReason ==
  ASSUME Inv, Local, OneNetwork, NEW t \in Tabs, NEW c \in Calls,
         CallOk(c), c.stage = "answered", OwnerOf[c.address] = UserOf[t],
         NEW now \in 0..MaxClock, now <= clock,
         NEW a \in Addresses, OwnerOf[a] = UserOf[t],
         NEW tx \in PendingAt(a), OfAddress(tx.utxos, a)
  PROVE  tx \in GetPending(Pruned(t, c, now), a) \/ Reason(tx)
  <1>1. tx \in PendingTransactions
    BY PendingFinite
  <1>2. tx.created \in Nat /\ tx.utxos \subseteq Utxos /\ now \in Nat /\ clock \in Nat
    BY <1>1, BoundsAssumption DEF PendingTransactions, Inv, Flat
  <1>3. a = c.address
    BY DEF OneNetwork, Calls
  <1>4. tx \in GetPending(Pruned(t, c, now), a) \/ IsOld(tx, now) \/ IsSpent(tx, c.utxos)
    BY PruneKeeps DEF PendingAt, Pruned, StaysPending
  <1>5. IsOld(tx, now) => tx.created + Day < clock
    BY <1>2, LimitsAssumption DEF IsOld
  <1>6. IsSpent(tx, c.utxos) => Gone(tx)
    BY <1>3 DEF IsSpent, Gone, OfAddress, CallOk, Local, EarlyOk
  <1> QED BY <1>4, <1>5, <1>6 DEF Reason

(* What a step leaves in the list of an address. *)
Stays(tx, a) == tx \in PendingAt(a)' \/ Reason(tx)

LEMMA StaysIfSame ==
  ASSUME NEW a \in Addresses, NEW tx \in PendingAt(a), pending' = pending
  PROVE  Stays(tx, a)
  BY DEF Stays, PendingAt

(* An endpoint that prunes, and perhaps adds. *)
LEMMA StaysIfPruned ==
  ASSUME Inv, Local, OneNetwork, NEW t \in Tabs, NEW e \in Endpoints,
         calls[t][e].stage = "answered", NEW now \in 0..MaxClock, now <= clock,
         NEW a \in Addresses, NEW tx \in PendingAt(a), OfAddress(tx.utxos, a),
         \A u \in Users : u # UserOf[t] => pending'[u] = pending[u],
         GetPending(Pruned(t, calls[t][e], now), a) \subseteq GetPending(pending'[UserOf[t]], a)
  PROVE  Stays(tx, a)
  <1> DEFINE c == calls[t][e]
  <1>1. InFlight(c) /\ c \in Calls /\ CallOk(c) /\ OwnerOf[c.address] = UserOf[t]
    BY CallsTyped, TabsOk DEF InFlight, Local, CallsOk, TabOk
  <1>2. CASE OwnerOf[a] = UserOf[t]
    BY <1>1, <1>2, PrunedForAReason DEF Stays, PendingAt
  <1>3. CASE OwnerOf[a] # UserOf[t]
    BY <1>3, SamePending DEF Stays, Users
  <1> QED BY <1>2, <1>3

LEMMA AddKeeps ==
  ASSUME NEW m, NEW b, NEW tx, NEW a
  PROVE  GetPending(m, a) \subseteq GetPending(Add(m, b, tx), a)
  BY DEF GetPending, Add

LEMMA OnlyForAReason ==
  ASSUME Inv, Local, OneNetwork, [Next]_vars, ~Upgrade,
         NEW a \in Addresses, NEW tx \in PendingAt(a), OfAddress(tx.utxos, a)
  PROVE  Stays(tx, a)
  <1>1. clock \in 0..MaxClock /\ clock <= clock /\ {"get", "select", "add"} = Endpoints
    BY BoundsAssumption, CallsTyped DEF Inv, Flat
  <1>2. ASSUME NEW t \in Tabs, UserActs(t) \/ SignerActs(t) \/ BitcoinActs(t) PROVE Stays(tx, a)
    BY <1>2, UserTyped, SignerTyped, BitcoinTyped, StaysIfSame
  <1>3. ASSUME NEW t \in Tabs, BackendActs(t) PROVE Stays(tx, a)
    <2>1. CASE ContinueGet(t)
      <3> DEFINE c == calls[t]["get"]
      <3>1. c.now \in 0..MaxClock /\ c.now <= clock
        BY <1>1, <2>1, ContinueGetTyped, CallsTyped DEF Local, CallsOk, CallOk, Calls
      <3> QED BY <1>1, <2>1, <3>1, ContinueGetTyped, StaysIfPruned
    <2>2. CASE ContinueSelect(t)
      <3> DEFINE c == calls[t]["select"]
      <3>1. /\ c.stage = "answered" /\ pending'[UserOf[t]] = Pruned(t, c, clock)
            /\ \A u \in Users : u # UserOf[t] => pending'[u] = pending[u]
        BY <2>2, ContinueSelectTyped
      <3> QED BY <1>1, <3>1, StaysIfPruned
    <2>3. CASE FeesArrive(t)
      BY <2>3, FeesArriveTyped, StaysIfSame
    <2>4. CASE ContinueAdd(t)
      <3> DEFINE c == calls[t]["add"]  map == Pruned(t, c, clock)
      <3>1. /\ c.stage = "answered"
            /\ \A u \in Users : u # UserOf[t] => pending'[u] = pending[u]
            /\ pending'[UserOf[t]] = IF MayAdd(map, c.address)
                                     THEN Add(map, c.address, Recorded(t)) ELSE map
        BY <2>4, ContinueAddTyped DEF AddCall
      <3>2. GetPending(map, a) \subseteq GetPending(pending'[UserOf[t]], a)
        BY <3>1, AddKeeps
      <3> QED BY <1>1, <3>1, <3>2, StaysIfPruned
    <2> QED BY <1>3, <2>1, <2>2, <2>3, <2>4 DEF BackendActs
  <1>4. CASE (\E u \in Utxos : Confirm(u)) \/ (\E i \in DOMAIN signed : Mine(i)) \/ Tick
    BY <1>4, OutsideTyped, StaysIfSame
  <1>5. CASE UNCHANGED vars
    BY <1>5, StaysIfSame DEF vars
  <1> QED BY <1>2, <1>3, <1>4, <1>5 DEF Next

(* A reason stays one. *)
LEMMA ReasonStays ==
  ASSUME Inv, Local, [Next]_vars, NEW at \in Nat, NEW us
  PROVE  /\ at + Day < clock => at + Day < clock'
         /\ (\A u \in us \cap Early : chain[u] = "spent") =>
              \A u \in us \cap Early : chain'[u] = "spent"
  BY EarlyStep, LimitsAssumption

-----------------------------------------------------------------------------
(* The calls that record transactions *)

(* Such a call is for the address of its transaction. *)
Named ==
  \A t \in Tabs : InFlight(AddCall(t)) => signed[AddCall(t).tx].address = AddCall(t).address

(* Only the signer starts one, for the transaction it signs. *)
LEMMA AddCallKept ==
  ASSUME Inv, NEW t \in Tabs, BitcoinActs(t), NEW s \in Tabs, InFlight(AddCall(s)')
  PROVE  InFlight(AddCall(s)) /\ AddCall(s)'.tx = AddCall(s).tx
                              /\ AddCall(s)'.address = AddCall(s).address
  <1>1. CASE \E e \in Endpoints : BitcoinAnswers(t, e) /\ UNCHANGED <<wizard, faults>>
    <2>1. PICK e \in Endpoints : BitcoinAnswers(t, e)
      BY <1>1
    <2>2. CASE s = t /\ e = "add"
      BY <2>1, <2>2, AnswerTyped, CallTyped DEF AddCall
    <2>3. CASE s # t \/ e # "add"
      BY <2>1, <2>3, AnswerTyped, CallsTyped DEF AddCall
    <2> QED BY <2>2, <2>3
  <1>2. CASE /\ UNCHANGED <<wizard, faults>> /\ calls'[t]["get"] = NoCall
             /\ \A d \in Tabs, e \in Endpoints : d # t \/ e # "get" => calls'[d][e] = calls[d][e]
    BY <1>2, CallsTyped DEF AddCall
  <1>3. CASE SelectFailed(t) /\ InFlight(calls[t]["select"])
    BY <1>3, SelectFailedTyped, CallsTyped DEF AddCall
  <1>4. CASE /\ calls'[t]["add"] = NoCall
             /\ \A d \in Tabs, e \in Endpoints : d # t \/ e # "add" => calls'[d][e] = calls[d][e]
    BY <1>4, CallTyped, CallsTyped DEF AddCall
  <1> QED BY <1>1, <1>2, <1>3, <1>4, BitcoinTyped

LEMMA AddCallStays ==
  ASSUME Inv, [Next]_vars, NEW s \in Tabs, InFlight(AddCall(s)')
  PROVE  \/ /\ InFlight(AddCall(s)) /\ AddCall(s)'.tx = AddCall(s).tx
            /\ AddCall(s)'.address = AddCall(s).address
         \/ /\ SignerActs(s) /\ signed' # signed /\ AddCall(s)'.tx = Len(signed')
  <1> DEFINE Same == /\ InFlight(AddCall(s)) /\ AddCall(s)'.tx = AddCall(s).tx
                     /\ AddCall(s)'.address = AddCall(s).address
  <1>1. ASSUME calls'[s]["add"] = calls[s]["add"] PROVE Same
    BY <1>1 DEF AddCall
  <1>2. "add" \in Endpoints
    BY CallsTyped
  <1>3. ASSUME NEW t \in Tabs, UserActs(t) PROVE Same
    BY <1>1, <1>2, <1>3, UserTyped
  <1>4. ASSUME NEW t \in Tabs, SignerActs(t)
        PROVE  Same \/ (s = t /\ signed' # signed /\ AddCall(s)'.tx = Len(signed'))
    <2>1. CASE s # t \/ calls' = calls
      BY <1>1, <1>2, <1>4, <2>1, SignerTyped
    <2>2. CASE s = t /\ calls' # calls
      <3>1. Len(signed') = Len(signed) + 1 /\ calls'[t]["add"].tx = Len(signed') /\ Len(signed) \in Nat
        BY <1>4, <2>2, SignerTyped, CallsTyped
      <3>2. signed' # signed
        BY <3>1
      <3> QED BY <2>2, <3>1, <3>2 DEF AddCall
    <2> QED BY <2>1, <2>2
  <1>5. ASSUME NEW t \in Tabs, BackendActs(t) PROVE Same
    <2>1. CASE ContinueAdd(t)
      BY <1>1, <1>2, <2>1, ContinueAddTyped, CallTyped DEF AddCall
    <2>2. CASE ContinueGet(t)
      BY <1>1, <1>2, <2>2, ContinueGetTyped
    <2>3. CASE FeesArrive(t)
      BY <1>1, <1>2, <2>3, FeesArriveTyped
    <2>4. CASE ContinueSelect(t)
      <3>1. InFlight(calls[t]["select"])
        BY <2>4, ContinueSelectTyped
      <3>2. CASE SelectFailed(t)
        BY <1>1, <1>2, <3>1, <3>2, SelectFailedTyped
      <3>3. CASE \A d \in Tabs, e \in Endpoints :
                   d # t \/ e # "select" => calls'[d][e] = calls[d][e]
        BY <1>1, <1>2, <3>3
      <3> QED BY <2>4, <3>2, <3>3, ContinueSelectTyped
    <2> QED BY <1>5, <2>1, <2>2, <2>3, <2>4 DEF BackendActs
  <1>6. CASE UNCHANGED calls
    BY <1>1, <1>6
  <1> QED BY <1>3, <1>4, <1>5, <1>6, AddCallKept, OutsideTyped, UpgradeTyped DEF Next, vars

LEMMA WhoSigns ==
  ASSUME Inv, [Next]_vars
  PROVE  \/ signed' = signed \/ Upgrade
         \/ \E t \in Tabs : SignerActs(t) \/ ContinueAdd(t)
  <1>1. ASSUME NEW t \in Tabs, BackendActs(t) PROVE signed' = signed \/ ContinueAdd(t)
    BY <1>1 DEF BackendActs, ContinueGet, ContinueSelect, FeesArrive
  <1> QED BY <1>1, UserTyped, BitcoinTyped, OutsideTyped DEF Next, vars

LEMMA SignedStays ==
  ASSUME Inv, [Next]_vars
  PROVE  /\ DOMAIN signed = 1..Len(signed) /\ DOMAIN signed' = 1..Len(signed')
         /\ Len(signed) \in Nat /\ Len(signed') \in Nat /\ Len(signed) <= Len(signed')
         /\ \A i \in DOMAIN signed : /\ signed'[i].address = signed[i].address
                                     /\ signed'[i].utxos = signed[i].utxos
                                     /\ signed'[i].at = signed[i].at
  <1>1. /\ DOMAIN signed = 1..Len(signed) /\ DOMAIN signed' = 1..Len(signed')
        /\ Len(signed) \in Nat /\ Len(signed') \in Nat
    BY InvStep DEF Inv, Flat
  <1>2. CASE signed' = signed
    BY <1>1, <1>2
  <1>3. ASSUME NEW t \in Tabs, SignerActs(t), signed' # signed
        PROVE  /\ Len(signed') = Len(signed) + 1
               /\ \A i \in 1..Len(signed) : signed'[i] = signed[i]
    BY <1>3, SignerTyped
  <1>4. ASSUME NEW t \in Tabs, ContinueAdd(t)
        PROVE  /\ Len(signed') = Len(signed)
               /\ \A i \in DOMAIN signed : /\ signed'[i].address = signed[i].address
                                           /\ signed'[i].utxos = signed[i].utxos
                                           /\ signed'[i].at = signed[i].at
    BY <1>4, ContinueAddTyped
  <1>5. ASSUME Upgrade
        PROVE  /\ Len(signed') = Len(signed)
               /\ \A i \in DOMAIN signed : /\ signed'[i].address = signed[i].address
                                           /\ signed'[i].utxos = signed[i].utxos
                                           /\ signed'[i].at = signed[i].at
    <2>1. \A i \in DOMAIN signed : signed[i] \in Signed
      BY DEF Inv, Flat
    <2> QED BY <1>5, <2>1, UpgradeTyped DEF Upgrade, Signed
  <1>6. CASE signed' # signed /\ \E t \in Tabs : SignerActs(t)
    <2>1. /\ Len(signed') = Len(signed) + 1
          /\ \A i \in 1..Len(signed) : signed'[i] = signed[i]
      BY <1>3, <1>6
    <2>2. \A i \in DOMAIN signed : signed'[i] = signed[i]
      BY <1>1, <2>1
    <2> QED BY <1>1, <2>1, <2>2
  <1>7. CASE \E t \in Tabs : ContinueAdd(t)
    <2>1. /\ Len(signed') = Len(signed)
          /\ \A i \in DOMAIN signed : /\ signed'[i].address = signed[i].address
                                      /\ signed'[i].utxos = signed[i].utxos
                                      /\ signed'[i].at = signed[i].at
      BY <1>4, <1>7
    <2> QED BY <1>1, <2>1
  <1>8. CASE Upgrade
    BY <1>1, <1>5, <1>8
  <1> QED BY <1>2, <1>6, <1>7, <1>8, WhoSigns

LEMMA NamedStep == ASSUME Inv, Named, [Next]_vars PROVE Named'
  <1> SUFFICES ASSUME NEW s \in Tabs, InFlight(AddCall(s)')
               PROVE  signed'[AddCall(s)'.tx].address = AddCall(s)'.address
    BY DEF Named
  <1>1. CASE InFlight(AddCall(s)) /\ AddCall(s)'.tx = AddCall(s).tx
                                  /\ AddCall(s)'.address = AddCall(s).address
    BY <1>1, AddCallTyped, SignedStays DEF Named
  <1>2. CASE SignerActs(s) /\ signed' # signed /\ AddCall(s)'.tx = Len(signed')
    <2>1. /\ signed'[Len(signed')] = [address |-> wizard[s].address, utxos |-> wizard[s].utxosFee,
                                      at |-> clock, recorded |-> Unrecorded]
          /\ wizard'[s].address = wizard[s].address
      BY <1>2, SignerTyped
    <2>2. signed'[Len(signed')].address = wizard[s].address
      BY <2>1
    <2>3. AddCall(s)'.address = wizard'[s].address
      BY InvStep DEF Inv, Calling, AddCall
    <2> QED BY <1>2, <2>1, <2>2, <2>3
  <1> QED BY <1>1, <1>2, AddCallStays

-----------------------------------------------------------------------------
(* What is recorded stays *)

Entry(i) ==
  [id |-> i, utxos |-> signed[i].utxos, created |-> signed[i].recorded]
KeptOk(i) ==
  \/ signed[i].recorded = Unrecorded
  \/ signed[i].recorded + Day < clock
  \/ \A u \in signed[i].utxos \cap Early : chain[u] = "spent"
  \/ Entry(i) \in PendingAt(signed[i].address)
Kept == \A i \in DOMAIN signed : KeptOk(i)

LEMMA SignedTyped ==
  ASSUME Inv, NEW i \in DOMAIN signed
  PROVE  /\ signed[i].address \in Addresses /\ signed[i].utxos \subseteq Utxos
         /\ signed[i].at \in Nat
         /\ signed[i].recorded \in Nat \/ signed[i].recorded = Unrecorded
  <1>1. signed[i] \in Signed
    BY DEF Inv, Flat
  <1> QED BY <1>1, BoundsAssumption DEF Signed

(* Transactions a step does not record anew. *)
LEMMA KeptStays ==
  ASSUME Inv, Local, OneNetwork, [Next]_vars, ~Upgrade, NEW i \in DOMAIN signed, KeptOk(i),
         signed'[i] = signed[i]
  PROVE  KeptOk(i)'
  <1>1. /\ signed[i].address \in Addresses
        /\ signed[i].recorded \in Nat \/ signed[i].recorded = Unrecorded
        /\ OfAddress(signed[i].utxos, signed[i].address)
    BY SignedTyped DEF Local, SignedOk
  <1>2. CASE signed[i].recorded = Unrecorded
    BY <1>2 DEF KeptOk
  <1>3. CASE signed[i].recorded \in Nat
    <2>1. /\ signed[i].recorded + Day < clock => signed[i].recorded + Day < clock'
          /\ (\A u \in signed[i].utxos \cap Early : chain[u] = "spent") =>
               \A u \in signed[i].utxos \cap Early : chain'[u] = "spent"
      BY <1>3, ReasonStays
    <2>2. CASE Entry(i) \in PendingAt(signed[i].address)
      <3>1. Stays(Entry(i), signed[i].address)
        BY <1>1, <2>2, OnlyForAReason DEF Entry
      <3> QED BY <2>1, <3>1 DEF Stays, Reason, Gone, Entry, KeptOk
    <2> QED BY <1>2, <2>1, <2>2 DEF KeptOk
  <1> QED BY <1>1, <1>2, <1>3

LEMMA KeptStep ==
  ASSUME Inv, Local, Named, OneNetwork, Kept, [Next]_vars
  PROVE  Kept'
  <1>1. CASE Upgrade
    BY <1>1, UpgradeTyped DEF Kept, KeptOk
  <1>2. CASE ~Upgrade
    <2>1. CASE signed' = signed
      BY <1>2, <2>1, KeptStays DEF Kept
    <2>2. ASSUME NEW t \in Tabs, SignerActs(t), signed' # signed PROVE Kept'
      <3>1. /\ Len(signed') = Len(signed) + 1
            /\ \A i \in 1..Len(signed) : signed'[i] = signed[i]
            /\ signed'[Len(signed')] = [address |-> wizard[t].address, utxos |-> wizard[t].utxosFee,
                                        at |-> clock, recorded |-> Unrecorded]
        BY <2>2, SignerTyped
      <3> SUFFICES ASSUME NEW i \in DOMAIN signed' PROVE KeptOk(i)'
        BY DEF Kept
      <3>2. (i \in DOMAIN signed /\ signed'[i] = signed[i]) \/ i = Len(signed')
        BY <3>1, SignedStays
      <3>3. CASE i \in DOMAIN signed /\ signed'[i] = signed[i]
        BY <1>2, <3>3, KeptStays DEF Kept
      <3>4. CASE i = Len(signed')
        BY <3>1, <3>4 DEF KeptOk
      <3> QED BY <3>2, <3>3, <3>4
    <2>3. ASSUME NEW t \in Tabs, ContinueAdd(t) PROVE Kept'
      <3> DEFINE c == AddCall(t)  map == Pruned(t, c, clock)
      <3>1. /\ DOMAIN signed' = DOMAIN signed /\ InFlight(c)
            /\ \A i \in DOMAIN signed : i # c.tx => signed'[i] = signed[i]
            /\ signed'[c.tx].recorded = IF MayAdd(map, c.address) THEN clock ELSE Unrecorded
            /\ pending'[UserOf[t]] = IF MayAdd(map, c.address)
                                     THEN Add(map, c.address, Recorded(t)) ELSE map
        BY <2>3, ContinueAddTyped
      <3>2. c.tx \in DOMAIN signed /\ signed[c.tx].address = c.address /\ OwnerOf[c.address] = UserOf[t]
        BY <3>1, AddCallTyped DEF Named
      <3>3. signed'[c.tx].address = c.address /\ signed'[c.tx].utxos = signed[c.tx].utxos
        BY <3>2, SignedStays
      <3> SUFFICES ASSUME NEW i \in DOMAIN signed PROVE KeptOk(i)'
        BY <3>1 DEF Kept
      <3>4. CASE i # c.tx
        BY <1>2, <3>1, <3>4, KeptStays DEF Kept
      <3>5. CASE i = c.tx /\ MayAdd(map, c.address)
        <4>1. Recorded(t) \in GetPending(pending'[UserOf[t]], c.address)
          BY <3>1, <3>5 DEF GetPending, Add
        <4>2. Entry(i)' = Recorded(t)
          BY <3>1, <3>3, <3>5 DEF Entry, Recorded
        <4> QED BY <3>2, <3>3, <3>5, <4>1, <4>2 DEF KeptOk, PendingAt
      <3>6. CASE i = c.tx /\ ~MayAdd(map, c.address)
        BY <3>1, <3>6 DEF KeptOk
      <3> QED BY <3>4, <3>5, <3>6
    <2>4. signed' = signed \/ \E t \in Tabs : SignerActs(t) \/ ContinueAdd(t)
      BY <1>2, WhoSigns
    <2> QED BY <2>1, <2>2, <2>3, <2>4
  <1> QED BY <1>1, <1>2

(* On one bitcoin network, a transaction the backend has recorded stays in  *)
(* the list of its address until it is a day old or no early utxo it spends *)
(* is left, whatever the endpoints prune and however their calls interleave *)
(* with other tabs, failures and upgrades.                                  *)
THEOREM RecordedStaysTracked ==
  ASSUME OneNetwork PROVE Spec => []Tracked
  <1>1. Inv /\ Local /\ Kept => Tracked
    BY DEF Kept, KeptOk, Tracked, Entry
  <1>2. Init => Kept
    BY DEF Init, Kept
  <1>3. Init => Named
    BY CallTyped, CallsTyped, InvInit DEF Init, Named, AddCall
  <1> QED BY <1>1, <1>2, <1>3, InvInit, InvStep, LocalInit, LocalStep, NamedStep, KeptStep, PTL DEF Spec

-----------------------------------------------------------------------------
(* No double spending *)

(* Each user has one tab. *)
OneTab == \A s, t \in Tabs : UserOf[s] = UserOf[t] => s = t
Calm == faults = 0 /\ upgrades = 0

(* A transaction no later one of its address competes with: it is a day     *)
(* old, or all it spends is spent.                                          *)
Resolved(i) ==
  \/ signed[i].at + Day < clock
  \/ \A u \in signed[i].utxos \cap Early : chain[u] = "spent"
Listed(i) ==
  \E tx \in PendingAt(signed[i].address) :
    tx.id = i /\ tx.utxos = signed[i].utxos /\ tx.created >= signed[i].at
Adding(i) == \E t \in Tabs : InFlight(AddCall(t)) /\ AddCall(t).tx = i

(* Every other one is in the list, or on its way there ...                  *)
AllListed == \A i \in DOMAIN signed : Resolved(i) \/ Listed(i) \/ Adding(i)

(* ... so a tab that may spend the utxos of an address knows that all of    *)
(* its transactions are resolved, unless it has just signed one itself.     *)
Spending ==
  \A t \in Tabs, a \in Addresses :
    MayRecord(t, a) /\ ~InFlight(AddCall(t)) =>
      \A i \in DOMAIN signed : signed[i].address = a => Resolved(i)

Exclusive == Calm => AllListed /\ Spending /\ NoDoubleSpend

LEMMA CalmStep ==
  ASSUME Inv, [Next]_vars, Calm'
  PROVE  Calm /\ UNCHANGED <<faults, upgrades>> /\ ~Upgrade
  <1>1. faults \in Nat /\ upgrades \in Nat
    BY BoundsAssumption DEF Inv, Flat
  <1>2. ASSUME NEW t \in Tabs, UserActs(t) \/ SignerActs(t) \/ BitcoinActs(t) \/ BackendActs(t)
        PROVE  faults' \in {faults, faults + 1} /\ upgrades' = upgrades
    <2>1. CASE UserActs(t)
      BY <2>1, UserTyped DEF outside
    <2>2. CASE SignerActs(t)
      BY <2>2 DEF SignerActs, SignerSends, SignerAnswerLost, SignerRefuses, outside
    <2>3. CASE BitcoinActs(t)
      BY <2>3, BitcoinTyped DEF outside
    <2>4. CASE BackendActs(t)
      BY <2>4 DEF BackendActs, ContinueGet, ContinueSelect, FeesArrive, ContinueAdd, outside
    <2> QED BY <1>2, <2>1, <2>2, <2>3, <2>4
  <1>3. faults' \in {faults, faults + 1} /\ upgrades' \in {upgrades, upgrades + 1}
    BY <1>2, OutsideTyped, UpgradeTyped DEF Next, vars
  <1>4. UNCHANGED <<faults, upgrades>>
    BY <1>1, <1>3 DEF Calm
  <1> QED BY <1>1, <1>4, UpgradeTyped DEF Calm

LEMMA ResolvedStays ==
  ASSUME Inv, Local, [Next]_vars, NEW i \in DOMAIN signed, Resolved(i)
  PROVE  Resolved(i)'
  BY SignedTyped, SignedStays, ReasonStays DEF Resolved

(* A transaction that leaves the list is resolved. *)
LEMMA ListedStays ==
  ASSUME Inv, Local, OneNetwork, [Next]_vars, ~Upgrade, NEW i \in DOMAIN signed, Listed(i)
  PROVE  Listed(i)' \/ Resolved(i)'
  <1>1. /\ signed[i].address \in Addresses /\ signed[i].at \in Nat
        /\ OfAddress(signed[i].utxos, signed[i].address)
    BY SignedTyped DEF Local, SignedOk
  <1>2. PICK tx \in PendingAt(signed[i].address) :
          tx.id = i /\ tx.utxos = signed[i].utxos /\ tx.created >= signed[i].at
    BY DEF Listed
  <1>3. tx.created \in Nat /\ clock \in Nat
    <2>1. tx \in PendingTransactions
      BY <1>1, PendingFinite
    <2> QED BY <2>1, BoundsAssumption DEF PendingTransactions, Inv, Flat
  <1>4. Stays(tx, signed[i].address)
    BY <1>1, <1>2, OnlyForAReason
  <1>5. CASE Reason(tx)
    <2>1. Resolved(i)
      BY <1>1, <1>2, <1>3, <1>5, LimitsAssumption DEF Resolved, Reason, Gone
    <2> QED BY <2>1, ResolvedStays
  <1>6. CASE tx \in PendingAt(signed[i].address)'
    BY <1>2, <1>6, SignedStays DEF Listed
  <1> QED BY <1>4, <1>5, <1>6 DEF Stays

(* The only tab of a user that may record finds nothing pending. *)
LEMMA NothingPending ==
  ASSUME Inv, OneTab, OnePending, faults = 0, NEW t \in Tabs, NEW a \in Addresses,
         OwnerOf[a] = UserOf[t], MayRecord(t, a)
  PROVE  PendingAt(a) = {}
  <1>1. TabsOf(a) = {t} /\ Recorders(a) = {t}
    BY DEF OneTab, TabsOf, Recorders
  <1>2. Cardinality(TabsOf(a)) = 1 /\ Cardinality(Recorders(a)) = 1
    BY <1>1, FS_Singleton
  <1>3. Cardinality(PendingAt(a)) = 0
    BY <1>2, PendingFinite DEF OnePending, RoomFor
  <1> QED BY <1>3, PendingFinite, FS_EmptySet

(* So its transaction is never refused. *)
LEMMA AddFits ==
  ASSUME Inv, OneNetwork, OneTab, OnePending, Calm, NEW t \in Tabs, InFlight(AddCall(t)), NEW now
  PROVE  MayAdd(Pruned(t, AddCall(t), now), AddCall(t).address)
  <1> DEFINE a == AddCall(t).address  map == Pruned(t, AddCall(t), now)
  <1>1. /\ a \in Addresses /\ OwnerOf[a] = UserOf[t] /\ MayRecord(t, a)
    BY AddCallTyped DEF MayRecord
  <1>2. PendingAt(a) = {}
    BY <1>1, NothingPending DEF Calm
  <1>3. GetPending(map, a) = {}
    BY <1>1, <1>2, PruneKeeps DEF PendingAt, Pruned
  <1>4. IsMap(UserOf[t], map)
    BY PrunedTyped
  <1>5. a \notin DOMAIN map
    <2>1. SUFFICES ASSUME a \in DOMAIN map PROVE FALSE
      OBVIOUS
    <2>2. map[a] = {} /\ Cardinality(map[a]) \in 1..MaxPending
      BY <1>3, <1>4, <2>1 DEF GetPending, IsMap
    <2> QED BY <2>2, FS_EmptySet
  <1>6. DOMAIN map = {}
    BY <1>1, <1>4, <1>5 DEF IsMap, OneNetwork
  <1> QED BY <1>5, <1>6, FS_EmptySet, LimitsAssumption DEF MayAdd

LEMMA AddCallEnds ==
  ASSUME Inv, [Next]_vars, Calm', NEW s \in Tabs, InFlight(AddCall(s)), ~ContinueAdd(s)
  PROVE  InFlight(AddCall(s)') /\ AddCall(s)'.tx = AddCall(s).tx
  <1> DEFINE Same == InFlight(AddCall(s)') /\ AddCall(s)'.tx = AddCall(s).tx
  <1>1. ASSUME calls'[s]["add"] = calls[s]["add"] PROVE Same
    BY <1>1 DEF AddCall
  <1>2. "add" \in Endpoints /\ faults' = faults /\ faults \in Nat
    BY CallsTyped, CalmStep, BoundsAssumption DEF Inv, Flat
  <1>3. ASSUME NEW t \in Tabs, UserActs(t) PROVE Same
    BY <1>1, <1>2, <1>3, UserTyped
  <1>4. ASSUME NEW t \in Tabs, SignerActs(t) PROVE Same
    <2>1. s # t
      BY <1>4, SignerTyped DEF AddCall
    <2> QED BY <1>1, <1>2, <1>4, <2>1, SignerTyped
  <1>5. ASSUME NEW t \in Tabs, BitcoinActs(t) PROVE Same
    <2>1. CASE \E e \in Endpoints : BitcoinAnswers(t, e)
      <3>1. PICK e \in Endpoints : BitcoinAnswers(t, e)
        BY <2>1
      <3>2. CASE s = t /\ e = "add"
        BY <3>1, <3>2, AnswerTyped, CallTyped DEF AddCall
      <3>3. CASE s # t \/ e # "add"
        BY <1>1, <1>2, <3>1, <3>3, AnswerTyped
      <3> QED BY <3>2, <3>3
    <2>2. CASE \A d \in Tabs, e \in Endpoints : d # t \/ e # "get" => calls'[d][e] = calls[d][e]
      BY <1>1, <1>2, <2>2
    <2>3. CASE SelectFailed(t) /\ InFlight(calls[t]["select"])
      BY <1>1, <1>2, <2>3, SelectFailedTyped
    <2>4. faults' # faults + 1
      BY <1>2
    <2> QED BY <1>5, <2>1, <2>2, <2>3, <2>4, BitcoinTyped
  <1>6. ASSUME NEW t \in Tabs, BackendActs(t) PROVE Same
    <2>1. CASE ContinueAdd(t)
      BY <1>1, <1>2, <2>1, ContinueAddTyped
    <2>2. CASE ContinueGet(t)
      BY <1>1, <1>2, <2>2, ContinueGetTyped
    <2>3. CASE FeesArrive(t)
      BY <1>1, <1>2, <2>3, FeesArriveTyped
    <2>4. CASE ContinueSelect(t)
      <3>1. InFlight(calls[t]["select"])
        BY <2>4, ContinueSelectTyped
      <3>2. CASE SelectFailed(t)
        BY <1>1, <1>2, <3>1, <3>2, SelectFailedTyped
      <3>3. CASE \A d \in Tabs, e \in Endpoints :
                   d # t \/ e # "select" => calls'[d][e] = calls[d][e]
        BY <1>1, <1>2, <3>3
      <3> QED BY <2>4, <3>2, <3>3, ContinueSelectTyped
    <2> QED BY <1>6, <2>1, <2>2, <2>3, <2>4 DEF BackendActs
  <1>7. CASE UNCHANGED calls
    BY <1>1, <1>7
  <1> QED BY <1>3, <1>4, <1>5, <1>6, <1>7, OutsideTyped, UpgradeTyped DEF Next, vars

(* What has not been signed before is on its way to the list.               *)
LEMMA NewSigned ==
  ASSUME Inv, [Next]_vars, Calm', NEW i \in DOMAIN signed', i \notin DOMAIN signed
  PROVE  \E t \in Tabs :
           /\ SignerActs(t) /\ i = Len(signed')
           /\ InFlight(AddCall(t)') /\ AddCall(t)'.tx = i
           /\ signed'[i] = [address |-> wizard[t].address, utxos |-> wizard[t].utxosFee,
                            at |-> clock, recorded |-> Unrecorded]
  <1>1. ~Upgrade /\ faults' # faults + 1
    BY CalmStep, BoundsAssumption DEF Inv, Flat
  <1>2. Len(signed') # Len(signed) /\ signed' # signed
    BY SignedStays
  <1>3. PICK t \in Tabs : SignerActs(t)
    BY <1>1, <1>2, WhoSigns, ContinueAddTyped
  <1>4. Len(signed') = Len(signed) + 1
    BY <1>2, <1>3, SignerTyped
  <1>5. i = Len(signed')
    BY <1>4, SignedStays
  <1>6. signed'[Len(signed')] = [address |-> wizard[t].address, utxos |-> wizard[t].utxosFee,
                                 at |-> clock, recorded |-> Unrecorded]
    BY <1>2, <1>3, SignerTyped
  <1>7. InFlight(calls'[t]["add"]) /\ calls'[t]["add"].tx = Len(signed')
    BY <1>1, <1>2, <1>3, SignerTyped
  <1> QED BY <1>3, <1>5, <1>6, <1>7 DEF AddCall

LEMMA AllListedStep ==
  ASSUME Inv, Local, Named, OneNetwork, OneTab, OnePending, AllListed, [Next]_vars, Calm'
  PROVE  AllListed'
  <1> SUFFICES ASSUME NEW i \in DOMAIN signed' PROVE Resolved(i)' \/ Listed(i)' \/ Adding(i)'
    BY DEF AllListed
  <1>1. Calm /\ ~Upgrade /\ faults' = faults /\ faults \in Nat
    BY CalmStep, BoundsAssumption DEF Inv, Flat
  <1>2. CASE i \in DOMAIN signed /\ (Resolved(i) \/ Listed(i))
    BY <1>1, <1>2, ResolvedStays, ListedStays
  <1>3. CASE i \in DOMAIN signed /\ Adding(i)
    <2>1. PICK s \in Tabs : InFlight(AddCall(s)) /\ AddCall(s).tx = i
      BY <1>3 DEF Adding
    <2>2. CASE ~ContinueAdd(s)
      BY <2>1, <2>2, AddCallEnds DEF Adding
    <2>3. CASE ContinueAdd(s)
      <3> DEFINE c == AddCall(s)  map == Pruned(s, c, clock)
      <3>1. MayAdd(map, c.address)
        BY <1>1, <2>1, AddFits
      <3>2. pending'[UserOf[s]] = Add(map, c.address, Recorded(s))
        BY <2>3, <3>1, ContinueAddTyped
      <3>3. Recorded(s) \in GetPending(pending'[UserOf[s]], c.address)
        BY <3>2 DEF GetPending, Add
      <3>4. signed[i].address = c.address /\ OwnerOf[c.address] = UserOf[s]
        BY <2>1, AddCallTyped DEF Named
      <3>5. Recorded(s) \in PendingAt(signed[i].address)'
        BY <1>3, <3>3, <3>4, SignedStays DEF PendingAt
      <3>6. /\ Recorded(s).id = i /\ Recorded(s).utxos = signed[i].utxos
            /\ Recorded(s).created >= signed[i].at
        BY <1>3, <2>1, SignedTyped, BoundsAssumption DEF Recorded, Local, SignedOk, Inv, Flat
      <3> QED BY <1>3, <3>5, <3>6, SignedStays DEF Listed
    <2> QED BY <2>2, <2>3
  <1>4. CASE i \notin DOMAIN signed
    BY <1>4, NewSigned DEF Adding
  <1> QED BY <1>2, <1>3, <1>4 DEF AllListed

(* A tab only comes to spend when an endpoint has found nothing pending.    *)
LEMMA MayRecordStays ==
  ASSUME Inv, [Next]_vars, Calm', NEW s \in Tabs, NEW a \in Addresses, MayRecord(s, a)'
  PROVE  MayRecord(s, a) \/ /\ ContinueSelect(s) /\ calls[s]["select"].address = a
                            /\ GetPending(pending'[UserOf[s]], a) = {}
                            /\ ~InFlight(AddCall(s))
  <1>1. "select" \in Endpoints /\ faults' # faults + 1
    BY CallsTyped, CalmStep, BoundsAssumption DEF Inv, Flat
  <1>2. ASSUME NEW t \in Tabs, UserActs(t) PROVE MayRecord(s, a)
    BY <1>1, <1>2, UserTyped DEF MayRecord
  <1>3. ASSUME NEW t \in Tabs, SignerActs(t) PROVE MayRecord(s, a)
    BY <1>1, <1>3, SignerTyped DEF MayRecord
  <1>4. ASSUME NEW t \in Tabs, BitcoinActs(t) PROVE MayRecord(s, a)
    <2>1. CASE \E e \in Endpoints : BitcoinAnswers(t, e) /\ UNCHANGED <<wizard, faults>>
      BY <1>1, <2>1, AnswerTyped DEF MayRecord
    <2>2. CASE /\ UNCHANGED <<wizard, faults>>
               /\ \A d \in Tabs, e \in Endpoints : d # t \/ e # "get" => calls'[d][e] = calls[d][e]
      BY <1>1, <2>2 DEF MayRecord
    <2>3. CASE SelectFailed(t) /\ InFlight(calls[t]["select"])
      BY <1>1, <2>3, SelectFailedTyped DEF MayRecord, NoCall
    <2> QED BY <1>1, <1>4, <2>1, <2>2, <2>3, BitcoinTyped
  <1>5. CASE ContinueSelect(s)
    <2> DEFINE c == calls[s]["select"]
    <2>1. InFlight(c) /\ c \in Calls /\ pending'[UserOf[s]] = Pruned(s, c, clock)
      BY <1>5, ContinueSelectTyped
    <2>2. CASE SelectFailed(s)
      BY <2>1, <2>2, SelectFailedTyped DEF MayRecord, NoCall
    <2>3. CASE /\ GetPending(Pruned(s, c, clock), c.address) = {} /\ wizard' = wizard
               /\ calls'[s]["select"] = [c EXCEPT !.stage = "fees"]
      <3>1. calls'[s]["select"].address = c.address
        BY <2>1, <2>3 DEF Calls
      <3>2. ~InFlight(AddCall(s))
        BY <2>1, AddCallTyped
      <3>3. MayRecord(s, a) \/ c.address = a
        BY <2>3, <3>1 DEF MayRecord
      <3> QED BY <1>5, <2>1, <2>3, <3>2, <3>3
    <2> QED BY <1>5, <2>2, <2>3, ContinueSelectTyped
  <1>6. ASSUME NEW t \in Tabs, BackendActs(t), ~ContinueSelect(s) PROVE MayRecord(s, a)
    <2>1. CASE ContinueGet(t)
      <3>1. wizard' = wizard
        BY <2>1 DEF ContinueGet
      <3> QED BY <1>1, <2>1, <3>1, ContinueGetTyped DEF MayRecord
    <2>2. CASE ContinueSelect(t)
      <3>1. s # t /\ InFlight(calls[t]["select"])
        BY <1>6, <2>2, ContinueSelectTyped
      <3>2. wizard'[s] = wizard[s] /\ calls'[s]["select"] = calls[s]["select"]
        <4>1. CASE SelectFailed(t)
          BY <1>1, <3>1, <4>1, SelectFailedTyped
        <4>2. CASE /\ wizard' = wizard
                   /\ \A d \in Tabs, e \in Endpoints :
                        d # t \/ e # "select" => calls'[d][e] = calls[d][e]
          BY <1>1, <3>1, <4>2
        <4> QED BY <2>2, <4>1, <4>2, ContinueSelectTyped
      <3> QED BY <3>2 DEF MayRecord
    <2>3. CASE FeesArrive(t)
      BY <1>1, <2>3, FeesArriveTyped DEF MayRecord, NoCall
    <2>4. CASE ContinueAdd(t)
      <3>1. calls'[s]["select"] = calls[s]["select"]
        BY <1>1, <2>4, ContinueAddTyped, CallsTyped
      <3>2. \/ wizard'[s] = wizard[s]
            \/ wizard'[s].utxosFee = {}
            \/ wizard'[s].utxosFee = wizard[s].utxosFee /\ wizard'[s].address = wizard[s].address
        <4>1. CASE s # t
          BY <2>4, <4>1, ContinueAddTyped
        <4>2. CASE s = t /\ wizard'[t] = ClosedWizard(AddCall(t).address)
          BY <4>2 DEF ClosedWizard
        <4>3. CASE s = t /\ FailSend(t)
          BY <4>3, FailSendTyped
        <4> QED BY <2>4, <4>1, <4>2, <4>3, ContinueAddTyped
      <3> QED BY <3>1, <3>2 DEF MayRecord
    <2> QED BY <1>6, <2>1, <2>2, <2>3, <2>4 DEF BackendActs
  <1>7. CASE UNCHANGED <<wizard, calls>>
    BY <1>7 DEF MayRecord
  <1> QED BY <1>2, <1>3, <1>4, <1>5, <1>6, <1>7, OutsideTyped, UpgradeTyped DEF Next, vars

LEMMA RecordsOwn ==
  ASSUME Inv, NEW t \in Tabs, NEW a \in Addresses, MayRecord(t, a)
  PROVE  OwnerOf[a] = UserOf[t]
  BY TabsOk, CallsTyped DEF MayRecord, TabOk, InFlight

LEMMA SpendingStep ==
  ASSUME Inv, Local, Named, OneNetwork, OneTab, OnePending, AllListed, Spending, [Next]_vars, Calm'
  PROVE  Spending'
  <1> SUFFICES ASSUME NEW t \in Tabs, NEW a \in Addresses, MayRecord(t, a)', ~InFlight(AddCall(t)'),
                      NEW i \in DOMAIN signed', signed'[i].address = a
               PROVE  Resolved(i)'
    BY DEF Spending
  <1>1. Calm /\ ~Upgrade /\ faults' # faults + 1
    BY CalmStep, BoundsAssumption DEF Inv, Flat
  <1>2. OwnerOf[a] = UserOf[t]
    <2>1. CASE ContinueSelect(t) /\ calls[t]["select"].address = a
      <3>1. InFlight(calls[t]["select"]) /\ "select" \in Endpoints
        BY <2>1, ContinueSelectTyped, CallsTyped
      <3> QED BY <2>1, <3>1, TabsOk DEF TabOk
    <2> QED BY <2>1, MayRecordStays, RecordsOwn
  <1>3. i \in DOMAIN signed
    <2>1. SUFFICES ASSUME i \notin DOMAIN signed PROVE FALSE
      OBVIOUS
    <2>2. PICK s \in Tabs : InFlight(AddCall(s)') /\ signed'[i].address = wizard[s].address
      BY <2>1, NewSigned
    <2>3. OwnerOf[wizard[s].address] = UserOf[s]
      BY TabsOk DEF TabOk
    <2> QED BY <1>2, <2>2, <2>3 DEF OneTab
  <1>4. signed[i].address = a
    BY <1>3, SignedStays
  <1>5. CASE MayRecord(t, a) /\ ~InFlight(AddCall(t))
    BY <1>3, <1>4, <1>5, ResolvedStays DEF Spending
  <1>6. CASE MayRecord(t, a) /\ InFlight(AddCall(t))
    <2>1. ContinueAdd(t)
      BY <1>6, AddCallEnds
    <2>2. MayAdd(Pruned(t, AddCall(t), clock), AddCall(t).address)
      BY <1>1, <1>6, AddFits
    <2>3. wizard'[t] = ClosedWizard(AddCall(t).address)
      BY <1>1, <2>1, <2>2, ContinueAddTyped
    <2>4. calls'[t]["select"] = calls[t]["select"] /\ ~InFlight(calls[t]["select"])
      BY <1>6, <2>1, ContinueAddTyped, AddCallTyped, CallsTyped
    <2>5. ~MayRecord(t, a)'
      BY <2>3, <2>4 DEF MayRecord, ClosedWizard, InFlight
    <2> QED BY <2>5
  <1>7. CASE /\ ContinueSelect(t) /\ calls[t]["select"].address = a
             /\ GetPending(pending'[UserOf[t]], a) = {} /\ ~InFlight(AddCall(t))
    <2>1. ~Listed(i)'
      <3>1. PendingAt(a)' = {}
        BY <1>2, <1>7 DEF PendingAt
      <3> QED BY <3>1 DEF Listed
    <2>2. ~Adding(i)
      <3>1. SUFFICES ASSUME NEW s \in Tabs, InFlight(AddCall(s)), AddCall(s).tx = i PROVE s = t
        BY <1>7 DEF Adding
      <3> QED BY <1>2, <1>4, <3>1, AddCallTyped DEF Named, OneTab
    <2> QED BY <1>1, <1>3, <2>1, <2>2, ResolvedStays, ListedStays DEF AllListed
  <1> QED BY <1>5, <1>6, <1>7, MayRecordStays

LEMMA NoDoubleSpendStep ==
  ASSUME Inv, Local, Spending, NoDoubleSpend, [Next]_vars, Calm'
  PROVE  NoDoubleSpend'
  <1> SUFFICES ASSUME NEW i \in DOMAIN signed', NEW j \in DOMAIN signed',
                      NEW u \in signed'[i].utxos \cap signed'[j].utxos \cap Early,
                      i < j, chain'[u] = "unspent"
               PROVE  signed'[i].at + Day < signed'[j].at
    BY DEF NoDoubleSpend
  <1>1. Calm /\ chain[u] = "unspent"
    BY CalmStep, EarlyStep DEF Local, EarlyOk
  <1>2. CASE j \in DOMAIN signed
    <2>1. i \in DOMAIN signed
      BY <1>2, SignedStays
    <2>2. /\ signed'[i].utxos = signed[i].utxos /\ signed'[i].at = signed[i].at
          /\ signed'[j].utxos = signed[j].utxos /\ signed'[j].at = signed[j].at
      BY <1>2, <2>1, SignedStays
    <2>3. u \in signed[i].utxos \cap signed[j].utxos \cap Early
      BY <2>2
    <2> QED BY <1>1, <1>2, <2>1, <2>2, <2>3 DEF NoDoubleSpend, Calm
  <1>3. CASE j \notin DOMAIN signed
    <2>1. PICK t \in Tabs :
            /\ SignerActs(t) /\ j = Len(signed')
            /\ signed'[j] = [address |-> wizard[t].address, utxos |-> wizard[t].utxosFee,
                             at |-> clock, recorded |-> Unrecorded]
      BY <1>3, NewSigned
    <2>2. i \in DOMAIN signed
      <3>1. SUFFICES ASSUME i \notin DOMAIN signed PROVE FALSE
        OBVIOUS
      <3>2. i = Len(signed')
        BY <3>1, NewSigned
      <3> QED BY <2>1, <3>2, SignedStays
    <2>3. /\ signed'[j].at = clock /\ u \in wizard[t].utxosFee
          /\ u \in signed[i].utxos /\ signed'[i].at = signed[i].at
      BY <2>1, <2>2, SignedStays
    <2> DEFINE a == wizard[t].address
    <2>4. signed[i].address = a /\ a \in Addresses
      BY <2>2, <2>3, SignedTyped DEF Local, WizardsOk, SignedOk, OfAddress
    <2>5. MayRecord(t, a) /\ ~InFlight(AddCall(t))
      BY <2>1, SignerTyped DEF MayRecord, AddCall
    <2>6. Resolved(i)
      BY <2>2, <2>4, <2>5 DEF Spending
    <2> QED BY <1>1, <2>3, <2>6 DEF Resolved
  <1> QED BY <1>2, <1>3

(* A user with one tab and one address never signs two transactions that    *)
(* compete for a utxo within a day, however the calls of closed and         *)
(* reopened wizards interleave, as long as nothing fails and the backend    *)
(* keeps its heap.                                                          *)
THEOREM NothingSpentTwice ==
  ASSUME OneNetwork, OneTab PROVE Spec => []NoDoubleSpend
  <1>1. Init => Exclusive /\ Named
    <2> SUFFICES ASSUME Init PROVE Exclusive /\ Named
      OBVIOUS
    <2>1. Named
      BY CallTyped, CallsTyped, InvInit DEF Named, AddCall, Init
    <2>2. AllListed /\ Spending /\ NoDoubleSpend
      BY DEF Init, AllListed, Spending, NoDoubleSpend
    <2> QED BY <2>1, <2>2 DEF Exclusive
  <1>2. ASSUME Inv, Local, Named, OnePending, Exclusive, [Next]_vars PROVE Exclusive'
    BY <1>2, CalmStep, AllListedStep, SpendingStep, NoDoubleSpendStep DEF Exclusive
  <1>3. Exclusive => NoDoubleSpend
    BY DEF Exclusive, NoDoubleSpend, Calm
  <1> QED BY <1>1, <1>2, <1>3, InvInit, InvStep, LocalInit, LocalStep, NamedStep,
             OnePendingInit, OnePendingStep, PTL DEF Spec
=============================================================================
