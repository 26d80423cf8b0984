-------------------------- MODULE UserTokens_proofs --------------------------
(***************************************************************************)
(* Proofs about UserTokens: for any tabs, tokens, list length, and any      *)
(* number of loads, saves, faults and removals.                             *)
(***************************************************************************)
EXTENDS UserTokens, FiniteSetTheorems, TLAPS

LoadsT == [query : Calls, update : Calls]
Saves == [step : Steps, changes : Changes, load : Loads \cup {0}, hide : BOOLEAN]

-----------------------------------------------------------------------------
(* Types *)

LEMMA EntryTyped ==
  /\ Absent \in Entry
  /\ \A e \in Entry : /\ e.version \in Nat /\ e.enabled \in BOOLEAN
                      /\ e # Absent => e.version > 0
  <1>1. Absent \in Entry /\ Absent.version \in Nat /\ Absent.enabled \in BOOLEAN
    BY DEF Entry, Absent
  <1>2. ASSUME NEW e \in Entry PROVE e = Absent \/ e \in [version : Nat \ {0}, enabled : BOOLEAN]
    BY DEF Entry
  <1>3. ASSUME NEW e \in [version : Nat \ {0}, enabled : BOOLEAN]
        PROVE  e.version \in Nat /\ e.version > 0 /\ e.enabled \in BOOLEAN
    <2>1. e.version \in Nat \ {0} /\ e.enabled \in BOOLEAN
      OBVIOUS
    <2>2. \A n \in Nat \ {0} : n \in Nat /\ n > 0
      OBVIOUS
    <2> QED BY <2>1, <2>2
  <1> QED BY <1>1, <1>2, <1>3

LEMMA BlanksTyped ==
  /\ Empty \in Lists /\ NoCall \in Calls /\ Asked \in Calls /\ NoCall # Asked
  /\ NoLoad \in LoadsT /\ Started \in LoadsT
  /\ NoChange \in Changes /\ NotSaving \in Saves /\ EmptyPage \in Page
  <1>1. Empty \in Lists
    BY EntryTyped DEF Empty, Lists
  <1>2. NoCall \in Calls /\ Asked \in Calls /\ NoCall # Asked
    BY DEF NoCall, Asked, Calls
  <1>3. NoLoad \in LoadsT /\ Started \in LoadsT
    BY <1>2 DEF NoLoad, Started, LoadsT
  <1>4. NoChange \in Changes
    BY EntryTyped DEF NoChange, Changes
  <1>5. NotSaving \in Saves
    BY <1>4 DEF NotSaving, Saves, Steps
  <1>6. EmptyPage \in Page
    BY EntryTyped DEF EmptyPage, Page, NotShown
  <1> QED BY <1>1, <1>2, <1>3, <1>4, <1>5, <1>6

LEMMA CallAnswers ==
  ASSUME NEW c \in Calls
  PROVE  c.answer \in Lists /\ (c = NoCall \/ c = Asked \/ c.state = "read")
  BY BlanksTyped DEF Calls, NoCall, Asked

LEMMA ShownTyped ==
  ASSUME NEW s \in Page, NEW answer \in Lists, NEW certified \in BOOLEAN
  PROVE  Shown(s, answer, certified) \in Page
  BY DEF Shown, Page, Lists, Listed

(* What the backend does with a call. *)
LEMMA StoredTyped ==
  ASSUME NEW l \in Lists, NEW t \in Tokens, NEW c \in [sent : BOOLEAN, saw : Entry, enabled : BOOLEAN]
  PROVE  Stored(l, t, c) \in Entry /\ Stored(l, t, c) # Absent /\ Stored(l, t, c).version > 0
  <1>1. c.saw.version + 1 \in Nat \ {0} /\ c.enabled \in BOOLEAN
    BY EntryTyped
  <1> QED BY <1>1 DEF Stored, Entry, Absent

LEMMA WithTyped ==
  ASSUME NEW l \in Lists, NEW c \in Changes
  PROVE  With(l, c) \in Lists /\ Listed(With(l, c)) = Listed(l) \cup Sent(c)
  <1>1. \A t \in Tokens : Stored(l, t, c[t]) \in Entry /\ Stored(l, t, c[t]) # Absent
    BY StoredTyped DEF Changes
  <1> QED BY <1>1 DEF With, Lists, Listed, Sent

LEMMA ListedFinite ==
  ASSUME NEW l PROVE IsFiniteSet(Listed(l))
  BY FS_Subset, TokensAssumption DEF Listed

LEMMA WithFits ==
  ASSUME NEW l \in Lists, NEW c \in Changes, Fits(l, Sent(c)), Cardinality(Listed(l)) <= MaxTokens
  PROVE  Cardinality(Listed(With(l, c))) <= MaxTokens
  <1>1. CASE Sent(c) \subseteq Listed(l)
    <2>1. Listed(l) \cup Sent(c) = Listed(l)
      BY <1>1
    <2> QED BY <2>1, WithTyped
  <1>2. CASE ~(Sent(c) \subseteq Listed(l))
    BY <1>2, WithTyped DEF Fits
  <1> QED BY <1>1, <1>2

LEMMA ChangedTyped ==
  ASSUME TypeOK, NEW tab \in Tabs, NEW S, NEW enabled
  PROVE  Changed(tab, S, enabled) \in Changes
  BY BlanksTyped DEF TypeOK, Changed, Changes, NoChange, Page

LEMMA EndReloadTyped ==
  ASSUME TypeOK, NEW tab \in Tabs, NEW i \in Loads, EndReload(tab, i)
  PROVE  /\ saving' \in [Tabs -> Saves]
         /\ \A u \in Tabs : saving'[u] = saving[u] \/ saving'[u] = NotSaving
  BY BlanksTyped DEF TypeOK, EndReload, Saves

LEMMA TypeInit == Init => TypeOK
  <1> SUFFICES ASSUME Init PROVE TypeOK
    OBVIOUS
  <1>1. PICK S \in SUBSET Tokens :
          /\ Cardinality(S) <= MaxTokens
          /\ list = [t \in Tokens |-> IF t \in S THEN [version |-> 1, enabled |-> TRUE] ELSE Absent]
    BY DEF Init
  <1>2. list \in Lists
    BY <1>1, EntryTyped DEF Lists, Entry
  <1>3. Listed(list) = S
    BY <1>1 DEF Listed, Absent
  <1> QED BY <1>1, <1>2, <1>3, BlanksTyped, BoundsAssumption DEF Init, TypeOK, LoadsT, Saves

LEMMA TypeSend ==
  ASSUME TypeOK, NEW tab \in Tabs, NEW changed \in Changes, NEW hide \in BOOLEAN,
         Send(tab, changed, hide)
  PROVE  TypeOK'
  <1>1. [step |-> "sent", changes |-> changed, load |-> 0, hide |-> hide] \in Saves
    BY DEF Saves, Steps
  <1> QED BY <1>1, BoundsAssumption DEF Send, TypeOK, backendVars, Saves

LEMMA TypeAccept ==
  ASSUME TypeOK, NEW tab \in Tabs, Accept(tab) PROVE TypeOK'
  <1>1. saving[tab].changes \in Changes /\ list' = With(list, saving[tab].changes)
    BY DEF TypeOK, Accept
  <1>2. list' \in Lists /\ Cardinality(Listed(list')) <= MaxTokens
    BY <1>1, WithTyped, WithFits DEF TypeOK, Accept, Accepts
  <1> QED BY <1>2 DEF TypeOK, Accept, pageVars, Steps

LEMMA TypeRemove ==
  ASSUME TypeOK, NEW t \in Tokens, Remove(t) PROVE TypeOK'
  <1>1. list' \in Lists /\ Listed(list') \subseteq Listed(list)
    BY EntryTyped DEF TypeOK, Remove, Lists, Listed
  <1>2. Cardinality(Listed(list')) <= Cardinality(Listed(list))
    BY <1>1, FS_Subset, ListedFinite
  <1>3. Cardinality(Listed(list')) <= MaxTokens
    BY <1>2, ListedFinite, FS_CardinalityType, MaxTokensAssumption DEF TypeOK
  <1> QED BY <1>1, <1>3, BoundsAssumption DEF TypeOK, Remove, pageVars

LEMMA TypeSaveEnds ==
  ASSUME TypeOK, NEW tab \in Tabs, Reject(tab) \/ SaveRejected(tab) \/ SaveLost(tab)
  PROVE  TypeOK'
  <1>1. [NotSaving EXCEPT !.step = "rejected"] \in Saves
    BY BlanksTyped DEF Saves, Steps, NotSaving
  <1>2. UNCHANGED <<list, removals, store, loads, settled, saves>> /\ faults' \in 0..MaxFaults
    BY BoundsAssumption
    DEF TypeOK, Reject, SaveRejected, SaveLost, backendVars, pageVars
  <1>3. saving' \in [Tabs -> Saves]
    BY <1>1, BlanksTyped DEF TypeOK, Reject, SaveRejected, SaveLost, Saves
  <1> QED BY <1>2, <1>3 DEF TypeOK, Saves

LEMMA TypeOpenPage ==
  ASSUME TypeOK, NEW tab \in Tabs, OpenPage(tab) PROVE TypeOK'
  <1>1. PICK i \in Loads :
          /\ loads' = [loads EXCEPT ![tab] = [j \in Loads |-> IF j = i THEN Started ELSE NoLoad]]
          /\ store' = [store EXCEPT ![tab] = EmptyPage]
          /\ settled' = [settled EXCEPT ![tab] = TRUE]
          /\ UNCHANGED <<backendVars, saving, faults, saves>>
    BY DEF OpenPage
  <1> QED BY <1>1, BlanksTyped DEF TypeOK, backendVars, LoadsT

LEMMA TypeSaved ==
  ASSUME TypeOK, NEW tab \in Tabs, Saved(tab) PROVE TypeOK'
  <1>1. PICK i \in Loads :
          /\ StartLoad(tab, i)
          /\ saving' = [saving EXCEPT ![tab] = [NotSaving EXCEPT !.step = "reload", !.load = i]]
    BY DEF Saved
  <1>2. saving' \in [Tabs -> Saves]
    BY <1>1, BlanksTyped DEF TypeOK, Saves, Steps, NotSaving
  <1>3. loads' \in [Tabs -> [Loads -> LoadsT]] /\ settled' \in [Tabs -> BOOLEAN]
    BY <1>1, BlanksTyped DEF TypeOK, StartLoad, LoadsT, Loading
  <1>4. NotShown \in [entry : Entry, certified : BOOLEAN]
    BY EntryTyped DEF NotShown
  <1>5. PICK hidden : store' = [store EXCEPT ![tab] =
                                  [t \in Tokens |-> IF t \in hidden THEN NotShown ELSE @[t]]]
    BY DEF Saved
  <1>6. store' \in [Tabs -> Page]
    BY <1>4, <1>5 DEF TypeOK, Page
  <1> QED BY <1>2, <1>3, <1>6 DEF TypeOK, Saved, backendVars, Saves, LoadsT

LEMMA TypeLoad ==
  ASSUME TypeOK, NEW tab \in Tabs, NEW i \in Loads,
         \/ ReadUpdate(tab, i) \/ ReadQuery(tab, i)
         \/ QueryAnswered(tab, i) \/ UpdateAnswered(tab, i)
         \/ QueryFails(tab, i) \/ UpdateFails(tab, i)
  PROVE  TypeOK'
  <1>1. UNCHANGED <<list, removals, settled, saves>> /\ faults' \in 0..MaxFaults
    <2>1. /\ UNCHANGED <<list, removals, settled, saves>>
          /\ faults' = faults \/ (faults < MaxFaults /\ faults' = faults + 1)
      BY DEF ReadUpdate, ReadQuery, QueryAnswered, UpdateAnswered, QueryFails, UpdateFails,
             backendVars
    <2> QED BY <2>1, BoundsAssumption DEF TypeOK
  <1>2. saving' \in [Tabs -> Saves]
    BY EndReloadTyped
    DEF TypeOK, ReadUpdate, ReadQuery, QueryAnswered, UpdateAnswered, QueryFails, UpdateFails, Saves
  <1>3. [state |-> "read", answer |-> list] \in Calls
    BY DEF TypeOK, Calls
  <1>4. loads' \in [Tabs -> [Loads -> LoadsT]]
    <2>1. loads \in [Tabs -> [Loads -> LoadsT]]
      BY DEF TypeOK, LoadsT
    <2>2. ASSUME NEW c \in Calls
          PROVE  /\ [loads EXCEPT ![tab][i].query = c] \in [Tabs -> [Loads -> LoadsT]]
                 /\ [loads EXCEPT ![tab][i].update = c] \in [Tabs -> [Loads -> LoadsT]]
      <3>1. /\ [loads[tab][i] EXCEPT !.query = c] \in LoadsT
            /\ [loads[tab][i] EXCEPT !.update = c] \in LoadsT
        BY <2>1, <2>2 DEF LoadsT
      <3>2. ASSUME NEW l \in LoadsT
            PROVE  [loads EXCEPT ![tab] = [loads[tab] EXCEPT ![i] = l]]
                     \in [Tabs -> [Loads -> LoadsT]]
        BY <2>1
      <3> QED BY <3>1, <3>2
    <2>3. CASE ReadUpdate(tab, i)
      BY <2>2, <2>3, <1>3 DEF ReadUpdate
    <2>4. CASE ReadQuery(tab, i)
      BY <2>2, <2>4, <1>3 DEF ReadQuery
    <2>5. CASE QueryAnswered(tab, i) \/ QueryFails(tab, i)
      BY <2>2, <2>5, BlanksTyped DEF QueryAnswered, QueryFails
    <2>6. CASE UpdateAnswered(tab, i) \/ UpdateFails(tab, i)
      BY <2>2, <2>6, BlanksTyped DEF UpdateAnswered, UpdateFails
    <2> QED BY <2>3, <2>4, <2>5, <2>6
  <1>5. loads[tab][i].query.answer \in Lists /\ loads[tab][i].update.answer \in Lists
    BY CallAnswers DEF TypeOK
  <1>6. store' \in [Tabs -> Page]
    <2>1. store \in [Tabs -> Page] /\ store[tab] \in Page
      BY DEF TypeOK
    <2>2. PICK page \in Page : store' = store \/ store' = [store EXCEPT ![tab] = page]
      BY <1>5, <2>1, BlanksTyped, ShownTyped
      DEF ReadUpdate, ReadQuery, QueryAnswered, UpdateAnswered, QueryFails, UpdateFails
    <2> QED BY <2>1, <2>2
  <1> QED BY <1>1, <1>2, <1>4, <1>6 DEF TypeOK, Saves, LoadsT

LEMMA TypeNext == TypeOK /\ [Next]_vars => TypeOK'
  <1> SUFFICES ASSUME TypeOK, [Next]_vars PROVE TypeOK'
    OBVIOUS
  <1>1. CASE UNCHANGED vars
    BY <1>1 DEF vars, backendVars, pageVars, TypeOK
  <1>2. ASSUME NEW tab \in Tabs, NEW S \in SUBSET Tokens, NEW enabled, Save(tab, S, enabled)
        PROVE  TypeOK'
    BY <1>2, ChangedTyped, TypeSend DEF Save
  <1>3. ASSUME NEW tab \in Tabs, NEW t \in Tokens, SetOne(tab, t) PROVE TypeOK'
    BY <1>3, ChangedTyped, TypeSend DEF SetOne
  <1> QED BY <1>1, <1>2, <1>3, TypeAccept, TypeRemove, TypeSaveEnds, TypeOpenPage, TypeSaved,
             TypeLoad DEF Next

(* The variables keep their types, and the list its length: the check of   *)
(* add_to_user_token, made before each token, is enough for a whole call.  *)
THEOREM TypeCorrect == Spec => []TypeOK
  BY TypeInit, TypeNext, PTL DEF Spec

-----------------------------------------------------------------------------
(* What tabs know of the list                                              *)

(* An entry that a tab has of t is one the list had: older, or the same.   *)
KnownIn(l, t, e) ==
  e # Absent => /\ l[t] # Absent
                /\ e.version <= l[t].version
                /\ e.version = l[t].version => e = l[t]

(* Entries are on pages, in saves and in answers. *)
Views ==
  removals = 0 =>
    \A tab \in Tabs, t \in Tokens :
      /\ KnownIn(list, t, store[tab][t].entry)
      /\ KnownIn(list, t, saving[tab].changes[t].saw)
      /\ \A i \in Loads : /\ KnownIn(list, t, loads[tab][i].query.answer[t])
                          /\ KnownIn(list, t, loads[tab][i].update.answer[t])

LEMMA BlanksAreKnown ==
  \A t \in Tokens : /\ Empty[t] = Absent /\ NoChange[t].saw = Absent
                     /\ EmptyPage[t].entry = Absent
                     /\ NotSaving.changes[t].saw = Absent
                     /\ NoCall.answer[t] = Absent /\ Asked.answer[t] = Absent
                     /\ NoLoad.query = NoCall /\ NoLoad.update = NoCall
                     /\ Started.query = Asked /\ Started.update = Asked
  BY DEF Empty, NoChange, EmptyPage, NotShown, NotSaving, NoCall, Asked, NoLoad, Started

(* An accepted save gives a token a version that no tab has seen. *)
LEMMA AcceptKeepsKnown ==
  ASSUME NEW l \in Lists, NEW c \in Changes, Accepts(l, c),
         NEW t \in Tokens, NEW e \in Entry, KnownIn(l, t, e)
  PROVE  KnownIn(With(l, c), t, e)
  <1>1. CASE t \notin Sent(c)
    BY <1>1 DEF With, KnownIn
  <1>2. CASE t \in Sent(c) /\ l[t] = Absent
    BY <1>2 DEF KnownIn
  <1>3. CASE t \in Sent(c) /\ l[t] # Absent
    <2>1. l[t] \in Entry /\ c[t] \in [sent : BOOLEAN, saw : Entry, enabled : BOOLEAN]
      BY DEF Lists, Changes
    <2>2. With(l, c)[t] = Stored(l, t, c[t]) /\ With(l, c)[t] # Absent
      BY <1>3, <2>1, StoredTyped DEF With
    <2>3. c[t].saw.version = l[t].version
      BY <1>3 DEF Accepts, Matches
    <2>4. With(l, c)[t].version = l[t].version + 1
      BY <1>3, <2>2, <2>3 DEF Stored
    <2>5. e.version \in Nat /\ l[t].version \in Nat
      BY <2>1, EntryTyped
    <2> QED BY <2>2, <2>4, <2>5 DEF KnownIn
  <1> QED BY <1>1, <1>2, <1>3

LEMMA ViewsTyped ==
  ASSUME TypeOK, NEW tab \in Tabs, NEW t \in Tokens
  PROVE  /\ store[tab][t].entry \in Entry
         /\ saving[tab].changes[t].saw \in Entry
         /\ \A i \in Loads : /\ loads[tab][i].query.answer[t] \in Entry
                             /\ loads[tab][i].update.answer[t] \in Entry
  <1>1. store[tab][t] \in [entry : Entry, certified : BOOLEAN]
    BY DEF TypeOK, Page
  <1>2. saving[tab].changes \in Changes
    BY DEF TypeOK
  <1>3. \A i \in Loads : loads[tab][i].query \in Calls /\ loads[tab][i].update \in Calls
    BY DEF TypeOK
  <1> QED BY <1>1, <1>2, <1>3, CallAnswers DEF Changes, Lists

LEMMA ViewsInit == Init => Views
  <1> SUFFICES ASSUME Init, NEW tab \in Tabs, NEW t \in Tokens
      PROVE  /\ store[tab][t].entry = Absent
             /\ saving[tab].changes[t].saw = Absent
             /\ \A i \in Loads : /\ loads[tab][i].query.answer[t] = Absent
                                 /\ loads[tab][i].update.answer[t] = Absent
    BY DEF Views, KnownIn
  <1> QED BY BlanksAreKnown DEF Init

LEMMA ViewsSend ==
  ASSUME TypeOK, Views, NEW tab \in Tabs, NEW S, NEW enabled, NEW hide,
         Send(tab, Changed(tab, S, enabled), hide)
  PROVE  Views'
  <1>1. UNCHANGED <<list, removals, store, loads>>
    BY DEF Send, backendVars
  <1>2. \A u \in Tabs : saving'[u] = saving[u] \/ saving'[u].changes = Changed(tab, S, enabled)
    BY DEF Send, TypeOK
  <1>3. \A t \in Tokens : \/ Changed(tab, S, enabled)[t].saw = store[tab][t].entry
                          \/ Changed(tab, S, enabled)[t].saw = Absent
    BY BlanksAreKnown DEF Changed
  <1> QED BY <1>1, <1>2, <1>3 DEF Views, KnownIn

LEMMA ViewsAccept ==
  ASSUME TypeOK, Views, NEW tab \in Tabs, Accept(tab) PROVE Views'
  <1>1. PICK c \in Changes : Accepts(list, c) /\ list' = With(list, c)
    BY DEF TypeOK, Accept
  <1>2. UNCHANGED <<removals, store, loads>>
    BY DEF Accept, pageVars
  <1>3. \A u \in Tabs : saving'[u].changes = saving[u].changes
    BY DEF Accept, TypeOK
  <1> SUFFICES ASSUME removals = 0, NEW u \in Tabs, NEW t \in Tokens
      PROVE  /\ KnownIn(list', t, store[u][t].entry)
             /\ KnownIn(list', t, saving[u].changes[t].saw)
             /\ \A i \in Loads : /\ KnownIn(list', t, loads[u][i].query.answer[t])
                                 /\ KnownIn(list', t, loads[u][i].update.answer[t])
    BY <1>2, <1>3 DEF Views
  <1>4. ASSUME NEW e \in Entry, KnownIn(list, t, e) PROVE KnownIn(list', t, e)
    BY <1>1, <1>4, AcceptKeepsKnown DEF TypeOK
  <1> QED BY <1>4, ViewsTyped DEF Views

LEMMA ViewsSaveEnds ==
  ASSUME TypeOK, Views, NEW tab \in Tabs, Reject(tab) \/ SaveRejected(tab) \/ SaveLost(tab)
  PROVE  Views'
  <1>1. UNCHANGED <<list, removals, store, loads>>
    BY DEF Reject, SaveRejected, SaveLost, backendVars, pageVars
  <1>2. \A u \in Tabs : saving'[u] = saving[u] \/ saving'[u].changes = NotSaving.changes
    BY DEF Reject, SaveRejected, SaveLost, TypeOK, NotSaving
  <1>3. \A t \in Tokens : KnownIn(list, t, Absent)
    BY DEF KnownIn
  <1>4. ASSUME removals = 0, NEW u \in Tabs, NEW t \in Tokens
        PROVE  KnownIn(list, t, saving'[u].changes[t].saw)
    BY <1>2, <1>3, <1>4, BlanksAreKnown DEF Views
  <1> QED BY <1>1, <1>4 DEF Views

LEMMA ViewsOpenPage ==
  ASSUME TypeOK, Views, NEW tab \in Tabs, OpenPage(tab) PROVE Views'
  <1>1. UNCHANGED <<list, removals, saving>>
    BY DEF OpenPage, backendVars
  <1>2. \A u \in Tabs : store'[u] = store[u] \/ store'[u] = EmptyPage
    BY DEF OpenPage, TypeOK
  <1>3. \A u \in Tabs : \A i \in Loads :
          loads'[u][i] = loads[u][i] \/ loads'[u][i] = NoLoad \/ loads'[u][i] = Started
    BY DEF OpenPage, TypeOK
  <1>4. \A t \in Tokens : KnownIn(list, t, Absent)
    BY DEF KnownIn
  <1>5. ASSUME removals = 0, NEW u \in Tabs, NEW t \in Tokens
        PROVE  KnownIn(list, t, store'[u][t].entry)
    BY <1>2, <1>4, <1>5, BlanksAreKnown DEF Views
  <1>6. ASSUME removals = 0, NEW u \in Tabs, NEW t \in Tokens, NEW i \in Loads
        PROVE  /\ KnownIn(list, t, loads'[u][i].query.answer[t])
               /\ KnownIn(list, t, loads'[u][i].update.answer[t])
    BY <1>3, <1>4, <1>6, BlanksAreKnown DEF Views
  <1> QED BY <1>1, <1>5, <1>6 DEF Views

LEMMA ViewsSaved ==
  ASSUME TypeOK, Views, NEW tab \in Tabs, Saved(tab) PROVE Views'
  <1>1. UNCHANGED <<list, removals>>
    BY DEF Saved, backendVars
  <1>2. \A u \in Tabs : saving'[u] = saving[u] \/ saving'[u].changes = NotSaving.changes
    BY DEF Saved, TypeOK, NotSaving
  <1>3. \A u \in Tabs, t \in Tokens : store'[u][t] = store[u][t] \/ store'[u][t] = NotShown
    BY DEF Saved, TypeOK, Page
  <1>4. \A u \in Tabs : \A i \in Loads : loads'[u][i] = loads[u][i] \/ loads'[u][i] = Started
    BY DEF Saved, StartLoad, TypeOK
  <1>5. NotShown.entry = Absent
    BY DEF NotShown
  <1>6. \A t \in Tokens : KnownIn(list, t, Absent)
    BY DEF KnownIn
  <1>7. ASSUME removals = 0, NEW u \in Tabs, NEW t \in Tokens
        PROVE  KnownIn(list, t, store'[u][t].entry)
    BY <1>3, <1>5, <1>6, <1>7 DEF Views
  <1>8. ASSUME removals = 0, NEW u \in Tabs, NEW t \in Tokens
        PROVE  KnownIn(list, t, saving'[u].changes[t].saw)
    BY <1>2, <1>6, <1>8, BlanksAreKnown DEF Views
  <1>9. ASSUME removals = 0, NEW u \in Tabs, NEW t \in Tokens, NEW i \in Loads
        PROVE  /\ KnownIn(list, t, loads'[u][i].query.answer[t])
               /\ KnownIn(list, t, loads'[u][i].update.answer[t])
    BY <1>4, <1>6, <1>9, BlanksAreKnown DEF Views
  <1> QED BY <1>1, <1>7, <1>8, <1>9 DEF Views

(* What a call of a load, and the page of its tab, become. *)
LEMMA LoadStep ==
  ASSUME TypeOK, NEW tab \in Tabs, NEW i \in Loads,
         \/ ReadUpdate(tab, i) \/ ReadQuery(tab, i)
         \/ QueryAnswered(tab, i) \/ UpdateAnswered(tab, i)
         \/ QueryFails(tab, i) \/ UpdateFails(tab, i)
  PROVE  /\ UNCHANGED <<list, removals, settled>>
         /\ \A u \in Tabs : saving'[u] = saving[u] \/ saving'[u] = NotSaving
         /\ \A u \in Tabs : u # tab => store'[u] = store[u] /\ loads'[u] = loads[u]
         /\ \A j \in Loads : j # i => loads'[tab][j] = loads[tab][j]
         /\ \/ loads'[tab][i].query = loads[tab][i].query
            \/ loads'[tab][i].query = NoCall
            \/ loads'[tab][i].query = [state |-> "read", answer |-> list]
         /\ \/ loads'[tab][i].update = loads[tab][i].update
            \/ loads'[tab][i].update = NoCall
            \/ loads'[tab][i].update = [state |-> "read", answer |-> list]
         /\ \/ store'[tab] = store[tab]
            \/ store'[tab] = EmptyPage
            \/ store'[tab] = Shown(store[tab], loads[tab][i].query.answer, FALSE)
            \/ store'[tab] = Shown(store[tab], loads[tab][i].update.answer, TRUE)
  <1>1. CASE ReadUpdate(tab, i)
    BY <1>1 DEF ReadUpdate, TypeOK, backendVars
  <1>2. CASE ReadQuery(tab, i)
    BY <1>2 DEF ReadQuery, TypeOK, backendVars
  <1>3. CASE QueryAnswered(tab, i)
    <2>1. EndReload(tab, i) /\ UNCHANGED <<list, removals, settled>>
      BY <1>3 DEF QueryAnswered, backendVars
    <2>2. loads' = [loads EXCEPT ![tab][i].query = NoCall]
      BY <1>3 DEF QueryAnswered
    <2>3. \E page : /\ store' = [store EXCEPT ![tab] = page]
                   /\ page \in {store[tab], Shown(store[tab], loads[tab][i].query.answer, FALSE)}
      BY <1>3 DEF QueryAnswered
    <2>4. /\ \A u \in Tabs : u # tab => store'[u] = store[u]
          /\ \/ store'[tab] = store[tab]
             \/ store'[tab] = Shown(store[tab], loads[tab][i].query.answer, FALSE)
      BY <2>3 DEF TypeOK
    <2>5. /\ \A u \in Tabs : u # tab => loads'[u] = loads[u]
          /\ \A j \in Loads : j # i => loads'[tab][j] = loads[tab][j]
          /\ loads'[tab][i].query = NoCall /\ loads'[tab][i].update = loads[tab][i].update
      BY <2>2 DEF TypeOK
    <2> QED BY <2>1, <2>4, <2>5, EndReloadTyped
  <1>4. CASE UpdateAnswered(tab, i)
    BY <1>4, EndReloadTyped DEF UpdateAnswered, TypeOK, backendVars
  <1>5. CASE QueryFails(tab, i)
    BY <1>5, EndReloadTyped DEF QueryFails, TypeOK, backendVars
  <1>6. CASE UpdateFails(tab, i)
    BY <1>6, EndReloadTyped DEF UpdateFails, TypeOK, backendVars
  <1> QED BY <1>1, <1>2, <1>3, <1>4, <1>5, <1>6

LEMMA ViewsLoad ==
  ASSUME TypeOK, Views, NEW tab \in Tabs, NEW i \in Loads,
         \/ ReadUpdate(tab, i) \/ ReadQuery(tab, i)
         \/ QueryAnswered(tab, i) \/ UpdateAnswered(tab, i)
         \/ QueryFails(tab, i) \/ UpdateFails(tab, i)
  PROVE  Views'
  <1> SUFFICES ASSUME removals' = 0, NEW u \in Tabs, NEW t \in Tokens
      PROVE  /\ KnownIn(list, t, store'[u][t].entry)
             /\ KnownIn(list, t, saving'[u].changes[t].saw)
             /\ \A j \in Loads : /\ KnownIn(list, t, loads'[u][j].query.answer[t])
                                 /\ KnownIn(list, t, loads'[u][j].update.answer[t])
    <2>1. UNCHANGED <<list, removals>>
      BY LoadStep
    <2> QED BY <2>1 DEF Views
  <1>1. removals = 0
    BY LoadStep
  <1>2. KnownIn(list, t, Absent)
    BY DEF KnownIn
  <1>3. KnownIn(list, t, list[t])
    <2>1. list[t] \in Entry
      BY DEF TypeOK, Lists
    <2> QED BY <2>1, EntryTyped DEF KnownIn
  <1>4. KnownIn(list, t, saving'[u].changes[t].saw)
    <2>1. CASE saving'[u] = saving[u]
      BY <1>1, <2>1 DEF Views
    <2>2. CASE saving'[u] = NotSaving
      BY <1>2, <2>2, BlanksAreKnown
    <2> QED BY <2>1, <2>2, LoadStep
  <1>5. KnownIn(list, t, store'[u][t].entry)
    <2>1. CASE store'[u] = store[u]
      BY <1>1, <2>1 DEF Views
    <2>2. CASE store'[u] = EmptyPage
      BY <1>2, <2>2, BlanksAreKnown
    <2>3. ASSUME NEW c \in {loads[tab][i].query, loads[tab][i].update}, NEW b,
                 u = tab, store'[u] = Shown(store[tab], c.answer, b)
          PROVE  KnownIn(list, t, store'[u][t].entry)
      <3>1. \/ store'[u][t].entry = c.answer[t]
            \/ store'[u][t].entry = store[tab][t].entry
        BY <2>3 DEF Shown
      <3> QED BY <1>1, <2>3, <3>1 DEF Views
    <2>4. \/ store'[u] = store[u]
          \/ store'[u] = EmptyPage
          \/ u = tab /\ store'[u] = Shown(store[tab], loads[tab][i].query.answer, FALSE)
          \/ u = tab /\ store'[u] = Shown(store[tab], loads[tab][i].update.answer, TRUE)
      <3>1. CASE u = tab
        BY <3>1, LoadStep
      <3>2. CASE u # tab
        <4>1. \A v \in Tabs : v # tab => store'[v] = store[v]
          BY LoadStep
        <4> QED BY <3>2, <4>1
      <3> QED BY <3>1, <3>2
    <2> QED BY <2>1, <2>2, <2>3, <2>4
  <1>6. ASSUME NEW j \in Loads
        PROVE  /\ KnownIn(list, t, loads'[u][j].query.answer[t])
               /\ KnownIn(list, t, loads'[u][j].update.answer[t])
    <2>1. CASE loads'[u][j] = loads[u][j]
      BY <1>1, <2>1 DEF Views
    <2>2. ASSUME NEW c, NEW d, d = c \/ d = NoCall \/ d = [state |-> "read", answer |-> list],
                 KnownIn(list, t, c.answer[t])
          PROVE  KnownIn(list, t, d.answer[t])
      BY <1>2, <1>3, <2>2, BlanksAreKnown
    <2>3. CASE u = tab /\ j = i
      <3>1. /\ \/ loads'[u][j].query = loads[u][j].query
               \/ loads'[u][j].query = NoCall
               \/ loads'[u][j].query = [state |-> "read", answer |-> list]
            /\ \/ loads'[u][j].update = loads[u][j].update
               \/ loads'[u][j].update = NoCall
               \/ loads'[u][j].update = [state |-> "read", answer |-> list]
        BY <2>3, LoadStep
      <3>2. /\ KnownIn(list, t, loads[u][j].query.answer[t])
            /\ KnownIn(list, t, loads[u][j].update.answer[t])
        BY <1>1 DEF Views
      <3> QED BY <2>2, <3>1, <3>2
    <2> QED BY <2>1, <2>3, LoadStep
  <1> QED BY <1>4, <1>5, <1>6

LEMMA ViewsNext == TypeOK /\ Views /\ [Next]_vars => Views'
  <1> SUFFICES ASSUME TypeOK, Views, [Next]_vars PROVE Views'
    OBVIOUS
  <1>1. CASE UNCHANGED vars
    BY <1>1 DEF vars, backendVars, pageVars, Views
  <1>2. ASSUME NEW tab \in Tabs, NEW S \in SUBSET Tokens, NEW enabled, Save(tab, S, enabled)
        PROVE  Views'
    BY <1>2, ViewsSend DEF Save
  <1>3. ASSUME NEW tab \in Tabs, NEW t \in Tokens, SetOne(tab, t) PROVE Views'
    BY <1>3, ViewsSend DEF SetOne
  <1>4. ASSUME NEW t \in Tokens, Remove(t) PROVE Views'
    <2>1. removals' # 0
      BY <1>4 DEF Remove, TypeOK
    <2> QED BY <2>1 DEF Views
  <1> QED BY <1>1, <1>2, <1>3, <1>4, ViewsAccept, ViewsSaveEnds, ViewsOpenPage, ViewsSaved,
             ViewsLoad DEF Next

-----------------------------------------------------------------------------
LEMMA OnlyReplaced ==
  ASSUME TypeOK, Views, [Next]_vars, NEW t \in Tokens,
         removals = 0, list[t] # Absent, list'[t] # list[t], list'[t] # Absent
  PROVE  \E tab \in Tabs : Replaces(tab, t)
  <1>1. ASSUME NEW tab \in Tabs, Accept(tab) PROVE Replaces(tab, t)
    <2>1. saving[tab].step = "sent" /\ saving'[tab].step = "accepted"
      BY <1>1 DEF Accept, TypeOK
    <2>2. PICK c \in Changes : /\ c = saving[tab].changes /\ Accepts(list, c)
                              /\ list' = With(list, c)
      BY <1>1 DEF Accept, TypeOK
    <2>3. t \in Sent(c)
      BY <2>2 DEF With
    <2>4. c[t].saw.version = list[t].version
      BY <2>2, <2>3 DEF Accepts, Matches
    <2>5. list[t] \in Entry
      BY DEF TypeOK, Lists
    <2>6. c[t].saw # Absent
      BY <2>4, <2>5, EntryTyped DEF Absent
    <2>7. KnownIn(list, t, c[t].saw)
      BY <2>2 DEF Views
    <2> QED BY <2>1, <2>2, <2>3, <2>4, <2>6, <2>7 DEF Replaces, KnownIn
  <1>2. ASSUME NEW u \in Tokens, Remove(u) PROVE FALSE
    BY <1>2 DEF Remove, TypeOK, Lists
  <1>3. ASSUME UNCHANGED list PROVE FALSE
    BY <1>3
  <1>4. ASSUME NEW tab \in Tabs,
               \/ \E S \in SUBSET Tokens : \E enabled \in SUBSET S : Save(tab, S, enabled)
               \/ \E u \in Tokens : SetOne(tab, u)
               \/ Reject(tab) \/ Saved(tab) \/ SaveRejected(tab) \/ SaveLost(tab) \/ OpenPage(tab)
        PROVE  UNCHANGED list
    BY <1>4 DEF Save, SetOne, Send, Reject, Saved, SaveRejected, SaveLost, OpenPage, backendVars
  <1>5. CASE UNCHANGED vars
    BY <1>3, <1>5 DEF vars, backendVars
  <1> QED BY <1>1, <1>2, <1>3, <1>4, <1>5, LoadStep DEF Next

(* No tab replaces what it has not seen, as long as nothing is removed: a   *)
(* tab never has a version the list has not reached, and of the latest      *)
(* version it has what the list has, so comparing versions is enough.       *)
THEOREM NoUpdateIsLost == Spec => NoLostUpdate
  <1>1. Init => TypeOK /\ Views
    BY TypeInit, ViewsInit
  <1>2. TypeOK /\ Views /\ [Next]_vars => (TypeOK /\ Views)'
    BY TypeNext, ViewsNext
  <1>3. TypeOK /\ Views /\ [Next]_vars =>
          [\A t \in Tokens :
             removals = 0 /\ list[t] # Absent /\ list'[t] # list[t] /\ list'[t] # Absent
               => \E tab \in Tabs : Replaces(tab, t)]_vars
    BY OnlyReplaced
  <1> QED BY <1>1, <1>2, <1>3, PTL DEF Spec, NoLostUpdate

-----------------------------------------------------------------------------
(* What a settled page shows *)

ShowsList(l, page) ==
  \A t \in Tokens : page[t].entry # Absent => page[t] = [entry |-> l[t], certified |-> TRUE]

Current(l, c) == c.state = "read" => c.answer = l

(* One load is under way at most, all it read is the list, and once its     *)
(* update is over the page shows the list.                                  *)
SettledIn(l, lds, page) ==
  /\ \A i \in Loads : Current(l, lds[i].query) /\ Current(l, lds[i].update)
  /\ \A i, j \in Loads : lds[i] # NoLoad /\ lds[j] # NoLoad => i = j
  /\ (\A i \in Loads : lds[i].update = NoCall) => ShowsList(l, page)

Settling ==
  removals = 0 => \A tab \in Tabs : settled[tab] => SettledIn(list, loads[tab], store[tab])

LEMMA LoadFields ==
  /\ NoLoad.query = NoCall /\ NoLoad.update = NoCall
  /\ Started.query = Asked /\ Started.update = Asked
  BY DEF NoLoad, Started

LEMMA BlanksAreCurrent ==
  \A l : /\ Current(l, NoCall) /\ Current(l, Asked)
         /\ Current(l, [state |-> "read", answer |-> l])
  BY DEF Current, NoCall, Asked

(* The actions that leave a tab's loads and page. *)
LEMMA SettlingKept ==
  ASSUME TypeOK, Settling, UNCHANGED <<list, removals, store, loads, settled>>
  PROVE  Settling'
  BY DEF Settling

LEMMA SettlingUnsettled ==
  ASSUME settled' = [u \in Tabs |-> FALSE] PROVE Settling'
  BY DEF Settling

(* A load that begins alone. *)
LEMMA SettledStart ==
  ASSUME NEW l, NEW lds, NEW page, NEW i \in Loads, lds[i] = Started,
         \A j \in Loads : j # i => lds[j] = NoLoad
  PROVE  SettledIn(l, lds, page)
  <1>1. \A j \in Loads : Current(l, lds[j].query) /\ Current(l, lds[j].update)
    BY BlanksAreCurrent, LoadFields
  <1>2. lds[i].update # NoCall
    BY LoadFields, BlanksTyped
  <1> QED BY <1>1, <1>2 DEF SettledIn

LEMMA SettlingOpenPage ==
  ASSUME TypeOK, Settling, NEW tab \in Tabs, OpenPage(tab) PROVE Settling'
  <1>1. UNCHANGED <<list, removals>>
    BY DEF OpenPage, backendVars
  <1>2. \A u \in Tabs : u # tab => /\ settled'[u] = settled[u] /\ loads'[u] = loads[u]
                                   /\ store'[u] = store[u]
    BY DEF OpenPage, TypeOK
  <1>3. \E i \in Loads : /\ loads'[tab][i] = Started
                         /\ \A j \in Loads : j # i => loads'[tab][j] = NoLoad
    BY DEF OpenPage, TypeOK
  <1>4. SettledIn(list', loads'[tab], store'[tab])
    BY <1>3, SettledStart
  <1> QED BY <1>1, <1>2, <1>4 DEF Settling

LEMMA SettlingSaved ==
  ASSUME TypeOK, Settling, NEW tab \in Tabs, Saved(tab) PROVE Settling'
  <1>1. UNCHANGED <<list, removals>>
    BY DEF Saved, backendVars
  <1>2. \A u \in Tabs : u # tab => store'[u] = store[u]
    BY DEF Saved, TypeOK
  <1>3. PICK i \in Loads : StartLoad(tab, i)
    BY DEF Saved
  <1>4. \A u \in Tabs : u # tab => settled'[u] = settled[u] /\ loads'[u] = loads[u]
    BY <1>3 DEF StartLoad, TypeOK
  <1>5. ASSUME settled'[tab] PROVE SettledIn(list', loads'[tab], store'[tab])
    <2>1. \A j \in Loads : loads[tab][j] = NoLoad
      BY <1>3, <1>5 DEF StartLoad, TypeOK, Loading, Free
    <2>2. /\ loads'[tab][i] = Started
          /\ \A j \in Loads : j # i => loads'[tab][j] = NoLoad
      BY <1>3, <2>1 DEF StartLoad, TypeOK
    <2> QED BY <2>2, SettledStart
  <1> QED BY <1>1, <1>2, <1>4, <1>5 DEF Settling

(* The update's answer, or its failure, is the last word. *)
LEMMA UpdateShows ==
  ASSUME NEW l \in Lists, NEW page, \A t \in Tokens : KnownIn(l, t, page[t].entry)
  PROVE  ShowsList(l, Shown(page, l, TRUE)) /\ ShowsList(l, EmptyPage)
  <1>1. \A t \in Tokens : t \notin Listed(l) => page[t].entry = Absent
    BY DEF KnownIn, Listed
  <1> QED BY <1>1, BlanksAreKnown DEF ShowsList, Shown, Listed

LEMMA SettlingLoad ==
  ASSUME TypeOK, Views, Settling, NEW tab \in Tabs, NEW i \in Loads,
         \/ ReadUpdate(tab, i) \/ ReadQuery(tab, i)
         \/ QueryAnswered(tab, i) \/ UpdateAnswered(tab, i)
         \/ QueryFails(tab, i) \/ UpdateFails(tab, i)
  PROVE  Settling'
  <1>1. UNCHANGED <<list, removals, settled>>
    BY LoadStep
  <1>2. \A u \in Tabs : u # tab => loads'[u] = loads[u] /\ store'[u] = store[u]
    BY LoadStep
  <1> SUFFICES ASSUME removals = 0, settled[tab]
      PROVE  SettledIn(list, loads'[tab], store'[tab])
    BY <1>1, <1>2 DEF Settling
  <1>3. SettledIn(list, loads[tab], store[tab])
    BY DEF Settling
  <1>4. \A j \in Loads : j # i => loads'[tab][j] = loads[tab][j]
    BY LoadStep
  <1>5. \A j \in Loads : Current(list, loads'[tab][j].query) /\ Current(list, loads'[tab][j].update)
    <2>1. Current(list, loads'[tab][i].query) /\ Current(list, loads'[tab][i].update)
      <3>1. Current(list, loads[tab][i].query) /\ Current(list, loads[tab][i].update)
        BY <1>3 DEF SettledIn
      <3>2. \A d : \/ d = NoCall \/ d = [state |-> "read", answer |-> list] => Current(list, d)
        BY BlanksAreCurrent
      <3>3. \/ loads'[tab][i].query = loads[tab][i].query
            \/ loads'[tab][i].query = NoCall
            \/ loads'[tab][i].query = [state |-> "read", answer |-> list]
        BY LoadStep
      <3>4. \/ loads'[tab][i].update = loads[tab][i].update
            \/ loads'[tab][i].update = NoCall
            \/ loads'[tab][i].update = [state |-> "read", answer |-> list]
        BY LoadStep
      <3>5. Current(list, loads'[tab][i].query)
        BY <3>1, <3>2, <3>3
      <3>6. Current(list, loads'[tab][i].update)
        BY <3>1, <3>2, <3>4
      <3> QED BY <3>5, <3>6
    <2>2. \A j \in Loads : Current(list, loads[tab][j].query) /\ Current(list, loads[tab][j].update)
      BY <1>3 DEF SettledIn
    <2> QED BY <1>4, <2>1, <2>2
  <1>6. loads[tab][i] # NoLoad
    <2>1. NoCall.state = "none"
      BY DEF NoCall
    <2>2. loads[tab][i].query # NoCall \/ loads[tab][i].update # NoCall
      BY <2>1, BlanksTyped
      DEF ReadUpdate, ReadQuery, QueryAnswered, UpdateAnswered, QueryFails, UpdateFails
    <2> QED BY <2>2, LoadFields
  <1>7. \A j \in Loads : j # i => loads'[tab][j] = NoLoad
    BY <1>3, <1>4, <1>6 DEF SettledIn
  <1>8. ASSUME \A j \in Loads : loads'[tab][j].update = NoCall
        PROVE  ShowsList(list, store'[tab])
    <2>1. CASE loads[tab][i].update = NoCall
      <3>1. \A j \in Loads : loads[tab][j].update = NoCall
        BY <1>4, <1>8, <2>1
      <3>2. store'[tab] = store[tab]
        <4>1. ~UpdateAnswered(tab, i) /\ ~UpdateFails(tab, i) /\ ~ReadUpdate(tab, i)
          BY <2>1, BlanksTyped DEF UpdateAnswered, UpdateFails, ReadUpdate, NoCall
        <4> QED BY <2>1, <4>1 DEF QueryAnswered, ReadQuery, QueryFails, TypeOK
      <3> QED BY <1>3, <3>1, <3>2 DEF SettledIn
    <2>2. CASE loads[tab][i].update # NoCall
      <3>1. loads'[tab][i].update = NoCall
        BY <1>8
      <3>2. UpdateAnswered(tab, i) \/ UpdateFails(tab, i)
        <4>1. ASSUME NEW c, loads' = [loads EXCEPT ![tab][i].query = c]
              PROVE  loads'[tab][i].update = loads[tab][i].update
          BY <4>1 DEF TypeOK
        <4>2. ~(ReadQuery(tab, i) \/ QueryAnswered(tab, i) \/ QueryFails(tab, i))
          BY <2>2, <3>1, <4>1 DEF ReadQuery, QueryAnswered, QueryFails
        <4>3. ~ReadUpdate(tab, i)
          <5>1. ASSUME ReadUpdate(tab, i)
                PROVE  loads'[tab][i].update = [state |-> "read", answer |-> list]
            BY <5>1 DEF ReadUpdate, TypeOK
          <5> QED BY <3>1, <5>1 DEF NoCall
        <4> QED BY <4>2, <4>3
      <3>3. \A t \in Tokens : KnownIn(list, t, store[tab][t].entry)
        BY DEF Views
      <3>4. ShowsList(list, Shown(store[tab], list, TRUE)) /\ ShowsList(list, EmptyPage)
        BY <3>3, UpdateShows DEF TypeOK
      <3>5. CASE UpdateAnswered(tab, i)
        <4>1. loads[tab][i].update.answer = list
          BY <1>3, <3>5 DEF SettledIn, Current, UpdateAnswered
        <4>2. store'[tab] = Shown(store[tab], list, TRUE)
          BY <3>5, <4>1 DEF UpdateAnswered, TypeOK
        <4> QED BY <3>4, <4>2
      <3>6. CASE UpdateFails(tab, i)
        BY <3>4, <3>6 DEF UpdateFails, TypeOK
      <3> QED BY <3>2, <3>5, <3>6
    <2> QED BY <2>1, <2>2
  <1> QED BY <1>5, <1>7, <1>8 DEF SettledIn

LEMMA SettlingNext == TypeOK /\ Views /\ Settling /\ [Next]_vars => Settling'
  <1> SUFFICES ASSUME TypeOK, Views, Settling, [Next]_vars PROVE Settling'
    OBVIOUS
  <1>1. ASSUME NEW tab \in Tabs,
               \/ \E S \in SUBSET Tokens : \E enabled \in SUBSET S : Save(tab, S, enabled)
               \/ \E u \in Tokens : SetOne(tab, u)
               \/ Reject(tab) \/ SaveRejected(tab) \/ SaveLost(tab)
        PROVE  UNCHANGED <<list, removals, store, loads, settled>>
    BY <1>1 DEF Save, SetOne, Send, Reject, SaveRejected, SaveLost, backendVars, pageVars
  <1>2. CASE UNCHANGED vars
    BY <1>2, SettlingKept DEF vars, backendVars, pageVars
  <1>3. ASSUME NEW tab \in Tabs, Accept(tab) PROVE Settling'
    BY <1>3, SettlingUnsettled DEF Accept
  <1>4. ASSUME NEW t \in Tokens, Remove(t) PROVE Settling'
    BY <1>4, SettlingUnsettled DEF Remove
  <1> QED BY <1>1, <1>2, <1>3, <1>4, SettlingKept, SettlingOpenPage, SettlingSaved, SettlingLoad
          DEF Next

(* A page that a load has settled shows the list, certified, or nothing:    *)
(* the answers arrive in any order, and queryAndUpdate drops the query's    *)
(* when the update's came first.                                            *)
THEOREM SettledPagesAreTrue == Spec => []SettledShowsTheList
  <1>1. Init => TypeOK /\ Views /\ Settling
    BY TypeInit, ViewsInit DEF Init, Settling
  <1>2. TypeOK /\ Views /\ Settling /\ [Next]_vars => (TypeOK /\ Views /\ Settling)'
    BY TypeNext, ViewsNext, SettlingNext
  <1>3. TypeOK /\ Views /\ Settling => SettledShowsTheList
    <2> SUFFICES ASSUME TypeOK, Settling, NEW tab \in Tabs,
                        settled[tab], ~Loading(tab), removals = 0
        PROVE  ShowsList(list, store[tab])
      BY DEF SettledShowsTheList, ShowsList
    <2>1. \A i \in Loads : loads[tab][i] = NoLoad
      BY DEF Loading, Free
    <2>2. \A i \in Loads : loads[tab][i].update = NoCall
      BY <2>1, LoadFields
    <2> QED BY <2>2 DEF Settling, SettledIn
  <1> QED BY <1>1, <1>2, <1>3, PTL DEF Spec
=============================================================================
