----------------------------- MODULE UserTokens -----------------------------
(***************************************************************************)
(* A list of a user's tokens: the one the backend keeps                     *)
(* (src/backend/src/token.rs, the endpoints of lib.rs), and what each tab   *)
(* shows of it and sends back (erc20-user-tokens-services.ts,               *)
(* erc20.services.ts, erc20-user-tokens.store.ts and their ICRC twins).     *)
(*                                                                         *)
(* A token is sent with the version its tab knows, and the backend accepts  *)
(* it only when that is the version on the list.  A tab learns of versions  *)
(* by loads: each asks with a query and with an update, and the answers are *)
(* shown as they arrive, after a call of another service (the metadata of   *)
(* the tokens) that takes any time and may fail.                            *)
(***************************************************************************)
EXTENDS Integers, FiniteSets

CONSTANTS
  Tabs,
  Tokens,       \* what finds a token: its chain and address, or its ledger
  MaxTokens,    \* MAX_TOKEN_LIST_LENGTH
  Loads,        \* bound: the loads a tab may have under way
  MaxSaves,     \* bound: saves
  MaxFaults,    \* bound: calls that fail
  MaxRemovals   \* bound: tokens removed

ASSUME MaxTokensAssumption == MaxTokens \in Nat
ASSUME BoundsAssumption == MaxSaves \in Nat /\ MaxFaults \in Nat /\ MaxRemovals \in Nat
ASSUME TokensAssumption == IsFiniteSet(Tokens)

VARIABLES
  list,     \* on the backend
  store,    \* what each tab shows
  saving,   \* the save of each tab
  loads,    \* the loads of each tab
  settled,  \* the last load of a tab began alone, and nothing was saved since
  saves, faults, removals

backendVars == <<list, removals>>
pageVars == <<store, loads>>
vars == <<backendVars, pageVars, saving, saves, settled, faults>>

-----------------------------------------------------------------------------
(* Version 0 stands for no version. *)
Absent == [version |-> 0, enabled |-> FALSE]
Entry == {Absent} \cup [version : Nat \ {0}, enabled : BOOLEAN]
Lists == [Tokens -> Entry]
Empty == [t \in Tokens |-> Absent]
Listed(l) == {t \in Tokens : l[t] # Absent}

(* A save says of every token whether it is sent, what the tab saw of it, *)
(* and whether it is to be enabled.                                       *)
Changes == [Tokens -> [sent : BOOLEAN, saw : Entry, enabled : BOOLEAN]]
NoChange == [t \in Tokens |-> [sent |-> FALSE, saw |-> Absent, enabled |-> FALSE]]
Sent(c) == {t \in Tokens : c[t].sent}

Steps == {"idle", "sent", "accepted", "rejected", "reload"}
NotSaving == [step |-> "idle", changes |-> NoChange, load |-> 0, hide |-> FALSE]

Calls == [state : {"none", "asked"}, answer : {Empty}]
         \cup [state : {"read"}, answer : Lists]
NoCall == [state |-> "none", answer |-> Empty]
Asked == [state |-> "asked", answer |-> Empty]
NoLoad == [query |-> NoCall, update |-> NoCall]
Started == [query |-> Asked, update |-> Asked]

NotShown == [entry |-> Absent, certified |-> FALSE]
Page == [Tokens -> [entry : Entry, certified : BOOLEAN]]
EmptyPage == [t \in Tokens |-> NotShown]

Saving(tab) == saving[tab].step # "idle"
Free(tab) == {i \in Loads : loads[tab][i] = NoLoad}
Loading(tab) == Free(tab) # Loads

-----------------------------------------------------------------------------
(* add_to_user_token, for every token of a call.  A trap undoes the call. *)

(* Mutation of Matches: the version is not compared. *)
MatchesAny(l, t, c) == TRUE
(* Mutation of Fits: the length is compared before the first token of the call only. *)
FitsOne(l, c) == Cardinality(Listed(l)) <= MaxTokens

Matches(l, t, c) == l[t] # Absent => c.saw.version = l[t].version
Fits(l, c) == c \subseteq Listed(l) \/ Cardinality(Listed(l) \cup c) <= MaxTokens
Stored(l, t, c) ==
  [version |-> IF l[t] = Absent THEN 1 ELSE c.saw.version + 1, enabled |-> c.enabled]

Accepts(l, c) == (\A t \in Sent(c) : Matches(l, t, c[t])) /\ Fits(l, Sent(c))
With(l, c) == [t \in Tokens |-> IF t \in Sent(c) THEN Stored(l, t, c[t]) ELSE l[t]]

(* The pages are closed; the list has what was saved before. *)
Init ==
  /\ \E S \in SUBSET Tokens :
       /\ Cardinality(S) <= MaxTokens
       /\ list = [t \in Tokens |-> IF t \in S THEN [version |-> 1, enabled |-> TRUE] ELSE Absent]
  /\ store = [tab \in Tabs |-> EmptyPage]
  /\ saving = [tab \in Tabs |-> NotSaving]
  /\ loads = [tab \in Tabs |-> [i \in Loads |-> NoLoad]]
  /\ settled = [tab \in Tabs |-> FALSE]
  /\ saves = 0 /\ faults = 0 /\ removals = 0

-----------------------------------------------------------------------------
(* The user's changes to the tokens S, as the page shows them. *)
Changed(tab, S, enabled) ==
  [t \in Tokens |-> IF t \in S
                    THEN [sent |-> TRUE, saw |-> store[tab][t].entry, enabled |-> t \in enabled]
                    ELSE NoChange[t]]

Send(tab, changed, hide) ==
  /\ ~Saving(tab)
  /\ saves < MaxSaves
  /\ saving' = [saving EXCEPT ![tab] =
                  [step |-> "sent", changes |-> changed, load |-> 0, hide |-> hide]]
  /\ saves' = saves + 1
  /\ UNCHANGED <<backendVars, store, loads, settled, faults>>

(* saveUserTokens, saveCustomTokens: the user toggled some tokens, or added one. *)
Save(tab, S, enabled) ==
  /\ S # {}
  /\ \A t \in S : LET saw == store[tab][t].entry IN
                 saw # Absent => (t \in enabled <=> ~saw.enabled)
  /\ Send(tab, Changed(tab, S, enabled), FALSE)

(* setUserToken: a token is hidden on its page, or shown by autoLoadToken. *)
SetOne(tab, t) ==
  LET saw == store[tab][t].entry IN
  /\ saw # Absent
  /\ Send(tab, Changed(tab, {t}, {u \in {t} : ~saw.enabled}), TRUE)

(* set_many_user_tokens, set_user_token *)
Accept(tab) ==
  /\ saving[tab].step = "sent"
  /\ Accepts(list, saving[tab].changes)
  /\ list' = With(list, saving[tab].changes)
  /\ saving' = [saving EXCEPT ![tab].step = "accepted"]
  /\ settled' = [u \in Tabs |-> FALSE]
  /\ UNCHANGED <<removals, pageVars, faults, saves>>

Reject(tab) ==
  /\ saving[tab].step = "sent"
  /\ ~Accepts(list, saving[tab].changes)
  /\ saving' = [saving EXCEPT ![tab] = [NotSaving EXCEPT !.step = "rejected"]]
  /\ UNCHANGED <<backendVars, pageVars, settled, faults, saves>>

(* remove_user_token, called with another tool: the pages never do. *)
Remove(t) ==
  /\ removals < MaxRemovals
  /\ list[t] # Absent
  /\ list' = [list EXCEPT ![t] = Absent]
  /\ removals' = removals + 1
  /\ settled' = [u \in Tabs |-> FALSE]
  /\ UNCHANGED <<pageVars, saving, faults, saves>>

-----------------------------------------------------------------------------
(* loadUserTokens, loadCustomTokens: queryAndUpdate starts both calls. *)
StartLoad(tab, i) ==
  /\ i \in Free(tab)
  /\ loads' = [loads EXCEPT ![tab][i] = Started]
  /\ settled' = [settled EXCEPT ![tab] = ~Loading(tab)]

(* The page is opened or loaded again. *)
OpenPage(tab) ==
  \E i \in Loads :
    /\ ~Saving(tab)
    /\ loads' = [loads EXCEPT ![tab] = [j \in Loads |-> IF j = i THEN Started ELSE NoLoad]]
    /\ store' = [store EXCEPT ![tab] = EmptyPage]
    /\ settled' = [settled EXCEPT ![tab] = TRUE]
    /\ UNCHANGED <<backendVars, saving, faults, saves>>

(* The call was accepted: what it disabled leaves the page at once (reset; *)
(* the other callers reload only), and everything is loaded again.         *)
Saved(tab) ==
  LET hidden == {t \in Sent(saving[tab].changes) :
                   ~saving[tab].hide /\ ~saving[tab].changes[t].enabled}
  IN
  /\ saving[tab].step = "accepted"
  /\ \E i \in Loads :
       /\ StartLoad(tab, i)
       /\ saving' = [saving EXCEPT ![tab] = [NotSaving EXCEPT !.step = "reload", !.load = i]]
  /\ store' = [store EXCEPT ![tab] =
       [t \in Tokens |-> IF t \in hidden THEN NotShown ELSE @[t]]]
  /\ UNCHANGED <<backendVars, faults, saves>>

(* The call was rejected: an error is shown, and nothing is loaded. *)
SaveRejected(tab) ==
  /\ saving[tab].step = "rejected"
  /\ saving' = [saving EXCEPT ![tab] = NotSaving]
  /\ UNCHANGED <<backendVars, pageVars, settled, faults, saves>>

(* The call did not reach the backend, or its answer did not come back. *)
SaveLost(tab) ==
  /\ saving[tab].step \in {"sent", "accepted"}
  /\ faults < MaxFaults
  /\ saving' = [saving EXCEPT ![tab] = NotSaving]
  /\ faults' = faults + 1
  /\ UNCHANGED <<backendVars, pageVars, settled, saves>>

-----------------------------------------------------------------------------
(* The backend reads the list for a call, some time before the answer arrives. *)
ReadUpdate(tab, i) ==
  /\ loads[tab][i].update = Asked
  /\ loads' = [loads EXCEPT ![tab][i].update = [state |-> "read", answer |-> list]]
  /\ UNCHANGED <<backendVars, store, saving, settled, faults, saves>>

ReadQuery(tab, i) ==
  /\ loads[tab][i].query = Asked
  /\ loads' = [loads EXCEPT ![tab][i].query = [state |-> "read", answer |-> list]]
  /\ UNCHANGED <<backendVars, store, saving, settled, faults, saves>>

(* setAll: replaces what the answer lists, and keeps the rest. *)
Shown(s, answer, certified) ==
  [t \in Tokens |->
     IF t \in Listed(answer) THEN [entry |-> answer[t], certified |-> certified] ELSE s[t]]

(* The save that waits for a load ends with its first answer (Promise.race). *)
EndReload(tab, i) ==
  saving' = IF saving[tab].step = "reload" /\ saving[tab].load = i
            THEN [saving EXCEPT ![tab] = NotSaving] ELSE saving

(* Mutation of QueryAnswered: certifiedDone is not looked at. *)
QueryAnsweredAnyway(tab, i) ==
  /\ loads[tab][i].query.state = "read"
  /\ store' = [store EXCEPT ![tab] = Shown(@, loads[tab][i].query.answer, FALSE)]
  /\ loads' = [loads EXCEPT ![tab][i].query = NoCall]
  /\ EndReload(tab, i)
  /\ UNCHANGED <<backendVars, settled, faults, saves>>

(* An answer, with its metadata, arrives.  The query's is dropped when the *)
(* update's came first (certifiedDone: its call is over).                  *)
QueryAnswered(tab, i) ==
  /\ loads[tab][i].query.state = "read"
  /\ store' = [store EXCEPT ![tab] =
       IF loads[tab][i].update = NoCall THEN @ ELSE Shown(@, loads[tab][i].query.answer, FALSE)]
  /\ loads' = [loads EXCEPT ![tab][i].query = NoCall]
  /\ EndReload(tab, i)
  /\ UNCHANGED <<backendVars, settled, faults, saves>>

UpdateAnswered(tab, i) ==
  /\ loads[tab][i].update.state = "read"
  /\ store' = [store EXCEPT ![tab] = Shown(@, loads[tab][i].update.answer, TRUE)]
  /\ loads' = [loads EXCEPT ![tab][i].update = NoCall]
  /\ EndReload(tab, i)
  /\ UNCHANGED <<backendVars, settled, faults, saves>>

(* A call fails, or a call for the metadata it needs.  A failed query is *)
(* logged, a failed update empties the page (onCertifiedError).          *)
QueryFails(tab, i) ==
  /\ loads[tab][i].query # NoCall
  /\ faults < MaxFaults
  /\ loads' = [loads EXCEPT ![tab][i].query = NoCall]
  /\ EndReload(tab, i)
  /\ faults' = faults + 1
  /\ UNCHANGED <<backendVars, store, settled, saves>>

UpdateFails(tab, i) ==
  /\ loads[tab][i].update # NoCall
  /\ faults < MaxFaults
  /\ store' = [store EXCEPT ![tab] = EmptyPage]
  /\ loads' = [loads EXCEPT ![tab][i].update = NoCall]
  /\ EndReload(tab, i)
  /\ faults' = faults + 1
  /\ UNCHANGED <<backendVars, settled, saves>>

-----------------------------------------------------------------------------
Next ==
  \/ \E tab \in Tabs :
       \/ \E S \in SUBSET Tokens : \E enabled \in SUBSET S : Save(tab, S, enabled)
       \/ \E t \in Tokens : SetOne(tab, t)
       \/ Accept(tab) \/ Reject(tab)
       \/ Saved(tab) \/ SaveRejected(tab) \/ SaveLost(tab)
       \/ OpenPage(tab)
       \/ \E i \in Loads :
            \/ ReadUpdate(tab, i) \/ ReadQuery(tab, i)
            \/ QueryAnswered(tab, i) \/ UpdateAnswered(tab, i)
            \/ QueryFails(tab, i) \/ UpdateFails(tab, i)
  \/ \E t \in Tokens : Remove(t)

Spec == Init /\ [][Next]_vars

-----------------------------------------------------------------------------
TypeOK ==
  /\ list \in Lists
  /\ Cardinality(Listed(list)) <= MaxTokens
  /\ store \in [Tabs -> Page]
  /\ saving \in [Tabs -> [step : Steps, changes : Changes, load : Loads \cup {0}, hide : BOOLEAN]]
  /\ loads \in [Tabs -> [Loads -> [query : Calls, update : Calls]]]
  /\ settled \in [Tabs -> BOOLEAN]
  /\ saves \in 0..MaxSaves /\ faults \in 0..MaxFaults /\ removals \in 0..MaxRemovals

(* As long as nothing was removed, a token on the list is only replaced by   *)
(* a tab that saw all of what it replaces: no tab undoes, unseen, what       *)
(* another one saved, whatever loads it missed or got late.  (The version    *)
(* check of add_to_user_token.)                                              *)
Replaces(tab, t) ==
  /\ saving[tab].step = "sent" /\ saving'[tab].step = "accepted"
  /\ t \in Sent(saving[tab].changes)
  /\ saving[tab].changes[t].saw = list[t]
NoLostUpdate ==
  [][\A t \in Tokens :
       removals = 0 /\ list[t] # Absent /\ list'[t] # list[t] /\ list'[t] # Absent
         => \E tab \in Tabs : Replaces(tab, t)]_vars

(* When a load that began alone is over and nothing was saved or removed     *)
(* since it began, the page shows the list, certified, or nothing because    *)
(* the load failed: a query's answer that comes late does not stay.          *)
SettledShowsTheList ==
  \A tab \in Tabs :
    settled[tab] /\ ~Loading(tab) /\ removals = 0 =>
      \A t \in Tokens : store[tab][t].entry # Absent =>
                          store[tab][t] = [entry |-> list[t], certified |-> TRUE]
=============================================================================
