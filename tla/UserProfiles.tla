---------------------------- MODULE UserProfiles ----------------------------
(***************************************************************************)
(* The profiles of the users: the two stable maps of the backend            *)
(* (user_profile_model.rs), the endpoints that create, change and list      *)
(* profiles (user_profile.rs, oisy_user.rs, lib.rs), the versions that      *)
(* guard the changes (shared/src/impls.rs), the tabs of the wallet that     *)
(* load a profile and change it with the version they have loaded, and an   *)
(* allowed caller that follows the users with list_users.                   *)
(*                                                                          *)
(* A call of a tab is sent, is executed by the backend, and is answered, in *)
(* three steps, and the calls of a tab do not wait for each other.  The     *)
(* time of the backend may be the same for several calls.                   *)
(***************************************************************************)
EXTENDS Naturals, FiniteSets

CONSTANTS
  Users,      \* principals, ordered as the numbers they are
  Dapps,      \* dApps of the carousel
  Tabs,       \* open tabs of the wallet
  Owner,      \* the user signed in in a tab
  CallIds,    \* calls that can be in flight at the same time
  Limit,      \* matches_max_length of the caller of list_users
  MaxTime,    \* bound on the time of the backend
  MaxStarts   \* bound on what the users do

ASSUME ProfilesAssumption ==
  /\ Users \subseteq Nat /\ IsFiniteSet(Users)
  /\ Owner \in [Tabs -> Users]
  /\ Limit \in Nat \ {0}
  /\ MaxTime \in Nat \ {0}
  /\ MaxStarts \in Nat

VARIABLES
  now,                   \* ic_cdk::api::time() of the backend
  user_profile,          \* UserProfileMap, NoProfile where it has no entry
  user_profile_updated,  \* UserProfileUpdatedMap, 0 where it has no entry
  store,                 \* userProfileStore of each tab, NoProfile when empty
  calls,                 \* calls in flight
  starts,                \* what the users have done so far
  cursor,                \* the latest updated_timestamp list_users has reported
  reported               \* users list_users has reported as verified

backendVars == <<now, user_profile, user_profile_updated>>
listVars == <<cursor, reported>>
vars == <<backendVars, store, calls, starts, listVars>>

Times == 1 .. MaxTime
Keys == Times \X Users

(* A version of 0 stands for None, a verified time of 0 for no credential. *)
Profile == [version : Nat, created : Nat, updated : Nat, verified : Nat, hidden : SUBSET Dapps]
FromTimestamp(t) ==
  [version |-> 0, created |-> t, updated |-> t, verified |-> 0, hidden |-> {}]
NoProfile == FromTimestamp(0)

Kinds == {"query", "certified", "create", "hide", "credential"}
(* heard is FALSE once the tab is gone; profile is the profile of an answer. *)
Call == [id : CallIds, kind : Kinds, tab : Tabs, heard : BOOLEAN, dapps : SUBSET Dapps,
         version : Nat, status : {"sent", "Ok", "Err"}, profile : Profile]

TypeOK ==
  /\ now \in Times
  /\ user_profile \in [Keys -> Profile]
  /\ user_profile_updated \in [Users -> 0 .. now]
  /\ \A k \in Keys : user_profile[k] # NoProfile <=> user_profile_updated[k[2]] = k[1]
  /\ store \in [Tabs -> Profile]
  /\ calls \subseteq Call
  /\ starts \in 0 .. MaxStarts
  /\ cursor \in 0 .. now
  /\ reported \subseteq Users

Init ==
  /\ now = 1
  /\ user_profile = [k \in Keys |-> NoProfile]
  /\ user_profile_updated = [u \in Users |-> 0]
  /\ store = [c \in Tabs |-> NoProfile]
  /\ calls = {}
  /\ starts = 0
  /\ cursor = 0
  /\ reported = {}

-----------------------------------------------------------------------------
(* The maps of the backend.                                                 *)
-----------------------------------------------------------------------------

FindByPrincipal(u) ==
  IF user_profile_updated[u] = 0
    THEN NoProfile
    ELSE user_profile[<<user_profile_updated[u], u>>]

(* As StoreNew, but the old entry is cleaned up last.                       *)
StoreNewCleansLast(u, p) ==
  /\ user_profile_updated' = [user_profile_updated EXCEPT ![u] = now]
  /\ user_profile' = [k \in Keys |->
       IF k = <<user_profile_updated[u], u>> THEN NoProfile
       ELSE IF k = <<now, u>> THEN p
       ELSE user_profile[k]]

(* The entry under the old time goes before the new one is inserted: when   *)
(* both times are the same the insertion must win.                          *)
StoreNew(u, p) ==
  /\ user_profile_updated' = [user_profile_updated EXCEPT ![u] = now]
  /\ user_profile' = [k \in Keys |->
       IF k = <<now, u>> THEN p
       ELSE IF k = <<user_profile_updated[u], u>> THEN NoProfile
       ELSE user_profile[k]]

Incremented(p) == [p EXCEPT !.version = @ + 1]

(* StoredUserProfile::add_credential, for a version that matches.           *)
WithCredential(p) == [Incremented(p) EXCEPT !.verified = now, !.updated = now]

(* As WithHidden, but the version stays.                                    *)
WithHiddenSameVersion(p, dapps) ==
  IF dapps \subseteq p.hidden THEN p ELSE [p EXCEPT !.hidden = @ \union dapps, !.updated = now]

(* StoredUserProfile::add_hidden_dapp_id, for a version that matches.  A    *)
(* dApp that is hidden already changes nothing.                             *)
WithHidden(p, dapps) ==
  IF dapps \subseteq p.hidden
    THEN p
    ELSE [Incremented(p) EXCEPT !.hidden = @ \union dapps, !.updated = now]

-----------------------------------------------------------------------------
(* The endpoints.  Each answers one call; Answer(c, status, p) is its reply. *)
-----------------------------------------------------------------------------

Without(c) == calls \ {c}
Answer(c, status, p) ==
  calls' = IF c.heard
             THEN Without(c) \union {[c EXCEPT !.status = status, !.profile = p]}
             ELSE Without(c)

(* get_user_profile, as a query or as an update call.                       *)
GetUserProfile(c) ==
  /\ c.kind \in {"query", "certified"}
  /\ LET p == FindByPrincipal(Owner[c.tab]) IN
       Answer(c, IF p = NoProfile THEN "Err" ELSE "Ok", p)
  /\ UNCHANGED <<user_profile, user_profile_updated>>

(* As CreateProfile, but what is there already is replaced.                 *)
CreateProfileAnew(c) ==
  /\ Answer(c, "Ok", FromTimestamp(now))
  /\ StoreNew(Owner[c.tab], FromTimestamp(now))

(* create_user_profile: a profile that is there already is returned.        *)
CreateProfile(c) ==
  LET u == Owner[c.tab]
      p == FindByPrincipal(u)
  IN  IF p # NoProfile
        THEN /\ Answer(c, "Ok", p)
             /\ UNCHANGED <<user_profile, user_profile_updated>>
        ELSE /\ Answer(c, "Ok", FromTimestamp(now))
             /\ StoreNew(u, FromTimestamp(now))

(* add_user_hidden_dapp_id and add_user_credential: the version of the      *)
(* caller must be the version of the profile.  A credential may also turn   *)
(* out to be invalid or not to be configured.                               *)
ChangeProfile(c) ==
  LET u == Owner[c.tab]
      p == FindByPrincipal(u)
  IN  \/ /\ p # NoProfile
         /\ p.version = c.version
         /\ StoreNew(u, IF c.kind = "hide" THEN WithHidden(p, c.dapps) ELSE WithCredential(p))
         /\ Answer(c, "Ok", NoProfile)
      \/ /\ c.kind = "credential" \/ p = NoProfile \/ p.version # c.version
         /\ Answer(c, "Err", NoProfile)
         /\ UNCHANGED <<user_profile, user_profile_updated>>

Execute(c) ==
  /\ c.status = "sent"
  /\ \/ GetUserProfile(c)
     \/ c.kind = "create" /\ CreateProfile(c)
     \/ c.kind \in {"hide", "credential"} /\ ChangeProfile(c)
  /\ UNCHANGED <<now, store, starts, listVars>>

-----------------------------------------------------------------------------
(* The tabs.                                                                *)
-----------------------------------------------------------------------------

Sent(i, c, kind, dapps, version) ==
  [id |-> i, kind |-> kind, tab |-> c, heard |-> TRUE, dapps |-> dapps,
   version |-> version, status |-> "sent", profile |-> NoProfile]

Start(c, kind, dapps, version) ==
  /\ starts < MaxStarts
  /\ starts' = starts + 1
  /\ \E i \in CallIds \ {d.id : d \in calls} :
       calls' = calls \union {Sent(i, c, kind, dapps, version)}
  /\ UNCHANGED <<backendVars, store, listVars>>

(* LoaderUserProfile.load without reload: only while the store is empty.    *)
LoadUserProfile(c) == store[c] = NoProfile /\ Start(c, "query", {}, 0)

(* DappsCarousel.closeSlide: a slide is shown for a dApp that is not hidden *)
(* in the store, and closing it sends the version of the store.  (The array *)
(* of dApps hidden for now is as short-lived as the component.)             *)
CloseSlide(c, d) ==
  /\ store[c] # NoProfile
  /\ d \notin store[c].hidden
  /\ Start(c, "hide", {d}, store[c].version)

(* addPouhCredential, once the popup of the issuer has succeeded: an empty  *)
(* store is sent as no version.                                             *)
AddPouhCredential(c) == Start(c, "credential", {}, store[c].version)

(* The call is followed by another one under the same identifier.           *)
Then(c, kind) == calls' = Without(c) \union {Sent(c.id, c.tab, kind, {}, 0)}

(* The answer arrives.  A query that finds no profile leads to its          *)
(* creation, one that finds one is shown and followed by the certified      *)
(* load; whatever became of a hidden dApp the profile is refreshed; an      *)
(* accepted credential is followed by the certified load; the other errors  *)
(* are shown or ignored.                                                    *)
Receive(c) ==
  /\ c.status # "sent"
  /\ \/ /\ c.kind = "query" /\ c.status = "Ok"
        /\ store' = [store EXCEPT ![c.tab] = c.profile]
        /\ Then(c, "certified")
     \/ /\ c.kind = "query" /\ c.status = "Err"
        /\ Then(c, "create")
        /\ UNCHANGED store
     \/ /\ c.kind \in {"create", "certified"} /\ c.status = "Ok"
        /\ store' = [store EXCEPT ![c.tab] = c.profile]
        /\ calls' = Without(c)
     \/ /\ c.kind = "hide"
        /\ Then(c, "query")
        /\ UNCHANGED store
     \/ /\ c.kind = "credential" /\ c.status = "Ok"
        /\ Then(c, "certified")
        /\ UNCHANGED store
     \/ /\ c.kind \in {"certified", "credential"} /\ c.status = "Err"
        /\ calls' = Without(c)
        /\ UNCHANGED store
  /\ UNCHANGED <<backendVars, starts, listVars>>

(* A call or its answer is lost, or the tab gives up on a call that is      *)
(* executed later: every caller stops at an exception.                      *)
Unheard(ds) == {[d EXCEPT !.heard = FALSE] : d \in {e \in ds : e.status = "sent"}}
Fail(c) ==
  /\ \/ calls' = Without(c)
     \/ c.heard /\ calls' = Without(c) \union Unheard({c})
  /\ UNCHANGED <<backendVars, store, starts, listVars>>

(* The tab is reloaded: what was sent is executed, and nobody hears of it.  *)
Reload(c) ==
  /\ store[c] # NoProfile
  /\ store' = [store EXCEPT ![c] = NoProfile]
  /\ calls' = {d \in calls : d.tab # c} \union Unheard({d \in calls : d.tab = c})
  /\ UNCHANGED <<backendVars, starts, listVars>>

-----------------------------------------------------------------------------
(* list_users and the allowed caller that follows the users with it.        *)
-----------------------------------------------------------------------------

Before(k, l) == k[1] < l[1] \/ (k[1] = l[1] /\ k[2] < l[2])

(* The entries from the given time on, as many as the limit allows.         *)
FromTimeExcluded(t) == {k \in Keys : user_profile[k] # NoProfile /\ k[1] > t}
FromTime(t) == {k \in Keys : user_profile[k] # NoProfile /\ k[1] >= t}

Listed(t) == {k \in FromTime(t) : Cardinality({l \in FromTime(t) : Before(l, k)}) < Limit}

UsersOf(keys) == {k[2] : k \in keys}
Verified(keys) == {k \in keys : user_profile[k].verified # 0}

(* The caller remembers who was verified and asks from the latest           *)
(* updated_timestamp it was given.                                          *)
ListUsers ==
  /\ reported' = (reported \ UsersOf(Listed(cursor))) \union UsersOf(Verified(Listed(cursor)))
  /\ cursor' \in {t \in {cursor} \union {user_profile[k].updated : k \in Listed(cursor)} :
                   t >= cursor /\ \A k \in Listed(cursor) : user_profile[k].updated <= t}
  /\ UNCHANGED <<backendVars, store, calls, starts>>

Tick ==
  /\ now < MaxTime
  /\ now' = now + 1
  /\ UNCHANGED <<user_profile, user_profile_updated, store, calls, starts, listVars>>

Next ==
  \/ \E c \in calls : Execute(c) \/ Receive(c) \/ Fail(c)
  \/ \E c \in Tabs : LoadUserProfile(c) \/ AddPouhCredential(c) \/ Reload(c)
  \/ \E c \in Tabs, d \in Dapps : CloseSlide(c, d)
  \/ ListUsers
  \/ Tick

Spec == Init /\ [][Next]_vars

-----------------------------------------------------------------------------

Current(u) == FindByPrincipal(u)

(* A version stands for one content: a tab whose version is still the       *)
(* version of the profile shows the profile as it is, however its calls,    *)
(* those of other tabs and their answers are interleaved.  This is what     *)
(* makes the check of the version in the backend a check that the user has  *)
(* seen what they change.  Queries are answered truthfully here: a forged   *)
(* one would show a profile that never was until the certified load ends.   *)
TrueToVersion(u, p) ==
  p # NoProfile =>
     /\ p.version <= Current(u).version
     /\ p.version = Current(u).version => p = Current(u)
VersionIdentifiesContent ==
  /\ \A c \in Tabs : TrueToVersion(Owner[c], store[c])
  /\ \A d \in calls : TrueToVersion(Owner[d.tab], d.profile)

(* A user keeps their profile: it is never created again over the one that  *)
(* is there, and neither a credential nor a hidden dApp is lost when calls  *)
(* of several tabs change it.                                               *)
Keeps(p, q) ==
  /\ q.created = p.created
  /\ p.hidden \subseteq q.hidden
  /\ p.verified <= q.verified
NothingLost ==
  [][\A u \in Users : Current(u) # NoProfile => Keeps(Current(u), Current(u)')]_vars

(* The caller of list_users that always asks from the latest time it has    *)
(* been told misses nobody: whoever was changed before that time is         *)
(* reported as they are, although several profiles can change at that very  *)
(* time, before and after it asks, and its answers are cut off at a limit.  *)
NobodyMissed ==
  \A u \in Users : user_profile_updated[u] \in 1 .. cursor - 1 =>
     (u \in reported <=> Current(u).verified # 0)

(* The key of an entry is its updated_timestamp, as list_users, which       *)
(* searches by the key and reports the field, relies on.  To hide a dApp    *)
(* that is hidden already would store the profile under a new key with its  *)
(* old updated_timestamp; the check of the version keeps the tabs, which    *)
(* only offer what their store does not hide, from ever doing that, as long *)
(* as their queries are answered truthfully.                                *)
KeyedByUpdatedTimestamp ==
  \A k \in Keys : user_profile[k] # NoProfile => user_profile[k].updated = k[1]
=============================================================================
