------------------------ MODULE UserProfiles_proofs ------------------------
(***************************************************************************)
(* The profiles of the users: proofs about UserProfiles for every number of *)
(* users, tabs, calls in flight and dApps, and every limit of list_users.   *)
(***************************************************************************)
EXTENDS UserProfiles, FiniteSetTheorems, TLAPS

(* A tab that hides a dApp with the version the profile still has hides one *)
(* that is not hidden yet.                                                  *)
HidesNews ==
  \A c \in calls : c.kind = "hide" /\ c.status = "sent" =>
     /\ c.version <= Current(Owner[c.tab]).version
     /\ c.version = Current(Owner[c.tab]).version =>
          ~ (c.dapps \subseteq Current(Owner[c.tab]).hidden)

(* A credential was verified before now.                                    *)
VerifiedBefore == \A k \in Keys : user_profile[k].verified <= now

IInv ==
  /\ TypeOK
  /\ KeyedByUpdatedTimestamp
  /\ VersionIdentifiesContent
  /\ NobodyMissed
  /\ HidesNews
  /\ VerifiedBefore

-----------------------------------------------------------------------------
(* The maps.                                                                *)

(* A profile without a change is a profile.                                 *)
LEMMA DefaultsAreProfiles ==
  /\ NoProfile \in Profile
  /\ \A t \in Nat : FromTimestamp(t) \in Profile
  BY DEF NoProfile, FromTimestamp, Profile

(* Every key has a time and a principal.                                    *)
LEMMA KeyParts ==
  ASSUME NEW k \in Keys
  PROVE  /\ k = <<k[1], k[2]>>
         /\ k[1] \in Nat /\ k[1] \in Times
         /\ k[2] \in Nat /\ k[2] \in Users
  <1>1. Users \subseteq Nat /\ MaxTime \in Nat
    BY ProfilesAssumption
  <1>2. k = <<k[1], k[2]>> /\ k[1] \in Times /\ k[2] \in Users
    BY DEF Keys
  <1>3. Times \subseteq Nat
    BY <1>1 DEF Times
  <1> QED BY <1>1, <1>2, <1>3

(* The entry of a user is the only one with their principal.                *)
LEMMA CurrentIsTheEntry ==
  ASSUME TypeOK, NEW u \in Users
  PROVE  /\ Current(u) \in Profile
         /\ Current(u) # NoProfile <=> user_profile_updated[u] \in Times
         /\ \A k \in Keys : k[2] = u /\ user_profile[k] # NoProfile =>
              k = <<user_profile_updated[u], u>> /\ user_profile[k] = Current(u)
         /\ user_profile_updated[u] \in Times =>
              /\ <<user_profile_updated[u], u>> \in Keys
              /\ Current(u) = user_profile[<<user_profile_updated[u], u>>]
  <1> USE ProfilesAssumption DEF TypeOK, Times
  <1>1. user_profile_updated[u] \in 0 .. now /\ now \in 1 .. MaxTime
    OBVIOUS
  <1>2. user_profile_updated[u] \in Times <=> user_profile_updated[u] # 0
    BY <1>1
  <1>3. ASSUME user_profile_updated[u] \in Times
        PROVE  /\ <<user_profile_updated[u], u>> \in Keys
               /\ user_profile[<<user_profile_updated[u], u>>] # NoProfile
    BY <1>3 DEF Keys
  <1>4. Current(u) = IF user_profile_updated[u] = 0 THEN NoProfile
                     ELSE user_profile[<<user_profile_updated[u], u>>]
    BY DEF Current, FindByPrincipal
  <1>5. ASSUME NEW k \in Keys, k[2] = u, user_profile[k] # NoProfile
        PROVE  k = <<user_profile_updated[u], u>> /\ user_profile[k] = Current(u)
    <2>1. k = <<k[1], k[2]>> /\ k[1] \in Times
      BY DEF Keys
    <2>2. user_profile_updated[u] = k[1]
      BY <1>5
    <2> QED BY <1>2, <1>4, <1>5, <2>1, <2>2
  <1> QED BY <1>2, <1>3, <1>4, <1>5, DefaultsAreProfiles

(* store_new moves the entry of one user to the current time.               *)
LEMMA StoreNewEffect ==
  ASSUME TypeOK, NEW u \in Users, NEW p \in Profile, p # NoProfile,
         StoreNew(u, p), now' = now
  PROVE  /\ user_profile' \in [Keys -> Profile]
         /\ user_profile_updated' \in [Users -> 0 .. now]
         /\ \A k \in Keys : user_profile'[k] # NoProfile <=> user_profile_updated'[k[2]] = k[1]
         /\ user_profile_updated'[u] = now
         /\ \A w \in Users \ {u} : user_profile_updated'[w] = user_profile_updated[w]
         /\ \A k \in Keys : k[2] # u => user_profile'[k] = user_profile[k]
         /\ \A k \in Keys : user_profile'[k] = user_profile[k] \/ (user_profile'[k] = p /\ k = <<now, u>>)
                                                          \/ user_profile'[k] = NoProfile
         /\ Current(u)' = p
         /\ \A w \in Users \ {u} : Current(w)' = Current(w)
  <1> USE ProfilesAssumption DEF TypeOK, Times
  <1>1. now \in 1 .. MaxTime /\ <<now, u>> \in Keys
    BY DEF Keys
  <1>2. \A k \in Keys : k = <<k[1], k[2]>> /\ k[1] \in 1 .. MaxTime /\ k[2] \in Users
    BY DEF Keys
  <1>3. user_profile' \in [Keys -> Profile]
    BY DefaultsAreProfiles DEF StoreNew
  <1>4. /\ user_profile_updated' \in [Users -> 0 .. now]
        /\ user_profile_updated'[u] = now
        /\ \A w \in Users \ {u} : user_profile_updated'[w] = user_profile_updated[w]
    BY <1>1 DEF StoreNew
  <1>5. \A k \in Keys : k[2] # u => user_profile'[k] = user_profile[k]
    BY <1>2 DEF StoreNew
  <1>6. ASSUME NEW k \in Keys, k[2] = u
        PROVE  user_profile'[k] = IF k[1] = now THEN p ELSE NoProfile
    <2>1. CASE k[1] = now
      BY <1>2, <1>6, <2>1 DEF StoreNew
    <2>2. CASE k[1] # now /\ k[1] = user_profile_updated[u]
      BY <1>2, <1>6, <2>2 DEF StoreNew
    <2>3. CASE k[1] # now /\ k[1] # user_profile_updated[u]
      <3>1. user_profile[k] = NoProfile
        BY <1>6, <2>3
      <3>2. k # <<now, u>> /\ k # <<user_profile_updated[u], u>>
        BY <2>3
      <3> QED BY <2>3, <3>1, <3>2 DEF StoreNew
    <2> QED BY <2>1, <2>2, <2>3
  <1>7. \A k \in Keys : user_profile'[k] # NoProfile <=> user_profile_updated'[k[2]] = k[1]
    BY <1>1, <1>2, <1>4, <1>5, <1>6
  <1>8. \A k \in Keys : user_profile'[k] = user_profile[k] \/ (user_profile'[k] = p /\ k = <<now, u>>)
                                                    \/ user_profile'[k] = NoProfile
    BY <1>2, <1>5, <1>6
  <1>9. Current(u)' = p
    BY <1>1, <1>4, <1>6 DEF Current, FindByPrincipal
  <1>10. ASSUME NEW w \in Users \ {u} PROVE Current(w)' = Current(w)
    <2>1. CASE user_profile_updated[w] = 0
      BY <1>4, <2>1 DEF Current, FindByPrincipal
    <2>2. CASE user_profile_updated[w] # 0
      <3>1. <<user_profile_updated[w], w>> \in Keys
        BY <2>2 DEF Keys
      <3> QED BY <1>4, <1>5, <2>2, <3>1 DEF Current, FindByPrincipal
    <2> QED BY <2>1, <2>2
  <1> QED BY <1>3, <1>4, <1>5, <1>7, <1>8, <1>9, <1>10

-----------------------------------------------------------------------------
(* What a step does to the profiles: nothing, or store_new of a profile     *)
(* that is new, or one version ahead of the one that is there.              *)

Succeeds(p, q) ==
  \/ p = NoProfile /\ q = FromTimestamp(now)
  \/ /\ p # NoProfile
     /\ q.version = p.version + 1 /\ q.updated = now
     /\ q.created = p.created /\ p.hidden \subseteq q.hidden
     /\ q.verified = p.verified \/ q.verified = now

Stores(u, q) ==
  /\ q \in Profile /\ q # NoProfile
  /\ Succeeds(Current(u), q)
  /\ StoreNew(u, q)

(* The fields of a profile with a new credential.                           *)
LEMMA WithCredentialFields ==
  ASSUME NEW p \in Profile
  PROVE  WithCredential(p) =
           [version |-> p.version + 1, created |-> p.created, updated |-> now,
            verified |-> now, hidden |-> p.hidden]
  <1> DEFINE v == Incremented(p)
             w == [v EXCEPT !.verified = now]
  <1>1. v = [version |-> p.version + 1, created |-> p.created, updated |-> p.updated,
             verified |-> p.verified, hidden |-> p.hidden]
    BY DEF Incremented, Profile
  <1>2. WithCredential(p) = [w EXCEPT !.updated = now]
    BY Zenon DEF WithCredential
  <1> HIDE DEF v
  <1>3. w = [version |-> p.version + 1, created |-> p.created, updated |-> p.updated,
             verified |-> now, hidden |-> p.hidden]
    BY <1>1
  <1> HIDE DEF w
  <1> QED BY <1>2, <1>3

(* The fields of a profile with a dApp hidden that was not.                 *)
LEMMA WithHiddenFields ==
  ASSUME NEW p \in Profile, NEW dapps, ~ (dapps \subseteq p.hidden)
  PROVE  WithHidden(p, dapps) =
           [version |-> p.version + 1, created |-> p.created, updated |-> now,
            verified |-> p.verified, hidden |-> p.hidden \union dapps]
  <1> DEFINE v == Incremented(p)
             w == [v EXCEPT !.hidden = v.hidden \union dapps]
  <1>1. v = [version |-> p.version + 1, created |-> p.created, updated |-> p.updated,
             verified |-> p.verified, hidden |-> p.hidden]
    BY DEF Incremented, Profile
  <1>2. WithHidden(p, dapps) = [w EXCEPT !.updated = now]
    BY Zenon DEF WithHidden
  <1> HIDE DEF v
  <1>3. w = [version |-> p.version + 1, created |-> p.created, updated |-> p.updated,
             verified |-> p.verified, hidden |-> p.hidden \union dapps]
    BY <1>1
  <1> HIDE DEF w
  <1> QED BY <1>2, <1>3

(* An endpoint stores a successor of the profile or leaves the maps alone,  *)
(* and answers with the profile as it is then.                              *)
LEMMA EndpointEffect ==
  ASSUME TypeOK, HidesNews, NEW c \in calls, Execute(c)
  PROVE  LET u == Owner[c.tab] IN
         /\ \/ UNCHANGED <<user_profile, user_profile_updated>>
            \/ \E q : Stores(u, q)
         /\ \/ calls' = Without(c)
            \/ \E status \in {"Ok", "Err"}, q \in {NoProfile, Current(u)'} :
                 calls' = Without(c) \union {[c EXCEPT !.status = status, !.profile = q]}
  <1> DEFINE u == Owner[c.tab]
  <1>1. u \in Users /\ c \in Call /\ now \in Nat \ {0}
    BY ProfilesAssumption DEF TypeOK, Call, Times
  <1>2. Current(u) \in Profile /\ Current(u) = FindByPrincipal(u)
    BY <1>1, CurrentIsTheEntry DEF Current
  <1>3. ASSUME NEW status \in {"Ok", "Err"}, NEW q \in {NoProfile, Current(u)'},
               Answer(c, status, q)
        PROVE  \/ calls' = Without(c)
               \/ \E st \in {"Ok", "Err"}, r \in {NoProfile, Current(u)'} :
                    calls' = Without(c) \union {[c EXCEPT !.status = st, !.profile = r]}
    BY <1>3 DEF Answer
  <1>4. CASE GetUserProfile(c)
    <2>1. UNCHANGED <<user_profile, user_profile_updated>>
      BY <1>4 DEF GetUserProfile
    <2>2. Current(u)' = Current(u)
      BY <2>1 DEF Current, FindByPrincipal
    <2>3. Answer(c, IF Current(u) = NoProfile THEN "Err" ELSE "Ok", Current(u))
      BY <1>2, <1>4 DEF GetUserProfile
    <2> QED BY <1>3, <2>1, <2>2, <2>3
  <1>5. CASE CreateProfile(c)
    <2>1. CASE Current(u) # NoProfile
      <3>1. UNCHANGED <<user_profile, user_profile_updated>> /\ Answer(c, "Ok", Current(u))
        BY <1>2, <1>5, <2>1 DEF CreateProfile
      <3>2. Current(u)' = Current(u)
        BY <3>1 DEF Current, FindByPrincipal
      <3> QED BY <1>3, <3>1, <3>2
    <2>2. CASE Current(u) = NoProfile
      <3>1. StoreNew(u, FromTimestamp(now)) /\ Answer(c, "Ok", FromTimestamp(now))
        BY <1>2, <1>5, <2>2 DEF CreateProfile
      <3>2. FromTimestamp(now) \in Profile /\ FromTimestamp(now) # NoProfile
        BY <1>1, DefaultsAreProfiles DEF FromTimestamp, NoProfile
      <3>3. Stores(u, FromTimestamp(now))
        BY <2>2, <3>1, <3>2 DEF Stores, Succeeds
      <3>4. Current(u)' = FromTimestamp(now)
        BY <1>1, <3>1, <3>2, StoreNewEffect, Execute(c) DEF Execute
      <3> QED BY <1>3, <3>1, <3>3, <3>4
    <2> QED BY <2>1, <2>2
  <1>6. CASE c.kind \in {"hide", "credential"} /\ ChangeProfile(c)
    <2> DEFINE p == Current(u)
               q == IF c.kind = "hide" THEN WithHidden(p, c.dapps) ELSE WithCredential(p)
    <2>1. CASE p # NoProfile /\ p.version = c.version /\ StoreNew(u, q)
                 /\ Answer(c, "Ok", NoProfile)
      <3>1. c.kind = "hide" => ~ (c.dapps \subseteq p.hidden)
        BY <2>1, Execute(c) DEF Execute, HidesNews
      <3>2. q = [version |-> p.version + 1, created |-> p.created, updated |-> now,
                 verified |-> IF c.kind = "hide" THEN p.verified ELSE now,
                 hidden |-> IF c.kind = "hide" THEN p.hidden \union c.dapps ELSE p.hidden]
        BY <1>2, <3>1, WithHiddenFields, WithCredentialFields
      <3>3. /\ p.version \in Nat /\ p.created \in Nat /\ p.verified \in Nat
            /\ p.hidden \subseteq Dapps /\ c.dapps \subseteq Dapps
        BY <1>1, <1>2 DEF Profile, Call
      <3> HIDE DEF p, q
      <3>4. q \in Profile
        BY <1>1, <3>2, <3>3 DEF Profile
      <3>5. Succeeds(p, q) /\ q.version # 0
        BY <1>1, <2>1, <3>2, <3>3 DEF Succeeds
      <3>6. Stores(u, q)
        BY <2>1, <3>4, <3>5 DEF Stores, NoProfile, FromTimestamp, p, q
      <3> QED BY <1>3, <2>1, <3>6
    <2>2. CASE Answer(c, "Err", NoProfile) /\ UNCHANGED <<user_profile, user_profile_updated>>
      BY <1>3, <2>2
    <2> QED BY <1>2, <1>6, <2>1, <2>2 DEF ChangeProfile
  <1> QED BY <1>4, <1>5, <1>6, Execute(c) DEF Execute

-----------------------------------------------------------------------------
(* The step of an endpoint keeps the invariant.                             *)

(* What a tab has seen stays true to its version, and what it wants to hide *)
(* stays new, when a successor of a profile is stored.                      *)
LEMMA SeenStaysTrue ==
  ASSUME TypeOK, now' = now, NEW w \in Users,
         \/ UNCHANGED <<user_profile, user_profile_updated>>
         \/ \E u \in Users : \E q : Stores(u, q)
  PROVE  /\ \A p \in Profile : TrueToVersion(w, p) =>
              (p # NoProfile => /\ p.version <= Current(w)'.version
                                /\ p.version = Current(w)'.version => p = Current(w)')
         /\ \A n \in Nat : \A dapps \in SUBSET Dapps :
              /\ n <= Current(w).version
              /\ n = Current(w).version => ~ (dapps \subseteq Current(w).hidden)
              => /\ n <= Current(w)'.version
                 /\ n = Current(w)'.version => ~ (dapps \subseteq Current(w)'.hidden)
  <1>1. CASE Current(w)' = Current(w)
    BY <1>1 DEF TrueToVersion
  <1>2. ASSUME NEW q, Stores(w, q)
        PROVE  /\ Current(w)' = q /\ q \in Profile /\ Current(w) \in Profile
               /\ Succeeds(Current(w), q)
    BY <1>2, StoreNewEffect, CurrentIsTheEntry DEF Stores
  <1>3. ASSUME NEW q, Stores(w, q), Current(w) = NoProfile
        PROVE  /\ Current(w).version = 0 /\ Current(w).hidden = {}
               /\ Current(w)'.version = 0 /\ Current(w)'.hidden = {}
    BY <1>2, <1>3 DEF Succeeds, NoProfile, FromTimestamp
  <1>4. ASSUME NEW q, Stores(w, q), Current(w) # NoProfile
        PROVE  Current(w)'.version = Current(w).version + 1 /\ Current(w).version \in Nat
    BY <1>2, <1>4 DEF Succeeds, Profile
  <1>5. ASSUME NEW p \in Profile, NEW n \in Nat
        PROVE  p.version \in Nat /\ (n <= 0 => n = 0)
    BY <1>5 DEF Profile
  <1>6. ASSUME NEW q, Stores(w, q), Current(w) = NoProfile, NEW p \in Profile, TrueToVersion(w, p)
        PROVE  p = NoProfile
    BY <1>3, <1>5, <1>6 DEF TrueToVersion
  <1>7. CASE \E q : Stores(w, q)
    <2>1. PICK q : Stores(w, q)
      BY <1>7
    <2>2. CASE Current(w) = NoProfile
      BY <1>3, <1>6, <2>1, <2>2
    <2>3. CASE Current(w) # NoProfile
      <3>1. Current(w)'.version = Current(w).version + 1 /\ Current(w).version \in Nat
        BY <1>4, <2>1, <2>3
      <3>2. ASSUME NEW p \in Profile, TrueToVersion(w, p), p # NoProfile
            PROVE  p.version < Current(w)'.version /\ p.version \in Nat
        BY <1>5, <3>1, <3>2 DEF TrueToVersion
      <3>3. \A n \in Nat : n <= Current(w).version => n < Current(w)'.version
        BY <3>1
      <3>4. Current(w)'.version \in Nat
        BY <3>1
      <3> QED BY <3>2, <3>3, <3>4
    <2> QED BY <2>2, <2>3
  <1>8. ASSUME NEW u \in Users \ {w}, NEW q, Stores(u, q)
        PROVE  Current(w)' = Current(w)
    BY <1>8, StoreNewEffect DEF Stores
  <1>9. UNCHANGED <<user_profile, user_profile_updated>> => Current(w)' = Current(w)
    BY DEF Current, FindByPrincipal
  <1> QED BY <1>1, <1>7, <1>8, <1>9

(* The same, said of the calls and stores of all tabs.                      *)
LEMMA EndpointKeepsViews ==
  ASSUME IInv, NEW c \in calls, Execute(c)
  PROVE  (VersionIdentifiesContent /\ HidesNews)' /\ calls' \subseteq Call
  <1> DEFINE u == Owner[c.tab]
  <1>1. u \in Users /\ c \in Call /\ calls \subseteq Call /\ now' = now /\ store' = store
    BY ProfilesAssumption DEF IInv, TypeOK, Call, Execute
  <1>2. \/ UNCHANGED <<user_profile, user_profile_updated>>
        \/ \E q : Stores(u, q)
    BY EndpointEffect DEF IInv
  <1>3. Current(u)' \in Profile
    <2>1. UNCHANGED <<user_profile, user_profile_updated>> => Current(u)' = Current(u)
      BY DEF Current, FindByPrincipal
    <2>2. Current(u) \in Profile
      BY <1>1, CurrentIsTheEntry DEF IInv
    <2>3. ASSUME NEW q, Stores(u, q) PROVE Current(u)' \in Profile
      BY <1>1, <2>3, StoreNewEffect DEF IInv, Stores
    <2> QED BY <1>2, <2>1, <2>2, <2>3
  <1>4. PICK answered \in SUBSET Call :
          /\ calls' = Without(c) \union answered
          /\ \A d \in answered : /\ d.profile \in {NoProfile, Current(u)'}
                                 /\ d.tab = c.tab /\ d.status # "sent"
    <2>1. ASSUME calls' = Without(c)
          PROVE  \E answered \in SUBSET Call :
                   /\ calls' = Without(c) \union answered
                   /\ \A d \in answered : /\ d.profile \in {NoProfile, Current(u)'}
                                          /\ d.tab = c.tab /\ d.status # "sent"
      <3>1. calls' = Without(c) \union {}
        BY <2>1
      <3> WITNESS {} \in SUBSET Call
      <3> QED BY <3>1
    <2>2. ASSUME NEW status \in {"Ok", "Err"}, NEW q \in {NoProfile, Current(u)'},
                 calls' = Without(c) \union {[c EXCEPT !.status = status, !.profile = q]}
          PROVE  \E answered \in SUBSET Call :
                   /\ calls' = Without(c) \union answered
                   /\ \A d \in answered : /\ d.profile \in {NoProfile, Current(u)'}
                                          /\ d.tab = c.tab /\ d.status # "sent"
      <3> DEFINE b == [c EXCEPT !.status = status]
                 a == [b EXCEPT !.profile = q]
      <3>1. b \in Call /\ b.status = status /\ b.tab = c.tab
        BY <1>1 DEF Call
      <3>2. calls' = Without(c) \union {a}
        BY <2>2, Zenon
      <3> HIDE DEF b
      <3>3. q \in Profile
        BY <1>3, DefaultsAreProfiles
      <3>4. a \in Call /\ a.status = status /\ a.tab = c.tab /\ a.profile = q
        BY <3>1, <3>3 DEF Call
      <3>5. status # "sent" /\ {a} \in SUBSET Call
        BY <3>4
      <3> HIDE DEF a
      <3> USE <3>5
      <3> WITNESS {a} \in SUBSET Call
      <3> QED BY <3>2, <3>4
    <2> QED BY <2>1, <2>2, EndpointEffect DEF IInv
  <1>5. calls' \subseteq Call
    BY <1>1, <1>4 DEF Without
  <1>6. \A d \in calls' : \/ d \in calls
                         \/ /\ d.profile \in {NoProfile, Current(u)'}
                            /\ d.tab = c.tab /\ d.status # "sent"
    BY <1>4 DEF Without
  <1>7. \A w \in Users : \A p \in Profile : TrueToVersion(w, p) =>
          (p # NoProfile => /\ p.version <= Current(w)'.version
                            /\ p.version = Current(w)'.version => p = Current(w)')
    BY <1>1, <1>2, SeenStaysTrue DEF IInv
  <1>8. VersionIdentifiesContent'
    <2>1. ASSUME NEW b \in Tabs PROVE TrueToVersion(Owner[b], store[b])'
      <3>1. Owner[b] \in Users /\ store[b] \in Profile /\ store'[b] = store[b]
        BY <1>1, ProfilesAssumption DEF IInv, TypeOK
      <3>2. TrueToVersion(Owner[b], store[b])
        BY DEF IInv, VersionIdentifiesContent
      <3> QED BY <1>7, <3>1, <3>2 DEF TrueToVersion
    <2>2. ASSUME NEW d \in calls' PROVE TrueToVersion(Owner[d.tab], d.profile)'
      <3>1. CASE d \in calls
        <4>1. Owner[d.tab] \in Users /\ d.profile \in Profile
          BY <1>1, <3>1, ProfilesAssumption DEF Call
        <4>2. TrueToVersion(Owner[d.tab], d.profile)
          BY <3>1 DEF IInv, VersionIdentifiesContent
        <4> QED BY <1>7, <4>1, <4>2 DEF TrueToVersion
      <3>2. CASE d.profile \in {NoProfile, Current(u)'} /\ d.tab = c.tab
        <4>1. Current(u)'.version \in Nat
          BY <1>3 DEF Profile
        <4> QED BY <3>2, <4>1 DEF TrueToVersion
      <3> QED BY <1>6, <3>1, <3>2
    <2> QED BY <2>1, <2>2 DEF VersionIdentifiesContent
  <1>9. HidesNews'
    <2>1. ASSUME NEW d \in calls', d.kind = "hide", d.status = "sent"
          PROVE  /\ d.version <= Current(Owner[d.tab])'.version
                 /\ d.version = Current(Owner[d.tab])'.version =>
                      ~ (d.dapps \subseteq Current(Owner[d.tab])'.hidden)
      <3>1. d \in calls
        BY <1>6, <2>1
      <3>2. Owner[d.tab] \in Users /\ d.version \in Nat /\ d.dapps \in SUBSET Dapps
        BY <1>1, <3>1, ProfilesAssumption DEF Call
      <3> QED BY <1>1, <1>2, <2>1, <3>1, <3>2, SeenStaysTrue DEF IInv, HidesNews
    <2> QED BY <2>1 DEF HidesNews
  <1> QED BY <1>5, <1>8, <1>9

(* An endpoint keeps the maps: types, keys, verified times, and what the    *)
(* caller of list_users was told, because what it stores is stored now.     *)
LEMMA EndpointKeepsMaps ==
  ASSUME IInv, NEW c \in calls, Execute(c)
  PROVE  (TypeOK /\ KeyedByUpdatedTimestamp /\ VerifiedBefore /\ NobodyMissed)'
  <1> DEFINE u == Owner[c.tab]
  <1>1. /\ u \in Users /\ now \in Times /\ now \in Nat /\ cursor \in 0 .. now
        /\ UNCHANGED <<now, store, starts, listVars>>
    BY ProfilesAssumption DEF IInv, TypeOK, Call, Execute, Times
  <1>2. calls' \subseteq Call
    BY EndpointKeepsViews
  <1>3. CASE UNCHANGED <<user_profile, user_profile_updated>>
    <2>1. \A w \in Users : Current(w)' = Current(w)
      BY <1>3 DEF Current, FindByPrincipal
    <2>2. TypeOK'
      BY <1>1, <1>2, <1>3 DEF IInv, TypeOK, Times, listVars
    <2>3. (KeyedByUpdatedTimestamp /\ VerifiedBefore)'
      BY <1>1, <1>3 DEF IInv, KeyedByUpdatedTimestamp, VerifiedBefore
    <2>4. NobodyMissed'
      BY <1>1, <1>3, <2>1 DEF IInv, NobodyMissed, listVars
    <2> QED BY <2>2, <2>3, <2>4
  <1>4. ASSUME NEW q, Stores(u, q)
        PROVE  (TypeOK /\ KeyedByUpdatedTimestamp /\ VerifiedBefore /\ NobodyMissed)'
    <2>1. /\ user_profile' \in [Keys -> Profile]
          /\ user_profile_updated' \in [Users -> 0 .. now]
          /\ \A k \in Keys : user_profile'[k] # NoProfile <=> user_profile_updated'[k[2]] = k[1]
          /\ user_profile_updated'[u] = now
          /\ \A w \in Users \ {u} : user_profile_updated'[w] = user_profile_updated[w]
          /\ \A k \in Keys : user_profile'[k] = user_profile[k] \/ (user_profile'[k] = q /\ k = <<now, u>>)
                                                           \/ user_profile'[k] = NoProfile
          /\ \A w \in Users \ {u} : Current(w)' = Current(w)
      BY <1>1, <1>4, StoreNewEffect DEF IInv, Stores
    <2>2. TypeOK'
      BY <1>1, <1>2, <2>1 DEF IInv, TypeOK, Times, listVars
    <2>3. q.updated = now
      BY <1>4 DEF Stores, Succeeds, FromTimestamp
    <2>4. KeyedByUpdatedTimestamp'
      BY <2>1, <2>3 DEF IInv, KeyedByUpdatedTimestamp
    <2>5. q.verified <= now
      <3>1. Current(u) \in Profile /\ Current(u).verified <= now
        <4>1. CASE Current(u) = NoProfile
          BY <1>1, <4>1, DefaultsAreProfiles DEF NoProfile, FromTimestamp
        <4>2. CASE Current(u) # NoProfile
          BY <1>1, <4>2, CurrentIsTheEntry DEF IInv, VerifiedBefore
        <4> QED BY <4>1, <4>2
      <3> QED BY <1>1, <1>4, <3>1 DEF Stores, Succeeds, FromTimestamp
    <2>6. VerifiedBefore'
      <3>1. NoProfile.verified = 0
        BY DEF NoProfile, FromTimestamp
      <3> QED BY <1>1, <2>1, <2>5, <3>1 DEF IInv, VerifiedBefore
    <2>7. ASSUME NEW w \in Users, user_profile_updated'[w] \in 1 .. cursor' - 1
          PROVE  w \in reported' <=> Current(w)'.verified # 0
      <3>1. w # u
        BY <1>1, <2>1, <2>7 DEF listVars
      <3> QED BY <1>1, <2>1, <2>7, <3>1 DEF IInv, NobodyMissed, listVars
    <2> QED BY <2>2, <2>4, <2>6, <2>7 DEF NobodyMissed
  <1> QED BY <1>3, <1>4, EndpointEffect DEF IInv

-----------------------------------------------------------------------------
(* The steps of the tabs leave the backend alone.                           *)

(* A store only takes over what a call has brought, and what a call brings  *)
(* or asks for was there before or is asked for with the version of the     *)
(* store.                                                                   *)
LEMMA TabStep ==
  ASSUME IInv, UNCHANGED <<backendVars, listVars>>, starts' \in 0 .. MaxStarts,
         store' \in [Tabs -> Profile],
         \A b \in Tabs : \/ store'[b] \in {store[b], NoProfile}
                         \/ \E d \in calls : d.tab = b /\ store'[b] = d.profile,
         calls' \subseteq Call,
         \A d \in calls' :
           \/ \E e \in calls : /\ d.tab = e.tab /\ d.kind = e.kind /\ d.dapps = e.dapps
                              /\ d.version = e.version /\ d.status = e.status
                              /\ d.profile = e.profile
           \/ /\ d.profile = NoProfile
              /\ d.kind = "hide" => /\ d.version = store[d.tab].version /\ store[d.tab] # NoProfile
                                    /\ ~ (d.dapps \subseteq store[d.tab].hidden)
  PROVE  IInv'
  <1>1. \A w \in Users : Current(w)' = Current(w)
    BY DEF Current, FindByPrincipal, backendVars
  <1>2. UNCHANGED <<now, user_profile, user_profile_updated, cursor, reported>>
    BY DEF backendVars, listVars
  <1>3. TypeOK'
    BY <1>2 DEF IInv, TypeOK, Times
  <1>4. (KeyedByUpdatedTimestamp /\ VerifiedBefore)'
    BY <1>2 DEF IInv, KeyedByUpdatedTimestamp, VerifiedBefore
  <1>5. NobodyMissed'
    BY <1>1, <1>2 DEF IInv, NobodyMissed
  <1>6. \A b \in Tabs : Owner[b] \in Users
    BY ProfilesAssumption
  <1>7. calls \subseteq Call /\ \A d \in Call : d.tab \in Tabs
    BY DEF IInv, TypeOK, Call
  <1>8. VersionIdentifiesContent'
    <2>1. ASSUME NEW b \in Tabs PROVE TrueToVersion(Owner[b], store[b])'
      <3>1. TrueToVersion(Owner[b], store[b]) /\ \A d \in calls : d.tab = b => TrueToVersion(Owner[b], d.profile)
        BY DEF IInv, VersionIdentifiesContent
      <3> QED BY <1>1, <1>6, <3>1 DEF TrueToVersion
    <2>2. ASSUME NEW d \in calls' PROVE TrueToVersion(Owner[d.tab], d.profile)'
      <3>1. \A e \in calls : TrueToVersion(Owner[e.tab], e.profile)
        BY DEF IInv, VersionIdentifiesContent
      <3>2. Owner[d.tab] \in Users
        BY <1>6, <1>7
      <3> QED BY <1>1, <3>1, <3>2 DEF TrueToVersion
    <2> QED BY <2>1, <2>2 DEF VersionIdentifiesContent
  <1>9. ASSUME NEW d \in calls', d.kind = "hide", d.status = "sent"
        PROVE  /\ d.version <= Current(Owner[d.tab])'.version
               /\ d.version = Current(Owner[d.tab])'.version =>
                    ~ (d.dapps \subseteq Current(Owner[d.tab])'.hidden)
    <2>1. Owner[d.tab] \in Users /\ d.tab \in Tabs
      BY <1>6, <1>7
    <2>2. CASE \E e \in calls : /\ d.tab = e.tab /\ d.kind = e.kind /\ d.dapps = e.dapps
                               /\ d.version = e.version /\ d.status = e.status
      BY <1>1, <1>9, <2>1, <2>2 DEF IInv, HidesNews
    <2>3. CASE /\ d.version = store[d.tab].version /\ store[d.tab] # NoProfile
               /\ ~ (d.dapps \subseteq store[d.tab].hidden)
      <3>1. TrueToVersion(Owner[d.tab], store[d.tab])
        BY <2>1 DEF IInv, VersionIdentifiesContent
      <3> QED BY <1>1, <2>1, <2>3, <3>1 DEF TrueToVersion
    <2> QED BY <1>9, <2>2, <2>3
  <1>10. HidesNews'
    BY <1>9 DEF HidesNews
  <1> QED BY <1>3, <1>4, <1>5, <1>8, <1>10 DEF IInv

(* A request is a call.                                                     *)
LEMMA SentIsCall ==
  ASSUME NEW i \in CallIds, NEW b \in Tabs, NEW kind \in Kinds,
         NEW dapps \in SUBSET Dapps, NEW version \in Nat
  PROVE  Sent(i, b, kind, dapps, version) \in Call
  BY DefaultsAreProfiles DEF Sent, Call

(* The users start something; what they want to hide is shown in the store. *)
LEMMA StartKeeps ==
  ASSUME IInv, NEW b \in Tabs, NEW kind \in Kinds, NEW dapps \in SUBSET Dapps, NEW version \in Nat,
         Start(b, kind, dapps, version),
         kind = "hide" => /\ version = store[b].version /\ store[b] # NoProfile
                          /\ ~ (dapps \subseteq store[b].hidden)
  PROVE  IInv'
  <1>1. PICK i \in CallIds : calls' = calls \union {Sent(i, b, kind, dapps, version)}
    BY DEF Start
  <1> DEFINE new == Sent(i, b, kind, dapps, version)
  <1>2. /\ new \in Call /\ new.profile = NoProfile /\ new.kind = kind /\ new.tab = b
        /\ new.version = version /\ new.dapps = dapps
    BY SentIsCall DEF Sent
  <1>3. /\ UNCHANGED <<backendVars, store, listVars>>
        /\ starts' \in 0 .. MaxStarts
    BY ProfilesAssumption DEF Start, IInv, TypeOK
  <1>4. calls' = calls \union {new} /\ calls \subseteq Call
    BY <1>1 DEF IInv, TypeOK
  <1> HIDE DEF new
  <1>5. /\ calls' \subseteq Call
        /\ \A d \in calls' : d \in calls \/
             (/\ d.profile = NoProfile
              /\ d.kind = "hide" => /\ d.version = store[d.tab].version /\ store[d.tab] # NoProfile
                                    /\ ~ (d.dapps \subseteq store[d.tab].hidden))
    BY <1>2, <1>4
  <1>6. store \in [Tabs -> Profile]
    BY DEF IInv, TypeOK
  <1> QED BY <1>3, <1>5, <1>6, TabStep

(* The same for what the users can start.                                   *)
LEMMA StartStep ==
  ASSUME IInv, NEW b \in Tabs,
         LoadUserProfile(b) \/ AddPouhCredential(b) \/ \E d \in Dapps : CloseSlide(b, d)
  PROVE  IInv'
  <1>1. store[b].version \in Nat
    BY DEF IInv, TypeOK, Profile
  <1>2. CASE LoadUserProfile(b)
    BY <1>2, StartKeeps DEF LoadUserProfile, Kinds
  <1>3. CASE AddPouhCredential(b)
    BY <1>1, <1>3, StartKeeps DEF AddPouhCredential, Kinds
  <1>4. ASSUME NEW d \in Dapps, CloseSlide(b, d) PROVE IInv'
    <2>1. /\ Start(b, "hide", {d}, store[b].version) /\ store[b] # NoProfile
          /\ {d} \in SUBSET Dapps /\ ~ ({d} \subseteq store[b].hidden)
      BY <1>4 DEF CloseSlide
    <2> QED BY <1>1, <2>1, StartKeeps DEF Kinds
  <1> QED BY <1>2, <1>3, <1>4

(* An answer is received.                                                   *)
LEMMA ReceiveStep ==
  ASSUME IInv, NEW c \in calls, Receive(c)
  PROVE  IInv'
  <1>1. /\ c \in Call /\ c.tab \in Tabs /\ c.id \in CallIds /\ c.profile \in Profile
        /\ calls \subseteq Call /\ store \in [Tabs -> Profile] /\ starts \in 0 .. MaxStarts
    BY DEF IInv, TypeOK, Call
  <1>2. /\ UNCHANGED <<backendVars, listVars>> /\ starts' = starts
    BY DEF Receive
  <1>3. store' = store \/ store' = [store EXCEPT ![c.tab] = c.profile]
    BY DEF Receive
  <1>4. \/ calls' = Without(c)
        \/ \E kind \in {"certified", "create", "query"} :
             calls' = Without(c) \union {Sent(c.id, c.tab, kind, {}, 0)}
    BY DEF Receive, Then
  <1>5. \A kind \in {"certified", "create", "query"} :
          /\ Sent(c.id, c.tab, kind, {}, 0) \in Call
          /\ Sent(c.id, c.tab, kind, {}, 0).profile = NoProfile
          /\ Sent(c.id, c.tab, kind, {}, 0).kind # "hide"
    BY <1>1, SentIsCall DEF Sent, Kinds
  <1>6. /\ calls' \subseteq Call
        /\ \A d \in calls' : d \in calls \/ (d.profile = NoProfile /\ d.kind # "hide")
    BY <1>1, <1>4, <1>5 DEF Without
  <1>7. /\ store' \in [Tabs -> Profile]
        /\ \A b \in Tabs : \/ store'[b] \in {store[b], NoProfile}
                           \/ \E d \in calls : d.tab = b /\ store'[b] = d.profile
    BY <1>1, <1>3
  <1> QED BY <1>1, <1>2, <1>6, <1>7, TabStep

(* Calls that nobody hears of are calls as they were.                       *)
LEMMA UnheardCalls ==
  ASSUME NEW ds \in SUBSET Call
  PROVE  \A d \in Unheard(ds) : /\ d \in Call
                              /\ \E e \in ds : /\ d.tab = e.tab /\ d.kind = e.kind /\ d.dapps = e.dapps
                                              /\ d.version = e.version /\ d.status = e.status
                                              /\ d.profile = e.profile
  <1>1. \A d \in Unheard(ds) : \E e \in ds : d = [e EXCEPT !.heard = FALSE]
    BY DEF Unheard
  <1>2. ASSUME NEW e \in Call
        PROVE  LET d == [e EXCEPT !.heard = FALSE] IN
               /\ d \in Call /\ d.tab = e.tab /\ d.kind = e.kind /\ d.dapps = e.dapps
               /\ d.version = e.version /\ d.status = e.status /\ d.profile = e.profile
    BY DEF Call
  <1> TAKE d \in Unheard(ds)
  <1>3. PICK e \in ds : d = [e EXCEPT !.heard = FALSE]
    BY <1>1
  <1>4. /\ d \in Call /\ d.tab = e.tab /\ d.kind = e.kind /\ d.dapps = e.dapps
        /\ d.version = e.version /\ d.status = e.status /\ d.profile = e.profile
    BY <1>2, <1>3
  <1> QED BY <1>4

(* Calls are lost, and tabs are reloaded.                                   *)
LEMMA LossStep ==
  ASSUME IInv, (\E c \in calls : Fail(c)) \/ (\E b \in Tabs : Reload(b))
  PROVE  IInv'
  <1>1. calls \subseteq Call /\ store \in [Tabs -> Profile] /\ starts \in 0 .. MaxStarts
    BY DEF IInv, TypeOK
  <1>2. PICK lost \in SUBSET calls, kept \in SUBSET calls :
          calls' = kept \/ calls' = kept \union Unheard(lost)
    <2>1. ASSUME NEW c \in calls, Fail(c)
          PROVE  /\ {c} \in SUBSET calls /\ Without(c) \in SUBSET calls
                 /\ calls' = Without(c) \/ calls' = Without(c) \union Unheard({c})
      BY <2>1 DEF Fail, Without
    <2>2. ASSUME NEW b \in Tabs, Reload(b)
          PROVE  calls' = {d \in calls : d.tab # b} \union Unheard({d \in calls : d.tab = b})
      BY <2>2 DEF Reload
    <2> QED BY <2>1, <2>2
  <1>3. /\ UNCHANGED <<backendVars, listVars>> /\ starts' = starts
        /\ store' \in [Tabs -> Profile]
        /\ \A b \in Tabs : store'[b] \in {store[b], NoProfile}
    BY <1>1, DefaultsAreProfiles DEF Fail, Reload
  <1>4. /\ calls' \subseteq Call
        /\ \A d \in calls' : \E e \in calls : /\ d.tab = e.tab /\ d.kind = e.kind /\ d.dapps = e.dapps
                                            /\ d.version = e.version /\ d.status = e.status
                                            /\ d.profile = e.profile
    BY <1>1, <1>2, UnheardCalls
  <1> QED BY <1>1, <1>3, <1>4, TabStep

-----------------------------------------------------------------------------
(* list_users.                                                              *)

(* There are finitely many keys.                                            *)
LEMMA KeysAreFinite == IsFiniteSet(Keys)
  <1>1. IsFiniteSet(1 .. MaxTime)
    BY ProfilesAssumption, FS_Interval
  <1> QED BY <1>1, ProfilesAssumption, FS_Product DEF Keys, Times

(* What is listed is listed without gaps: an entry at or after the start    *)
(* that comes before a listed one is listed, too.                           *)
LEMMA ListedWithoutGaps ==
  ASSUME NEW t \in Nat, NEW k \in Listed(t), NEW l \in FromTime(t), Before(l, k)
  PROVE  l \in Listed(t)
  <1> DEFINE before(m) == {n \in FromTime(t) : Before(n, m)}
  <1>1. \A m \in Keys : m[1] \in Nat /\ m[2] \in Nat
    BY KeyParts
  <1>2. FromTime(t) \subseteq Keys
    BY DEF FromTime
  <1>3. k \in FromTime(t) /\ Cardinality(before(k)) < Limit
    BY DEF Listed
  <1>4. before(l) \subseteq before(k)
    BY <1>1, <1>2, <1>3 DEF Before
  <1>5. IsFiniteSet(before(k))
    BY <1>2, KeysAreFinite, FS_Subset
  <1>6. /\ Cardinality(before(l)) <= Cardinality(before(k))
        /\ Cardinality(before(l)) \in Nat /\ Cardinality(before(k)) \in Nat
    BY <1>4, <1>5, FS_Subset, FS_CardinalityType
  <1>7. Cardinality(before(l)) < Limit
    BY <1>3, <1>6, ProfilesAssumption
  <1> QED BY <1>7 DEF Listed

(* The caller of list_users is told of everyone up to its new cursor.       *)
LEMMA ListStep ==
  ASSUME IInv, ListUsers
  PROVE  IInv'
  <1>1. UNCHANGED <<now, user_profile, user_profile_updated, store, calls, starts>>
    BY DEF ListUsers, backendVars
  <1>2. \A w \in Users : Current(w)' = Current(w)
    BY <1>1 DEF Current, FindByPrincipal
  <1>3. now \in Times /\ cursor \in 0 .. now /\ reported \subseteq Users
    BY DEF IInv, TypeOK
  <1>4. Listed(cursor) \subseteq FromTime(cursor) /\ FromTime(cursor) \subseteq Keys
    BY DEF Listed, FromTime
  <1>5. \A k \in Keys : k = <<k[1], k[2]>> /\ k[1] \in Nat /\ k[2] \in Users /\ k[2] \in Nat
    BY KeyParts
  <1>6. \A k \in FromTime(cursor) :
          /\ user_profile_updated[k[2]] = k[1] /\ k[1] >= cursor /\ k[1] <= now
          /\ user_profile[k] = Current(k[2]) /\ user_profile[k].updated = k[1]
    <2> SUFFICES ASSUME NEW k \in FromTime(cursor)
                 PROVE  /\ user_profile_updated[k[2]] = k[1] /\ k[1] >= cursor /\ k[1] <= now
                        /\ user_profile[k] = Current(k[2]) /\ user_profile[k].updated = k[1]
      OBVIOUS
    <2>1. k \in Keys /\ user_profile[k] # NoProfile /\ k[1] >= cursor
      BY DEF FromTime
    <2>2. user_profile_updated[k[2]] = k[1] /\ user_profile_updated[k[2]] \in 0 .. now
      BY <1>5, <2>1 DEF IInv, TypeOK
    <2>3. user_profile[k] = Current(k[2]) /\ user_profile[k].updated = k[1]
      BY <1>5, <2>1, CurrentIsTheEntry DEF IInv, KeyedByUpdatedTimestamp
    <2> QED BY <1>3, <2>1, <2>2, <2>3 DEF Times
  <1>7. \/ cursor' = cursor
        \/ \E k \in Listed(cursor) : cursor' = k[1]
    BY <1>4, <1>6 DEF ListUsers
  <1>8. cursor' \in 0 .. now
    BY <1>3, <1>4, <1>5, <1>6, <1>7 DEF Times
  <1>9. reported' \subseteq Users
    BY <1>3, <1>4, <1>5 DEF ListUsers, UsersOf, Verified
  <1>10. TypeOK'
    BY <1>1, <1>8, <1>9 DEF IInv, TypeOK, Times
  <1>11. (KeyedByUpdatedTimestamp /\ VerifiedBefore)'
    BY <1>1 DEF IInv, KeyedByUpdatedTimestamp, VerifiedBefore
  <1>12. (VersionIdentifiesContent /\ HidesNews)'
    <2>1. \A b \in Tabs : Owner[b] \in Users
      BY ProfilesAssumption
    <2>2. \A d \in calls : d.tab \in Tabs
      BY DEF IInv, TypeOK, Call
    <2> QED BY <1>1, <1>2, <2>1, <2>2
        DEF IInv, VersionIdentifiesContent, TrueToVersion, HidesNews
  <1>13. ASSUME NEW w \in Users, user_profile_updated[w] \in 1 .. cursor' - 1
         PROVE  w \in reported' <=> Current(w).verified # 0
    <2> DEFINE k == <<user_profile_updated[w], w>>
    <2>1. user_profile_updated[w] \in 0 .. now /\ user_profile_updated[w] \in Times
      BY <1>3, <1>13, ProfilesAssumption DEF IInv, TypeOK, Times
    <2>2. k \in Keys /\ k[2] = w /\ Current(w) = user_profile[k] /\ user_profile[k] # NoProfile
      BY <2>1, CurrentIsTheEntry DEF IInv
    <2>3. \A l \in Listed(cursor) : l[2] = w => l = k
      BY <1>4, <1>5, <1>6
    <2>4. CASE k \in Listed(cursor)
      <3>1. w \in UsersOf(Listed(cursor))
        BY <2>2, <2>4 DEF UsersOf
      <3>2. w \in UsersOf(Verified(Listed(cursor))) <=> Current(w).verified # 0
        BY <2>2, <2>3, <2>4 DEF UsersOf, Verified
      <3> QED BY <3>1, <3>2 DEF ListUsers
    <2>5. CASE k \notin Listed(cursor)
      <3>1. w \notin UsersOf(Listed(cursor)) /\ w \notin UsersOf(Verified(Listed(cursor)))
        BY <2>3, <2>5 DEF UsersOf, Verified
      <3>2. user_profile_updated[w] < cursor
        <4>1. CASE cursor' = cursor
          BY <1>3, <1>13, <2>1, <4>1
        <4>2. ASSUME NEW l \in Listed(cursor), cursor' = l[1], user_profile_updated[w] >= cursor
              PROVE  FALSE
          <5>1. k \in FromTime(cursor)
            BY <2>2, <4>2 DEF FromTime
          <5>2. Before(k, l)
            BY <1>4, <1>5, <1>13, <4>2 DEF Before
          <5>3. cursor \in Nat
            BY <1>3 DEF Times
          <5> QED BY <2>5, <5>1, <5>2, <5>3, ListedWithoutGaps
        <4> QED BY <1>3, <1>7, <2>1, <4>1, <4>2 DEF Times
      <3>3. w \in reported <=> Current(w).verified # 0
        BY <1>3, <2>1, <3>2 DEF IInv, NobodyMissed, Times
      <3> QED BY <3>1, <3>3 DEF ListUsers
    <2> QED BY <2>4, <2>5
  <1>14. NobodyMissed'
    BY <1>1, <1>2, <1>13 DEF NobodyMissed
  <1> QED BY <1>10, <1>11, <1>12, <1>14 DEF IInv

(* Time passes.                                                             *)
LEMMA TickStep ==
  ASSUME IInv, Tick
  PROVE  IInv'
  <1>1. /\ UNCHANGED <<user_profile, user_profile_updated, store, calls, starts, cursor, reported>>
        /\ now' = now + 1 /\ now \in Times /\ now' \in Times
    BY ProfilesAssumption DEF Tick, IInv, TypeOK, Times, listVars
  <1>2. now \in Nat /\ cursor \in 0 .. now
    BY <1>1, ProfilesAssumption DEF IInv, TypeOK, Times
  <1>3. \A w \in Users : Current(w)' = Current(w)
    BY <1>1 DEF Current, FindByPrincipal
  <1>4. TypeOK'
    <2>1. user_profile_updated' \in [Users -> 0 .. now']
      BY <1>1, <1>2 DEF IInv, TypeOK
    <2>2. cursor' \in 0 .. now'
      BY <1>1, <1>2
    <2> QED BY <1>1, <2>1, <2>2 DEF IInv, TypeOK, Times
  <1>5. KeyedByUpdatedTimestamp'
    BY <1>1 DEF IInv, KeyedByUpdatedTimestamp
  <1>6. VerifiedBefore'
    <2>1. \A k \in Keys : user_profile[k].verified \in Nat
      BY DEF IInv, TypeOK, Profile
    <2> QED BY <1>1, <1>2, <2>1 DEF IInv, VerifiedBefore
  <1>7. NobodyMissed'
    BY <1>1, <1>3 DEF IInv, NobodyMissed
  <1>8. (VersionIdentifiesContent /\ HidesNews)'
    <2>1. \A b \in Tabs : Owner[b] \in Users
      BY ProfilesAssumption
    <2>2. \A d \in calls : d.tab \in Tabs
      BY DEF IInv, TypeOK, Call
    <2> QED BY <1>1, <1>3, <2>1, <2>2
        DEF IInv, VersionIdentifiesContent, TrueToVersion, HidesNews
  <1> QED BY <1>4, <1>5, <1>6, <1>7, <1>8 DEF IInv

-----------------------------------------------------------------------------

(* The invariant holds initially.                                           *)
LEMMA InitIInv == Init => IInv
  <1> SUFFICES ASSUME Init PROVE IInv
    OBVIOUS
  <1>1. \A u \in Users : Current(u) = NoProfile /\ user_profile_updated[u] = 0
    BY DEF Init, Current, FindByPrincipal
  <1>2. \A k \in Keys : user_profile[k] = NoProfile /\ k[1] # 0 /\ k[2] \in Users
    BY KeyParts DEF Init, Times
  <1>3. now = 1 /\ now \in Times
    BY ProfilesAssumption DEF Init, Times
  <1>4. TypeOK
    BY <1>1, <1>2, <1>3, DefaultsAreProfiles, ProfilesAssumption DEF Init, TypeOK
  <1>5. KeyedByUpdatedTimestamp
    BY <1>2 DEF KeyedByUpdatedTimestamp
  <1>6. VersionIdentifiesContent /\ HidesNews
    BY DEF Init, VersionIdentifiesContent, TrueToVersion, HidesNews
  <1>7. NobodyMissed
    BY <1>1 DEF NobodyMissed
  <1>8. VerifiedBefore
    BY <1>2, <1>3 DEF VerifiedBefore, NoProfile, FromTimestamp
  <1> QED BY <1>4, <1>5, <1>6, <1>7, <1>8 DEF IInv

(* Every step keeps the invariant.                                          *)
LEMMA NextIInv == IInv /\ [Next]_vars => IInv'
  <1> SUFFICES ASSUME IInv, [Next]_vars PROVE IInv'
    OBVIOUS
  <1>1. CASE UNCHANGED vars
    <2>1. \A w \in Users : Current(w)' = Current(w)
      BY <1>1 DEF Current, FindByPrincipal, vars, backendVars
    <2>2. /\ UNCHANGED <<backendVars, listVars>> /\ calls' = calls /\ store' = store /\ starts' = starts
      BY <1>1 DEF vars
    <2>3. /\ calls \subseteq Call /\ store \in [Tabs -> Profile] /\ starts \in 0 .. MaxStarts
      BY DEF IInv, TypeOK
    <2> QED BY <2>2, <2>3, TabStep
  <1>2. ASSUME NEW c \in calls, Execute(c) PROVE IInv'
    BY <1>2, EndpointKeepsViews, EndpointKeepsMaps DEF IInv
  <1>3. ASSUME NEW c \in calls, Receive(c) PROVE IInv'
    BY <1>3, ReceiveStep
  <1>4. CASE (\E c \in calls : Fail(c)) \/ (\E b \in Tabs : Reload(b))
    BY <1>4, LossStep
  <1>5. ASSUME NEW b \in Tabs,
               LoadUserProfile(b) \/ AddPouhCredential(b) \/ \E d \in Dapps : CloseSlide(b, d)
        PROVE  IInv'
    BY <1>5, StartStep
  <1>6. CASE ListUsers
    BY <1>6, ListStep
  <1>7. CASE Tick
    BY <1>7, TickStep
  <1> QED BY <1>1, <1>2, <1>3, <1>4, <1>5, <1>6, <1>7 DEF Next

(* The inductive invariant holds in every reachable state.                  *)
THEOREM InductiveInvariant == Spec => []IInv
  BY InitIInv, NextIInv, PTL DEF Spec

(* Every reachable state is well typed, and the two maps of the profiles    *)
(* stay consistent: store_new never loses or duplicates an entry.           *)
THEOREM TypeCorrect == Spec => []TypeOK
  <1>1. IInv => TypeOK BY DEF IInv
  <1> QED BY <1>1, InductiveInvariant, PTL

(* Whatever the tabs do and in whatever order their calls are executed and  *)
(* answered, a tab that holds the version of the profile holds its content. *)
THEOREM VersionsAreContents == Spec => []VersionIdentifiesContent
  <1>1. IInv => VersionIdentifiesContent BY DEF IInv
  <1> QED BY <1>1, InductiveInvariant, PTL

(* An entry is always stored under its updated_timestamp.                   *)
THEOREM KeysAreTimestamps == Spec => []KeyedByUpdatedTimestamp
  <1>1. IInv => KeyedByUpdatedTimestamp BY DEF IInv
  <1> QED BY <1>1, InductiveInvariant, PTL

(* list_users tells its caller of every change before the latest time it    *)
(* has reported, for every limit and every number of changes at one time.   *)
THEOREM ListMissesNobody == Spec => []NobodyMissed
  <1>1. IInv => NobodyMissed BY DEF IInv
  <1> QED BY <1>1, InductiveInvariant, PTL

(* Only the endpoints change a profile, and what they store keeps what was  *)
(* there.                                                                   *)
LEMMA StepKeepsProfiles ==
  ASSUME IInv, [Next]_vars, NEW w \in Users, Current(w) # NoProfile
  PROVE  Keeps(Current(w), Current(w)')
  <1>1. Current(w) \in Profile /\ Current(w).verified <= now /\ now \in Nat
    <2>1. Current(w) \in Profile
      BY CurrentIsTheEntry DEF IInv
    <2>2. Current(w).verified <= now
      BY CurrentIsTheEntry DEF IInv, VerifiedBefore
    <2>3. now \in Nat
      BY ProfilesAssumption DEF IInv, TypeOK, Times
    <2> QED BY <2>1, <2>2, <2>3
  <1>2. Keeps(Current(w), Current(w))
    BY <1>1 DEF Keeps, Profile
  <1>3. UNCHANGED <<user_profile, user_profile_updated>> => Current(w)' = Current(w)
    BY DEF Current, FindByPrincipal
  <1>4. ASSUME NEW c \in calls, Execute(c) PROVE Keeps(Current(w), Current(w)')
    <2>1. Owner[c.tab] \in Users /\ now' = now
      BY <1>4, ProfilesAssumption DEF IInv, TypeOK, Call, Execute
    <2>2. ASSUME NEW q, Stores(Owner[c.tab], q) PROVE Keeps(Current(w), Current(w)')
      <3>1. CASE Owner[c.tab] # w
        <4>1. Current(w)' = Current(w)
          BY <2>1, <2>2, <3>1, StoreNewEffect DEF IInv, Stores
        <4> QED BY <1>2, <4>1
      <3>2. CASE Owner[c.tab] = w
        <4>1. Current(w)' = q /\ Succeeds(Current(w), q)
          BY <2>1, <2>2, <3>2, StoreNewEffect DEF IInv, Stores
        <4>2. Current(w).verified \in Nat
          BY <1>1 DEF Profile
        <4> QED BY <1>1, <4>1, <4>2 DEF Succeeds, Keeps
      <3> QED BY <3>1, <3>2
    <2> QED BY <1>2, <1>3, <1>4, <2>2, EndpointEffect DEF IInv
  <1>5. ASSUME ~ \E c \in calls : Execute(c)
        PROVE  UNCHANGED <<user_profile, user_profile_updated>>
    BY <1>5 DEF Next, vars, backendVars, Receive, Fail, Reload, LoadUserProfile, CloseSlide,
                AddPouhCredential, Start, ListUsers, Tick
  <1> QED BY <1>2, <1>3, <1>4, <1>5

(* A profile is never created over another, and neither a credential nor a  *)
(* hidden dApp is ever lost.                                                *)
THEOREM ProfilesAreKept == Spec => NothingLost
  <1>1. IInv /\ [Next]_vars =>
          [\A u \in Users : Current(u) # NoProfile => Keeps(Current(u), Current(u)')]_vars
    BY StepKeepsProfiles
  <1> QED BY <1>1, InductiveInvariant, PTL DEF Spec, NothingLost
=============================================================================
