--------------------------- MODULE Migration_proofs ---------------------------
(***************************************************************************)
(* Proofs about Migration for every set of users, every number of steps in *)
(* flight, every chunk size and every bound.                               *)
(***************************************************************************)
EXTENDS Migration, FiniteSetTheorems, WellFoundedInduction, TLAPS

USE UsersAssumption, OwnersAssumption, BoundsAssumption

-----------------------------------------------------------------------------
(* Maps and keys. *)

(* Every key has a time and a principal. *)
LEMMA KeyParts ==
  ASSUME NEW k \in Keys
  PROVE  /\ k = <<k[1], k[2]>>
         /\ k[1] \in Nat /\ k[1] \in Times
         /\ k[2] \in Nat /\ k[2] \in Users
BY DEF Keys, Times

(* There are finitely many keys, hence every map is finite. *)
LEMMA MapsAreFinite ==
  /\ IsFiniteSet(Keys)
  /\ \A f : IsMap(f) => IsFiniteSet(DOMAIN f) /\ Cardinality(DOMAIN f) \in Nat
<1>1. IsFiniteSet(Times)
  BY FS_Interval DEF Times
<1>2. IsFiniteSet(Keys)
  BY <1>1, FS_Product DEF Keys
<1>3. ASSUME NEW f, IsMap(f)
      PROVE  IsFiniteSet(DOMAIN f) /\ Cardinality(DOMAIN f) \in Nat
  BY <1>2, <1>3, FS_Subset, FS_CardinalityType DEF IsMap
<1> QED
  BY <1>2, <1>3

(* insert and remove of a stable map keep it a map. *)
LEMMA InsertType ==
  ASSUME NEW f, IsMap(f), NEW k \in Keys, NEW v \in Times
  PROVE  IsMap(Insert(f, k, v))
BY DEF IsMap, Insert

(* remove of a stable map keeps it a map.                                  *)
LEMMA RemoveType ==
  ASSUME NEW f, IsMap(f), NEW k
  PROVE  IsMap(Remove(f, k))
BY DEF IsMap, Remove

(* A chunk inserted into a map by bulk_up keeps it a map.                  *)
LEMMA OverwriteType ==
  ASSUME NEW f, IsMap(f), NEW g, IsMap(g)
  PROVE  IsMap(Overwrite(f, g))
BY DEF IsMap, Overwrite

(* The lexicographic order on keys. *)
LEMMA StartIsBefore ==
  ASSUME NEW k \in Keys
  PROVE  Before(Start, k)
BY KeyParts DEF Before, Start

(* Two different keys are ordered one way or the other.                    *)
LEMMA BeforeIsTotal ==
  ASSUME NEW k \in Keys, NEW l \in Keys
  PROVE  Before(k, l) \/ k = l \/ Before(l, k)
BY KeyParts DEF Before

(* The order on keys is transitive.                                        *)
LEMMA BeforeIsTransitive ==
  ASSUME NEW j \in Keys \cup {Start}, NEW k \in Keys, NEW l \in Keys,
         Before(j, k), Before(k, l)
  PROVE  Before(j, l)
<1>1. j[1] \in Int /\ j[2] \in Int
  BY KeyParts DEF Start
<1> QED
  BY <1>1, KeyParts DEF Before

(* No key is before itself.                                                *)
LEMMA BeforeIsIrreflexive ==
  ASSUME NEW k \in Keys
  PROVE  ~Before(k, k)
BY KeyParts DEF Before

(* Every set of keys that is not empty has a first element: strict         *)
(* inclusion of finite sets is well founded, and the sets of predecessors  *)
(* of smaller keys are smaller.                                            *)
LEMMA FirstKey ==
  ASSUME NEW K, K \subseteq Keys, K # {}
  PROVE  \E k \in K : \A l \in K : k = l \/ Before(k, l)
<1> DEFINE Pred(k) == {l \in K : Before(l, k)}
           T == {Pred(k) : k \in K}
<1>1. T \subseteq FiniteSubsetsOf(Keys) /\ T # {}
  <2>1. ASSUME NEW k \in K
        PROVE  Pred(k) \in SUBSET Keys /\ IsFiniteSet(Pred(k))
    <3>1. Pred(k) \in SUBSET Keys
      OBVIOUS
    <3> HIDE DEF Pred
    <3> QED
      BY <3>1, MapsAreFinite, FS_Subset
  <2> HIDE DEF Pred
  <2> QED
    BY <2>1 DEF FiniteSubsetsOf
<1>2. PICK x \in T : \A y \in T : <<y, x>> \notin StrictSubsetOrdering(Keys)
  <2> HIDE DEF T
  <2> QED
    BY <1>1, WFMin, FS_StrictSubsetOrderingWellFounded
<1>3. PICK k \in K : x = Pred(k)
  BY <1>2
<1>4. ASSUME NEW l \in K, Before(l, k)
      PROVE  FALSE
  <2>1. Pred(l) \subseteq Pred(k)
    BY <1>4, BeforeIsTransitive
  <2>2. l \in Pred(k) /\ l \notin Pred(l)
    BY <1>4, BeforeIsIrreflexive
  <2>3. <<Pred(l), Pred(k)>> \in StrictSubsetOrdering(Keys)
    BY <2>1, <2>2 DEF StrictSubsetOrdering
  <2> QED
    BY <2>3, <1>2, <1>3
<1> QED
  BY <1>4, BeforeIsTotal

-----------------------------------------------------------------------------
(* Chunks. *)

(* A chunk is empty only if no key is left, and a key that is not behind   *)
(* the last key of a chunk is in the chunk or was not behind its start.    *)
LEMMA ChunksSkipNothing ==
  ASSUME TypeOK, NEW s \in Stores, NEW last \in Keys \cup {Start},
         NEW k \in DOMAIN db["source"][s]
  PROVE  /\ ChunkKeys(s, last) = {} => ~Before(last, k)
         /\ \A x : IsLast(x, ChunkKeys(s, last)) /\ ~Before(x, k)
               => ~Before(last, k) \/ k \in ChunkKeys(s, last)
<1> DEFINE rest == {l \in DOMAIN db["source"][s] : Before(last, l)}
           Pred(x) == {l \in rest : Before(l, x)}
<1>1. IsMap(db["source"][s]) /\ DOMAIN db["source"][s] \subseteq Keys
  BY DEF TypeOK, Canisters, IsMap
<1>2. ChunkKeys(s, last) = {x \in rest : Cardinality(Pred(x)) < ChunkSize}
  BY DEF ChunkKeys
<1>3. rest \subseteq Keys /\ IsFiniteSet(rest)
  <2>1. rest \in SUBSET Keys
    BY <1>1
  <2> QED
    BY <2>1, MapsAreFinite, FS_Subset
<1>4. ASSUME Before(last, k)
      PROVE  ChunkKeys(s, last) # {}
  <2>1. rest # {}
    BY <1>4
  <2>2. PICK x \in rest : \A l \in rest : x = l \/ Before(x, l)
    <3> HIDE DEF rest
    <3> QED
      BY <2>1, <1>3, FirstKey
  <2>3. Pred(x) = {}
    BY <2>2, <1>3, BeforeIsTransitive, BeforeIsIrreflexive
  <2>4. Cardinality(Pred(x)) = 0
    BY <2>3, FS_EmptySet
  <2> QED
    BY <2>4, <1>2
<1>5. ASSUME NEW x, IsLast(x, ChunkKeys(s, last)), ~Before(x, k), Before(last, k)
      PROVE  k \in ChunkKeys(s, last)
  <2>1. x \in rest /\ Cardinality(Pred(x)) < ChunkSize /\ x \in ChunkKeys(s, last)
    BY <1>5, <1>2 DEF IsLast
  <2>2. k \in rest
    BY <1>5
  <2>3. CASE k = x
    BY <2>3, <2>1
  <2>4. CASE Before(k, x)
    <3>1. Pred(k) \in SUBSET Pred(x)
      BY <2>4, <2>1, <2>2, <1>3, BeforeIsTransitive
    <3>2. IsFiniteSet(Pred(x))
      <4>1. Pred(x) \in SUBSET rest
        OBVIOUS
      <4> HIDE DEF rest, Pred
      <4> QED
        BY <4>1, <1>3, FS_Subset
    <3>3. /\ Cardinality(Pred(k)) <= Cardinality(Pred(x))
          /\ Cardinality(Pred(k)) \in Nat /\ Cardinality(Pred(x)) \in Nat
      <4> HIDE DEF Pred
      <4> QED
        BY <3>1, <3>2, FS_Subset, FS_CardinalityType
    <3> QED
      BY <3>3, <2>1, <2>2, <1>2
  <2> QED
    BY <2>3, <2>4, <1>5, <2>1, <2>2, <1>3, BeforeIsTotal
<1> QED
  BY <1>4, <1>5

(* What a step sends is a map, and its last key is a key. *)
LEMMA ChunkType ==
  ASSUME TypeOK, NEW s \in Stores, NEW last
  PROVE  /\ IsMap(Chunk(s, last))
         /\ DOMAIN Chunk(s, last) = ChunkKeys(s, last)
         /\ ChunkKeys(s, last) \subseteq Keys
<1>1. IsMap(db["source"][s])
  BY DEF TypeOK, Canisters
<1>2. ChunkKeys(s, last) \subseteq DOMAIN db["source"][s]
  BY DEF ChunkKeys
<1> QED
  BY <1>1, <1>2 DEF IsMap, Chunk

(* The counts the source compares with those of the target are naturals.   *)
LEMMA StatsType ==
  ASSUME TypeOK, NEW c \in Canisters
  PROVE  Stats(c) \in [Stores -> Nat]
BY MapsAreFinite DEF TypeOK, Stats

-----------------------------------------------------------------------------
(* Type correctness. *)

(* MigrationProgress::next and the start of a phase are progress values.   *)
LEMMA ProgressType ==
  /\ \A phase \in Phases : At(phase) \in Progress
  /\ \A phase \in Phases \ {"NoMigration"} : NextPhase(phase) \in Phases
  /\ \A phase \in DataPhases : StoreOf(phase) \in Stores
BY DEF At, Progress, Phases, RemotePhases, DataPhases, NextPhase, StoreOf, Stores

(* A step that waits for nothing is a call record.                         *)
LEMMA IdleType == IsCall(Idle) /\ IsMap(NoData)
<1>1. IsMap(NoData)
  BY DEF IsMap, NoData
<1>2. EmptyStats \in [Stores -> Nat]
  BY DEF EmptyStats
<1>3. At("NoMigration") \in Progress
  BY ProgressType DEF Phases
<1> QED
  BY <1>1, <1>2, <1>3 DEF IsCall, Idle, Answers

(* The initial state is of the declared types.                             *)
LEMMA InitType == Init => TypeOK
<1> SUFFICES ASSUME Init PROVE TypeOK
  OBVIOUS
<1>1. \A s \in Stores : IsMap(InitialMaps[s])
  <2>1. 0 \in Times /\ \A u \in DOMAIN ProfileTime : ProfileTime[u] \in Times
    BY DEF Times
  <2>2. IsMap([k \in {0} \X TokenOwners |-> 0]) /\ IsMap([k \in {0} \X CustomOwners |-> 0])
    BY <2>1 DEF IsMap, Keys
  <2>3. IsMap([k \in {0} \X DOMAIN ProfileTime |-> ProfileTime[k[2]]])
    BY <2>1 DEF IsMap, Keys
  <2>4. IsMap([k \in {<<ProfileTime[u], u>> : u \in DOMAIN ProfileTime} |-> 0])
    BY <2>1 DEF IsMap, Keys
  <2>5. /\ InitialMaps["user_token"] = [k \in {0} \X TokenOwners |-> 0]
        /\ InitialMaps["custom_token"] = [k \in {0} \X CustomOwners |-> 0]
        /\ InitialMaps["user_profile_updated"] =
             [k \in {0} \X DOMAIN ProfileTime |-> ProfileTime[k[2]]]
        /\ InitialMaps["user_profile"] =
             [k \in {<<ProfileTime[u], u>> : u \in DOMAIN ProfileTime} |-> 0]
    BY DEF InitialMaps, Stores
  <2> QED
    BY <2>2, <2>3, <2>4, <2>5 DEF Stores
<1>2. DOMAIN InitialMaps = Stores
  BY DEF InitialMaps
<1>3. /\ DOMAIN db = Canisters
      /\ \A c \in Canisters : DOMAIN db[c] = Stores /\ \A s \in Stores : IsMap(db[c][s])
  BY <1>1, <1>2, IdleType DEF Init, Canisters
<1>4. api \in [Canisters -> Guards]
  BY DEF Init, ApiEnabled, Guards
<1>5. migration \in Progress /\ timer \in BOOLEAN
  BY ProgressType DEF Init, Phases
<1>6. DOMAIN call = Steps /\ \A i \in Steps : IsCall(call[i])
  BY IdleType DEF Init
<1>7. requests \in Seq(Steps) /\ clock \in Times /\ upgrades \in 0..MaxUpgrades
  BY DEF Init, Times
<1> QED
  BY <1>3, <1>4, <1>5, <1>6, <1>7 DEF TypeOK

(* store_new keeps the maps of a canister maps. *)
LEMMA StoreNewType ==
  ASSUME NEW m, DOMAIN m = Stores, \A s \in Stores : IsMap(m[s]),
         NEW u \in Users, NEW now \in Times
  PROVE  /\ DOMAIN StoreNew(m, u, now) = Stores
         /\ \A s \in Stores : IsMap(StoreNew(m, u, now)[s])
<1> DEFINE profiles == m["user_profile"]
           cleaned == IF <<0, u>> \in DOMAIN m["user_profile_updated"]
                      THEN Remove(profiles, <<m["user_profile_updated"][<<0, u>>], u>>)
                      ELSE profiles
<1>1. <<0, u>> \in Keys /\ <<now, u>> \in Keys
  BY DEF Keys, Times
<1>2. IsMap(cleaned)
  BY RemoveType DEF Stores
<1>3. IsMap(Insert(m["user_profile_updated"], <<0, u>>, now)) /\ IsMap(Insert(cleaned, <<now, u>>, now))
  <2> HIDE DEF cleaned
  <2> QED
    BY <1>1, <1>2, InsertType DEF Stores
<1>4. StoreNew(m, u, now) =
        [m EXCEPT !["user_profile_updated"] = Insert(@, <<0, u>>, now),
                  !["user_profile"] = Insert(cleaned, <<now, u>>, now)]
  BY DEF StoreNew
<1> QED
  <2> HIDE DEF cleaned
  <2> QED
    BY <1>3, <1>4 DEF Stores

(* A step that has sent a request is a call record.                        *)
LEMMA WaitingType ==
  ASSUME TypeOK, NEW next \in Progress, NEW chunk, IsMap(chunk)
  PROVE  IsCall(Waiting(next, chunk))
BY StatsType DEF TypeOK, IsCall, Waiting, Answers, Canisters

(* An answered call is still a call record.                                *)
LEMMA AnswerType ==
  ASSUME NEW x, IsCall(x), NEW a \in Answers
  PROVE  IsCall([x EXCEPT !.answer = a])
BY DEF IsCall

(* The maps after a step that changes one map of one canister. *)
LEMMA DbType ==
  ASSUME TypeOK, NEW c \in Canisters, NEW s \in Stores, NEW f, IsMap(f),
         db' = [db EXCEPT ![c][s] = f]
  PROVE  /\ DOMAIN db' = Canisters
         /\ \A d \in Canisters : DOMAIN db'[d] = Stores /\ \A t \in Stores : IsMap(db'[d][t])
BY DEF TypeOK

(* Replacing the call of one step keeps the calls well typed.              *)
LEMMA CallType ==
  ASSUME TypeOK, NEW i \in Steps, NEW x, IsCall(x), call' = [call EXCEPT ![i] = x]
  PROVE  DOMAIN call' = Steps /\ \A j \in Steps : IsCall(call'[j])
BY DEF TypeOK

(* set_guards keeps the api configuration well typed.                      *)
LEMMA ApiType ==
  ASSUME TypeOK, NEW c \in Canisters, NEW t \in ApiEnabled, NEW u \in ApiEnabled,
         SetGuards(c, t, u)
  PROVE  api' \in [Canisters -> Guards]
BY DEF TypeOK, SetGuards, Guards

(* An upgrade of the source may change its guards, but not the target.     *)
LEMMA UpgradeSparesTarget ==
  ASSUME TypeOK, PostUpgrade
  PROVE  /\ api' \in [Canisters -> Guards] /\ api'["target"] = api["target"]
         /\ requests = <<>> /\ \A i \in Steps : call[i] = Idle
         /\ migration' = At("NoMigration") /\ timer' = FALSE
         /\ UNCHANGED <<db, call, requests, clock>>
<1>1. PICK guards \in Guards : api' \in {api, [api EXCEPT !["source"] = guards]}
  BY DEF PostUpgrade
<1>2. api' \in [Canisters -> Guards] /\ api'["target"] = api["target"]
  BY <1>1 DEF TypeOK, Canisters
<1> QED
  BY <1>2 DEF PostUpgrade

(* Appending or removing a request keeps the queue well typed.             *)
LEMMA QueueType ==
  ASSUME TypeOK
  PROVE  /\ \A i \in Steps : Append(requests, i) \in Seq(Steps)
         /\ requests # <<>> => Head(requests) \in Steps /\ Tail(requests) \in Seq(Steps)
BY DEF TypeOK

(* Sending a request keeps calls and queue well typed.                     *)
LEMMA SendType ==
  ASSUME TypeOK, NEW i \in Steps, NEW next \in Progress, NEW chunk, IsMap(chunk),
         Send(i, next, chunk)
  PROVE  TypeOK'
<1>1. DOMAIN call' = Steps /\ \A j \in Steps : IsCall(call'[j])
  BY WaitingType, CallType DEF Send
<1> QED
  BY <1>1, QueueType DEF Send, TypeOK

(* Answering the first request keeps calls and queue well typed.           *)
LEMMA AnswerKeepsType ==
  ASSUME TypeOK, NEW i \in Steps, NEW ok, Answer(i, ok)
  PROVE  DOMAIN call' = Steps /\ \A j \in Steps : IsCall(call'[j])
<1>1. call' = [call EXCEPT ![i] = [call[i] EXCEPT !.answer = IF ok THEN "ok" ELSE "error"]]
  BY DEF Answer
<1>2. IsCall([call[i] EXCEPT !.answer = IF ok THEN "ok" ELSE "error"])
  BY AnswerType DEF TypeOK, Answers
<1> QED
  BY <1>1, <1>2, CallType

(* Every step keeps the state of the declared types.                       *)
LEMMA NextType == TypeOK /\ [Next]_vars => TypeOK'
<1> SUFFICES ASSUME TypeOK, [Next]_vars
             PROVE  TypeOK'
  OBVIOUS
<1>1. ASSUME NEW c \in Canisters, NEW s \in Stores, NEW u \in Users, SetTokens(c, s, u)
      PROVE  TypeOK'
  <2>1. clock' \in Times /\ <<0, u>> \in Keys
    BY <1>1 DEF SetTokens, MayWrite, TypeOK, Times, Keys
  <2>2. IsMap(Insert(db[c][s], <<0, u>>, clock'))
    BY <2>1, InsertType DEF TypeOK
  <2>3. db' = [db EXCEPT ![c][s] = Insert(db[c][s], <<0, u>>, clock')]
    BY <1>1 DEF SetTokens
  <2>4. /\ DOMAIN db' = Canisters
        /\ \A d \in Canisters : DOMAIN db'[d] = Stores /\ \A t \in Stores : IsMap(db'[d][t])
    BY <2>2, <2>3, DbType
  <2> QED
    BY <1>1, <2>1, <2>4 DEF SetTokens, TypeOK
<1>2. ASSUME NEW c \in Canisters, NEW u \in Users, StoreProfile(c, u)
      PROVE  TypeOK'
  <2>1. clock' \in Times
    BY <1>2 DEF StoreProfile, MayWrite, TypeOK, Times
  <2>2. /\ DOMAIN StoreNew(db[c], u, clock') = Stores
        /\ \A s \in Stores : IsMap(StoreNew(db[c], u, clock')[s])
    BY <2>1, StoreNewType DEF TypeOK
  <2>3. db' = [db EXCEPT ![c] = StoreNew(db[c], u, clock')]
    BY <1>2 DEF StoreProfile
  <2>4. /\ DOMAIN db' = Canisters
        /\ \A d \in Canisters : DOMAIN db'[d] = Stores /\ \A t \in Stores : IsMap(db'[d][t])
    BY <2>2, <2>3 DEF TypeOK
  <2> QED
    BY <1>2, <2>1, <2>4 DEF StoreProfile, TypeOK
<1>3. ASSUME MigrateUserDataTo PROVE TypeOK'
  BY <1>3, ProgressType DEF MigrateUserDataTo, TypeOK, Phases
<1>4. ASSUME MigrationStopTimer PROVE TypeOK'
  BY <1>4 DEF MigrationStopTimer, TypeOK
<1>5. ASSUME PostUpgrade PROVE TypeOK'
  <2>1. upgrades' \in 0..MaxUpgrades
    BY <1>5 DEF PostUpgrade, TypeOK
  <2>2. migration' \in Progress /\ timer' \in BOOLEAN
    BY <1>5, ProgressType DEF PostUpgrade, Phases
  <2>3. api' \in [Canisters -> Guards] /\ UNCHANGED <<db, call, requests, clock>>
    BY <1>5, UpgradeSparesTarget
  <2> QED
    BY <2>1, <2>2, <2>3 DEF TypeOK
<1>6. ASSUME StepLocally PROVE TypeOK'
  <2>1. ASSUME MakeThisReadonly PROVE TypeOK'
    <3>1. api' \in [Canisters -> Guards]
      BY <2>1, ApiType DEF MakeThisReadonly, Canisters, ApiEnabled
    <3>2. migration' \in Progress
      BY <2>1, ProgressType DEF MakeThisReadonly, Phases
    <3> QED
      BY <1>6, <2>1, <3>1, <3>2 DEF StepLocally, MakeThisReadonly, TypeOK
  <2>2. ASSUME UnlockLocal PROVE TypeOK'
    <3>1. api' \in [Canisters -> Guards]
      BY <2>2, ApiType DEF UnlockLocal, Canisters, ApiEnabled
    <3>2. migration' \in Progress
      BY <2>2, ProgressType DEF UnlockLocal, Phases
    <3> QED
      BY <1>6, <2>2, <3>1, <3>2 DEF StepLocally, UnlockLocal, TypeOK
  <2>3. ASSUME Stop PROVE TypeOK'
    BY <1>6, <2>3 DEF StepLocally, Stop, TypeOK
  <2> QED
    BY <1>6, <2>1, <2>2, <2>3 DEF StepLocally
<1>7. ASSUME NEW i \in Steps, CallTarget(i) PROVE TypeOK'
  <2>1. At(NextPhase(migration.phase)) \in Progress
    BY <1>7, ProgressType DEF CallTarget, RemotePhases, Phases, DataPhases
  <2> QED
    BY <1>7, <2>1, IdleType, SendType DEF CallTarget
<1>8. ASSUME NEW i \in Steps, MigrateChunk(i) PROVE TypeOK'
  <2> DEFINE s == StoreOf(migration.phase)
             chunk == Chunk(s, migration.upto)
  <2>1. s \in Stores
    BY <1>8, ProgressType DEF MigrateChunk
  <2>2. IsMap(chunk) /\ DOMAIN chunk \subseteq Keys
    BY <2>1, ChunkType
  <2>3. At(NextPhase(migration.phase)) \in Progress
    BY <1>8, ProgressType DEF MigrateChunk, RemotePhases, Phases, DataPhases
  <2>4. \A last \in DOMAIN chunk : [migration EXCEPT !.upto = last] \in Progress
    BY <2>2 DEF TypeOK, Progress
  <2> HIDE DEF chunk
  <2>5. \/ Send(i, At(NextPhase(migration.phase)), chunk)
        \/ \E last \in DOMAIN chunk : Send(i, [migration EXCEPT !.upto = last], chunk)
    BY <1>8 DEF MigrateChunk, chunk
  <2> QED
    BY <2>2, <2>3, <2>4, <2>5, SendType
<1>9. ASSUME Deliver PROVE TypeOK'
  <2> DEFINE i == Head(requests)
  <2>1. i \in Steps /\ requests' \in Seq(Steps)
    BY <1>9, QueueType DEF Deliver
  <2>2. ASSUME TargetSetsGuards(i) PROVE TypeOK'
    <3>1. DOMAIN call' = Steps /\ \A j \in Steps : IsCall(call'[j])
      BY <2>1, <2>2, AnswerKeepsType DEF TargetSetsGuards
    <3>2. api' \in [Canisters -> Guards]
      BY <2>2, ApiType DEF TargetSetsGuards, Canisters, ApiEnabled
    <3> QED
      BY <1>9, <2>1, <2>2, <3>1, <3>2 DEF Deliver, TargetSetsGuards, TypeOK
  <2>3. ASSUME TargetReportsStats(i) PROVE TypeOK'
    <3>1. DOMAIN call' = Steps /\ \A j \in Steps : IsCall(call'[j])
      BY <2>1, <2>3, AnswerKeepsType DEF TargetReportsStats
    <3> QED
      BY <1>9, <2>1, <2>3, <3>1 DEF Deliver, TargetReportsStats, TypeOK
  <2>4. ASSUME TargetBulkUp(i) PROVE TypeOK'
    <3>1. DOMAIN call' = Steps /\ \A j \in Steps : IsCall(call'[j])
      BY <2>1, <2>4, AnswerKeepsType DEF TargetBulkUp
    <3>2. StoreOf(call[i].from.phase) \in Stores /\ "target" \in Canisters
      BY <2>4, ProgressType DEF TargetBulkUp, Canisters
    <3>3. IsMap(Overwrite(db["target"][StoreOf(call[i].from.phase)], call[i].chunk))
      BY <3>2, <2>1, OverwriteType DEF TypeOK, IsCall
    <3>4. db' = [db EXCEPT !["target"][StoreOf(call[i].from.phase)] =
                   Overwrite(db["target"][StoreOf(call[i].from.phase)], call[i].chunk)]
      BY <2>4 DEF TargetBulkUp
    <3>5. /\ DOMAIN db' = Canisters
          /\ \A d \in Canisters : DOMAIN db'[d] = Stores /\ \A t \in Stores : IsMap(db'[d][t])
      <4> HIDE DEF i
      <4> QED
        BY <3>2, <3>3, <3>4, DbType
    <3> QED
      BY <1>9, <2>1, <2>4, <3>1, <3>5 DEF Deliver, TargetBulkUp, TypeOK
  <2> QED
    BY <1>9, <2>2, <2>3, <2>4 DEF Deliver
<1>10. ASSUME Reject PROVE TypeOK'
  <2>1. DOMAIN call' = Steps /\ \A j \in Steps : IsCall(call'[j])
    BY <1>10, QueueType, AnswerKeepsType DEF Reject
  <2> QED
    BY <1>10, <2>1, QueueType DEF Reject, TypeOK
<1>11. ASSUME NEW i \in Steps, Return(i) PROVE TypeOK'
  <2>1. DOMAIN call' = Steps /\ \A j \in Steps : IsCall(call'[j])
    BY <1>11, IdleType, CallType DEF Return
  <2>2. migration' \in Progress
    BY <1>11, ProgressType DEF Return, SetProgress, TypeOK, IsCall, Phases
  <2>3. timer' \in BOOLEAN
    BY <1>11 DEF Return, TypeOK
  <2> QED
    BY <1>11, <2>1, <2>2, <2>3 DEF Return, TypeOK
<1>12. CASE UNCHANGED vars
  BY <1>12 DEF vars, TypeOK, IsCall, IsMap
<1>13. ASSUME UserNext PROVE TypeOK'
  BY <1>1, <1>2, <1>13 DEF UserNext, Stores
<1>14. ASSUME MigrationNext PROVE TypeOK'
  BY <1>6, <1>7, <1>8, <1>9, <1>11, <1>14 DEF MigrationNext, StepMigration
<1> QED
  BY <1>3, <1>4, <1>5, <1>10, <1>12, <1>13, <1>14 DEF Next

(* Every reachable state is of the declared types. *)
THEOREM TypeCorrect == Spec => []TypeOK
<1> QED
  BY InitType, NextType, PTL DEF Spec

-----------------------------------------------------------------------------
(* Once a user has an entry in a map of the target it keeps one: users     *)
(* replace entries, store_new moves a profile, bulk_up adds and replaces.  *)

(* insert adds the user of its key to the users of the map.                *)
LEMMA HoldersOfInsert ==
  ASSUME NEW f, NEW k, NEW v
  PROVE  DOMAIN f \subseteq DOMAIN Insert(f, k, v) /\ k \in DOMAIN Insert(f, k, v)
BY DEF Insert

(* Storing tokens takes no user away from a map.                           *)
LEMMA SetTokensGrows ==
  ASSUME TypeOK, NEW c \in Canisters, NEW t \in Stores, NEW u \in Users, SetTokens(c, t, u)
  PROVE  /\ c = "target" => db'["source"] = db["source"]
         /\ \A s \in Stores : Holders("target", s) \subseteq Holders("target", s)'
<1>1. db' = [db EXCEPT ![c][t] = Insert(db[c][t], <<0, u>>, clock')]
  BY DEF SetTokens
<1>2. \A s \in Stores : DOMAIN db["target"][s] \subseteq DOMAIN db'["target"][s]
  BY <1>1, HoldersOfInsert DEF TypeOK, Canisters
<1> QED
  BY <1>1, <1>2 DEF TypeOK, Canisters, Holders

(* store_new moves a profile to a new time and keeps its user.             *)
LEMMA StoreNewKeepsHolders ==
  ASSUME NEW m, DOMAIN m = Stores, NEW u \in Users, NEW now, NEW s \in Stores,
         NEW k \in DOMAIN m[s]
  PROVE  \E l \in DOMAIN StoreNew(m, u, now)[s] : l[2] = k[2]
<1> DEFINE profiles == m["user_profile"]
           cleaned == IF <<0, u>> \in DOMAIN m["user_profile_updated"]
                      THEN Remove(profiles, <<m["user_profile_updated"][<<0, u>>], u>>)
                      ELSE profiles
<1>1. StoreNew(m, u, now) =
        [m EXCEPT !["user_profile_updated"] = Insert(@, <<0, u>>, now),
                  !["user_profile"] = Insert(cleaned, <<now, u>>, now)]
  BY DEF StoreNew
<1>2. CASE s = "user_profile"
  <2>1. StoreNew(m, u, now)[s] = Insert(cleaned, <<now, u>>, now)
    <3> HIDE DEF cleaned
    <3> QED
      BY <1>1, <1>2
  <2>2. k \in DOMAIN cleaned \/ k = <<m["user_profile_updated"][<<0, u>>], u>>
    BY <1>2 DEF Remove
  <2>3. CASE k \in DOMAIN cleaned
    BY <2>1, <2>3, HoldersOfInsert
  <2>4. CASE k = <<m["user_profile_updated"][<<0, u>>], u>>
    <3>1. <<now, u>> \in DOMAIN StoreNew(m, u, now)[s]
      BY <2>1, HoldersOfInsert
    <3> QED
      BY <2>4, <3>1
  <2> QED
    BY <2>2, <2>3, <2>4
<1>3. CASE s = "user_profile_updated"
  <2>1. StoreNew(m, u, now)[s] = Insert(m[s], <<0, u>>, now)
    <3> HIDE DEF cleaned
    <3> QED
      BY <1>1, <1>3
  <2> QED
    BY <2>1, HoldersOfInsert
<1>4. CASE s \notin {"user_profile", "user_profile_updated"}
  <2>1. StoreNew(m, u, now)[s] = m[s]
    <3> HIDE DEF cleaned
    <3> QED
      BY <1>1, <1>4
  <2> QED
    BY <2>1
<1> QED
  BY <1>2, <1>3, <1>4

(* Storing a profile takes no user away from a map.                        *)
LEMMA StoreProfileGrows ==
  ASSUME TypeOK, NEW c \in Canisters, NEW u \in Users, StoreProfile(c, u)
  PROVE  /\ c = "target" => db'["source"] = db["source"]
         /\ \A s \in Stores : Holders("target", s) \subseteq Holders("target", s)'
<1>1. db' = [db EXCEPT ![c] = StoreNew(db[c], u, clock')]
  BY DEF StoreProfile
<1>2. CASE c = "source"
  BY <1>1, <1>2 DEF TypeOK, Canisters, Holders
<1>3. CASE c = "target"
  <2>1. db'["target"] = StoreNew(db["target"], u, clock') /\ db'["source"] = db["source"]
    BY <1>1, <1>3 DEF TypeOK, Canisters
  <2>2. ASSUME NEW s \in Stores, NEW k \in DOMAIN db["target"][s]
        PROVE  \E l \in DOMAIN db'["target"][s] : l[2] = k[2]
    <3>1. DOMAIN db["target"] = Stores
      BY DEF TypeOK, Canisters
    <3>2. \E l \in DOMAIN StoreNew(db["target"], u, clock')[s] : l[2] = k[2]
      BY <2>2, <3>1, StoreNewKeepsHolders
    <3> QED
      BY <2>1, <3>2
  <2> QED
    BY <2>1, <2>2 DEF Holders
<1> QED
  BY <1>2, <1>3 DEF Canisters

(* bulk_up adds the users of its chunk and takes none away.                *)
LEMMA BulkUpGrows ==
  ASSUME TypeOK, NEW i \in Steps, TargetBulkUp(i)
  PROVE  /\ db'["source"] = db["source"]
         /\ \A s \in Stores : Holders("target", s) \subseteq Holders("target", s)'
         /\ \A s \in Stores : s = StoreOf(call[i].from.phase) =>
              \A k \in DOMAIN call[i].chunk : k[2] \in Holders("target", s)'
<1> DEFINE t == StoreOf(call[i].from.phase)
<1>1. t \in Stores
  BY ProgressType DEF TargetBulkUp
<1>2. db' = [db EXCEPT !["target"][t] = Overwrite(db["target"][t], call[i].chunk)]
  BY DEF TargetBulkUp
<1>3. /\ db'["source"] = db["source"]
      /\ db'["target"][t] = Overwrite(db["target"][t], call[i].chunk)
      /\ \A s \in Stores \ {t} : db'["target"][s] = db["target"][s]
  <2> HIDE DEF t
  <2> QED
    BY <1>1, <1>2 DEF TypeOK, Canisters
<1>4. DOMAIN db'["target"][t] = DOMAIN db["target"][t] \cup DOMAIN call[i].chunk
  BY <1>3 DEF Overwrite
<1>5. ASSUME NEW s \in Stores
      PROVE  /\ Holders("target", s) \subseteq Holders("target", s)'
             /\ s = t => \A k \in DOMAIN call[i].chunk : k[2] \in Holders("target", s)'
  <2> HIDE DEF t
  <2> QED
    BY <1>3, <1>4 DEF Holders
<1> QED
  BY <1>3, <1>5

-----------------------------------------------------------------------------
(* What a progress claims. *)

(* Before the data phases, and after a failure, nothing is claimed. *)
LEMMA NothingReached ==
  ASSUME NEW p, p.phase \in {"NoMigration", "Pending", "LockingTarget", "CheckingTarget", "Failed"},
         NEW s, NEW k
  PROVE  ~Reached(p, s, k)
BY DEF Reached, Done, DataPhases

(* Entering the next phase claims nothing new, except that the store of a  *)
(* data phase is claimed as a whole when that phase ends.                  *)
LEMMA NextPhaseClaims ==
  ASSUME NEW p, p.phase \in Phases \ {"NoMigration"}, NEW s \in Stores, NEW k \in Keys,
         Reached(At(NextPhase(p.phase)), s, k)
  PROVE  Reached(p, s, k) \/ (p.phase \in DataPhases /\ s = StoreOf(p.phase))
<1>1. Before(Start, k)
  BY StartIsBefore
<1>2. s \in Done(NextPhase(p.phase))
  BY <1>1 DEF Reached, At
<1>3. CASE p.phase \in DataPhases
  <2>1. CASE p.phase = "MigratedUserTokensUpTo"
    BY <1>2, <2>1 DEF Done, NextPhase, StoreOf, DataPhases
  <2>2. CASE p.phase = "MigratedCustomTokensUpTo"
    BY <1>2, <2>2 DEF Reached, Done, NextPhase, StoreOf, DataPhases
  <2>3. CASE p.phase = "MigratedUserTimestampsUpTo"
    BY <1>2, <2>3 DEF Reached, Done, NextPhase, StoreOf, DataPhases
  <2>4. CASE p.phase = "MigratedUserProfilesUpTo"
    BY <1>2, <2>4 DEF Reached, Done, NextPhase, StoreOf, DataPhases, Stores
  <2> QED
    BY <1>3, <2>1, <2>2, <2>3, <2>4 DEF DataPhases
<1>4. CASE p.phase \notin DataPhases
  BY <1>2, <1>4 DEF Reached, Done, NextPhase, DataPhases, Phases, RemotePhases
<1> QED
  BY <1>3, <1>4

-----------------------------------------------------------------------------
(* The inductive invariant. *)

(* The inductive invariant holds initially.                                *)
LEMMA InitIInv == Init => IInv
<1> SUFFICES ASSUME Init PROVE IInv
  OBVIOUS
<1>1. TypeOK
  BY InitType
<1>2. SourceFrozen
  BY DEF Init, SourceFrozen, Phase, At, Idle
<1>3. ProgressCovered
  BY NothingReached DEF Init, ProgressCovered, At
<1>4. CallsCovered
  BY NothingReached DEF Init, CallsCovered, At, Idle
<1> QED
  BY <1>1, <1>2, <1>3, <1>4 DEF IInv

(* A step of the environment that leaves the progress, the calls and the   *)
(* source alone and takes no user away from the target.                    *)
LEMMA GrowingKeepsCovered ==
  ASSUME IInv, db'["source"] = db["source"],
         \A s \in Stores : Holders("target", s) \subseteq Holders("target", s)',
         UNCHANGED <<migration, call>>
  PROVE  ProgressCovered' /\ CallsCovered'
<1>1. \A s \in Stores : \A k : Reached(migration, s, k)' = Reached(migration, s, k)
  BY DEF Reached
<1>2. \A i \in Steps : \A s \in Stores : \A k :
        /\ Reached(call[i].next, s, k)' = Reached(call[i].next, s, k)
        /\ Carried(i, s, k)' = Carried(i, s, k)
  BY DEF Reached, Carried
<1>3. ProgressCovered'
  BY <1>1 DEF IInv, ProgressCovered
<1>4. CallsCovered'
  BY <1>2 DEF IInv, CallsCovered
<1> QED
  BY <1>3, <1>4

(* As long as users can write on the source, nothing is claimed. *)
LEMMA NothingReachedBeforeFreeze ==
  ASSUME IInv, Writable("source"), NEW s, NEW k
  PROVE  /\ ~Reached(migration, s, k)
         /\ \A i \in Steps : ~Reached(call[i].next, s, k)
BY NothingReached DEF IInv, SourceFrozen, Phase

(* A write of a user keeps the inductive invariant: the source is written  *)
(* to only while nothing is claimed, the target only gains users.          *)
LEMMA UserStep ==
  ASSUME IInv, UserNext
  PROVE  IInv'
<1>1. UNCHANGED <<api, migration, call, requests>>
  BY DEF UserNext, SetTokens, StoreProfile
<1>2. PICK c \in Canisters :
        /\ Writable(c)
        /\ c = "target" => db'["source"] = db["source"]
        /\ \A s \in Stores : Holders("target", s) \subseteq Holders("target", s)'
  <2>1. PICK c \in Canisters, u \in Users :
          (\E s \in {"user_token", "custom_token"} : SetTokens(c, s, u)) \/ StoreProfile(c, u)
    BY DEF UserNext
  <2>2. CASE \E s \in {"user_token", "custom_token"} : SetTokens(c, s, u)
    <3>1. PICK s \in Stores : SetTokens(c, s, u)
      BY <2>2 DEF Stores
    <3>2. Writable(c)
      BY <3>1 DEF SetTokens, MayWrite
    <3> QED
      BY <3>1, <3>2, SetTokensGrows DEF IInv
  <2>3. CASE StoreProfile(c, u)
    <3>1. Writable(c)
      BY <2>3 DEF StoreProfile, MayWrite
    <3> QED
      BY <2>3, <3>1, StoreProfileGrows DEF IInv
  <2> QED
    BY <2>1, <2>2, <2>3
<1>3. TypeOK'
  BY NextType DEF IInv, Next
<1>4. SourceFrozen'
  BY <1>1 DEF IInv, SourceFrozen, Writable, Phase
<1>5. ProgressCovered' /\ CallsCovered'
  <2>1. CASE c = "target"
    BY <1>1, <1>2, <2>1, GrowingKeepsCovered
  <2>2. CASE c = "source"
    <3>1. Writable("source")
      BY <1>2, <2>2
    <3>2. \A s, k : ~Reached(migration, s, k) /\ \A i \in Steps : ~Reached(call[i].next, s, k)
      BY <3>1, NothingReachedBeforeFreeze
    <3>3. \A s, k : ~Reached(migration', s, k) /\ \A i \in Steps : ~Reached(call'[i].next, s, k)
      BY <1>1, <3>2
    <3> QED
      BY <3>3 DEF ProgressCovered, CallsCovered
  <2> QED
    BY <2>1, <2>2 DEF Canisters
<1> QED
  BY <1>3, <1>4, <1>5 DEF IInv

(* The local phases claim nothing new. *)
LEMMA LocalStep ==
  ASSUME IInv, StepLocally
  PROVE  IInv'
<1>1. UNCHANGED <<db, call, requests>>
  BY DEF StepLocally
<1>2. TypeOK'
  BY NextType DEF IInv, Next, MigrationNext
<1>3. SourceFrozen'
  <2>1. CASE MakeThisReadonly
    BY <2>1 DEF IInv, TypeOK, Canisters, MakeThisReadonly, SetGuards, SourceFrozen, Writable
  <2>2. CASE UnlockLocal
    BY <2>2 DEF IInv, TypeOK, Canisters, UnlockLocal, SetGuards, SourceFrozen, Writable
  <2>3. CASE Stop
    BY <1>1, <2>3 DEF IInv, Stop, SourceFrozen, Writable, Phase
  <2> QED
    BY <2>1, <2>2, <2>3 DEF StepLocally
<1>4. CallsCovered'
  BY <1>1 DEF IInv, CallsCovered, Reached, Carried, Holders
<1>5. ASSUME NEW s \in Stores, NEW k \in DOMAIN db["source"][s], Reached(migration', s, k)
      PROVE  Reached(migration, s, k)
  <2>1. CASE MakeThisReadonly
    BY <1>5, <2>1, NothingReached DEF MakeThisReadonly, At, NextPhase
  <2>2. CASE UnlockLocal
    BY <1>5, <2>2 DEF UnlockLocal, At, NextPhase, Reached, Done, DataPhases
  <2>3. CASE Stop
    BY <1>5, <2>3 DEF Stop
  <2> QED
    BY <2>1, <2>2, <2>3 DEF StepLocally
<1>6. ProgressCovered'
  BY <1>1, <1>5 DEF IInv, ProgressCovered, Holders
<1> QED
  BY <1>2, <1>3, <1>4, <1>6 DEF IInv

(* A step that sends a call will claim what is claimed already, or what    *)
(* its chunk carries.                                                      *)
LEMMA SendStep ==
  ASSUME IInv, NEW i \in Steps, NEW next, NEW chunk, Send(i, next, chunk),
         migration.phase \in RemotePhases,
         \A s \in Stores : \A k \in DOMAIN db["source"][s] : Reached(next, s, k) =>
           \/ Reached(migration, s, k)
           \/ /\ migration.phase \in DataPhases
              /\ s = StoreOf(migration.phase)
              /\ k \in DOMAIN chunk
  PROVE  SourceFrozen' /\ ProgressCovered' /\ CallsCovered'
<1>1. UNCHANGED <<api, db, migration>>
  BY DEF Send
<1>2. SourceFrozen'
  BY <1>1 DEF IInv, SourceFrozen, Writable, Phase, RemotePhases, DataPhases
<1>3. ProgressCovered'
  BY <1>1 DEF IInv, ProgressCovered, Holders
<1>4. ASSUME NEW j \in Steps, NEW s \in Stores, NEW k \in DOMAIN db["source"][s],
             Reached(call'[j].next, s, k)
      PROVE  k[2] \in Holders("target", s) \/ Carried(j, s, k)'
  <2>1. CASE j = i
    <3>1. call'[i] = Waiting(next, chunk)
      BY DEF Send, IInv, TypeOK
    <3>2. Reached(next, s, k)
      BY <1>4, <2>1, <3>1 DEF Waiting
    <3>3. CASE Reached(migration, s, k)
      BY <3>3 DEF IInv, ProgressCovered
    <3>4. CASE /\ migration.phase \in DataPhases
               /\ s = StoreOf(migration.phase)
               /\ k \in DOMAIN chunk
      BY <2>1, <3>1, <3>4 DEF Carried, Waiting
    <3> QED
      BY <3>2, <3>3, <3>4
  <2>2. CASE j # i
    <3>1. call'[j] = call[j]
      BY <2>2 DEF Send, IInv, TypeOK
    <3> QED
      BY <1>4, <3>1 DEF IInv, CallsCovered, Carried
  <2> QED
    BY <2>1, <2>2
<1>5. CallsCovered'
  BY <1>1, <1>4 DEF CallsCovered, Holders
<1> QED
  BY <1>2, <1>3, <1>5

(* A step that calls the target without a chunk keeps the invariant.       *)
LEMMA CallTargetStep ==
  ASSUME IInv, NEW i \in Steps, CallTarget(i)
  PROVE  IInv'
<1>1. TypeOK'
  BY NextType DEF IInv, Next, MigrationNext, StepMigration
<1>2. migration.phase \in RemotePhases \ DataPhases /\ Send(i, At(NextPhase(migration.phase)), NoData)
  BY DEF CallTarget
<1>3. migration.phase \in Phases \ {"NoMigration"}
  BY <1>2 DEF Phases, RemotePhases, DataPhases
<1>4. ASSUME NEW s \in Stores, NEW k \in DOMAIN db["source"][s],
             Reached(At(NextPhase(migration.phase)), s, k)
      PROVE  Reached(migration, s, k)
  <2>1. k \in Keys
    BY DEF IInv, TypeOK, Canisters, IsMap
  <2> QED
    BY <2>1, <1>2, <1>3, <1>4, NextPhaseClaims
<1> QED
  BY <1>1, <1>2, <1>4, SendStep DEF IInv

(* A step that sends a chunk keeps the invariant: what it will claim is    *)
(* claimed already, carried by the chunk, or no key of the source.         *)
LEMMA MigrateChunkStep ==
  ASSUME IInv, NEW i \in Steps, MigrateChunk(i)
  PROVE  IInv'
<1> DEFINE t == StoreOf(migration.phase)
           chunk == Chunk(t, migration.upto)
<1>1. TypeOK'
  BY NextType DEF IInv, Next, MigrationNext, StepMigration
<1>2. migration.phase \in DataPhases /\ t \in Stores
  BY ProgressType DEF MigrateChunk
<1>3. migration.upto \in Keys \cup {Start}
  BY DEF IInv, TypeOK, Progress
<1>4. DOMAIN chunk = ChunkKeys(t, migration.upto)
  BY <1>2, ChunkType DEF IInv
<1>5. CASE DOMAIN chunk = {} /\ Send(i, At(NextPhase(migration.phase)), chunk)
  <2>1. ASSUME NEW s \in Stores, NEW k \in DOMAIN db["source"][s],
               Reached(At(NextPhase(migration.phase)), s, k)
        PROVE  Reached(migration, s, k)
    <3>1. k \in Keys /\ migration.phase \in Phases \ {"NoMigration"}
      BY <1>2 DEF IInv, TypeOK, Canisters, IsMap, Phases, RemotePhases, DataPhases
    <3>2. CASE s = t
      <4>1. ~Before(migration.upto, k)
        BY <3>2, <1>2, <1>3, <1>4, <1>5, ChunksSkipNothing DEF IInv
      <4> QED
        BY <4>1, <3>2, <1>2 DEF Reached
    <3>3. CASE s # t
      BY <3>1, <3>3, <2>1, NextPhaseClaims
    <3> QED
      BY <3>2, <3>3
  <2> HIDE DEF chunk
  <2> QED
    BY <1>1, <1>2, <1>5, <2>1, SendStep DEF IInv, RemotePhases
<1>6. ASSUME NEW last \in DOMAIN chunk, IsLast(last, DOMAIN chunk),
             Send(i, [migration EXCEPT !.upto = last], chunk)
      PROVE  IInv'
  <2> DEFINE next == [migration EXCEPT !.upto = last]
  <2>1. next.phase = migration.phase /\ next.upto = last
    BY DEF IInv, TypeOK, Progress
  <2>2. ASSUME NEW s \in Stores, NEW k \in DOMAIN db["source"][s], Reached(next, s, k)
        PROVE  Reached(migration, s, k) \/ (s = t /\ k \in DOMAIN chunk)
    <3>1. CASE s \in Done(migration.phase)
      BY <3>1 DEF Reached
    <3>2. CASE s = t /\ ~Before(last, k)
      <4>1. ~Before(migration.upto, k) \/ k \in ChunkKeys(t, migration.upto)
        BY <3>2, <1>2, <1>3, <1>4, <1>6, ChunksSkipNothing DEF IInv
      <4> QED
        BY <4>1, <3>2, <1>2, <1>4 DEF Reached
    <3> QED
      BY <2>1, <2>2, <3>1, <3>2 DEF Reached
  <2> HIDE DEF chunk, next
  <2>3. Send(i, next, chunk)
    BY <1>6 DEF next
  <2> QED
    BY <1>1, <1>2, <2>2, <2>3, SendStep DEF IInv, RemotePhases
<1> QED
  BY <1>5, <1>6 DEF MigrateChunk

(* An answer leaves the claims of every call as they are. *)
LEMMA AnswerEffect ==
  ASSUME TypeOK, NEW i \in Steps, NEW ok, Answer(i, ok), NEW j \in Steps
  PROVE  /\ call'[j].next = call[j].next
         /\ call'[j].from = call[j].from
         /\ call'[j].chunk = call[j].chunk
         /\ j # i => call'[j] = call[j]
         /\ j = i => call'[j].answer = IF ok THEN "ok" ELSE "error"
<1>1. call[i] = [from |-> call[i].from, next |-> call[i].next, chunk |-> call[i].chunk,
                 stats |-> call[i].stats, answer |-> call[i].answer]
  BY DEF TypeOK, IsCall
<1>2. call' = [call EXCEPT ![i] = [call[i] EXCEPT !.answer = IF ok THEN "ok" ELSE "error"]]
  BY DEF Answer
<1> QED
  BY <1>1, <1>2 DEF TypeOK

(* While the queue is not empty, users cannot write on the source. *)
LEMMA FrozenWhileCalling ==
  ASSUME IInv, requests # <<>>, api'["source"] = api["source"]
  PROVE  SourceFrozen'
BY DEF IInv, SourceFrozen, Writable

(* The delivery of a request keeps the invariant: the entries of a chunk   *)
(* are on the target before its call is answered.                          *)
LEMMA DeliverStep ==
  ASSUME IInv, Deliver
  PROVE  IInv'
<1> DEFINE i == Head(requests)
<1>1. TypeOK' /\ i \in Steps
  BY NextType, QueueType DEF IInv, Next, MigrationNext, Deliver
<1>2. migration' = migration
  BY DEF Deliver
<1>3. SourceFrozen'
  <2>1. api'["source"] = api["source"]
    BY DEF Deliver, TargetSetsGuards, TargetReportsStats, TargetBulkUp, SetGuards,
           IInv, TypeOK, Canisters
  <2> QED
    BY <2>1, FrozenWhileCalling DEF Deliver
<1>4. PICK ok : Answer(i, ok)
  BY DEF Deliver, TargetSetsGuards, TargetReportsStats, TargetBulkUp
<1> HIDE DEF i
<1>5. /\ db'["source"] = db["source"]
      /\ \A s \in Stores : Holders("target", s) \subseteq Holders("target", s)'
      /\ \A s \in Stores : \A k \in DOMAIN call[i].chunk :
           /\ call[i].from.phase \in DataPhases
           /\ s = StoreOf(call[i].from.phase)
           => k[2] \in Holders("target", s)'
  <2>1. CASE TargetBulkUp(i)
    BY <1>1, <2>1, BulkUpGrows DEF IInv
  <2>2. CASE TargetSetsGuards(i) \/ TargetReportsStats(i)
    <3>1. db' = db /\ call[i].from.phase \notin DataPhases
      BY <2>2 DEF TargetSetsGuards, TargetReportsStats, DataPhases
    <3> QED
      BY <3>1 DEF Holders
  <2> QED
    BY <2>1, <2>2 DEF Deliver, i
<1>6. ProgressCovered'
  BY <1>2, <1>5 DEF IInv, ProgressCovered
<1>7. CallsCovered'
  <2>1. ASSUME NEW j \in Steps, NEW s \in Stores, NEW k \in DOMAIN db'["source"][s],
               Reached(call'[j].next, s, k)
        PROVE  k[2] \in Holders("target", s)' \/ Carried(j, s, k)'
    <3>1. /\ call'[j].next = call[j].next
          /\ call'[j].from = call[j].from
          /\ call'[j].chunk = call[j].chunk
          /\ j # i => call'[j] = call[j]
      BY <1>1, <1>4, AnswerEffect DEF IInv
    <3>2. k[2] \in Holders("target", s) \/ Carried(j, s, k)
      BY <2>1, <3>1, <1>5 DEF IInv, CallsCovered
    <3>3. CASE k[2] \in Holders("target", s)
      BY <3>3, <1>5
    <3>4. CASE Carried(j, s, k) /\ j # i
      BY <3>4, <3>1 DEF Carried
    <3>5. CASE Carried(j, s, k) /\ j = i
      BY <3>5, <1>5 DEF Carried
    <3> QED
      BY <3>2, <3>3, <3>4, <3>5
  <2> QED
    BY <2>1 DEF CallsCovered
<1> QED
  BY <1>1, <1>3, <1>6, <1>7 DEF IInv

(* A rejected request keeps the invariant: it makes no claim true.         *)
LEMMA RejectStep ==
  ASSUME IInv, Reject
  PROVE  IInv'
<1> DEFINE i == Head(requests)
<1>1. TypeOK' /\ i \in Steps
  BY NextType, QueueType DEF IInv, Next, Reject
<1>2. UNCHANGED <<api, db, migration>> /\ Answer(i, FALSE)
  BY DEF Reject
<1>3. SourceFrozen'
  BY <1>2, FrozenWhileCalling DEF Reject
<1> HIDE DEF i
<1>4. ProgressCovered'
  BY <1>2 DEF IInv, ProgressCovered, Holders
<1>5. ASSUME NEW j \in Steps, NEW s \in Stores, NEW k \in DOMAIN db["source"][s],
             Reached(call'[j].next, s, k)
      PROVE  k[2] \in Holders("target", s) \/ Carried(j, s, k)'
  <2>1. /\ call'[j].next = call[j].next
        /\ call'[j].from = call[j].from
        /\ call'[j].chunk = call[j].chunk
        /\ j # i => call'[j] = call[j]
        /\ j = i => call'[j].answer = "error"
    <3>1. TypeOK
      BY DEF IInv
    <3>2. call' = [call EXCEPT ![i] = [call[i] EXCEPT !.answer = "error"]]
      BY <1>2 DEF Answer
    <3>3. call[i] = [from |-> call[i].from, next |-> call[i].next, chunk |-> call[i].chunk,
                     stats |-> call[i].stats, answer |-> call[i].answer]
      BY <1>1, <3>1 DEF TypeOK, IsCall
    <3> QED BY <1>1, <3>1, <3>2, <3>3 DEF TypeOK
  <2>2. k[2] \in Holders("target", s) \/ Carried(j, s, k)
    BY <1>5, <2>1 DEF IInv, CallsCovered
  <2> QED
    BY <2>1, <2>2 DEF Carried
<1>6. CallsCovered'
  BY <1>2, <1>5 DEF CallsCovered, Holders
<1> QED
  BY <1>1, <1>3, <1>4, <1>6 DEF IInv

(* A step that returns keeps the invariant, whatever the progress has      *)
(* become since it was sent: what it claims was carried and has been       *)
(* delivered.                                                              *)
LEMMA ReturnStep ==
  ASSUME IInv, NEW i \in Steps, Return(i)
  PROVE  IInv'
<1>1. TypeOK'
  BY NextType DEF IInv, Next, MigrationNext
<1>2. UNCHANGED <<api, db, requests>> /\ call' = [call EXCEPT ![i] = Idle]
  BY DEF Return
<1>3. SourceFrozen'
  <2>1. ~Writable("source")
    BY DEF IInv, SourceFrozen, Return
  <2> QED
    BY <1>2, <2>1 DEF SourceFrozen, Writable
<1>4. ProgressCovered'
  <2>1. CASE migration' = migration
    BY <1>2, <2>1 DEF IInv, ProgressCovered, Holders
  <2>2. CASE migration' = At("Failed")
    BY <2>2, NothingReached DEF ProgressCovered, At
  <2>3. CASE call[i].answer = "ok" /\ migration' = call[i].next
    BY <1>2, <2>3 DEF IInv, ProgressCovered, CallsCovered, Carried, Holders
  <2> QED
    BY <2>1, <2>2, <2>3 DEF Return, SetProgress
<1>5. ASSUME NEW j \in Steps, NEW s \in Stores, NEW k \in DOMAIN db["source"][s],
             Reached(call'[j].next, s, k)
      PROVE  k[2] \in Holders("target", s) \/ Carried(j, s, k)'
  <2>1. CASE j = i
    BY <1>2, <1>5, <2>1, NothingReached DEF Idle, At, IInv, TypeOK
  <2>2. CASE j # i
    <3>1. call'[j] = call[j]
      BY <1>2, <2>2 DEF IInv, TypeOK
    <3> QED
      BY <1>5, <3>1 DEF IInv, CallsCovered, Carried
  <2> QED
    BY <2>1, <2>2
<1>6. CallsCovered'
  BY <1>2, <1>5 DEF CallsCovered, Holders
<1> QED
  BY <1>1, <1>3, <1>4, <1>6 DEF IInv

(* Starting a migration, stopping its timer and upgrading the source. *)
LEMMA ControllerStep ==
  ASSUME IInv, MigrateUserDataTo \/ MigrationStopTimer \/ PostUpgrade
  PROVE  IInv'
<1>1. TypeOK'
  BY NextType DEF IInv, Next
<1>2. UNCHANGED <<db, call, requests>>
  BY DEF MigrateUserDataTo, MigrationStopTimer, PostUpgrade
<1>3. migration' = migration \/ migration'.phase \in {"NoMigration", "Pending"}
  BY DEF MigrateUserDataTo, MigrationStopTimer, PostUpgrade, At
<1>4. SourceFrozen'
  <2>1. CASE PostUpgrade
    <3>1. requests' = <<>> /\ Phase' = "NoMigration"
      BY <2>1, UpgradeSparesTarget DEF IInv, Phase, At
    <3>2. \A i \in Steps : call'[i].answer = "idle" /\ call'[i].next.phase = "NoMigration"
      BY <2>1, UpgradeSparesTarget DEF IInv, Idle, At
    <3> QED
      BY <3>1, <3>2 DEF SourceFrozen
  <2>2. CASE MigrateUserDataTo \/ MigrationStopTimer
    <3>1. UNCHANGED api
      BY <2>2 DEF MigrateUserDataTo, MigrationStopTimer
    <3> QED
      BY <1>2, <1>3, <3>1 DEF IInv, SourceFrozen, Writable, Phase
  <2> QED
    BY <2>1, <2>2
<1>5. ProgressCovered'
  BY <1>2, <1>3, NothingReached DEF IInv, ProgressCovered, Holders
<1>6. CallsCovered'
  BY <1>2 DEF IInv, CallsCovered, Reached, Carried, Holders
<1> QED
  BY <1>1, <1>4, <1>5, <1>6 DEF IInv

(* Every step keeps the inductive invariant.                               *)
LEMMA NextIInv == IInv /\ [Next]_vars => IInv'
<1> SUFFICES ASSUME IInv, [Next]_vars
             PROVE  IInv'
  OBVIOUS
<1>1. CASE UNCHANGED vars
  <2>1. TypeOK'
    BY NextType DEF IInv
  <2>2. SourceFrozen' /\ ProgressCovered' /\ CallsCovered'
    BY <1>1 DEF vars, IInv, SourceFrozen, ProgressCovered, CallsCovered,
                Writable, Phase, Reached, Carried, Holders
  <2> QED
    BY <2>1, <2>2 DEF IInv
<1>2. CASE MigrationNext
  BY <1>2, LocalStep, CallTargetStep, MigrateChunkStep, DeliverStep, ReturnStep
     DEF MigrationNext, StepMigration
<1> QED
  BY <1>1, <1>2, UserStep, ControllerStep, RejectStep DEF Next

(* The inductive invariant holds in every reachable state. *)
THEOREM InductiveInvariant == Spec => []IInv
<1> QED
  BY InitIInv, NextIInv, PTL DEF Spec

(* No user is left behind: when the target is about to be unlocked, and    *)
(* from then on, every user of the source is a user of the target, however *)
(* many steps overlap and in whatever order their calls are answered.      *)
THEOREM NobodyLeftBehind == Spec => []EveryoneMoved
<1>1. IInv => EveryoneMoved
  BY DEF IInv, ProgressCovered, EveryoneMoved, Phase, Reached, Done, Holders
<1> QED
  BY <1>1, InductiveInvariant, PTL

-----------------------------------------------------------------------------
(***************************************************************************)
(* What rests on the order in which requests reach the target: once the    *)
(* last lock request is out of the queue nothing but the migration changes *)
(* a locked target, and no lock follows the unlock.                        *)
(***************************************************************************)

(* The inductive invariant behind TargetIsCopy and UnlockedLast: what is   *)
(* in flight, and in which order it reaches the target.                    *)

Copying == DataPhases \cup {"CheckingDataMigration", "UnlockingTarget"}

IsCopyOfSource(s, m) ==
  \A k \in DOMAIN m : k \in DOMAIN db["source"][s] /\ m[k] = db["source"][s][k]

CallsAreSteps ==
  \A i \in Steps : call[i] = Idle \/
    /\ call[i].answer # "idle"
    /\ call[i].from.phase \in RemotePhases
    /\ \/ call[i].next.phase = NextPhase(call[i].from.phase)
       \/ call[i].from.phase \in DataPhases /\ call[i].next.phase = call[i].from.phase
    /\ call[i].from.phase \in DataPhases =>
         IsCopyOfSource(StoreOf(call[i].from.phase), call[i].chunk)

(* An attempt starts with nothing in flight, and first sends locks only. *)
StartsWithLocks ==
  /\ Phase \in {"NoMigration", "Pending"} => \A i \in Steps : call[i] = Idle
  /\ Phase = "LockingTarget" =>
       \A i \in Steps : call[i] = Idle \/ call[i].from.phase = "LockingTarget"

Locks(i) == call[i].from.phase = "LockingTarget"

QueueInOrder ==
  /\ \A m \in DOMAIN requests : call[requests[m]].answer = "waiting"
  /\ \A m, n \in DOMAIN requests :
       m < n => requests[m] # requests[n] /\ (Locks(requests[n]) => Locks(requests[m]))

LockPending == \E n \in DOMAIN requests : Locks(requests[n])

(* While a lock request is in the queue no other call is answered, and no  *)
(* phase beyond the check of the target is reached.                        *)
LocksComeFirst ==
  LockPending =>
    /\ Phase \in {"LockingTarget", "CheckingTarget", "Failed"}
    /\ \A i \in Steps :
         \/ call[i] = Idle \/ Locks(i)
         \/ call[i].from.phase = "CheckingTarget" /\ call[i].answer = "waiting"

Unlocked ==
  \/ Phase \in {"Unlocking", "Completed"}
  \/ \E i \in Steps : call[i].from.phase = "UnlockingTarget" /\ call[i].answer = "ok"

CheckedEmpty ==
  \/ Phase \in Copying
  \/ \E i \in Steps :
       \/ call[i].from.phase \in Copying
       \/ call[i].from.phase = "CheckingTarget" /\ call[i].answer = "ok"

OpenOnceUnlocked == Unlocked => Writable("target")

CopyWhileLocked ==
  CheckedEmpty /\ ~Readable("target") =>
    \A s \in Stores : IsCopyOfSource(s, db["target"][s])

OInv ==
  /\ IInv
  /\ CallsAreSteps
  /\ StartsWithLocks
  /\ QueueInOrder
  /\ LocksComeFirst
  /\ OpenOnceUnlocked
  /\ CopyWhileLocked

-----------------------------------------------------------------------------
(* The inductive invariant of a migration whose steps do not overlap.      *)

OneStep == \A i, j \in Steps : i = j

(* The progress is still the one the step in flight has read. *)
StepsAdvance ==
  \A i \in Steps : call[i] # Idle =>
    call[i].from = migration /\ Later(migration, call[i].next)

Answered(phase) == \E i \in Steps : call[i].from.phase = phase /\ call[i].answer = "ok"

LockedMeanwhile ==
  Phase \in Copying \cup {"CheckingTarget"} \/ Answered("LockingTarget") =>
    ~Readable("target") \/ Answered("UnlockingTarget")

SInv == OInv /\ StepsAdvance /\ LockedMeanwhile

(* What the refinement needs besides: the source is open until the attempt *)
(* starts, the target is not opened before it is unlocked, and until then  *)
(* the comparison of the statistics still holds.                           *)
OpenUntilFrozen == Phase \in {"NoMigration", "Pending"} => Writable("source")

OpenedInTurn == OpenedByMigration => Unlocked

Compared ==
  /\ \A i \in Steps : call[i].from.phase = "CheckingDataMigration" =>
       call[i].stats = Stats("source")
  /\ Phase = "UnlockingTarget" \/ Answered("CheckingDataMigration") =>
       Stats("target") = Stats("source") \/ Answered("UnlockingTarget")

MapsByStore == \A c \in Canisters : db[c] = [s \in Stores |-> db[c][s]]

FInv == SInv /\ OpenUntilFrozen /\ OpenedInTurn /\ Compared /\ MapsByStore

-----------------------------------------------------------------------------
(* The queue. *)

(* A request is appended at the end of the queue.                          *)
LEMMA Appended ==
  ASSUME TypeOK, NEW i \in Steps
  PROVE  /\ DOMAIN requests = 1..Len(requests)
         /\ Len(requests) \in Nat
         /\ DOMAIN Append(requests, i) = 1..(Len(requests) + 1)
         /\ \A m \in 1..Len(requests) : Append(requests, i)[m] = requests[m]
         /\ Append(requests, i)[Len(requests) + 1] = i
BY DEF TypeOK

(* A request leaves the queue at its head.                                 *)
LEMMA Dequeued ==
  ASSUME TypeOK, requests # <<>>
  PROVE  /\ DOMAIN requests = 1..Len(requests)
         /\ Len(requests) \in Nat \ {0}
         /\ Head(requests) = requests[1]
         /\ DOMAIN Tail(requests) = 1..(Len(requests) - 1)
         /\ \A m \in 1..(Len(requests) - 1) : Tail(requests)[m] = requests[m + 1]
<1>1. requests \in Seq(Steps)
  BY DEF TypeOK
<1> QED
  BY <1>1

(* The order of the queue survives the removal of its head, and a lock     *)
(* request is left in it only if the head was one too.                     *)
LEMMA HeadLeaves ==
  ASSUME OInv, requests # <<>>, requests' = Tail(requests),
         NEW ok, Answer(Head(requests), ok)
  PROVE  /\ Head(requests) \in Steps
         /\ call[Head(requests)].answer = "waiting"
         /\ QueueInOrder'
         /\ LockPending' => LockPending /\ Locks(Head(requests))
<1> DEFINE i == Head(requests)
<1>1. TypeOK /\ QueueInOrder
  BY DEF OInv, IInv
<1>2. i \in Steps
  BY <1>1, QueueType
<1>3. \A m \in DOMAIN requests : requests[m] \in Steps
  BY <1>1 DEF TypeOK
<1>4. i = requests[1] /\ 1 \in DOMAIN requests
  BY <1>1, Dequeued
<1>5. \A m \in DOMAIN requests' :
        /\ m + 1 \in DOMAIN requests /\ 1 < m + 1
        /\ requests'[m] = requests[m + 1]
  BY <1>1, Dequeued
<1>6. \A j \in Steps :
        /\ call'[j].from = call[j].from
        /\ j # i => call'[j] = call[j]
  BY <1>1, <1>2, AnswerEffect
<1> HIDE DEF i
<1>7. \A m \in DOMAIN requests' : requests'[m] \in Steps /\ requests'[m] # i
  BY <1>1, <1>3, <1>4, <1>5 DEF QueueInOrder
<1>8. \A m \in DOMAIN requests' : 
        call'[requests'[m]].from = call[requests[m + 1]].from
  BY <1>5, <1>6, <1>7
<1>9. QueueInOrder'
  <2>1. \A m \in DOMAIN requests' : call'[requests'[m]].answer = "waiting"
    BY <1>1, <1>5, <1>6, <1>7 DEF QueueInOrder
  <2>2. ASSUME NEW m \in DOMAIN requests', NEW n \in DOMAIN requests', m < n
        PROVE  /\ requests'[m] # requests'[n]
               /\ call'[requests'[n]].from.phase = "LockingTarget"
                    => call'[requests'[m]].from.phase = "LockingTarget"
    <3>1. /\ m + 1 \in DOMAIN requests /\ n + 1 \in DOMAIN requests /\ m + 1 < n + 1
          /\ requests'[m] = requests[m + 1] /\ requests'[n] = requests[n + 1]
      <4>1. m \in Int /\ n \in Int
        BY <1>1, Dequeued
      <4> QED BY <1>5, <2>2, <4>1
    <3>2. /\ requests[m + 1] # requests[n + 1]
          /\ Locks(requests[n + 1]) => Locks(requests[m + 1])
      BY <1>1, <3>1 DEF QueueInOrder
    <3>3. /\ call'[requests'[m]].from = call[requests[m + 1]].from
          /\ call'[requests'[n]].from = call[requests[n + 1]].from
      BY <1>8
    <3> QED BY <3>1, <3>2, <3>3 DEF Locks
  <2> QED
    BY <2>1, <2>2 DEF QueueInOrder, Locks
<1>10. ASSUME LockPending'
       PROVE  LockPending /\ Locks(i)
  <2>1. PICK n \in DOMAIN requests' : 
          call'[requests'[n]].from.phase = "LockingTarget"
    BY <1>10 DEF LockPending, Locks
  <2>2. n + 1 \in DOMAIN requests /\ 1 < n + 1 /\ Locks(requests[n + 1])
    BY <2>1, <1>5, <1>8 DEF Locks
  <2> QED
    BY <2>2, <1>1, <1>4 DEF QueueInOrder, LockPending
<1> QED
  BY <1>1, <1>2, <1>4, <1>9, <1>10 DEF QueueInOrder, i

-----------------------------------------------------------------------------
(* The initial state, users and controllers. *)

(* A step that waits for nothing comes from no phase of the migration.     *)
LEMMA IdleFields ==
  /\ Idle.from.phase = "NoMigration"
  /\ Idle.next.phase = "NoMigration"
  /\ Idle.answer = "idle"
BY DEF Idle, At

(* With nothing in flight there is no request, and nothing was checked.    *)
LEMMA NothingInFlight ==
  ASSUME OInv, \A i \in Steps : call[i] = Idle
  PROVE  DOMAIN requests = {} /\ ~LockPending
<1>1. \A m \in DOMAIN requests : requests[m] \in Steps /\ call[requests[m]].answer = "waiting"
  BY DEF OInv, IInv, TypeOK, QueueInOrder
<1> QED
  BY <1>1, IdleFields DEF LockPending

(* The invariant holds initially.                                          *)
LEMMA InitOInv == Init => OInv
<1> SUFFICES ASSUME Init PROVE OInv
  OBVIOUS
<1>1. IInv
  BY InitIInv
<1>2. (\A i \in Steps : call[i] = Idle) /\ DOMAIN requests = {} /\ Phase = "NoMigration"
  BY DEF Init, Phase, At
<1>3. CallsAreSteps /\ StartsWithLocks /\ QueueInOrder /\ LocksComeFirst
  BY <1>2 DEF CallsAreSteps, StartsWithLocks, QueueInOrder, LocksComeFirst, LockPending
<1>4. ~Unlocked /\ ~CheckedEmpty
  BY <1>2, IdleFields DEF Unlocked, CheckedEmpty, Copying, DataPhases
<1> QED
  BY <1>1, <1>3, <1>4 DEF OInv, OpenOnceUnlocked, CopyWhileLocked

(* A write of a user keeps the invariant: the source is written to only    *)
(* with nothing in flight, and the target only while it is not locked.     *)
LEMMA UserKeepsOrder ==
  ASSUME OInv, UserNext
  PROVE  OInv'
<1>1. IInv'
  BY UserStep DEF OInv
<1>2. UNCHANGED <<api, migration, call, requests>>
  BY DEF UserNext, SetTokens, StoreProfile
<1>3. PICK c \in Canisters : Writable(c) /\ (c = "target" => db'["source"] = db["source"])
  BY DEF UserNext, SetTokens, StoreProfile, MayWrite, OInv, IInv, TypeOK, Canisters
<1>4. /\ StartsWithLocks' /\ QueueInOrder' /\ LocksComeFirst' /\ OpenOnceUnlocked'
      /\ CheckedEmpty' = CheckedEmpty
  BY <1>2 DEF OInv, StartsWithLocks, QueueInOrder, LocksComeFirst, LockPending, Locks,
              OpenOnceUnlocked, Unlocked, CheckedEmpty, Phase, Writable
<1>5. CASE c = "source"
  <2>1. \A i \in Steps : call[i] = Idle
    BY <1>3, <1>5 DEF OInv, IInv, SourceFrozen, StartsWithLocks
  <2>2. CallsAreSteps'
    BY <1>2, <2>1 DEF CallsAreSteps
  <2>3. Phase \in {"NoMigration", "Pending"}
    BY <1>3, <1>5 DEF OInv, IInv, SourceFrozen
  <2>4. ~CheckedEmpty
    BY <2>1, <2>3, IdleFields DEF CheckedEmpty, Copying, DataPhases
  <2> QED
    BY <1>1, <1>4, <2>2, <2>4 DEF OInv, CopyWhileLocked
<1>6. CASE c = "target"
  <2>1. CallsAreSteps'
    BY <1>2, <1>3, <1>6 DEF OInv, CallsAreSteps, IsCopyOfSource
  <2>2. Readable("target")'
    BY <1>2, <1>3, <1>6 DEF Writable, Readable
  <2> QED
    BY <1>1, <1>4, <2>1, <2>2 DEF OInv, CopyWhileLocked
<1> QED
  BY <1>5, <1>6 DEF Canisters

(* A controller starts a migration, stops its timer, or upgrades the       *)
(* source: what is in flight stays as it is, and with a new attempt        *)
(* nothing is.                                                             *)
LEMMA ControllerKeepsOrder ==
  ASSUME OInv, MigrateUserDataTo \/ MigrationStopTimer \/ PostUpgrade
  PROVE  OInv'
<1>1. IInv'
  BY ControllerStep DEF OInv
<1>2. UNCHANGED <<db, call, requests, api["target"]>>
  BY UpgradeSparesTarget DEF MigrateUserDataTo, MigrationStopTimer, OInv, IInv
<1>3. CallsAreSteps' /\ QueueInOrder'
  BY <1>2 DEF OInv, CallsAreSteps, IsCopyOfSource, QueueInOrder, Locks
<1>4. CASE migration' = migration
  BY <1>1, <1>2, <1>3, <1>4
     DEF OInv, StartsWithLocks, LocksComeFirst, LockPending, Locks, OpenOnceUnlocked,
         Unlocked, CopyWhileLocked, CheckedEmpty, IsCopyOfSource, Phase, Readable, Writable
<1>5. CASE migration' # migration
  <2>1. \A i \in Steps : call[i] = Idle
    BY <1>5 DEF MigrateUserDataTo, MigrationStopTimer, PostUpgrade, OInv, StartsWithLocks, Phase
  <2>2. Phase' \in {"NoMigration", "Pending"}
    BY <1>5 DEF MigrateUserDataTo, MigrationStopTimer, PostUpgrade, Phase, At
  <2>3. \A i \in Steps : call'[i] = Idle
    BY <1>2, <2>1
  <2>4. ~LockPending'
    BY <1>2, <2>1, NothingInFlight DEF LockPending
  <2>5. ~Unlocked' /\ ~CheckedEmpty'
    BY <2>2, <2>3, IdleFields DEF Unlocked, CheckedEmpty, Copying, DataPhases
  <2> QED
    BY <1>1, <1>3, <2>2, <2>3, <2>4, <2>5
       DEF OInv, StartsWithLocks, LocksComeFirst, OpenOnceUnlocked, CopyWhileLocked
<1> QED
  BY <1>4, <1>5

-----------------------------------------------------------------------------
(* Steps of the migration. *)

(* A local phase keeps the invariant: locking the source sends nothing,    *)
(* and unlocking it follows the unlocking of the target.                   *)
LEMMA LocalKeepsOrder ==
  ASSUME OInv, StepLocally
  PROVE  OInv'
<1>1. IInv'
  BY LocalStep DEF OInv
<1>2. UNCHANGED <<db, call, requests>>
  BY DEF StepLocally
<1>3. CallsAreSteps' /\ QueueInOrder'
  BY <1>2 DEF OInv, CallsAreSteps, IsCopyOfSource, QueueInOrder, Locks
<1>4. api'["target"] = api["target"]
  BY DEF StepLocally, MakeThisReadonly, UnlockLocal, Stop, SetGuards,
         OInv, IInv, TypeOK, Canisters
<1>5. LockPending' = LockPending
  BY <1>2 DEF LockPending, Locks
<1>6. CASE MakeThisReadonly
  <2>1. Phase = "Pending" /\ Phase' = "LockingTarget"
    BY <1>6 DEF MakeThisReadonly, Phase, At, NextPhase
  <2>2. \A i \in Steps : call'[i] = Idle
    BY <1>2, <2>1 DEF OInv, StartsWithLocks
  <2>3. ~Unlocked' /\ ~CheckedEmpty'
    BY <2>1, <2>2, IdleFields DEF Unlocked, CheckedEmpty, Copying, DataPhases
  <2> QED
    BY <1>1, <1>3, <2>1, <2>2, <2>3
       DEF OInv, StartsWithLocks, LocksComeFirst, OpenOnceUnlocked, CopyWhileLocked
<1>7. CASE UnlockLocal
  <2>1. Phase = "Unlocking" /\ Phase' = "Completed"
    BY <1>7 DEF UnlockLocal, Phase, At, NextPhase
  <2>2. ~LockPending'
    BY <1>5, <2>1 DEF OInv, LocksComeFirst
  <2>3. Writable("target")'
    BY <1>4, <2>1 DEF OInv, OpenOnceUnlocked, Unlocked, Writable
  <2>4. Readable("target")'
    BY <2>3 DEF Writable, Readable
  <2> QED
    BY <1>1, <1>3, <2>1, <2>2, <2>3, <2>4
       DEF OInv, StartsWithLocks, LocksComeFirst, OpenOnceUnlocked, CopyWhileLocked
<1>8. CASE Stop
  BY <1>1, <1>2, <1>3, <1>5, <1>8
     DEF Stop, OInv, StartsWithLocks, LocksComeFirst, Locks, OpenOnceUnlocked,
         Unlocked, CopyWhileLocked, CheckedEmpty, IsCopyOfSource, Phase, Readable, Writable
<1> QED
  BY <1>6, <1>7, <1>8 DEF StepLocally

(* A step that sends a call keeps the invariant: its request is behind     *)
(* every other, and it claims of the target what the phase claims.         *)
LEMMA SendKeepsOrder ==
  ASSUME OInv, IInv', NEW i \in Steps, NEW next, NEW chunk, Send(i, next, chunk),
         migration.phase \in RemotePhases,
         \/ next.phase = NextPhase(migration.phase)
         \/ migration.phase \in DataPhases /\ next.phase = migration.phase,
         migration.phase \in DataPhases =>
           IsCopyOfSource(StoreOf(migration.phase), chunk)
  PROVE  OInv'
<1>1. UNCHANGED <<api, db, migration>> /\ call[i] = Idle
  BY DEF Send
<1>2. /\ call'[i] = Waiting(next, chunk)
      /\ \A j \in Steps : j # i => call'[j] = call[j]
  BY DEF Send, OInv, IInv, TypeOK
<1>3. /\ call'[i].from = migration /\ call'[i].next = next
      /\ call'[i].chunk = chunk /\ call'[i].answer = "waiting"
  BY <1>2 DEF Waiting
<1>4. CallsAreSteps'
  <2>1. ASSUME NEW j \in Steps, j # i
        PROVE  call'[j] = call[j]
    BY <1>2, <2>1
  <2>2. /\ call'[i].answer # "idle"
        /\ call'[i].from.phase \in RemotePhases
        /\ \/ call'[i].next.phase = NextPhase(call'[i].from.phase)
           \/ /\ call'[i].from.phase \in DataPhases
              /\ call'[i].next.phase = call'[i].from.phase
        /\ call'[i].from.phase \in DataPhases =>
             IsCopyOfSource(StoreOf(call'[i].from.phase), call'[i].chunk)
    BY <1>3
  <2> QED
    BY <1>1, <2>1, <2>2 DEF OInv, CallsAreSteps, IsCopyOfSource
<1>5. StartsWithLocks'
  BY <1>1, <1>2, <1>3 DEF OInv, StartsWithLocks, Phase, RemotePhases, DataPhases
<1>6. LockPending /\ ~Locks(i)' => Phase = "CheckingTarget"
  BY <1>3 DEF OInv, LocksComeFirst, Locks, Phase, RemotePhases, DataPhases
<1>7. Locks(i)' => \A j \in Steps : call[j] = Idle \/ Locks(j)
  BY <1>3 DEF OInv, StartsWithLocks, Locks, Phase
<1>8. \A m \in DOMAIN requests :
        requests[m] \in Steps /\ requests[m] # i /\ call[requests[m]] # Idle
  BY <1>1, IdleFields DEF OInv, IInv, TypeOK, QueueInOrder
<1>9. /\ DOMAIN requests = 1..Len(requests) /\ Len(requests) \in Nat
      /\ DOMAIN requests' = 1..(Len(requests) + 1)
      /\ \A m \in 1..Len(requests) : requests'[m] = requests[m]
      /\ requests'[Len(requests) + 1] = i
  BY Appended DEF Send, OInv, IInv
<1>10. QueueInOrder'
  <2>1. \A m \in DOMAIN requests' : call'[requests'[m]].answer = "waiting"
    BY <1>2, <1>3, <1>8, <1>9 DEF OInv, QueueInOrder
  <2>2. ASSUME NEW m \in DOMAIN requests', NEW n \in DOMAIN requests', m < n
        PROVE  /\ requests'[m] # requests'[n]
               /\ call'[requests'[n]].from.phase = "LockingTarget"
                    => call'[requests'[m]].from.phase = "LockingTarget"
    <3>1. m \in 1..Len(requests)
      BY <1>9, <2>2
    <3>2. CASE n = Len(requests) + 1
      BY <1>2, <1>7, <1>8, <1>9, <3>1, <3>2 DEF Locks
    <3>3. CASE n \in 1..Len(requests)
      BY <1>2, <1>8, <1>9, <2>2, <3>1, <3>3 DEF OInv, QueueInOrder, Locks
    <3> QED
      BY <1>9, <3>2, <3>3
  <2> QED
    BY <2>1, <2>2 DEF QueueInOrder, Locks
<1>11. LocksComeFirst'
  <2>1. CASE Locks(i)'
    BY <1>1, <1>2, <1>3, <1>7, <2>1 DEF LocksComeFirst, Locks, Phase
  <2>2. CASE ~Locks(i)'
    <3>1. LockPending' => LockPending
      BY <1>2, <1>8, <1>9, <2>2 DEF LockPending, Locks
    <3> QED
      BY <1>1, <1>2, <1>3, <1>6, <2>2, <3>1 DEF OInv, LocksComeFirst, Locks, Phase
  <2> QED
    BY <2>1, <2>2
<1>12. OpenOnceUnlocked'
  BY <1>1, <1>2, <1>3 DEF OInv, OpenOnceUnlocked, Unlocked, Phase, Writable
<1>13. CopyWhileLocked'
  <2>1. CheckedEmpty' => CheckedEmpty
    BY <1>1, <1>2, <1>3 DEF CheckedEmpty, Phase
  <2> QED
    BY <1>1, <2>1 DEF OInv, CopyWhileLocked, IsCopyOfSource, Readable
<1> QED
  BY <1>4, <1>5, <1>10, <1>11, <1>12, <1>13 DEF OInv

(* A step that calls the target keeps the invariant.                       *)
LEMMA StepKeepsOrder ==
  ASSUME OInv, NEW i \in Steps, StepMigration(i)
  PROVE  OInv'
<1>1. IInv'
  BY CallTargetStep, MigrateChunkStep DEF OInv, StepMigration
<1>2. CASE CallTarget(i)
  BY <1>1, <1>2, SendKeepsOrder DEF CallTarget, At
<1>3. CASE MigrateChunk(i)
  <2> DEFINE t == StoreOf(migration.phase)
             chunk == Chunk(t, migration.upto)
  <2>1. migration.phase \in DataPhases /\ migration.phase \in RemotePhases
    BY <1>3 DEF MigrateChunk, RemotePhases
  <2>2. IsCopyOfSource(t, chunk)
    BY DEF IsCopyOfSource, Chunk, ChunkKeys
  <2>3. CASE Send(i, At(NextPhase(migration.phase)), chunk)
    <3>1. At(NextPhase(migration.phase)).phase = NextPhase(migration.phase)
      BY DEF At
    <3> HIDE DEF chunk
    <3> QED
      BY <1>1, <2>1, <2>2, <2>3, <3>1, SendKeepsOrder
  <2>4. ASSUME NEW last, Send(i, [migration EXCEPT !.upto = last], chunk)
        PROVE  OInv'
    <3> DEFINE next == [migration EXCEPT !.upto = last]
    <3>1. next.phase = migration.phase
      BY DEF OInv, IInv, TypeOK, Progress
    <3> HIDE DEF chunk, next
    <3>2. Send(i, next, chunk)
      BY <2>4 DEF next
    <3> QED
      BY <1>1, <2>1, <2>2, <3>1, <3>2, SendKeepsOrder
  <2> QED
    BY <1>3, <2>3, <2>4 DEF MigrateChunk
<1> QED
  BY <1>2, <1>3 DEF StepMigration

-----------------------------------------------------------------------------
(* The target handles the requests. *)

(* The call at the head of the queue was sent by a step of the migration.  *)
LEMMA HeadIsStep ==
  ASSUME OInv, requests # <<>>
  PROVE  /\ Head(requests) \in Steps
         /\ call[Head(requests)] # Idle
         /\ call[Head(requests)].answer = "waiting"
         /\ call[Head(requests)].from.phase \in RemotePhases
         /\ Locks(Head(requests)) => LockPending
<1>1. TypeOK
  BY DEF OInv, IInv
<1>2. Head(requests) \in Steps
  BY <1>1, QueueType
<1>3. Head(requests) = requests[1] /\ 1 \in DOMAIN requests
  BY <1>1, Dequeued
<1>4. call[Head(requests)].answer = "waiting"
  BY <1>3 DEF OInv, QueueInOrder
<1>5. call[Head(requests)] # Idle
  BY <1>4, IdleFields
<1> QED
  BY <1>2, <1>3, <1>4, <1>5 DEF OInv, CallsAreSteps, LockPending

(* Whatever the answer is, the calls in flight and their order stay.       *)
LEMMA AnswerKeepsOrder ==
  ASSUME OInv, requests # <<>>, requests' = Tail(requests),
         NEW ok, Answer(Head(requests), ok),
         migration' = migration, db'["source"] = db["source"]
  PROVE  CallsAreSteps' /\ StartsWithLocks' /\ QueueInOrder' /\ LocksComeFirst'
<1> DEFINE i == Head(requests)
<1>1. i \in Steps /\ call[i] # Idle
  BY HeadIsStep
<1>2. QueueInOrder' /\ (LockPending' => LockPending /\ Locks(i))
  BY HeadLeaves
<1>3. \A j \in Steps :
        /\ call'[j].next = call[j].next
        /\ call'[j].from = call[j].from
        /\ call'[j].chunk = call[j].chunk
        /\ j # i => call'[j] = call[j]
        /\ j = i => call'[j].answer # "idle"
  BY <1>1, AnswerEffect DEF OInv, IInv
<1> HIDE DEF i
<1>4. CallsAreSteps'
  <2>1. ASSUME NEW j \in Steps, call[j] = Idle
        PROVE  call'[j] = Idle
    BY <1>1, <1>3, <2>1
  <2>2. ASSUME NEW j \in Steps, call[j] # Idle
        PROVE  /\ call'[j].answer # "idle"
               /\ call[j].from.phase \in RemotePhases
               /\ \/ call[j].next.phase = NextPhase(call[j].from.phase)
                  \/ /\ call[j].from.phase \in DataPhases
                     /\ call[j].next.phase = call[j].from.phase
               /\ call[j].from.phase \in DataPhases =>
                    IsCopyOfSource(StoreOf(call[j].from.phase), call[j].chunk)
    BY <1>1, <1>3, <2>2 DEF OInv, CallsAreSteps
  <2> QED
    BY <1>3, <2>1, <2>2 DEF CallsAreSteps, IsCopyOfSource
<1>5. StartsWithLocks'
  BY <1>1, <1>3 DEF OInv, StartsWithLocks, Phase
<1>6. LocksComeFirst'
  BY <1>2, <1>3 DEF OInv, LocksComeFirst, Locks, Phase
<1> QED
  BY <1>2, <1>4, <1>5, <1>6

(* While a lock request is pending, the target was neither unlocked nor    *)
(* found empty in this attempt, and an answer to a lock changes neither.   *)
LEMMA LockedForNow ==
  ASSUME OInv, LockPending
  PROVE  ~Unlocked /\ ~CheckedEmpty
BY IdleFields DEF OInv, LocksComeFirst, Locks, Unlocked, CheckedEmpty, Copying, DataPhases

(* An answer can only add what the answered call stands for.               *)
LEMMA AnswerAdds ==
  ASSUME OInv, requests # <<>>, NEW ok, Answer(Head(requests), ok),
         migration' = migration
  PROVE  /\ Unlocked' => Unlocked \/ (call[Head(requests)].from.phase = "UnlockingTarget" /\ ok)
         /\ CheckedEmpty' =>
              CheckedEmpty \/ (call[Head(requests)].from.phase = "CheckingTarget" /\ ok)
<1> DEFINE i == Head(requests)
<1>1. i \in Steps
  BY HeadIsStep
<1>2. \A j \in Steps :
        /\ call'[j].from = call[j].from
        /\ j # i => call'[j] = call[j]
        /\ j = i => call'[j].answer = IF ok THEN "ok" ELSE "error"
  BY <1>1, AnswerEffect DEF OInv, IInv
<1> HIDE DEF i
<1>3. Unlocked' => Unlocked \/ (call[i].from.phase = "UnlockingTarget" /\ ok)
  BY <1>1, <1>2 DEF Unlocked, Phase
<1>4. CheckedEmpty' => CheckedEmpty \/ (call[i].from.phase = "CheckingTarget" /\ ok)
  BY <1>1, <1>2 DEF CheckedEmpty, Phase
<1> QED
  BY <1>3, <1>4 DEF i

(* Statistics that count nothing mean that the target holds nothing.       *)
LEMMA NoStatsNoData ==
  ASSUME TypeOK, Stats("target") = EmptyStats
  PROVE  \A s \in Stores : DOMAIN db["target"][s] = {}
<1> SUFFICES ASSUME NEW s \in Stores PROVE DOMAIN db["target"][s] = {}
  OBVIOUS
<1>1. IsMap(db["target"][s])
  BY DEF TypeOK, Canisters
<1>2. IsFiniteSet(DOMAIN db["target"][s])
  BY <1>1, MapsAreFinite
<1>3. Cardinality(DOMAIN db["target"][s]) = Stats("target")[s]
  BY DEF Stats
<1>4. Cardinality(DOMAIN db["target"][s]) = 0
  BY <1>3 DEF EmptyStats
<1> QED
  BY <1>2, <1>4, FS_EmptySet

(* The delivery of a request keeps the invariant.                          *)
LEMMA DeliverKeepsOrder ==
  ASSUME OInv, Deliver
  PROVE  OInv'
<1> DEFINE i == Head(requests)
<1>1. /\ IInv' /\ TypeOK
      /\ requests # <<>> /\ requests' = Tail(requests) /\ migration' = migration
  BY DeliverStep DEF OInv, IInv, Deliver
<1>2. TargetSetsGuards(i) \/ TargetReportsStats(i) \/ TargetBulkUp(i)
  BY DEF Deliver
<1>3. /\ i \in Steps /\ call[i] # Idle
      /\ call[i].from.phase \in RemotePhases
      /\ Locks(i) => LockPending
  BY <1>1, HeadIsStep
<1>4. ASSUME NEW ok, Answer(i, ok), db'["source"] = db["source"],
             OpenOnceUnlocked', CopyWhileLocked'
      PROVE  OInv'
  BY <1>1, <1>4, AnswerKeepsOrder DEF OInv
<1>5. ASSUME NEW ok, Answer(i, ok)
      PROVE  /\ Unlocked' => Unlocked \/ (call[i].from.phase = "UnlockingTarget" /\ ok)
             /\ CheckedEmpty' => CheckedEmpty \/ (call[i].from.phase = "CheckingTarget" /\ ok)
  BY <1>1, <1>5, AnswerAdds
<1> HIDE DEF i
<1>6. CASE TargetSetsGuards(i)
  <2>1. Answer(i, TRUE) /\ db' = db
    BY <1>6 DEF TargetSetsGuards
  <2>2. CASE call[i].from.phase = "LockingTarget"
    <3>1. ~Unlocked' /\ ~CheckedEmpty'
      BY <1>3, <1>5, <2>1, <2>2, LockedForNow DEF Locks
    <3> QED
      BY <1>4, <2>1, <3>1 DEF OpenOnceUnlocked, CopyWhileLocked
  <2>3. CASE SetGuards("target", "Disabled", "Enabled")
    <3>1. Writable("target")' /\ Readable("target")'
      BY <1>1, <2>3 DEF SetGuards, TypeOK, Canisters, Writable, Readable
    <3> QED
      BY <1>4, <2>1, <3>1 DEF OpenOnceUnlocked, CopyWhileLocked
  <2> QED
    BY <1>6, <2>2, <2>3 DEF TargetSetsGuards
<1>7. CASE TargetReportsStats(i)
  <2>1. PICK ok : Answer(i, ok) /\ (call[i].from.phase = "CheckingTarget" =>
                                      ok = (Stats("target") = EmptyStats))
    BY <1>7 DEF TargetReportsStats
  <2>2. /\ UNCHANGED <<api, db>>
        /\ call[i].from.phase \in {"CheckingTarget", "CheckingDataMigration"}
    BY <1>7 DEF TargetReportsStats
  <2>3. OpenOnceUnlocked'
    BY <1>5, <2>1, <2>2 DEF OInv, OpenOnceUnlocked, Writable
  <2>4. CopyWhileLocked'
    <3>1. CASE CheckedEmpty
      BY <2>2, <3>1 DEF OInv, CopyWhileLocked, IsCopyOfSource, Readable
    <3>2. CASE ~CheckedEmpty
      <4>1. CheckedEmpty' => Stats("target") = EmptyStats
        BY <1>5, <2>1, <3>2
      <4>2. CheckedEmpty' => \A s \in Stores : DOMAIN db["target"][s] = {}
        BY <1>1, <4>1, NoStatsNoData
      <4> QED
        BY <2>2, <4>2 DEF CopyWhileLocked, IsCopyOfSource
    <3> QED
      BY <3>1, <3>2
  <2> QED
    BY <1>4, <2>1, <2>2, <2>3, <2>4
<1>8. CASE TargetBulkUp(i)
  <2> DEFINE t == StoreOf(call[i].from.phase)
  <2>1. /\ call[i].from.phase \in DataPhases
        /\ api' = api /\ Answer(i, TRUE)
        /\ db' = [db EXCEPT !["target"][t] = Overwrite(@, call[i].chunk)]
    BY <1>8 DEF TargetBulkUp
  <2>2. t \in Stores
    BY <2>1, ProgressType
  <2>3. IsCopyOfSource(t, call[i].chunk)
    BY <1>3, <2>1 DEF OInv, CallsAreSteps
  <2>4. CheckedEmpty
    BY <1>3, <2>1 DEF CheckedEmpty, Copying
  <2> HIDE DEF t
  <2>5. /\ db'["source"] = db["source"]
        /\ db'["target"][t] = Overwrite(db["target"][t], call[i].chunk)
        /\ \A s \in Stores : s # t => db'["target"][s] = db["target"][s]
    BY <1>1, <2>1, <2>2 DEF TypeOK, Canisters
  <2>6. OpenOnceUnlocked'
    BY <1>5, <2>1 DEF OInv, OpenOnceUnlocked, Writable, DataPhases
  <2>7. ASSUME ~Readable("target"), NEW s \in Stores
        PROVE  IsCopyOfSource(s, db["target"][s])'
    <3>1. IsCopyOfSource(s, db["target"][s])
      BY <2>4, <2>7 DEF OInv, CopyWhileLocked
    <3>2. CASE s = t
      BY <2>3, <2>5, <3>1, <3>2 DEF IsCopyOfSource, Overwrite
    <3>3. CASE s # t
      BY <2>5, <3>1, <3>3 DEF IsCopyOfSource
    <3> QED
      BY <3>2, <3>3
  <2>8. CopyWhileLocked'
    BY <2>1, <2>7 DEF CopyWhileLocked, Readable
  <2> QED
    BY <1>4, <2>1, <2>5, <2>6, <2>8
<1> QED
  BY <1>2, <1>6, <1>7, <1>8 DEF i

(* A rejected request establishes nothing on the target.                   *)
LEMMA RejectKeepsOrder ==
  ASSUME OInv, Reject
  PROVE  OInv'
<1>1. IInv'
  BY RejectStep DEF OInv
<1>2. /\ requests # <<>> /\ requests' = Tail(requests)
      /\ Answer(Head(requests), FALSE)
      /\ UNCHANGED <<api, db, migration>>
  BY DEF Reject
<1>3. CallsAreSteps' /\ StartsWithLocks' /\ QueueInOrder' /\ LocksComeFirst'
  BY <1>2, AnswerKeepsOrder
<1>4. (Unlocked' => Unlocked) /\ (CheckedEmpty' => CheckedEmpty)
  BY <1>2, AnswerAdds
<1>5. OpenOnceUnlocked' /\ CopyWhileLocked'
  BY <1>2, <1>4 DEF OInv, OpenOnceUnlocked, CopyWhileLocked, IsCopyOfSource, Readable, Writable
<1> QED
  BY <1>1, <1>3, <1>5 DEF OInv

(* A step that returns keeps the invariant, whatever the progress is by    *)
(* then: what it stores rests on the answer it has.                        *)
LEMMA ReturnKeepsOrder ==
  ASSUME OInv, NEW i \in Steps, Return(i)
  PROVE  OInv'
<1>1. IInv'
  BY ReturnStep DEF OInv
<1>2. UNCHANGED <<api, db, requests>> /\ call' = [call EXCEPT ![i] = Idle]
  BY DEF Return
<1>3. /\ call'[i] = Idle
      /\ \A j \in Steps : j # i => call'[j] = call[j]
  BY <1>2 DEF OInv, IInv, TypeOK
<1>4. call[i] # Idle /\ call[i].answer \in {"ok", "error"}
  BY IdleFields DEF Return
<1>5. /\ call[i].from.phase \in RemotePhases
      /\ \/ call[i].next.phase = NextPhase(call[i].from.phase)
         \/ call[i].from.phase \in DataPhases /\ call[i].next.phase = call[i].from.phase
  BY <1>4 DEF OInv, CallsAreSteps
<1>6. Phase \notin {"NoMigration", "Pending"}
  BY <1>4 DEF OInv, StartsWithLocks
<1>7. \/ call[i].answer = "ok" /\ Phase' = call[i].next.phase
      \/ call[i].answer = "error" /\ Phase' = "Failed"
  BY <1>6 DEF Return, SetProgress, Phase, At
<1>8. CallsAreSteps'
  BY <1>2, <1>3 DEF OInv, CallsAreSteps, IsCopyOfSource
<1>9. \A m \in DOMAIN requests : requests[m] \in Steps /\ requests[m] # i
  BY <1>4 DEF OInv, IInv, TypeOK, QueueInOrder
<1>10. QueueInOrder' /\ LockPending' = LockPending
  BY <1>2, <1>3, <1>9 DEF OInv, QueueInOrder, LockPending, Locks
<1>11. Phase' \notin {"NoMigration", "Pending", "LockingTarget"}
  BY <1>5, <1>7 DEF NextPhase, RemotePhases, DataPhases
<1>12. LocksComeFirst'
  <2>1. ASSUME LockPending
        PROVE  Phase' \in {"CheckingTarget", "Failed"}
    <3>1. call[i].from.phase = "LockingTarget"
      BY <1>4, <2>1 DEF OInv, LocksComeFirst, Locks
    <3> QED
      BY <3>1, <1>5, <1>7 DEF NextPhase, DataPhases
  <2> QED
    BY <1>3, <1>10, <2>1 DEF OInv, LocksComeFirst, Locks
<1>13. OpenOnceUnlocked'
  <2>1. Unlocked' => Unlocked
    BY <1>3, <1>5, <1>7, IdleFields DEF Unlocked, NextPhase, RemotePhases, DataPhases
  <2> QED
    BY <1>2, <2>1 DEF OInv, OpenOnceUnlocked, Writable
<1>14. CopyWhileLocked'
  <2>1. Phase' \in Copying => call[i].from.phase \in Copying \/
                              (call[i].from.phase = "CheckingTarget" /\ call[i].answer = "ok")
    BY <1>5, <1>7 DEF NextPhase, RemotePhases, DataPhases, Copying
  <2>2. CheckedEmpty' => CheckedEmpty
    BY <1>3, <2>1, IdleFields DEF CheckedEmpty, Copying, DataPhases
  <2> QED
    BY <1>2, <2>2 DEF OInv, CopyWhileLocked, IsCopyOfSource, Readable
<1> QED
  BY <1>1, <1>8, <1>10, <1>11, <1>12, <1>13, <1>14 DEF OInv, StartsWithLocks

-----------------------------------------------------------------------------
(* The theorems. *)

(* Every step keeps the invariant.                                         *)
LEMMA NextOInv == OInv /\ [Next]_vars => OInv'
<1> SUFFICES ASSUME OInv, [Next]_vars
             PROVE  OInv'
  OBVIOUS
<1>1. CASE UNCHANGED vars
  <2>1. IInv'
    BY <1>1, NextIInv DEF OInv
  <2> QED
    BY <1>1, <2>1
       DEF vars, OInv, CallsAreSteps, IsCopyOfSource, StartsWithLocks, QueueInOrder,
           LocksComeFirst, LockPending, Locks, OpenOnceUnlocked, Unlocked,
           CopyWhileLocked, CheckedEmpty, Phase, Readable, Writable
<1>2. CASE MigrationNext
  BY <1>2, LocalKeepsOrder, StepKeepsOrder, DeliverKeepsOrder, ReturnKeepsOrder
     DEF MigrationNext
<1> QED
  BY <1>1, <1>2, UserKeepsOrder, ControllerKeepsOrder, RejectKeepsOrder DEF Next

(* The invariant about what is in flight holds in every reachable state.   *)
THEOREM RequestsInOrder == Spec => []OInv
<1> QED
  BY InitOInv, NextOInv, PTL DEF Spec

(* From the check that the target is empty until it is unlocked, what a    *)
(* locked target holds is what the source holds, however many steps        *)
(* overlap, fail or are repeated after an upgrade.                         *)
THEOREM OnlyCopiesArrive == Spec => []TargetIsCopy
<1>1. OInv => TargetIsCopy
  BY DEF OInv, CopyWhileLocked, CheckedEmpty, IsCopyOfSource, Copying, TargetIsCopy
<1> QED
  BY <1>1, RequestsInOrder, PTL

(* When the source is unlocked for signing the target is open to users: no *)
(* lock request arrives after the unlock request of the same attempt.      *)
THEOREM NoLockAfterUnlock == Spec => []UnlockedLast
<1>1. OInv => UnlockedLast
  BY DEF OInv, OpenOnceUnlocked, Unlocked, UnlockedLast
<1> QED
  BY <1>1, RequestsInOrder, PTL

-----------------------------------------------------------------------------
(* Steps that do not overlap. *)

(* The next progress is a later one.                                       *)
LEMMA NextIsLater ==
  /\ \A phase \in RemotePhases \cup {"Pending", "Unlocking"} :
       Rank(phase) < Rank(NextPhase(phase))
  /\ \A phase \in RemotePhases : Rank(phase) < Rank("Failed")
BY DEF RemotePhases, DataPhases, Rank, NextPhase

(* The last key of a chunk is behind the key the chunk starts after.       *)
LEMMA ChunkMovesOn ==
  ASSUME NEW s, NEW last, NEW k \in ChunkKeys(s, last)
  PROVE  Before(last, k)
BY DEF ChunkKeys

(* A step in flight advances the progress.                                 *)
LEMMA InitSInv == Init => SInv
<1> SUFFICES ASSUME Init PROVE SInv
  OBVIOUS
<1>1. OInv
  BY InitOInv
<1>2. (\A i \in Steps : call[i] = Idle) /\ Phase = "NoMigration"
  BY DEF Init, Phase, At
<1>3. StepsAdvance
  BY <1>2 DEF StepsAdvance
<1>4. LockedMeanwhile
  BY <1>2, IdleFields DEF LockedMeanwhile, Answered, Copying, DataPhases
<1> QED
  BY <1>1, <1>3, <1>4 DEF SInv

(* A step that sends a call reads the progress it will replace.            *)
LEMMA SendAdvances ==
  ASSUME OneStep, SInv, NEW i \in Steps, StepMigration(i)
  PROVE  StepsAdvance' /\ LockedMeanwhile'
<1>1. TypeOK /\ migration \in Progress
  BY DEF SInv, OInv, IInv, TypeOK
<1>2. PICK next, chunk :
        /\ Send(i, next, chunk)
        /\ migration.phase \in RemotePhases
        /\ Later(migration, next)
  <2>1. CASE CallTarget(i)
    <3>1. migration.phase \in RemotePhases
      BY <2>1 DEF CallTarget
    <3>2. Later(migration, At(NextPhase(migration.phase)))
      BY <3>1, NextIsLater DEF Later, At
    <3> QED
      BY <2>1, <3>1, <3>2 DEF CallTarget
  <2>2. CASE MigrateChunk(i)
    <3> DEFINE t == StoreOf(migration.phase)
               chunk == Chunk(t, migration.upto)
    <3>1. migration.phase \in DataPhases /\ migration.phase \in RemotePhases
      BY <2>2 DEF MigrateChunk, RemotePhases
    <3>2. Later(migration, At(NextPhase(migration.phase)))
      BY <3>1, NextIsLater DEF Later, At
    <3>3. ASSUME NEW last \in DOMAIN chunk
          PROVE  Later(migration, [migration EXCEPT !.upto = last])
      <4>1. last \in ChunkKeys(t, migration.upto)
        BY <3>3 DEF Chunk
      <4>2. Before(migration.upto, last)
        BY <4>1, ChunkMovesOn
      <4> QED
        BY <1>1, <4>2 DEF Later, Progress
    <3> QED
      BY <2>2, <3>1, <3>2, <3>3 DEF MigrateChunk
  <2> QED
    BY <2>1, <2>2 DEF StepMigration
<1>3. /\ UNCHANGED <<api, migration>> /\ call[i] = Idle
      /\ call'[i] = Waiting(next, chunk)
  BY <1>1, <1>2 DEF Send, TypeOK
<1>4. \A j \in Steps : j = i
  BY DEF OneStep
<1>5. StepsAdvance'
  BY <1>2, <1>3, <1>4 DEF StepsAdvance, Waiting
<1>6. LockedMeanwhile'
  BY <1>3, <1>4, IdleFields DEF SInv, LockedMeanwhile, Answered, Phase, Readable, Waiting
<1> QED
  BY <1>5, <1>6

(* The local phases run only with nothing in flight.                       *)
LEMMA LocalAdvances ==
  ASSUME OneStep, SInv, StepLocally
  PROVE  StepsAdvance' /\ LockedMeanwhile'
<1>1. (\A i \in Steps : call[i] = Idle) /\ call' = call
  BY DEF OneStep, StepLocally
<1>2. StepsAdvance'
  BY <1>1 DEF StepsAdvance
<1>3. Phase' \in {"LockingTarget", "Completed", "Failed"}
  BY DEF StepLocally, MakeThisReadonly, UnlockLocal, Stop, Phase, At, NextPhase
<1>4. LockedMeanwhile'
  BY <1>1, <1>3, IdleFields DEF LockedMeanwhile, Answered, Copying, DataPhases
<1> QED
  BY <1>2, <1>4

(* Before the answer to the only call in flight, no call is answered.      *)
LEMMA NoOtherAnswer ==
  ASSUME OneStep, OInv, requests # <<>>, NEW phase
  PROVE  ~Answered(phase)
BY HeadIsStep DEF OneStep, Answered

(* The target is locked by the answer to the lock, and stays locked until  *)
(* the answer to the unlock.                                               *)
LEMMA DeliverAdvances ==
  ASSUME OneStep, SInv, Deliver \/ Reject
  PROVE  StepsAdvance' /\ LockedMeanwhile'
<1> DEFINE i == Head(requests)
<1>1. TypeOK /\ OInv /\ requests # <<>> /\ UNCHANGED migration
  BY DEF SInv, OInv, IInv, Deliver, Reject
<1>2. /\ i \in Steps /\ call[i] # Idle
      /\ \A j \in Steps : j = i
      /\ \A phase : ~Answered(phase)
  BY <1>1, HeadIsStep, NoOtherAnswer DEF OneStep
<1>3. PICK ok : /\ Answer(i, ok)
                /\ \/ /\ call[i].from.phase = "LockingTarget" /\ ok
                      /\ SetGuards("target", "Disabled", "Disabled")
                   \/ call[i].from.phase = "UnlockingTarget" /\ ok
                   \/ /\ call[i].from.phase = "LockingTarget" => ~ok
                      /\ api' = api
  BY DEF Deliver, Reject, TargetSetsGuards, TargetReportsStats, TargetBulkUp, DataPhases
<1>4. /\ call'[i].from = call[i].from
      /\ call'[i].next = call[i].next
      /\ call'[i].answer = IF ok THEN "ok" ELSE "error"
  BY <1>1, <1>2, <1>3, AnswerEffect
<1> HIDE DEF i
<1>5. StepsAdvance'
  BY <1>1, <1>2, <1>4 DEF SInv, StepsAdvance
<1>6. LockedMeanwhile'
  <2>1. CASE call[i].from.phase = "LockingTarget" /\ ok /\ SetGuards("target", "Disabled", "Disabled")
    BY <1>1, <2>1 DEF SetGuards, TypeOK, Canisters, LockedMeanwhile, Readable
  <2>2. CASE call[i].from.phase = "UnlockingTarget" /\ ok
    BY <1>2, <1>4, <2>2 DEF LockedMeanwhile, Answered
  <2>3. CASE (call[i].from.phase = "LockingTarget" => ~ok) /\ api' = api
    BY <1>1, <1>2, <1>4, <2>3 DEF SInv, LockedMeanwhile, Answered, Phase, Readable
  <2> QED
    BY <1>3, <2>1, <2>2, <2>3
<1> QED
  BY <1>5, <1>6

(* A step that returns replaces the progress it read.                      *)
LEMMA ReturnAdvances ==
  ASSUME OneStep, SInv, NEW i \in Steps, Return(i)
  PROVE  StepsAdvance' /\ LockedMeanwhile'
<1>1. UNCHANGED api /\ call'[i] = Idle /\ \A j \in Steps : j = i
  BY DEF Return, OneStep, SInv, OInv, IInv, TypeOK
<1>2. call[i] # Idle /\ call[i].from = migration
  BY IdleFields DEF Return, SInv, StepsAdvance
<1>3. /\ Phase \in RemotePhases
      /\ \/ call[i].next.phase = NextPhase(Phase)
         \/ Phase \in DataPhases /\ call[i].next.phase = Phase
  BY <1>2 DEF SInv, OInv, CallsAreSteps, Phase
<1>4. StepsAdvance'
  BY <1>1 DEF StepsAdvance
<1>5. \/ call[i].answer = "ok" /\ Phase' = call[i].next.phase
      \/ Phase' = "Failed"
  BY <1>3 DEF Return, SetProgress, Phase, At, RemotePhases, DataPhases
<1>6. ASSUME Phase' \in Copying \cup {"CheckingTarget"}
      PROVE  ~Readable("target")
  <2>1. call[i].answer = "ok" /\ Phase' = call[i].next.phase /\ Phase # "UnlockingTarget"
    BY <1>3, <1>5, <1>6 DEF Copying, DataPhases, NextPhase
  <2>2. Phase \in Copying \cup {"CheckingTarget"} \/ Answered("LockingTarget")
    <3>1. CASE Phase = "LockingTarget"
      BY <1>2, <2>1, <3>1 DEF Answered, Phase
    <3>2. CASE Phase # "LockingTarget"
      BY <1>3, <3>2 DEF Copying, RemotePhases
    <3> QED
      BY <3>1, <3>2
  <2>3. ~Answered("UnlockingTarget")
    BY <1>1, <1>2, <2>1 DEF Answered, Phase
  <2> QED
    BY <2>2, <2>3 DEF SInv, LockedMeanwhile
<1>7. LockedMeanwhile'
  BY <1>1, <1>6, IdleFields DEF LockedMeanwhile, Answered, Readable
<1> QED
  BY <1>4, <1>7

(* Users and controllers leave the step in flight alone.                   *)
LEMMA OthersAdvance ==
  ASSUME SInv, UserNext \/ MigrateUserDataTo \/ MigrationStopTimer \/ PostUpgrade
  PROVE  StepsAdvance' /\ LockedMeanwhile'
<1>1. UNCHANGED <<call, api["target"]>>
  BY UpgradeSparesTarget
     DEF UserNext, SetTokens, StoreProfile, MigrateUserDataTo, MigrationStopTimer,
         SInv, OInv, IInv
<1>2. CASE migration' = migration
  BY <1>1, <1>2 DEF SInv, StepsAdvance, LockedMeanwhile, Answered, Phase, Readable
<1>3. CASE migration' # migration
  <2>0. MigrateUserDataTo \/ PostUpgrade
    BY <1>3 DEF UserNext, SetTokens, StoreProfile, MigrationStopTimer
  <2>1. \A i \in Steps : call[i] = Idle
    BY <2>0 DEF MigrateUserDataTo, PostUpgrade, SInv, OInv, StartsWithLocks, Phase
  <2>2. Phase' \in {"NoMigration", "Pending"}
    BY <2>0 DEF MigrateUserDataTo, PostUpgrade, Phase, At
  <2> QED
    BY <1>1, <2>1, <2>2, IdleFields
       DEF StepsAdvance, LockedMeanwhile, Answered, Copying, DataPhases
<1> QED
  BY <1>2, <1>3

(* Every step keeps the invariant of serial steps.                         *)
LEMMA NextSInv == OneStep /\ SInv /\ [Next]_vars => SInv'
<1> SUFFICES ASSUME OneStep, SInv, [Next]_vars
             PROVE  SInv'
  OBVIOUS
<1>1. OInv'
  BY NextOInv DEF SInv
<1>2. StepsAdvance' /\ LockedMeanwhile'
  <2>1. CASE UNCHANGED vars
    BY <2>1 DEF vars, SInv, StepsAdvance, LockedMeanwhile, Answered, Phase, Readable
  <2>2. CASE MigrationNext
    BY <2>2, LocalAdvances, SendAdvances, DeliverAdvances, ReturnAdvances DEF MigrationNext
  <2> QED
    BY <2>1, <2>2, OthersAdvance, DeliverAdvances DEF Next
<1> QED
  BY <1>1, <1>2 DEF SInv

(* With one step at a time the invariant of serial steps always holds.     *)
THEOREM SerialSteps == OneStep /\ Spec => []SInv
<1>1. OneStep /\ Init => SInv
  BY InitSInv
<1>2. OneStep /\ OneStep' /\ SInv /\ [Next]_vars => SInv'
  BY NextSInv
<1>3. OneStep => OneStep'
  BY DEF OneStep
<1> QED
  BY <1>1, <1>2, <1>3, PTL DEF Spec

(* What a step of a serial migration does to the progress.                 *)
LEMMA SerialStepAdvances ==
  ASSUME OneStep, SInv, [Next]_vars, migration' # migration, Phase' # "NoMigration"
  PROVE  Phase \notin {"Completed", "Failed"} /\ Later(migration, migration')
<1>1. CASE StepLocally
  <2>1. MakeThisReadonly \/ UnlockLocal
    BY <1>1 DEF StepLocally, Stop
  <2>2. migration' = At(NextPhase(migration.phase)) /\ Phase \in {"Pending", "Unlocking"}
    BY <2>1 DEF MakeThisReadonly, UnlockLocal, Phase
  <2> QED
    BY <2>2, NextIsLater DEF Later, At, Phase
<1>2. ASSUME NEW i \in Steps, Return(i)
      PROVE  Phase \notin {"Completed", "Failed"} /\ Later(migration, migration')
  <2>1. call[i] # Idle
    BY <1>2, IdleFields DEF Return
  <2>2. Phase \in RemotePhases /\ Later(migration, call[i].next)
    BY <2>1 DEF SInv, StepsAdvance, OInv, CallsAreSteps, Phase
  <2>3. migration' = call[i].next \/ migration' = At("Failed")
    BY <1>2 DEF Return, SetProgress
  <2>4. Later(migration, At("Failed"))
    BY <2>2, NextIsLater DEF Later, At, Phase
  <2> QED
    BY <2>2, <2>3, <2>4 DEF RemotePhases, DataPhases
<1>3. CASE MigrateUserDataTo
  BY <1>3 DEF MigrateUserDataTo, Phase, Later
<1>4. CASE MigrationNext
  BY <1>1, <1>2, <1>4 DEF MigrationNext, StepMigration, CallTarget, MigrateChunk, Send, Deliver
<1>5. CASE PostUpgrade
  BY <1>5 DEF PostUpgrade, Phase, At
<1>6. CASE UserNext \/ MigrationStopTimer \/ Reject \/ UNCHANGED vars
  BY <1>6 DEF UserNext, SetTokens, StoreProfile, MigrationStopTimer, Reject, vars
<1> QED
  BY <1>3, <1>4, <1>5, <1>6 DEF Next

(* The progress of a serial migration only moves forward, and an end of    *)
(* the migration is left only by an upgrade.                               *)
THEOREM SerialProgress == OneStep /\ Spec => ProgressAdvances
<1> DEFINE Advance ==
      migration' # migration /\ Phase' # "NoMigration"
        => Phase \notin {"Completed", "Failed"} /\ Later(migration, migration')
<1>1. OneStep /\ SInv /\ [Next]_vars => [Advance]_vars
  BY SerialStepAdvances
<1>2. ProgressAdvances <=> [][Advance]_vars
  BY PTL DEF ProgressAdvances
<1>3. OneStep => OneStep'
  BY DEF OneStep
<1> HIDE DEF Advance
<1> QED
  BY <1>1, <1>2, <1>3, SerialSteps, PTL DEF Spec

(* A delivered chunk of a serial migration repeats what a locked target    *)
(* holds already, and adds what it lacks.                                  *)
LEMMA SerialDelivery ==
  ASSUME OneStep, SInv, Deliver
  PROVE  \A s \in Stores : \A k \in DOMAIN db["target"][s] :
           /\ k \in DOMAIN db'["target"][s]
           /\ db'["target"][s][k] >= db["target"][s][k]
<1> DEFINE i == Head(requests)
<1>1. TypeOK /\ OInv /\ requests # <<>>
  BY DEF SInv, OInv, IInv, Deliver
<1>2. /\ i \in Steps /\ call[i] # Idle
      /\ ~Answered("UnlockingTarget")
  BY <1>1, HeadIsStep, NoOtherAnswer
<1>3. \A s \in Stores : \A k \in DOMAIN db["target"][s] : db["target"][s][k] \in Nat
  BY <1>1 DEF TypeOK, Canisters, IsMap, Times
<1>4. db' = db \/ TargetBulkUp(i)
  BY DEF Deliver, TargetSetsGuards, TargetReportsStats
<1> HIDE DEF i
<1>5. CASE db' = db
  BY <1>3, <1>5
<1>6. CASE TargetBulkUp(i)
  <2> DEFINE t == StoreOf(call[i].from.phase)
  <2>1. /\ call[i].from.phase \in DataPhases
        /\ db' = [db EXCEPT !["target"][t] = Overwrite(@, call[i].chunk)]
    BY <1>6 DEF TargetBulkUp
  <2>2. t \in Stores
    BY <2>1, ProgressType
  <2>3. IsCopyOfSource(t, call[i].chunk)
    BY <1>1, <1>2, <2>1 DEF OInv, CallsAreSteps
  <2>4. Phase \in Copying
    BY <1>2, <2>1 DEF SInv, StepsAdvance, Phase, Copying
  <2>5. IsCopyOfSource(t, db["target"][t])
    BY <1>1, <1>2, <2>2, <2>4
       DEF SInv, LockedMeanwhile, OInv, CopyWhileLocked, CheckedEmpty
  <2> HIDE DEF t
  <2>6. /\ db'["target"][t] = Overwrite(db["target"][t], call[i].chunk)
        /\ \A s \in Stores : s # t => db'["target"][s] = db["target"][s]
    BY <1>1, <2>1, <2>2 DEF TypeOK, Canisters
  <2>7. \A k \in DOMAIN db["target"][t] :
          /\ k \in DOMAIN db'["target"][t]
          /\ db'["target"][t][k] = db["target"][t][k]
    BY <2>3, <2>5, <2>6 DEF IsCopyOfSource, Overwrite
  <2> QED
    BY <1>3, <2>6, <2>7
<1> QED
  BY <1>4, <1>5, <1>6

(* bulk_up of a serial migration never replaces an entry by an older one,  *)
(* however often the migration is started again.                           *)
THEOREM SerialKeepsNewer == OneStep /\ Spec => NewerDataSurvives
<1> DEFINE Newer ==
      Deliver => \A s \in Stores : \A k \in DOMAIN db["target"][s] :
        /\ k \in DOMAIN db'["target"][s]
        /\ db'["target"][s][k] >= db["target"][s][k]
<1>1. OneStep /\ SInv => Newer
  BY SerialDelivery
<1>2. NewerDataSurvives <=> [][Newer]_vars
  BY PTL DEF NewerDataSurvives
<1>3. OneStep => OneStep'
  BY DEF OneStep
<1> HIDE DEF Newer
<1> QED
  BY <1>1, <1>2, <1>3, SerialSteps, PTL DEF Spec

-----------------------------------------------------------------------------
(* The refinement of Handover. *)

(* What the target holds of a source it agrees with in number is all of    *)
(* what the source holds.                                                  *)
LEMMA CopiesOfEqualSize ==
  ASSUME TypeOK, MapsByStore, Stats("target") = Stats("source"),
         \A s \in Stores : IsCopyOfSource(s, db["target"][s])
  PROVE  db["target"] = db["source"]
<1>1. ASSUME NEW s \in Stores
      PROVE  db["target"][s] = db["source"][s]
  <2> DEFINE f == db["target"][s]
             g == db["source"][s]
  <2>1. IsMap(f) /\ IsMap(g) /\ IsCopyOfSource(s, f)
    BY <1>1 DEF TypeOK, Canisters
  <2>2. IsFiniteSet(DOMAIN g) /\ DOMAIN f \subseteq DOMAIN g
    BY <2>1, MapsAreFinite DEF IsCopyOfSource
  <2>3. Cardinality(DOMAIN f) = Cardinality(DOMAIN g)
    <3>1. Stats("target")[s] = Stats("source")[s]
      OBVIOUS
    <3> QED
      BY <3>1 DEF Stats
  <2>4. DOMAIN f = DOMAIN g
    <3> HIDE DEF f, g
    <3> QED
      BY <2>2, <2>3, FS_Subset
  <2>5. \A k \in DOMAIN f : f[k] = g[k]
    BY <2>1 DEF IsCopyOfSource
  <2> HIDE DEF f, g
  <2>6. f = g
    BY <2>1, <2>4, <2>5 DEF IsMap
  <2> QED
    BY <2>6 DEF f, g
<1>2. /\ db["target"] = [s \in Stores |-> db["target"][s]]
      /\ db["source"] = [s \in Stores |-> db["source"][s]]
  BY DEF MapsByStore, Canisters
<1> QED
  BY <1>1, <1>2

(* Stable maps are written one at a time, or two of one canister.          *)
LEMMA NextMapsByStore == TypeOK /\ MapsByStore /\ [Next]_vars => MapsByStore'
<1> SUFFICES ASSUME TypeOK, MapsByStore, [Next]_vars
             PROVE  MapsByStore'
  OBVIOUS
<1>1. ASSUME NEW c \in Canisters, NEW s \in Stores, NEW f, db' = [db EXCEPT ![c][s] = f]
      PROVE  MapsByStore'
  BY <1>1 DEF TypeOK, MapsByStore
<1>2. ASSUME NEW c \in Canisters, NEW u \in Users, StoreProfile(c, u)
      PROVE  MapsByStore'
  <2>1. db' = [db EXCEPT ![c] = StoreNew(db[c], u, clock')]
    BY <1>2 DEF StoreProfile
  <2>2. PICK f, g : StoreNew(db[c], u, clock') =
                      [db[c] EXCEPT !["user_profile_updated"] = f, !["user_profile"] = g]
    BY DEF StoreNew
  <2>3. StoreNew(db[c], u, clock') = [s \in Stores |-> StoreNew(db[c], u, clock')[s]]
    BY <2>2 DEF TypeOK
  <2> QED
    BY <2>1, <2>3 DEF TypeOK, MapsByStore
<1>3. CASE UserNext
  <2>1. ASSUME NEW c \in Canisters, NEW u \in Users, NEW s \in {"user_token", "custom_token"},
               SetTokens(c, s, u)
        PROVE  MapsByStore'
    BY <1>1, <2>1 DEF SetTokens, Stores
  <2> QED
    BY <1>2, <1>3, <2>1 DEF UserNext
<1>4. CASE Deliver
  <2>1. CASE TargetBulkUp(Head(requests))
    BY <1>1, <2>1, ProgressType DEF TargetBulkUp, Canisters
  <2>2. CASE db' = db
    BY <2>2 DEF MapsByStore
  <2> QED
    BY <1>4, <2>1, <2>2 DEF Deliver, TargetSetsGuards, TargetReportsStats
<1>5. CASE db' = db
  BY <1>5 DEF MapsByStore
<1> QED
  BY <1>3, <1>4, <1>5
     DEF Next, MigrationNext, StepLocally, StepMigration, CallTarget, MigrateChunk, Send,
         Return, Reject, MigrateUserDataTo, MigrationStopTimer, PostUpgrade, vars

(* With nothing in flight and before the target is unlocked, it is not     *)
(* open to users because of the migration.                                 *)
LEMMA NotOpenedYet ==
  ASSUME FInv, Phase \notin {"Unlocking", "Completed"}, ~Answered("UnlockingTarget")
  PROVE  ~OpenedByMigration
BY DEF FInv, OpenedInTurn, Unlocked, Answered

(* Everything holds initially.                                             *)
LEMMA InitFInv == Init => FInv
<1> SUFFICES ASSUME Init PROVE FInv
  OBVIOUS
<1>1. SInv
  BY InitSInv
<1>2. (\A i \in Steps : call[i] = Idle) /\ Phase = "NoMigration"
  BY DEF Init, Phase, At
<1>3. OpenUntilFrozen /\ OpenedInTurn
  BY DEF Init, OpenUntilFrozen, OpenedInTurn, OpenedByMigration, Writable, Canisters
<1>4. Compared
  BY <1>2, IdleFields DEF Compared, Answered
<1>5. MapsByStore
  <2>1. InitialMaps = [s \in Stores |-> InitialMaps[s]]
    <3> DEFINE at(s) ==
          CASE s = "user_token" -> [k \in {0} \X TokenOwners |-> 0]
            [] s = "custom_token" -> [k \in {0} \X CustomOwners |-> 0]
            [] s = "user_profile_updated" ->
                 [k \in {0} \X DOMAIN ProfileTime |-> ProfileTime[k[2]]]
            [] s = "user_profile" ->
                 [k \in {<<ProfileTime[u], u>> : u \in DOMAIN ProfileTime} |-> 0]
    <3>1. InitialMaps = [s \in Stores |-> at(s)]
      BY DEF InitialMaps
    <3> HIDE DEF at
    <3> QED
      BY <3>1
  <2> DEFINE empty == [s \in Stores |-> NoData]
  <2>2. empty = [s \in Stores |-> empty[s]]
    OBVIOUS
  <2>3. \A c \in Canisters : db[c] = InitialMaps \/ db[c] = empty
    BY DEF Init
  <2> HIDE DEF empty
  <2> QED
    BY <2>1, <2>2, <2>3 DEF MapsByStore
<1> QED
  BY <1>1, <1>3, <1>4, <1>5 DEF FInv

(* A write on the source comes before anything is compared, one on the     *)
(* target after it was unlocked.                                           *)
LEMMA UserKeepsCompared ==
  ASSUME OneStep, FInv, UserNext
  PROVE  OpenUntilFrozen' /\ OpenedInTurn' /\ Compared'
<1>1. UNCHANGED <<api, migration, call>>
  BY DEF UserNext, SetTokens, StoreProfile
<1>2. PICK c \in Canisters : Writable(c) /\ (c = "target" => db'["source"] = db["source"])
  BY DEF UserNext, SetTokens, StoreProfile, MayWrite, FInv, SInv, OInv, IInv, TypeOK, Canisters
<1>3. OpenUntilFrozen' /\ OpenedInTurn'
  BY <1>1 DEF FInv, OpenUntilFrozen, OpenedInTurn, OpenedByMigration, Unlocked, Phase, Writable
<1>4. CASE c = "source"
  <2>1. Phase \in {"NoMigration", "Pending"} /\ \A i \in Steps : call[i] = Idle
    BY <1>2, <1>4 DEF FInv, SInv, OInv, IInv, SourceFrozen, StartsWithLocks
  <2> QED
    BY <1>1, <1>3, <2>1, IdleFields DEF Compared, Answered, Phase
<1>5. CASE c = "target"
  <2>1. Stats("source")' = Stats("source")
    BY <1>2, <1>5 DEF Stats
  <2>2. Readable("target")
    BY <1>2, <1>5 DEF Writable, Readable
  <2>3. Answered("CheckingDataMigration") => Phase = "CheckingDataMigration"
    BY IdleFields DEF Answered, FInv, SInv, StepsAdvance, Phase
  <2>4. Phase = "UnlockingTarget" \/ Answered("CheckingDataMigration") => Answered("UnlockingTarget")
    BY <2>2, <2>3 DEF FInv, SInv, LockedMeanwhile, Copying
  <2>5. \A phase : Answered(phase)' = Answered(phase)
    BY <1>1 DEF Answered
  <2> QED
    BY <1>1, <1>3, <2>1, <2>4, <2>5 DEF FInv, Compared, Phase
<1> QED
  BY <1>4, <1>5 DEF Canisters

(* Without an upgrade, a controller can only start the migration and stop  *)
(* its timer.                                                              *)
LEMMA ControllerKeepsCompared ==
  ASSUME FInv, MigrateUserDataTo \/ MigrationStopTimer
  PROVE  OpenUntilFrozen' /\ OpenedInTurn' /\ Compared'
<1>1. UNCHANGED <<api, db, call>>
  BY DEF MigrateUserDataTo, MigrationStopTimer
<1>2. CASE MigrationStopTimer
  BY <1>1, <1>2
     DEF MigrationStopTimer, FInv, OpenUntilFrozen, OpenedInTurn, OpenedByMigration,
         Unlocked, Compared, Answered, Stats, Phase, Writable
<1>3. CASE MigrateUserDataTo
  <2>1. Phase = "NoMigration" /\ Phase' = "Pending" /\ \A i \in Steps : call[i] = Idle
    BY <1>3 DEF MigrateUserDataTo, Phase, At, FInv, SInv, OInv, StartsWithLocks
  <2>2. ~OpenedByMigration
    BY <2>1, NotOpenedYet, IdleFields DEF Answered
  <2> QED
    BY <1>1, <2>1, <2>2, IdleFields
       DEF FInv, OpenUntilFrozen, OpenedInTurn, OpenedByMigration, Compared, Answered, Writable
<1> QED
  BY <1>2, <1>3

(* The local phases come before the lock and after the unlock.             *)
LEMMA LocalKeepsCompared ==
  ASSUME OneStep, FInv, StepLocally
  PROVE  OpenUntilFrozen' /\ OpenedInTurn' /\ Compared'
<1>1. (\A i \in Steps : call[i] = Idle) /\ UNCHANGED <<db, call>>
  BY DEF OneStep, StepLocally
<1>2. api'["target"] = api["target"]
  BY DEF StepLocally, MakeThisReadonly, UnlockLocal, Stop, SetGuards,
         FInv, SInv, OInv, IInv, TypeOK, Canisters
<1>3. Phase' \in {"LockingTarget", "Completed", "Failed"}
  BY DEF StepLocally, MakeThisReadonly, UnlockLocal, Stop, Phase, At, NextPhase
<1>4. OpenUntilFrozen' /\ Compared'
  BY <1>1, <1>3, IdleFields DEF OpenUntilFrozen, Compared, Answered
<1>5. Phase' # "Completed" => Phase \notin {"Unlocking", "Completed"}
  BY DEF StepLocally, MakeThisReadonly, UnlockLocal, Stop, Phase, At, NextPhase
<1>6. OpenedByMigration => Phase \in {"Unlocking", "Completed"}
  BY <1>1, IdleFields DEF FInv, OpenedInTurn, Unlocked
<1>7. OpenedInTurn'
  BY <1>2, <1>3, <1>5, <1>6 DEF OpenedInTurn, OpenedByMigration, Unlocked
<1> QED
  BY <1>4, <1>7

(* The statistics to compare are those of the source.                      *)
LEMMA SendKeepsCompared ==
  ASSUME OneStep, FInv, NEW i \in Steps, StepMigration(i)
  PROVE  OpenUntilFrozen' /\ OpenedInTurn' /\ Compared'
<1>1. PICK next, chunk : Send(i, next, chunk) /\ migration.phase \in RemotePhases
  BY DEF StepMigration, CallTarget, MigrateChunk, RemotePhases
<1>2. /\ UNCHANGED <<api, db, migration>> /\ call[i] = Idle
      /\ call'[i] = Waiting(next, chunk)
      /\ \A j \in Steps : j = i
  BY <1>1 DEF Send, FInv, SInv, OInv, IInv, TypeOK, OneStep
<1>3. Phase \notin {"Unlocking", "Completed"} /\ \A phase : ~Answered(phase)
  BY <1>1, <1>2, IdleFields DEF Answered, Phase, RemotePhases, DataPhases
<1>4. OpenUntilFrozen' /\ OpenedInTurn'
  BY <1>2, <1>3, NotOpenedYet
     DEF FInv, OpenUntilFrozen, OpenedInTurn, OpenedByMigration, Phase, Writable
<1>5. /\ call'[i].stats = Stats("source") /\ call'[i].answer = "waiting"
      /\ Stats("source")' = Stats("source") /\ Stats("target")' = Stats("target")
      /\ Phase' = Phase
  BY <1>2 DEF Waiting, Stats, Phase
<1>6. \A j \in Steps : call'[j].stats = Stats("source")'
  BY <1>2, <1>5
<1>7. \A phase : ~Answered(phase)'
  BY <1>2, <1>5 DEF Answered
<1>8. Phase = "UnlockingTarget" => Stats("target") = Stats("source")
  BY <1>3 DEF FInv, Compared
<1>9. Compared'
  BY <1>5, <1>6, <1>7, <1>8 DEF Compared
<1> QED
  BY <1>4, <1>9

(* What the target does with the request in flight.                        *)
LEMMA AnswerKeepsCompared ==
  ASSUME OneStep, FInv, Deliver \/ Reject
  PROVE  OpenUntilFrozen' /\ OpenedInTurn' /\ Compared'
<1> DEFINE i == Head(requests)
<1>1. TypeOK /\ OInv /\ requests # <<>> /\ UNCHANGED migration
  BY DEF FInv, SInv, OInv, IInv, Deliver, Reject
<1>2. /\ i \in Steps /\ call[i] # Idle
      /\ \A j \in Steps : j = i
      /\ \A phase : ~Answered(phase)
  BY <1>1, HeadIsStep, NoOtherAnswer DEF OneStep
<1>3. call[i].from = migration /\ Phase \in RemotePhases
  BY <1>2 DEF FInv, SInv, OInv, StepsAdvance, CallsAreSteps, Phase
<1>4. PICK ok :
        /\ Answer(i, ok)
        /\ \/ Phase = "LockingTarget" /\ db' = db /\ SetGuards("target", "Disabled", "Disabled")
           \/ /\ Phase = "UnlockingTarget" /\ ok /\ db' = db
              /\ SetGuards("target", "Disabled", "Enabled")
           \/ /\ Phase = "CheckingDataMigration" /\ UNCHANGED <<api, db>>
              /\ ok => Stats("target") = call[i].stats
           \/ Phase \notin {"UnlockingTarget", "CheckingDataMigration"} /\ api' = api
                /\ db'["source"] = db["source"]
           \/ ~ok /\ UNCHANGED <<api, db>>
  <2>1. CASE TargetSetsGuards(i)
    BY <1>3, <2>1 DEF TargetSetsGuards, Phase
  <2>2. CASE TargetReportsStats(i)
    BY <1>3, <2>2 DEF TargetReportsStats, Phase
  <2>3. CASE TargetBulkUp(i)
    BY <1>1, <1>3, <2>3 DEF TargetBulkUp, Phase, DataPhases, TypeOK, Canisters
  <2>4. CASE Reject
    BY <2>4 DEF Reject
  <2> QED
    BY <2>1, <2>2, <2>3, <2>4 DEF Deliver
<1>5. /\ call'[i].from = call[i].from
      /\ call'[i].answer = IF ok THEN "ok" ELSE "error"
  BY <1>1, <1>2, <1>4, AnswerEffect
<1>6. call'[i].stats = call[i].stats
  <2>1. call[i] = [from |-> call[i].from, next |-> call[i].next, chunk |-> call[i].chunk,
                   stats |-> call[i].stats, answer |-> call[i].answer]
    BY <1>1, <1>2 DEF TypeOK, IsCall
  <2> QED
    BY <1>1, <1>2, <1>4, <2>1 DEF Answer, TypeOK
<1> HIDE DEF i
<1>7. /\ api'["source"] = api["source"] /\ db'["source"] = db["source"]
      /\ Stats("source")' = Stats("source")
  BY <1>1, <1>4 DEF SetGuards, TypeOK, Canisters, Stats
<1>8. OpenUntilFrozen'
  BY <1>1, <1>3 DEF OpenUntilFrozen, Phase, RemotePhases, DataPhases
<1>9. OpenedInTurn'
  <2>1. ~OpenedByMigration
    BY <1>2, <1>3, NotOpenedYet DEF FInv, RemotePhases, DataPhases
  <2>2. CASE Phase = "LockingTarget" /\ SetGuards("target", "Disabled", "Disabled")
    BY <1>1, <2>2 DEF SetGuards, TypeOK, Canisters, OpenedInTurn, OpenedByMigration
  <2>3. CASE Phase = "UnlockingTarget" /\ ok
    BY <1>2, <1>3, <1>5, <2>3 DEF OpenedInTurn, Unlocked, Phase
  <2>4. CASE api' = api
    BY <2>1, <2>4 DEF OpenedInTurn, OpenedByMigration
  <2> QED
    BY <1>4, <2>2, <2>3, <2>4
<1>10. Compared'
  <2>1. \A j \in Steps : call'[j].from.phase = "CheckingDataMigration" =>
          call'[j].stats = Stats("source")'
    BY <1>2, <1>5, <1>6, <1>7 DEF FInv, Compared
  <2>2. Answered("CheckingDataMigration")' => Phase = "CheckingDataMigration" /\ ok
    BY <1>2, <1>3, <1>5 DEF Answered, Phase
  <2>3. Phase = "UnlockingTarget" /\ ok => Answered("UnlockingTarget")'
    BY <1>2, <1>3, <1>5 DEF Answered, Phase
  <2>4. Phase' = Phase
    BY <1>1 DEF Phase
  <2>5. CASE Phase = "CheckingDataMigration"
    <3>1. ok => UNCHANGED db /\ Stats("target") = Stats("source")
      BY <1>2, <1>3, <1>4, <2>5 DEF FInv, Compared, Phase
    <3> QED
      BY <2>1, <2>2, <2>4, <2>5, <3>1 DEF Compared, Stats
  <2>6. CASE Phase = "UnlockingTarget"
    <3>1. ~ok => UNCHANGED db /\ Stats("target") = Stats("source")
      BY <1>2, <1>4, <2>6 DEF FInv, Compared
    <3> QED
      BY <2>1, <2>3, <2>6, <3>1 DEF Compared, Stats
  <2>7. CASE Phase \notin {"CheckingDataMigration", "UnlockingTarget"}
    BY <2>1, <2>2, <2>4, <2>7 DEF Compared
  <2> QED
    BY <2>5, <2>6, <2>7
<1> QED
  BY <1>8, <1>9, <1>10

(* A step that returns carries its answer over to the progress.            *)
LEMMA ReturnKeepsCompared ==
  ASSUME OneStep, FInv, NEW i \in Steps, Return(i)
  PROVE  OpenUntilFrozen' /\ OpenedInTurn' /\ Compared'
<1>1. UNCHANGED <<api, db>> /\ call'[i] = Idle /\ \A j \in Steps : j = i
  BY DEF Return, OneStep, FInv, SInv, OInv, IInv, TypeOK
<1>2. call[i] # Idle /\ call[i].from = migration
  BY IdleFields DEF Return, FInv, SInv, StepsAdvance
<1>3. /\ Phase \in RemotePhases
      /\ \/ call[i].next.phase = NextPhase(Phase)
         \/ Phase \in DataPhases /\ call[i].next.phase = Phase
  BY <1>2 DEF FInv, SInv, OInv, CallsAreSteps, Phase
<1>4. \/ call[i].answer = "ok" /\ Phase' = call[i].next.phase
      \/ call[i].answer = "error" /\ Phase' = "Failed"
  BY <1>3 DEF Return, SetProgress, Phase, At, RemotePhases, DataPhases
<1>5. \A phase : Answered(phase) => Phase = phase /\ call[i].answer = "ok"
  BY <1>1, <1>2 DEF Answered, Phase
<1>6. OpenUntilFrozen'
  BY <1>3, <1>4 DEF OpenUntilFrozen, NextPhase, RemotePhases, DataPhases
<1>7. OpenedInTurn'
  <2>1. CASE Answered("UnlockingTarget")
    <3>1. Phase' = "Unlocking"
      BY <1>3, <1>4, <1>5, <2>1 DEF NextPhase, DataPhases
    <3> QED
      BY <3>1 DEF OpenedInTurn, Unlocked
  <2>2. CASE ~Answered("UnlockingTarget")
    <3>1. ~OpenedByMigration
      BY <1>3, <2>2, NotOpenedYet DEF RemotePhases, DataPhases
    <3> QED
      BY <1>1, <3>1 DEF OpenedInTurn, OpenedByMigration
  <2> QED
    BY <2>1, <2>2
<1>8. Compared'
  <2>1. \A phase : phase # "NoMigration" => ~Answered(phase)'
    BY <1>1, IdleFields DEF Answered
  <2>2. Phase' = "UnlockingTarget" => Phase = "CheckingDataMigration" /\ call[i].answer = "ok"
    BY <1>3, <1>4 DEF NextPhase, RemotePhases, DataPhases
  <2>3. Phase' = "UnlockingTarget" => Stats("target") = Stats("source")
    BY <1>2, <1>5, <2>2 DEF FInv, Compared, Answered, Phase
  <2> QED
    BY <1>1, <2>1, <2>3, IdleFields DEF Compared, Stats
<1> QED
  BY <1>6, <1>7, <1>8

(* Without upgrades every step keeps what the refinement needs.            *)
LEMMA NextFInv == OneStep /\ MaxUpgrades = 0 /\ FInv /\ [Next]_vars => FInv'
<1> SUFFICES ASSUME OneStep, MaxUpgrades = 0, FInv, [Next]_vars
             PROVE  FInv'
  OBVIOUS
<1>1. SInv' /\ MapsByStore'
  BY NextSInv, NextMapsByStore DEF FInv, SInv, OInv, IInv
<1>2. ~PostUpgrade
  BY DEF PostUpgrade, FInv, SInv, OInv, IInv, TypeOK
<1>3. OpenUntilFrozen' /\ OpenedInTurn' /\ Compared'
  <2>1. CASE UNCHANGED vars
    BY <2>1 DEF vars, FInv, OpenUntilFrozen, OpenedInTurn, OpenedByMigration, Unlocked,
                Compared, Answered, Stats, Phase, Writable
  <2>2. CASE MigrationNext
    BY <2>2, LocalKeepsCompared, SendKeepsCompared, AnswerKeepsCompared, ReturnKeepsCompared
       DEF MigrationNext
  <2> QED
    BY <1>2, <2>1, <2>2, UserKeepsCompared, ControllerKeepsCompared, AnswerKeepsCompared DEF Next
<1> QED
  BY <1>1, <1>3 DEF FInv

(* What the invariant says of the home of the data.                        *)
LEMMA HomeOfTheData ==
  ASSUME OneStep, FInv
  PROVE  /\ Writable("source") => ~OpenedByMigration
         /\ Phase \in RemotePhases /\ ~Answered("UnlockingTarget") =>
              ~OpenedByMigration /\ DataHome = "nowhere"
<1>1. Writable("source") => Phase \in {"NoMigration", "Pending"} /\ \A i \in Steps : call[i] = Idle
  BY DEF FInv, SInv, OInv, IInv, SourceFrozen, StartsWithLocks
<1>2. Writable("source") => ~Answered("UnlockingTarget")
  BY <1>1, IdleFields DEF Answered
<1>3. Writable("source") => ~OpenedByMigration
  BY <1>1, <1>2, NotOpenedYet
<1>4. Phase \in RemotePhases => Phase \notin {"Unlocking", "Completed", "NoMigration", "Pending"}
  BY DEF RemotePhases, DataPhases
<1> QED
  BY <1>1, <1>3, <1>4, NotOpenedYet DEF DataHome

(* A delivery opens the target on the data of the source, or changes       *)
(* nothing users can see.                                                  *)
LEMMA DeliverImplements ==
  ASSUME OneStep, FInv, Deliver
  PROVE  [H!Next]_(H!vars)
<1> DEFINE i == Head(requests)
<1>1. TypeOK /\ OInv /\ requests # <<>>
  BY DEF FInv, SInv, OInv, IInv, Deliver
<1>2. i \in Steps /\ call[i] # Idle /\ ~Answered("UnlockingTarget")
  BY <1>1, HeadIsStep, NoOtherAnswer
<1>3. call[i].from.phase = Phase /\ Phase \in RemotePhases
  BY <1>2 DEF FInv, SInv, OInv, StepsAdvance, CallsAreSteps, Phase
<1>4. ~OpenedByMigration /\ DataHome = "nowhere" /\ UserData = db["source"]
  BY <1>2, <1>3, HomeOfTheData DEF UserData
<1>5. ~Writable("source")
  BY <1>3 DEF FInv, SInv, OInv, IInv, SourceFrozen, RemotePhases, DataPhases
<1>6. api'["source"] = api["source"] /\ db'["source"] = db["source"]
  BY <1>1 DEF Deliver, TargetSetsGuards, TargetReportsStats, TargetBulkUp, SetGuards,
              TypeOK, Canisters
<1>7. ~Writable("source")'
  BY <1>5, <1>6 DEF Writable
<1> HIDE DEF i
<1>8. CASE Phase = "UnlockingTarget" /\ db' = db /\ SetGuards("target", "Disabled", "Enabled")
  <2>1. OpenedByMigration'
    BY <1>1, <1>8 DEF SetGuards, TypeOK, Canisters, OpenedByMigration
  <2>2. Stats("target") = Stats("source")
    BY <1>2, <1>8 DEF FInv, Compared
  <2>3. \A s \in Stores : IsCopyOfSource(s, db["target"][s])
    BY <1>2, <1>8 DEF FInv, SInv, LockedMeanwhile, OInv, CopyWhileLocked, CheckedEmpty, Copying
  <2>4. db["target"] = db["source"]
    BY <1>1, <2>2, <2>3, CopiesOfEqualSize DEF FInv
  <2>5. H!Open
    BY <1>4, <1>8, <2>1, <2>4 DEF H!Open, DataHome, UserData
  <2> QED
    BY <2>5 DEF H!Next
<1>9. CASE api' = api \/ SetGuards("target", "Disabled", "Disabled")
  <2>1. ~OpenedByMigration'
    BY <1>1, <1>4, <1>9 DEF SetGuards, TypeOK, Canisters, OpenedByMigration
  <2>2. UNCHANGED <<DataHome, UserData>>
    BY <1>4, <1>6, <1>7, <2>1 DEF DataHome, UserData
  <2> QED
    BY <2>2 DEF H!vars
<1>10. \/ Phase = "UnlockingTarget" /\ db' = db /\ SetGuards("target", "Disabled", "Enabled")
       \/ api' = api \/ SetGuards("target", "Disabled", "Disabled")
  BY <1>3 DEF Deliver, TargetSetsGuards, TargetReportsStats, TargetBulkUp, i
<1> QED
  BY <1>8, <1>9, <1>10

(* Users write on the home of the data only, or on a target that is not    *)
(* yet part of the migration.                                              *)
LEMMA UserImplements ==
  ASSUME OneStep, FInv, UserNext
  PROVE  [H!Next]_(H!vars)
<1>1. UNCHANGED api
  BY DEF UserNext, SetTokens, StoreProfile
<1>2. PICK c \in Canisters : Writable(c) /\ (c = "target" => db'["source"] = db["source"])
  BY DEF UserNext, SetTokens, StoreProfile, MayWrite, FInv, SInv, OInv, IInv, TypeOK, Canisters
<1>3. DataHome' = DataHome /\ OpenedByMigration' = OpenedByMigration
  BY <1>1 DEF DataHome, OpenedByMigration, Writable
<1>4. CASE DataHome # "nowhere"
  BY <1>3, <1>4 DEF H!Write, H!Next
<1>5. CASE DataHome = "nowhere"
  <2>1. ~OpenedByMigration /\ c = "target"
    BY <1>2, <1>5 DEF DataHome, Canisters
  <2> QED
    BY <1>2, <1>3, <2>1 DEF UserData, H!vars
<1> QED
  BY <1>4, <1>5

(* Locking the source takes the home away from the data; unlocking it for  *)
(* signing gives it none.                                                  *)
LEMMA LocalImplements ==
  ASSUME OneStep, FInv, StepLocally
  PROVE  [H!Next]_(H!vars)
<1>1. TypeOK /\ UNCHANGED db
  BY DEF FInv, SInv, OInv, IInv, StepLocally
<1>2. api'["target"] = api["target"]
  BY <1>1 DEF StepLocally, MakeThisReadonly, UnlockLocal, Stop, SetGuards, TypeOK, Canisters
<1>3. OpenedByMigration' = OpenedByMigration /\ UserData' = UserData
  BY <1>1, <1>2 DEF OpenedByMigration, UserData
<1>4. CASE MakeThisReadonly
  <2>1. Writable("source")
    BY <1>4 DEF MakeThisReadonly, FInv, OpenUntilFrozen, Phase
  <2>2. ~Writable("source")'
    BY <1>1, <1>4 DEF MakeThisReadonly, SetGuards, TypeOK, Canisters, Writable
  <2>3. H!Freeze
    BY <1>3, <2>1, <2>2, HomeOfTheData DEF H!Freeze, DataHome
  <2> QED
    BY <2>3 DEF H!Next
<1>5. CASE UnlockLocal
  <2>1. ~Writable("source")
    BY <1>5 DEF UnlockLocal, FInv, SInv, OInv, IInv, SourceFrozen, Phase
  <2>2. ~Writable("source")'
    BY <1>1, <1>5 DEF UnlockLocal, SetGuards, TypeOK, Canisters, Writable
  <2> QED
    BY <1>3, <2>1, <2>2 DEF DataHome, H!vars
<1>6. CASE Stop
  BY <1>3, <1>6 DEF Stop, DataHome, Writable, H!vars
<1> QED
  BY <1>4, <1>5, <1>6 DEF StepLocally

(* Every step of a serial migration is a step of the handover.             *)
LEMMA StepImplements ==
  ASSUME OneStep, MaxUpgrades = 0, FInv, [Next]_vars
  PROVE  [H!Next]_(H!vars)
<1>1. CASE UNCHANGED <<api, db>>
  BY <1>1 DEF DataHome, OpenedByMigration, UserData, Writable, H!vars
<1>2. CASE UserNext \/ StepLocally \/ Deliver
  BY <1>2, UserImplements, LocalImplements, DeliverImplements
<1>3. ~PostUpgrade
  BY DEF PostUpgrade, FInv, SInv, OInv, IInv, TypeOK
<1> QED
  BY <1>1, <1>2, <1>3 DEF Next, MigrationNext, StepMigration, CallTarget, MigrateChunk, Send,
     Return, Reject, MigrateUserDataTo, MigrationStopTimer, vars

(* The migration starts with the data at home on the source.               *)
LEMMA InitImplements == Init => H!Init
BY DEF Init, H!Init, DataHome, OpenedByMigration, Writable, Canisters

(* A migration whose steps do not overlap, on a source that is not         *)
(* upgraded meanwhile, implements the atomic handover of the user data.    *)
THEOREM SerialHandsOver == OneStep /\ MaxUpgrades = 0 /\ Spec => HandsOver
<1> DEFINE Serial == OneStep /\ MaxUpgrades = 0
<1>1. Init => FInv /\ H!Init
  BY InitFInv, InitImplements
<1>2. Serial /\ FInv /\ [Next]_vars => FInv' /\ [H!Next]_(H!vars)
  BY NextFInv, StepImplements
<1>3. Serial => Serial'
  BY DEF OneStep
<1>4. Serial /\ Spec => H!Spec
  <2> HIDE DEF Serial
  <2> QED
    BY <1>1, <1>2, <1>3, PTL DEF Spec, H!Spec
<1> QED
  BY <1>4 DEF HandsOver

=============================================================================
