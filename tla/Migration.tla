------------------------------ MODULE Migration ------------------------------
(***************************************************************************)
(* Migration of all user data from one backend canister (the source) to    *)
(* another instance of the same canister (the target):                     *)
(* src/backend/src/lib.rs, migrate.rs, migrate/steps.rs and the phases in   *)
(* src/shared/src/impls.rs.                                                *)
(*                                                                         *)
(* The source runs step_migration from an interval timer of period zero,   *)
(* and controllers may call it as well.  A step copies the progress, may   *)
(* await one call to the target, and only then stores the next progress,   *)
(* so several steps can be in flight.  The Internet Computer delivers the  *)
(* requests of one canister to another in order; answers come back in any  *)
(* order, and a call may be rejected without having had an effect.         *)
(*                                                                         *)
(* Every stable map is a function from keys to write stamps.  A key is a   *)
(* pair <<time, principal>> ordered lexicographically; only the profile    *)
(* map uses the time, the other maps are keyed by principal alone.         *)
(***************************************************************************)
EXTENDS Integers, Sequences, FiniteSets

CONSTANTS
  Users,          \* principals of the users, numbered in their order
  TokenOwners,    \* users with an entry in user_token at the start
  CustomOwners,   \* users with an entry in custom_token at the start
  ProfileTime,    \* the users with a profile at the start, and its timestamp
  ChunkSize,      \* chunk_size of the next_*_chunk functions
  Steps,          \* step executions that can be in flight at the same time
  StartClock,     \* the time at the start, after every timestamp stored so far
  MaxClock,       \* bound: last write stamp
  MaxUpgrades     \* bound: upgrades of the source canister

ASSUME UsersAssumption == Users \subseteq Nat /\ IsFiniteSet(Users)
ASSUME OwnersAssumption ==
  /\ TokenOwners \subseteq Users
  /\ CustomOwners \subseteq Users
  /\ DOMAIN ProfileTime \subseteq Users
  /\ StartClock \in Nat
  /\ ProfileTime \in [DOMAIN ProfileTime -> 0..StartClock]
ASSUME BoundsAssumption ==
  /\ ChunkSize \in Nat \ {0}
  /\ MaxClock \in Nat /\ StartClock <= MaxClock
  /\ MaxUpgrades \in Nat

VARIABLES
  api,        \* config.api of each canister
  db,         \* the stable maps of each canister
  migration,  \* State.migration of the source: None or the progress
  timer,      \* is the migration timer of the source set?
  call,       \* the suspended step_migration executions
  requests,   \* calls on their way to the target, in order
  clock,      \* stamp of the last write by a user
  upgrades    \* number of upgrades of the source so far

vars == <<api, db, migration, timer, call, requests, clock, upgrades>>

-----------------------------------------------------------------------------
(* Data. *)

Canisters == {"source", "target"}
Stores == {"user_token", "custom_token", "user_profile_updated", "user_profile"}

ApiEnabled == {"Enabled", "ReadOnly", "Disabled"}
Guards == [threshold_key : ApiEnabled, user_data : ApiEnabled]
Readable(c) == api[c].user_data \in {"Enabled", "ReadOnly"}
Writable(c) == api[c].user_data = "Enabled"

Times == 0..MaxClock
Keys == Times \X Users
IsMap(f) == DOMAIN f \subseteq Keys /\ f \in [DOMAIN f -> Times]

Before(k, l) == k[1] < l[1] \/ (k[1] = l[1] /\ k[2] < l[2])

Insert(f, k, v) == [x \in DOMAIN f \cup {k} |-> IF x = k THEN v ELSE f[x]]
Remove(f, k) == [x \in DOMAIN f \ {k} |-> f[x]]
Overwrite(f, g) ==
  [x \in DOMAIN f \cup DOMAIN g |-> IF x \in DOMAIN g THEN g[x] ELSE f[x]]

NoData == [k \in {} |-> 0]

Stats(c) == [s \in Stores |-> Cardinality(DOMAIN db[c][s])]
EmptyStats == [s \in Stores |-> 0]

-----------------------------------------------------------------------------
(* State.migration: "NoMigration" for Rust's None, else the phase, and in  *)
(* the four data phases the last key whose chunk has been acknowledged     *)
(* (Start where Rust has None).                                            *)

Start == <<-1, 0>>

DataPhases == {"MigratedUserTokensUpTo", "MigratedCustomTokensUpTo",
               "MigratedUserTimestampsUpTo", "MigratedUserProfilesUpTo"}
RemotePhases == DataPhases \cup
  {"LockingTarget", "CheckingTarget", "CheckingDataMigration", "UnlockingTarget"}
Phases == RemotePhases \cup
  {"NoMigration", "Pending", "Unlocking", "Completed", "Failed"}

StoreOf(phase) ==
  CASE phase = "MigratedUserTokensUpTo" -> "user_token"
    [] phase = "MigratedCustomTokensUpTo" -> "custom_token"
    [] phase = "MigratedUserTimestampsUpTo" -> "user_profile_updated"
    [] phase = "MigratedUserProfilesUpTo" -> "user_profile"

At(phase) == [phase |-> phase, upto |-> Start]
Progress == [phase : Phases, upto : Keys \cup {Start}]

NextPhase(phase) ==
  CASE phase = "Pending" -> "LockingTarget"
    [] phase = "LockingTarget" -> "CheckingTarget"
    [] phase = "CheckingTarget" -> "MigratedUserTokensUpTo"
    [] phase = "MigratedUserTokensUpTo" -> "MigratedCustomTokensUpTo"
    [] phase = "MigratedCustomTokensUpTo" -> "MigratedUserTimestampsUpTo"
    [] phase = "MigratedUserTimestampsUpTo" -> "MigratedUserProfilesUpTo"
    [] phase = "MigratedUserProfilesUpTo" -> "CheckingDataMigration"
    [] phase = "CheckingDataMigration" -> "UnlockingTarget"
    [] phase = "UnlockingTarget" -> "Unlocking"
    [] phase \in {"Unlocking", "Completed"} -> "Completed"
    [] phase = "Failed" -> "Failed"

(* Mutation of ChunkKeys: the range includes the last key sent. *)
ChunkKeysIncluded(s, last) ==
  LET rest == {k \in DOMAIN db["source"][s] : ~Before(k, last)}
  IN  {k \in rest : Cardinality({l \in rest : Before(l, k)}) < ChunkSize}

(* next_*_chunk: the first ChunkSize keys after the given one. *)
ChunkKeys(s, last) ==
  LET rest == {k \in DOMAIN db["source"][s] : Before(last, k)}
  IN  {k \in rest : Cardinality({l \in rest : Before(l, k)}) < ChunkSize}

Chunk(s, last) == [k \in ChunkKeys(s, last) |-> db["source"][s][k]]

IsLast(k, K) == k \in K /\ \A l \in K : l = k \/ Before(l, k)

-----------------------------------------------------------------------------
(* A suspended step: the progress it will store, the chunk it sends, the   *)
(* statistics it took before the await, and the answer once it is there.   *)

Answers == {"idle", "waiting", "ok", "error"}

IsCall(x) ==
  /\ x = [from |-> x.from, next |-> x.next, chunk |-> x.chunk,
          stats |-> x.stats, answer |-> x.answer]
  /\ x.from \in Progress
  /\ x.next \in Progress
  /\ IsMap(x.chunk)
  /\ x.stats \in [Stores -> Nat]
  /\ x.answer \in Answers

Idle ==
  [from |-> At("NoMigration"), next |-> At("NoMigration"), chunk |-> NoData,
   stats |-> EmptyStats, answer |-> "idle"]

Waiting(next, chunk) ==
  [from |-> migration, next |-> next, chunk |-> chunk,
   stats |-> Stats("source"), answer |-> "waiting"]

TypeOK ==
  /\ api \in [Canisters -> Guards]
  /\ DOMAIN db = Canisters
  /\ \A c \in Canisters : DOMAIN db[c] = Stores /\ \A s \in Stores : IsMap(db[c][s])
  /\ migration \in Progress
  /\ timer \in BOOLEAN
  /\ DOMAIN call = Steps /\ \A i \in Steps : IsCall(call[i])
  /\ requests \in Seq(Steps)
  /\ clock \in Times
  /\ upgrades \in 0..MaxUpgrades

InitialMaps ==
  [s \in Stores |->
    CASE s = "user_token" -> [k \in {0} \X TokenOwners |-> 0]
      [] s = "custom_token" -> [k \in {0} \X CustomOwners |-> 0]
      [] s = "user_profile_updated" ->
           [k \in {0} \X DOMAIN ProfileTime |-> ProfileTime[k[2]]]
      [] s = "user_profile" ->
           [k \in {<<ProfileTime[u], u>> : u \in DOMAIN ProfileTime} |-> 0]]

Init ==
  /\ api = [c \in Canisters |-> [threshold_key |-> "Enabled", user_data |-> "Enabled"]]
  /\ db = [c \in Canisters |->
             IF c = "source" THEN InitialMaps ELSE [s \in Stores |-> NoData]]
  /\ migration = At("NoMigration")
  /\ timer = FALSE
  /\ call = [i \in Steps |-> Idle]
  /\ requests = <<>>
  /\ clock = StartClock
  /\ upgrades = 0

-----------------------------------------------------------------------------
(* Users.  Every update call of the backend that changes a stable map is   *)
(* guarded by may_write_user_data.                                         *)

MayWrite(c) ==
  /\ Writable(c)
  /\ clock < MaxClock
  /\ clock' = clock + 1

SetTokens(c, s, u) ==
  /\ MayWrite(c)
  /\ db' = [db EXCEPT ![c][s] = Insert(@, <<0, u>>, clock')]
  /\ UNCHANGED <<api, migration, timer, call, requests, upgrades>>

(* Mutation of StoreNew: the key of the profile the wrong way around. *)
StoreNewSwapped(m, u, now) ==
  [m EXCEPT !["user_profile_updated"] = Insert(@, <<0, u>>, now),
            !["user_profile"] = Insert(@, <<u, now>>, now)]

(* UserProfileModel::store_new: the profile moves to its new timestamp. *)
StoreNew(m, u, now) ==
  LET profiles == m["user_profile"]
      cleaned  == IF <<0, u>> \in DOMAIN m["user_profile_updated"]
                  THEN Remove(profiles, <<m["user_profile_updated"][<<0, u>>], u>>)
                  ELSE profiles
  IN  [m EXCEPT !["user_profile_updated"] = Insert(@, <<0, u>>, now),
                !["user_profile"] = Insert(cleaned, <<now, u>>, now)]

StoreProfile(c, u) ==
  /\ MayWrite(c)
  /\ db' = [db EXCEPT ![c] = StoreNew(@, u, clock')]
  /\ UNCHANGED <<api, migration, timer, call, requests, upgrades>>

UserNext ==
  \E c \in Canisters, u \in Users :
    \/ \E s \in {"user_token", "custom_token"} : SetTokens(c, s, u)
    \/ StoreProfile(c, u)

-----------------------------------------------------------------------------
(* Controllers. *)

MigrateUserDataTo ==
  /\ migration.phase = "NoMigration"
  /\ migration' = At("Pending")
  /\ timer' = TRUE
  /\ UNCHANGED <<api, db, call, requests, clock, upgrades>>

MigrationStopTimer ==
  /\ migration.phase # "NoMigration"
  /\ timer' = FALSE
  /\ UNCHANGED <<api, db, migration, call, requests, clock, upgrades>>

(* post_upgrade keeps the stable maps; the heap and the timers are gone.    *)
(* With Arg::Init it replaces the config, so the guards are what the        *)
(* argument says.  A canister is stopped, so has no open call, before an    *)
(* upgrade.                                                                *)
PostUpgrade ==
  /\ upgrades < MaxUpgrades
  /\ requests = <<>> /\ \A i \in Steps : call[i] = Idle
  /\ \E guards \in Guards : api' \in {api, [api EXCEPT !["source"] = guards]}
  /\ migration' = At("NoMigration")
  /\ timer' = FALSE
  /\ upgrades' = upgrades + 1
  /\ UNCHANGED <<db, call, requests, clock>>

-----------------------------------------------------------------------------
(* step_migration up to its await.  The local phases have none, but they   *)
(* count as one of the executions that may run at the same time.           *)

SetGuards(c, threshold_key, user_data) ==
  api' = [api EXCEPT ![c] = [threshold_key |-> threshold_key, user_data |-> user_data]]

(* Mutation of MakeThisReadonly: only signing becomes read-only. *)
MakeSigningReadonly ==
  /\ migration.phase = "Pending"
  /\ SetGuards("source", "ReadOnly", "Enabled")
  /\ migration' = At(NextPhase("Pending"))
  /\ UNCHANGED timer

MakeThisReadonly ==
  /\ migration.phase = "Pending"
  /\ SetGuards("source", "ReadOnly", "ReadOnly")
  /\ migration' = At(NextPhase("Pending"))
  /\ UNCHANGED timer

UnlockLocal ==
  /\ migration.phase = "Unlocking"
  /\ SetGuards("source", "Enabled", "Disabled")
  /\ migration' = At(NextPhase("Unlocking"))
  /\ UNCHANGED timer

(* Completed and Failed: nothing left to do but to clear the timer. *)
Stop ==
  /\ migration.phase \in {"Completed", "Failed"}
  /\ timer' = FALSE
  /\ UNCHANGED <<api, migration>>

StepLocally ==
  /\ \E i \in Steps : call[i] = Idle
  /\ MakeThisReadonly \/ UnlockLocal \/ Stop
  /\ UNCHANGED <<db, call, requests, clock, upgrades>>

Send(i, next, chunk) ==
  /\ call[i] = Idle
  /\ call' = [call EXCEPT ![i] = Waiting(next, chunk)]
  /\ requests' = Append(requests, i)
  /\ UNCHANGED <<api, db, migration, timer, clock, upgrades>>

(* lock_migration_target, assert_target_empty, assert_target_has_all_data  *)
(* and unlock_target.                                                      *)
CallTarget(i) ==
  /\ migration.phase \in RemotePhases \ DataPhases
  /\ Send(i, At(NextPhase(migration.phase)), NoData)

(* The macro migrate!: an empty chunk is sent too, and ends the phase. *)
MigrateChunk(i) ==
  /\ migration.phase \in DataPhases
  /\ LET chunk == Chunk(StoreOf(migration.phase), migration.upto)
     IN  \/ /\ DOMAIN chunk = {}
            /\ Send(i, At(NextPhase(migration.phase)), chunk)
         \/ \E last \in DOMAIN chunk :
              /\ IsLast(last, DOMAIN chunk)
              /\ Send(i, [migration EXCEPT !.upto = last], chunk)

StepMigration(i) == CallTarget(i) \/ MigrateChunk(i)

-----------------------------------------------------------------------------
(* The target handles the next request, in the order they were sent. *)

Answer(i, ok) == call' = [call EXCEPT ![i].answer = IF ok THEN "ok" ELSE "error"]

(* Mutations of TargetSetsGuards: the guards of the unlocked target are    *)
(* swapped; the locked target still lets users write.                      *)
TargetSwapsGuards(i) ==
  /\ \/ /\ call[i].from.phase = "LockingTarget"
        /\ SetGuards("target", "Disabled", "Disabled")
     \/ /\ call[i].from.phase = "UnlockingTarget"
        /\ SetGuards("target", "Enabled", "Disabled")
  /\ Answer(i, TRUE)
  /\ UNCHANGED db

TargetStaysOpen(i) ==
  /\ \/ /\ call[i].from.phase = "LockingTarget"
        /\ SetGuards("target", "Disabled", "Enabled")
     \/ /\ call[i].from.phase = "UnlockingTarget"
        /\ SetGuards("target", "Disabled", "Enabled")
  /\ Answer(i, TRUE)
  /\ UNCHANGED db

(* set_guards *)
TargetSetsGuards(i) ==
  /\ \/ /\ call[i].from.phase = "LockingTarget"
        /\ SetGuards("target", "Disabled", "Disabled")
     \/ /\ call[i].from.phase = "UnlockingTarget"
        /\ SetGuards("target", "Disabled", "Enabled")
  /\ Answer(i, TRUE)
  /\ UNCHANGED db

(* Mutation of TargetReportsStats: data found in the target is accepted. *)
TargetMayHaveData(i) ==
  /\ \/ /\ call[i].from.phase = "CheckingTarget"
        /\ Answer(i, TRUE)
     \/ /\ call[i].from.phase = "CheckingDataMigration"
        /\ Answer(i, Stats("target") = call[i].stats)
  /\ UNCHANGED <<api, db>>

(* stats, and what the caller will make of them *)
TargetReportsStats(i) ==
  /\ \/ /\ call[i].from.phase = "CheckingTarget"
        /\ Answer(i, Stats("target") = EmptyStats)
     \/ /\ call[i].from.phase = "CheckingDataMigration"
        /\ Answer(i, Stats("target") = call[i].stats)
  /\ UNCHANGED <<api, db>>

(* bulk_up overwrites whatever was stored under the keys of the chunk *)
TargetBulkUp(i) ==
  /\ call[i].from.phase \in DataPhases
  /\ db' = [db EXCEPT !["target"][StoreOf(call[i].from.phase)] =
              Overwrite(@, call[i].chunk)]
  /\ Answer(i, TRUE)
  /\ UNCHANGED api

Deliver ==
  /\ requests # <<>>
  /\ requests' = Tail(requests)
  /\ LET i == Head(requests)
     IN  TargetSetsGuards(i) \/ TargetReportsStats(i) \/ TargetBulkUp(i)
  /\ UNCHANGED <<migration, timer, clock, upgrades>>

(* The call is rejected: the target did not execute it. *)
Reject ==
  /\ requests # <<>>
  /\ requests' = Tail(requests)
  /\ Answer(Head(requests), FALSE)
  /\ UNCHANGED <<api, db, migration, timer, clock, upgrades>>

-----------------------------------------------------------------------------
(* step_migration after its await: set_progress, or the error branch of    *)
(* the entry point.  Neither looks at the progress it replaces.            *)

SetProgress(p) ==
  migration' = IF migration.phase = "NoMigration" THEN migration ELSE p

(* Mutation of Return: an error restarts the migration. *)
ReturnRestarts(i) ==
  /\ \/ /\ call[i].answer = "ok"
        /\ SetProgress(call[i].next)
        /\ UNCHANGED timer
     \/ /\ call[i].answer = "error"
        /\ SetProgress(At("Pending"))
        /\ UNCHANGED timer
  /\ call' = [call EXCEPT ![i] = Idle]
  /\ UNCHANGED <<api, db, requests, clock, upgrades>>

Return(i) ==
  /\ \/ /\ call[i].answer = "ok"
        /\ SetProgress(call[i].next)
        /\ UNCHANGED timer
     \/ /\ call[i].answer = "error"
        /\ SetProgress(At("Failed"))
        /\ timer' = (timer /\ migration.phase = "NoMigration")
  /\ call' = [call EXCEPT ![i] = Idle]
  /\ UNCHANGED <<api, db, requests, clock, upgrades>>

-----------------------------------------------------------------------------
MigrationNext ==
  \/ StepLocally
  \/ \E i \in Steps : StepMigration(i)
  \/ Deliver
  \/ \E i \in Steps : Return(i)

Next ==
  \/ UserNext
  \/ MigrateUserDataTo
  \/ MigrationStopTimer
  \/ PostUpgrade
  \/ MigrationNext
  \/ Reject

Spec == Init /\ [][Next]_vars

(* The timer fires as long as it is set, and every call between canisters  *)
(* is answered or rejected by the Internet Computer.                       *)
Fairness ==
  /\ WF_vars(timer /\ (StepLocally \/ \E i \in Steps : StepMigration(i)))
  /\ WF_vars(Deliver)
  /\ \A i \in Steps : WF_vars(Return(i))

FairSpec == Spec /\ Fairness

-----------------------------------------------------------------------------
(* Properties. *)

Phase == migration.phase

Holders(c, s) == {k[2] : k \in DOMAIN db[c][s]}

(* From the moment the migration is about to unlock the target, every user *)
(* with an entry in a map of the source has one in that map of the target: *)
(* no chunk is skipped by steps that overlap, by answers out of order, by  *)
(* failures or by a restart after an upgrade.                              *)
EveryoneMoved ==
  Phase \in {"UnlockingTarget", "Unlocking", "Completed"} =>
    \A s \in Stores : Holders("source", s) \subseteq Holders("target", s)

(* While the target is locked and its emptiness has been established, all  *)
(* it holds is what the source holds now: nothing was written in between   *)
(* on either side, whatever the order of locking, checking and copying.    *)
TargetIsCopy ==
  /\ Phase \in DataPhases \cup {"CheckingDataMigration", "UnlockingTarget"}
  /\ ~Readable("target")
  => \A s \in Stores : \A k \in DOMAIN db["target"][s] :
        /\ k \in DOMAIN db["source"][s]
        /\ db["target"][s][k] = db["source"][s][k]

(* When the migration unlocks the source for signing or is complete, the   *)
(* target is open: a lock request of an overlapping step or of an earlier  *)
(* attempt never arrives after the unlock request.                         *)
UnlockedLast ==
  Phase \in {"Unlocking", "Completed"} => Writable("target")

(* bulk_up never replaces an entry by an older one: what users write on    *)
(* the target once it is open is not lost.  (lib.rs, bulk_up: overwriting  *)
(* is expected only if a migration failed and had to be restarted.)        *)
NewerDataSurvives ==
  [][Deliver => \A s \in Stores : \A k \in DOMAIN db["target"][s] :
       /\ k \in DOMAIN db'["target"][s]
       /\ db'["target"][s][k] >= db["target"][s][k]]_vars

Rank(phase) ==
  CASE phase \in {"NoMigration", "Pending"} -> 0
    [] phase = "LockingTarget" -> 1
    [] phase = "CheckingTarget" -> 2
    [] phase = "MigratedUserTokensUpTo" -> 3
    [] phase = "MigratedCustomTokensUpTo" -> 4
    [] phase = "MigratedUserTimestampsUpTo" -> 5
    [] phase = "MigratedUserProfilesUpTo" -> 6
    [] phase = "CheckingDataMigration" -> 7
    [] phase = "UnlockingTarget" -> 8
    [] phase = "Unlocking" -> 9
    [] phase = "Completed" -> 10
    [] phase = "Failed" -> 11

Later(p, q) ==
  \/ p.phase = "NoMigration"
  \/ Rank(p.phase) < Rank(q.phase)
  \/ p.phase = q.phase /\ Before(p.upto, q.upto)

(* The progress only moves forward, and neither Completed nor Failed is    *)
(* ever left, unless an upgrade forgets the migration.                     *)
ProgressAdvances ==
  [][/\ migration' # migration
     /\ Phase' # "NoMigration"
     => /\ Phase \notin {"Completed", "Failed"}
        /\ Later(migration, migration')]_vars

(* A migration ends, completed or failed, if nobody stops its timer.       *)
Terminates ==
  (Phase = "Pending" /\ timer) ~> (~timer /\ \A i \in Steps : call[i] = Idle)

-----------------------------------------------------------------------------
(* The inductive invariant behind EveryoneMoved.                           *)

(* The stores whose phase is over in the given phase. *)
Done(phase) ==
  CASE phase = "MigratedCustomTokensUpTo" -> {"user_token"}
    [] phase = "MigratedUserTimestampsUpTo" -> {"user_token", "custom_token"}
    [] phase = "MigratedUserProfilesUpTo" ->
         {"user_token", "custom_token", "user_profile_updated"}
    [] phase \in {"CheckingDataMigration", "UnlockingTarget", "Unlocking", "Completed"} ->
         Stores
    [] OTHER -> {}

(* The progress p claims that the entry of key k in store s was sent. *)
Reached(p, s, k) ==
  \/ s \in Done(p.phase)
  \/ p.phase \in DataPhases /\ s = StoreOf(p.phase) /\ ~Before(p.upto, k)

(* The suspended step i has the entry in a chunk that is not stored yet. *)
Carried(i, s, k) ==
  /\ call[i].answer # "ok"
  /\ call[i].from.phase \in DataPhases
  /\ s = StoreOf(call[i].from.phase)
  /\ k \in DOMAIN call[i].chunk

ProgressCovered ==
  \A s \in Stores : \A k \in DOMAIN db["source"][s] :
    Reached(migration, s, k) => k[2] \in Holders("target", s)

CallsCovered ==
  \A i \in Steps : \A s \in Stores : \A k \in DOMAIN db["source"][s] :
    Reached(call[i].next, s, k) => k[2] \in Holders("target", s) \/ Carried(i, s, k)

SourceFrozen ==
  Writable("source") =>
    /\ Phase \in {"NoMigration", "Pending"}
    /\ requests = <<>>
    /\ \A i \in Steps : call[i].answer = "idle" /\ call[i].next.phase = "NoMigration"

IInv == TypeOK /\ SourceFrozen /\ ProgressCovered /\ CallsCovered

-----------------------------------------------------------------------------
(* The refinement of the abstract handover: the target counts as the home  *)
(* once unlock_target has reached it.  In the state in which the home      *)
(* changes, both canisters must hold the same data.                        *)
OpenedByMigration ==
  api["target"] = [threshold_key |-> "Disabled", user_data |-> "Enabled"]

DataHome ==
  IF OpenedByMigration THEN "target" ELSE IF Writable("source") THEN "source" ELSE "nowhere"

UserData == IF OpenedByMigration THEN db["target"] ELSE db["source"]

H == INSTANCE Handover WITH home <- DataHome, data <- UserData

(* A migration whose steps do not overlap moves the user data as one       *)
(* atomic step would: no write is lost, none is accepted twice.            *)
HandsOver == H!Spec
=============================================================================
