------------------------ MODULE SchedulerTimer_proofs ------------------------
(***************************************************************************)
(* The status of the timers and the jobs that run: proofs about             *)
(* SchedulerTimer for every number of timers, executions, starts, stops and *)
(* errors.                                                                  *)
(***************************************************************************)
EXTENDS SchedulerTimer, FiniteSetTheorems, TLAPS

(* The part of the types the proofs need. *)
Shape ==
  /\ run \in [Runs -> Executions \cup {Free}]
  /\ timerStatus \in [Timers -> SyncState]
  /\ stops \in [Timers -> 0..MaxStops]

(* While nobody has called stop, a job only runs under status in_progress,  *)
(* which keeps BeginJob and Tick away from a second one.                    *)
JobsAnnounced ==
  \A s \in Timers :
    stops[s] = 0 => \A r \in Runs : RunningOf(s, r) => timerStatus[s] = "in_progress"

Jobs == BusyMeansRunning /\ JobsAnnounced /\ OverlapNeedsStop
Inv == Shape /\ Jobs

(* An execution in flight is not a free slot. *)
LEMMA FreeIsNoExecution == Free \notin Executions
  <1>1. \A e \in Executions : e.kind # "none"
    BY DEF Executions, Kinds
  <1> QED BY <1>1 DEF Free

(* An execution in flight is one of some timer.                             *)
LEMMA ActiveShape ==
  ASSUME Shape, NEW r \in Runs, Active(r)
  PROVE  run[r] \in Executions /\ run[r].of \in Timers /\ run[r].kind \in Kinds
  BY DEF Shape, Active, Executions

(* An execution is put in flight, or goes on to its job.                    *)
LEMMA EnterEffect ==
  ASSUME Shape, NEW s \in Timers, NEW r \in Runs, NEW kind \in Kinds,
         NEW at \in {"loadIdentity", "job"}, Enter(s, r, kind, at)
  PROVE  /\ run' \in [Runs -> Executions \cup {Free}]
         /\ run'[r].of = s /\ run'[r].kind = kind /\ run'[r].at = at
         /\ run'[r].since = stops[s] /\ run'[r] # Free
         /\ \A q \in Runs \ {r} : run'[q] = run[q]
  <1>1. PICK e : e = [of |-> s, kind |-> kind, at |-> at, since |-> stops[s]]
    OBVIOUS
  <1>2. e \in Executions
    BY <1>1 DEF Executions, Shape
  <1>3. run' = [run EXCEPT ![r] = e]
    BY <1>1 DEF Enter
  <1>4. run'[r] = e /\ run' \in [Runs -> Executions \cup {Free}]
        /\ \A q \in Runs \ {r} : run'[q] = run[q]
    BY <1>2, <1>3 DEF Shape
  <1> QED BY <1>1, <1>2, <1>4, FreeIsNoExecution

(* An execution is over.                                                    *)
LEMMA LeaveEffect ==
  ASSUME Shape, NEW r \in Runs, Leave(r)
  PROVE  /\ run' \in [Runs -> Executions \cup {Free}]
         /\ run'[r] = Free
         /\ \A q \in Runs \ {r} : run'[q] = run[q]
  BY DEF Shape, Leave

(* A job begins: what BeginJob and Tick have in common.                     *)
Begins(s, r, kind) ==
  /\ timerStatus[s] = "idle" /\ timerStatus' = [timerStatus EXCEPT ![s] = "in_progress"]
  /\ ~Running(r) /\ stops' = stops
  /\ Enter(s, r, kind, "job")

LEMMA JobBegins ==
  ASSUME Shape, NEW r \in Runs, BeginJob(r) \/ \E s \in Timers : Tick(s, r)
  PROVE  \E s \in Timers, kind \in Kinds : Begins(s, r, kind)
  <1>1. CASE BeginJob(r)
    <2>1. PICK s, kind : s = run[r].of /\ kind = run[r].kind
      OBVIOUS
    <2>2. s \in Timers /\ kind \in Kinds
      BY <1>1, <2>1, ActiveShape DEF BeginJob, Waits
    <2>3. ~Running(r)
      BY <1>1 DEF BeginJob, Waits, Running
    <2>4. Begins(s, r, kind)
      BY <1>1, <2>1, <2>3 DEF BeginJob, Begins, SetStatus
    <2> QED BY <2>2, <2>4
  <1>2. ASSUME NEW s \in Timers, Tick(s, r) PROVE Begins(s, r, "tick") /\ "tick" \in Kinds
    BY <1>2 DEF Tick, Begins, SetStatus, Running, Kinds
  <1> QED BY <1>1, <1>2

(* Every step keeps the shape of the state. *)
LEMMA ShapeStep == ASSUME Shape, [Next]_vars PROVE Shape'
  <1> USE BoundsAssumption
  <1>1. CASE UNCHANGED vars
    BY <1>1 DEF vars, Shape
  <1>2. ASSUME NEW s \in Timers, Stop(s) PROVE Shape'
    <2>1. timerStatus' \in [Timers -> SyncState] /\ run' = run
      BY <1>2 DEF Stop, SetStatus, Shape, SyncState
    <2>2. stops' \in [Timers -> 0..MaxStops]
      <3>1. stops[s] + 1 \in 0..MaxStops
        BY <1>2 DEF Stop, Shape
      <3> QED BY <1>2, <3>1 DEF Stop, Shape
    <2> QED BY <2>1, <2>2 DEF Shape
  <1>3. ASSUME NEW s \in Timers, NEW r \in Runs, CallStart(s, r) \/ CallTrigger(s, r)
        PROVE Shape'
    <2>1. /\ Enter(s, r, "start", "loadIdentity") \/ Enter(s, r, "trigger", "loadIdentity")
          /\ UNCHANGED <<timerStatus, stops>>
      BY <1>3 DEF CallStart, CallTrigger
    <2>2. "start" \in Kinds /\ "trigger" \in Kinds
      BY DEF Kinds
    <2>3. run' \in [Runs -> Executions \cup {Free}]
      BY <2>1, <2>2, EnterEffect
    <2> QED BY <2>1, <2>3 DEF Shape
  <1>4. ASSUME NEW r \in Runs, BeginJob(r) \/ \E s \in Timers : Tick(s, r) PROVE Shape'
    <2>1. PICK s \in Timers, kind \in Kinds : Begins(s, r, kind)
      BY <1>4, JobBegins
    <2>2. run' \in [Runs -> Executions \cup {Free}]
      BY <2>1, EnterEffect DEF Begins
    <2>3. timerStatus' \in [Timers -> SyncState]
      BY <2>1 DEF Begins, Shape, SyncState
    <2> QED BY <2>1, <2>2, <2>3 DEF Begins, Shape
  <1>5. ASSUME NEW r \in Runs, NoIdentity(r) \/ SkipJob(r) \/ JobSucceeds(r) \/ JobFails(r)
        PROVE Shape'
    <2>1. run' \in [Runs -> Executions \cup {Free}]
      BY <1>5, LeaveEffect DEF NoIdentity, SkipJob, JobSucceeds, JobFails
    <2>2. timerStatus' \in [Timers -> SyncState] /\ stops' = stops
      BY <1>5 DEF NoIdentity, SkipJob, JobSucceeds, JobFails, SetStatus, Shape, SyncState
    <2> QED BY <2>1, <2>2 DEF Shape
  <1>6. ASSUME NEW r \in Runs, PostMsg(r) PROVE Shape'
    BY <1>6 DEF PostMsg, Shape
  <1> QED BY <1>1, <1>2, <1>3, <1>4, <1>5, <1>6 DEF Next, JobEnds

(* Of the steps, only BeginJob and Tick make an execution run a job, and    *)
(* both do so under status idle; the end of a job frees its slot only.      *)
LEMMA InvStep == ASSUME Inv, [Next]_vars PROVE Inv'
  <1>1. Shape /\ Shape'
    BY ShapeStep DEF Inv
  <1> SUFFICES Jobs'
    BY <1>1 DEF Inv
  <1>2. CASE UNCHANGED vars
    BY <1>2 DEF vars, Inv, Jobs, BusyMeansRunning, JobsAnnounced, OverlapNeedsStop,
        JobsDontOverlap, RunningOf, Running, Active
  <1>3. ASSUME NEW s \in Timers, Stop(s) PROVE Jobs'
    <2>1. /\ run' = run
          /\ \A t \in Timers \ {s} : timerStatus'[t] = timerStatus[t] /\ stops'[t] = stops[t]
          /\ timerStatus'[s] = "idle"
      BY <1>1, <1>3 DEF Stop, SetStatus, Shape
    <2>2. stops'[s] # 0
      BY <1>1, <1>3, BoundsAssumption DEF Stop, Shape
    <2>3. \A t \in Timers, r \in Runs : RunningOf(t, r)' <=> RunningOf(t, r)
      BY <2>1 DEF RunningOf, Running, Active
    <2> QED BY <2>1, <2>2, <2>3
        DEF Inv, Jobs, BusyMeansRunning, JobsAnnounced, OverlapNeedsStop, JobsDontOverlap
  <1>4. ASSUME UNCHANGED <<timerStatus, stops>>,
               \A t \in Timers, q \in Runs : RunningOf(t, q)' <=> RunningOf(t, q)
        PROVE Jobs'
    BY <1>4 DEF Inv, Jobs, BusyMeansRunning, JobsAnnounced, OverlapNeedsStop, JobsDontOverlap
  <1>5. ASSUME NEW s \in Timers, NEW r \in Runs, CallStart(s, r) \/ CallTrigger(s, r)
        PROVE Jobs'
    <2>1. /\ Enter(s, r, "start", "loadIdentity") \/ Enter(s, r, "trigger", "loadIdentity")
          /\ UNCHANGED <<timerStatus, stops>> /\ ~Active(r)
      BY <1>5 DEF CallStart, CallTrigger
    <2>2. "start" \in Kinds /\ "trigger" \in Kinds
      BY DEF Kinds
    <2>3. run'[r].at = "loadIdentity" /\ \A q \in Runs \ {r} : run'[q] = run[q]
      <3>1. PICK kind \in Kinds : Enter(s, r, kind, "loadIdentity")
        BY <2>1, <2>2
      <3> QED BY <1>1, <3>1, EnterEffect
    <2>4. \A t \in Timers, q \in Runs : RunningOf(t, q)' <=> RunningOf(t, q)
      BY <2>1, <2>3 DEF RunningOf, Running, Active
    <2> QED BY <1>4, <2>1, <2>4
  <1>6. ASSUME NEW r \in Runs, NoIdentity(r) \/ SkipJob(r) PROVE Jobs'
    <2>1. /\ run'[r] = Free /\ \A q \in Runs \ {r} : run'[q] = run[q]
          /\ UNCHANGED <<timerStatus, stops>> /\ ~Running(r)
      BY <1>1, <1>6, LeaveEffect DEF NoIdentity, SkipJob, Waits, Running
    <2>2. \A t \in Timers, q \in Runs : RunningOf(t, q)' <=> RunningOf(t, q)
      BY <2>1 DEF RunningOf, Running, Active
    <2> QED BY <1>4, <2>1, <2>2
  <1>7. ASSUME NEW r \in Runs, BeginJob(r) \/ \E s \in Timers : Tick(s, r) PROVE Jobs'
    <2>1. PICK s \in Timers, kind \in Kinds : Begins(s, r, kind)
      BY <1>1, <1>7, JobBegins
    <2>2. /\ RunningOf(s, r)'
          /\ \A q \in Runs \ {r} : run'[q] = run[q]
          /\ \A t \in Timers \ {s} : ~RunningOf(t, r)'
      <3>1. Enter(s, r, kind, "job")
        BY <2>1 DEF Begins
      <3>2. /\ run'[r].of = s /\ run'[r].at = "job" /\ run'[r] # Free
            /\ \A q \in Runs \ {r} : run'[q] = run[q]
        BY <1>1, <3>1, EnterEffect
      <3> QED BY <3>2 DEF RunningOf, Running, Active
    <2>3. \A t \in Timers, q \in Runs \ {r} : RunningOf(t, q)' <=> RunningOf(t, q)
      BY <2>2 DEF RunningOf, Running, Active
    <2>4. /\ timerStatus[s] = "idle" /\ timerStatus'[s] = "in_progress" /\ stops' = stops
          /\ \A t \in Timers \ {s} : timerStatus'[t] = timerStatus[t]
          /\ \A t \in Timers : ~RunningOf(t, r)
      BY <1>1, <2>1 DEF Begins, Shape, RunningOf
    <2>5. stops[s] = 0 => \A q \in Runs : ~RunningOf(s, q)
      BY <2>4 DEF Inv, Jobs, JobsAnnounced
    <2>6. BusyMeansRunning'
      BY <2>2, <2>3, <2>4 DEF Inv, Jobs, BusyMeansRunning
    <2>7. JobsAnnounced'
      BY <2>2, <2>3, <2>4 DEF Inv, Jobs, JobsAnnounced
    <2>8. OverlapNeedsStop'
      BY <2>2, <2>3, <2>4, <2>5 DEF Inv, Jobs, OverlapNeedsStop, JobsDontOverlap
    <2> QED BY <2>6, <2>7, <2>8 DEF Jobs
  <1>8. ASSUME NEW r \in Runs, PostMsg(r) PROVE Jobs'
    BY <1>4, <1>8 DEF PostMsg, RunningOf, Running, Active
  <1>9. ASSUME NEW r \in Runs, JobSucceeds(r) \/ JobFails(r) PROVE Jobs'
    <2>1. PICK s \in Timers : s = run[r].of /\ RunningOf(s, r)
      BY <1>1, <1>9, ActiveShape DEF JobSucceeds, JobFails, RunningOf, Running
    <2>2. /\ run'[r] = Free /\ \A q \in Runs \ {r} : run'[q] = run[q]
          /\ timerStatus'[s] = "idle" /\ stops' = stops
          /\ \A t \in Timers \ {s} : timerStatus'[t] = timerStatus[t]
      BY <1>1, <1>9, <2>1, LeaveEffect DEF JobSucceeds, JobFails, SetStatus, Shape
    <2>3. /\ \A t \in Timers : ~RunningOf(t, r)'
          /\ \A t \in Timers, q \in Runs \ {r} : RunningOf(t, q)' <=> RunningOf(t, q)
          /\ \A t \in Timers \ {s} : ~RunningOf(t, r)
      BY <2>1, <2>2 DEF RunningOf, Running, Active
    <2>4. stops[s] = 0 => \A q \in Runs : ~RunningOf(s, q)'
      BY <2>1, <2>3 DEF Inv, Jobs, OverlapNeedsStop, JobsDontOverlap
    <2>5. BusyMeansRunning'
      BY <2>2, <2>3 DEF Inv, Jobs, BusyMeansRunning
    <2>6. JobsAnnounced'
      BY <2>2, <2>3, <2>4 DEF Inv, Jobs, JobsAnnounced
    <2>7. OverlapNeedsStop'
      BY <2>2, <2>3 DEF Inv, Jobs, OverlapNeedsStop, JobsDontOverlap
    <2> QED BY <2>5, <2>6, <2>7 DEF Jobs
  <1> QED BY <1>2, <1>3, <1>5, <1>6, <1>7, <1>8, <1>9 DEF Next, JobEnds

(* The inductive invariant holds. *)
LEMMA InvHolds == Spec => []Inv
  <1>1. Init => Inv
    BY BoundsAssumption
    DEF Init, Inv, Shape, Jobs, BusyMeansRunning, JobsAnnounced, OverlapNeedsStop,
        JobsDontOverlap, RunningOf, Running, Active, SyncState
  <1> QED BY <1>1, InvStep, PTL DEF Spec

(* Whatever interleaving of starts, triggers, stops, ticks and failing jobs *)
(* happens, the status does not stay in_progress without a running job.     *)
THEOREM StatusNeverSticks == Spec => []BusyMeansRunning
  <1>1. Inv => BusyMeansRunning BY DEF Inv, Jobs
  <1> QED BY <1>1, InvHolds, PTL

(* Two jobs of a timer run at the same time only once somebody has called   *)
(* its stop.                                                                *)
THEOREM NoOverlapWithoutStop == Spec => []OverlapNeedsStop
  <1>1. Inv => OverlapNeedsStop BY DEF Inv, Jobs
  <1> QED BY <1>1, InvHolds, PTL

-----------------------------------------------------------------------------
(* The status is in_progress only on behalf of a job nobody has stopped.    *)
NotStopped(s, r) == RunningOf(s, r) /\ run[r].since = stops[s]
BusyForAJob ==
  \A s \in Timers : timerStatus[s] = "in_progress" => \E r \in Runs : NotStopped(s, r)

(* Whatever begins a job marks it with the number of stops so far, and      *)
(* whatever ends one, or a stop, makes the status idle.                     *)
LEMMA BusyStep == ASSUME Inv, BusyForAJob, [Next]_vars PROVE BusyForAJob'
  <1>1. Shape
    BY DEF Inv
  <1>2. ASSUME UNCHANGED <<timerStatus, stops>>,
               \A q \in Runs : Running(q) => run'[q] = run[q]
        PROVE BusyForAJob'
    <2>1. \A s \in Timers, q \in Runs : NotStopped(s, q) => NotStopped(s, q)'
      BY <1>2 DEF NotStopped, RunningOf, Running, Active
    <2> QED BY <1>2, <2>1 DEF BusyForAJob
  <1>3. CASE UNCHANGED vars
    BY <1>2, <1>3 DEF vars
  <1>4. ASSUME NEW s \in Timers, Stop(s) PROVE BusyForAJob'
    <2>1. /\ run' = run /\ timerStatus'[s] = "idle"
          /\ \A t \in Timers \ {s} : timerStatus'[t] = timerStatus[t] /\ stops'[t] = stops[t]
      BY <1>1, <1>4 DEF Stop, SetStatus, Shape
    <2>2. \A t \in Timers \ {s}, q \in Runs : NotStopped(t, q) => NotStopped(t, q)'
      BY <2>1 DEF NotStopped, RunningOf, Running, Active
    <2> QED BY <2>1, <2>2 DEF BusyForAJob
  <1>5. ASSUME NEW s \in Timers, NEW r \in Runs, CallStart(s, r) \/ CallTrigger(s, r)
        PROVE BusyForAJob'
    <2>1. /\ Enter(s, r, "start", "loadIdentity") \/ Enter(s, r, "trigger", "loadIdentity")
          /\ UNCHANGED <<timerStatus, stops>> /\ ~Active(r)
      BY <1>5 DEF CallStart, CallTrigger
    <2>2. \A q \in Runs \ {r} : run'[q] = run[q]
      BY <1>1, <2>1 DEF Enter, Shape
    <2> QED BY <1>2, <2>1, <2>2 DEF Running
  <1>6. ASSUME NEW r \in Runs, NoIdentity(r) \/ SkipJob(r) PROVE BusyForAJob'
    <2>1. /\ \A q \in Runs \ {r} : run'[q] = run[q]
          /\ UNCHANGED <<timerStatus, stops>> /\ ~Running(r)
      BY <1>1, <1>6, LeaveEffect DEF NoIdentity, SkipJob, Waits, Running
    <2> QED BY <1>2, <2>1
  <1>7. ASSUME NEW r \in Runs, BeginJob(r) \/ \E s \in Timers : Tick(s, r) PROVE BusyForAJob'
    <2>1. PICK s \in Timers, kind \in Kinds : Begins(s, r, kind)
      BY <1>1, <1>7, JobBegins
    <2>2. /\ NotStopped(s, r)'
          /\ \A q \in Runs \ {r} : run'[q] = run[q]
      <3>1. Enter(s, r, kind, "job") /\ stops' = stops
        BY <2>1 DEF Begins
      <3>2. /\ run'[r].of = s /\ run'[r].at = "job" /\ run'[r] # Free
            /\ run'[r].since = stops[s]
            /\ \A q \in Runs \ {r} : run'[q] = run[q]
        BY <1>1, <3>1, EnterEffect
      <3> QED BY <3>1, <3>2 DEF NotStopped, RunningOf, Running, Active
    <2>3. /\ \A t \in Timers \ {s} : timerStatus'[t] = timerStatus[t] /\ stops'[t] = stops[t]
          /\ ~Running(r)
      BY <1>1, <2>1 DEF Begins, Shape
    <2>4. \A t \in Timers \ {s}, q \in Runs : NotStopped(t, q) => NotStopped(t, q)'
      BY <2>2, <2>3 DEF NotStopped, RunningOf, Running, Active
    <2> QED BY <2>2, <2>3, <2>4 DEF BusyForAJob
  <1>8. ASSUME NEW r \in Runs, PostMsg(r) PROVE BusyForAJob'
    BY <1>2, <1>8 DEF PostMsg
  <1>9. ASSUME NEW r \in Runs, JobEnds(r) PROVE BusyForAJob'
    <2>1. PICK s \in Timers : s = run[r].of
      BY <1>1, <1>9, ActiveShape DEF JobEnds, JobSucceeds, JobFails, Running
    <2>2. /\ \A q \in Runs \ {r} : run'[q] = run[q]
          /\ timerStatus'[s] = "idle" /\ stops' = stops
          /\ \A t \in Timers \ {s} : timerStatus'[t] = timerStatus[t]
      BY <1>1, <1>9, <2>1, LeaveEffect DEF JobEnds, JobSucceeds, JobFails, SetStatus, Shape
    <2>3. \A t \in Timers \ {s}, q \in Runs : NotStopped(t, q) => NotStopped(t, q)'
      BY <2>1, <2>2 DEF NotStopped, RunningOf, Running, Active
    <2> QED BY <2>2, <2>3 DEF BusyForAJob
  <1> QED BY <1>3, <1>4, <1>5, <1>6, <1>7, <1>8, <1>9 DEF Next

(* A job that was stopped posts no data unless another job of its timer     *)
(* runs by then: a post needs a status other than idle, which some job that *)
(* was not stopped stands for.                                              *)
THEOREM StoppedJobsPostNothing == Spec => []StoppedJobsAreSilent
  <1>1. Init => BusyForAJob /\ StoppedJobsAreSilent
    BY DEF Init, BusyForAJob, StoppedJobsAreSilent
  <1>2. ASSUME Inv, BusyForAJob, StoppedJobsAreSilent, [Next]_vars PROVE StoppedJobsAreSilent'
    <2>1. ASSUME NEW r \in Runs, PostMsg(r) PROVE ~late'
      <3>1. PICK s \in Timers : s = run[r].of /\ timerStatus[s] # "idle"
        BY <1>2, <2>1, ActiveShape DEF PostMsg, Inv, Running
      <3>2. timerStatus[s] = "in_progress"
        BY <1>2, <3>1 DEF Inv, Shape, SyncState
      <3>3. PICK q \in Runs : NotStopped(s, q)
        BY <1>2, <3>2 DEF BusyForAJob
      <3>4. CASE q = r
        BY <2>1, <3>1, <3>3, <3>4 DEF PostMsg, NotStopped
      <3>5. CASE q # r
        BY <2>1, <3>1, <3>3, <3>5 DEF PostMsg, NotStopped
      <3> QED BY <3>4, <3>5
    <2>2. CASE UNCHANGED late
      BY <1>2, <2>2 DEF StoppedJobsAreSilent
    <2> QED BY <1>2, <2>1, <2>2
        DEF Next, vars, CallStart, CallTrigger, NoIdentity, BeginJob, SkipJob, Tick, Stop,
            JobEnds, JobSucceeds, JobFails, StoppedJobsAreSilent
  <1>3. ASSUME Inv, BusyForAJob, [Next]_vars PROVE BusyForAJob'
    BY <1>3, BusyStep
  <1> QED BY <1>1, <1>2, <1>3, InvHolds, PTL DEF Spec
-----------------------------------------------------------------------------
(* Each call of start sets one interval at most, when it is over: those     *)
(* that are set and those to come are no more than the calls so far.  So    *)
(* there is always a handle for the next one.                               *)
Starting(s) == {r \in Runs : Active(r) /\ run[r].of = s /\ run[r].kind = "start"}
HandlesFitOf(s) ==
  /\ intervals[s] \subseteq Handles /\ timer[s] \in intervals[s] \cup {None}
  /\ starts[s] \in 0..MaxStarts
  /\ Cardinality(intervals[s]) + Cardinality(Starting(s)) <= starts[s]
HandleShape ==
  /\ DOMAIN timer = Timers /\ timer = [s \in Timers |-> timer[s]]
  /\ DOMAIN intervals = Timers /\ intervals = [s \in Timers |-> intervals[s]]
  /\ DOMAIN starts = Timers /\ starts = [s \in Timers |-> starts[s]]
HandlesFit == HandleShape /\ \A s \in Timers : HandlesFitOf(s)

LEMMA FiniteParts ==
  ASSUME NEW s \in Timers, HandlesFitOf(s)
  PROVE  /\ IsFiniteSet(intervals[s]) /\ Cardinality(intervals[s]) \in Nat
         /\ IsFiniteSet(Starting(s)) /\ Cardinality(Starting(s)) \in Nat
  <1>1. IsFiniteSet(Handles)
    BY BoundsAssumption, FS_Interval DEF Handles
  <1>2. IsFiniteSet(intervals[s])
    BY <1>1, FS_Subset DEF HandlesFitOf
  <1>3. IsFiniteSet(Starting(s))
    BY RunsAssumption, FS_Subset DEF Starting
  <1> QED BY <1>2, <1>3, FS_CardinalityType

(* setInterval finds a handle as long as fewer than MaxStarts are in use.   *)
LEMMA FreshHandle ==
  ASSUME NEW live \in SUBSET Handles, Cardinality(live) < MaxStarts
  PROVE  Fresh(live) \in Handles \ live
  <1>1. IsFiniteSet(Handles) /\ Cardinality(Handles) = MaxStarts
    BY BoundsAssumption, FS_Interval DEF Handles
  <1>2. live # Handles
    BY <1>1, BoundsAssumption
  <1>3. \E h \in Handles : h \notin live
    BY <1>2
  <1> QED BY <1>3 DEF Fresh

(* Cardinality of the executions of start without one of them.              *)
LEMMA OneLess ==
  ASSUME NEW s \in Timers, HandlesFitOf(s), NEW r
  PROVE  /\ Cardinality(Starting(s) \ {r}) \in Nat
         /\ Cardinality(Starting(s) \ {r}) =
              IF r \in Starting(s) THEN Cardinality(Starting(s)) - 1 ELSE Cardinality(Starting(s))
  <1>1. IsFiniteSet(Starting(s))
    BY FiniteParts
  <1> QED BY <1>1, FS_RemoveElement, FS_CardinalityType

(* Nothing of a timer changes in a step of another one.                     *)
LEMMA HandlesStay ==
  ASSUME NEW s \in Timers, HandlesFitOf(s),
         timer'[s] = timer[s], intervals'[s] = intervals[s], starts'[s] = starts[s],
         Starting(s)' = Starting(s)
  PROVE  HandlesFitOf(s)'
  BY DEF HandlesFitOf

(* An execution ends, and sets an interval if it is that of a start.        *)
LEMMA ExecutionEnds ==
  ASSUME Shape, HandlesFit, NEW r \in Runs, Active(r), Leave(r), starts' = starts,
         NEW live \in SUBSET intervals[run[r].of], NEW handle \in live \cup {None},
         Schedule(r, live, handle)
  PROVE  HandlesFit'
  <1>1. PICK s \in Timers : s = run[r].of
    BY ActiveShape
  <1>2. HandlesFitOf(s)
    BY DEF HandlesFit
  <1>3. live \subseteq Handles /\ IsFiniteSet(live) /\ Cardinality(live) \in Nat
        /\ Cardinality(live) <= Cardinality(intervals[s])
    BY <1>1, <1>2, FiniteParts, FS_Subset, FS_CardinalityType DEF HandlesFitOf
  <1>4. run'[r] = Free /\ \A q \in Runs \ {r} : run'[q] = run[q]
    BY LeaveEffect
  <1>5. /\ Starting(s)' = Starting(s) \ {r}
        /\ \A t \in Timers \ {s} : Starting(t)' = Starting(t)
    BY <1>1, <1>4 DEF Starting, Active
  <1>6. /\ Cardinality(Starting(s) \ {r}) \in Nat
        /\ Cardinality(Starting(s) \ {r}) =
             IF r \in Starting(s) THEN Cardinality(Starting(s)) - 1 ELSE Cardinality(Starting(s))
    BY <1>2, OneLess
  <1>7. PICK sets \in BOOLEAN : sets <=> run[r].kind = "start" /\ Scheduled
    OBVIOUS
  <1>8. /\ timer' = [timer EXCEPT ![s] = IF sets THEN Fresh(live) ELSE handle]
        /\ intervals' = [intervals EXCEPT ![s] = IF sets THEN live \cup {Fresh(live)} ELSE live]
    BY <1>1, <1>7 DEF Schedule
  <1>9. HandleShape'
    BY <1>8 DEF HandlesFit, HandleShape
  <1>10. ASSUME NEW t \in Timers \ {s} PROVE HandlesFitOf(t)'
    <2>1. timer'[t] = timer[t] /\ intervals'[t] = intervals[t] /\ starts'[t] = starts[t]
      BY <1>8 DEF HandlesFit, HandleShape
    <2> QED BY <1>5, <2>1, HandlesStay DEF HandlesFit
  <1>11. /\ timer'[s] = (IF sets THEN Fresh(live) ELSE handle)
         /\ intervals'[s] = (IF sets THEN live \cup {Fresh(live)} ELSE live)
    BY <1>8 DEF HandlesFit, HandleShape
  <1>12. CASE sets
    <2>1. r \in Starting(s)
      BY <1>1, <1>7, <1>12 DEF Starting
    <2>2. Cardinality(Starting(s)') = Cardinality(Starting(s)) - 1 /\ Cardinality(Starting(s)) >= 1
      BY <1>2, <1>5, <1>6, <2>1, FiniteParts
    <2>3. Cardinality(live) < MaxStarts
      BY <1>2, <1>3, <2>2, FiniteParts, BoundsAssumption DEF HandlesFitOf
    <2>4. PICK h \in Handles \ live : h = Fresh(live)
      BY <1>3, <2>3, FreshHandle
    <2>5. intervals'[s] = live \cup {h} /\ timer'[s] = h
      BY <1>11, <1>12, <2>4
    <2>6. Cardinality(intervals'[s]) <= Cardinality(intervals[s]) + 1
          /\ Cardinality(intervals'[s]) \in Nat
      <3>1. Cardinality(live \cup {h}) = Cardinality(live) + 1
        BY <1>3, FS_AddElement
      <3> QED BY <1>2, <1>3, <2>5, <3>1, FiniteParts
    <2>7. HandlesFitOf(s)'
      BY <1>2, <1>3, <2>2, <2>5, <2>6, FiniteParts DEF HandlesFitOf
    <2> QED BY <1>9, <1>10, <2>7 DEF HandlesFit
  <1>13. CASE ~sets
    <2>1. intervals'[s] = live /\ timer'[s] = handle
      BY <1>11, <1>13
    <2>2. Cardinality(Starting(s)') <= Cardinality(Starting(s)) /\ Cardinality(Starting(s)') \in Nat
      BY <1>2, <1>5, <1>6, FiniteParts
    <2>3. HandlesFitOf(s)'
      BY <1>2, <1>3, <2>1, <2>2, FiniteParts DEF HandlesFitOf
    <2> QED BY <1>9, <1>10, <2>3 DEF HandlesFit
  <1> QED BY <1>12, <1>13

(* The other steps of an execution set no interval.                         *)
LEMMA HandlesStep == ASSUME Shape, HandlesFit, [Next]_vars PROVE HandlesFit'
  <1>1. ASSUME UNCHANGED <<timer, intervals, starts>>,
               \A s \in Timers : Starting(s)' = Starting(s)
        PROVE HandlesFit'
    BY <1>1, HandlesStay DEF HandlesFit, HandleShape
  <1>2. CASE UNCHANGED vars
    BY <1>1, <1>2 DEF vars, Starting, Active
  <1>3. ASSUME NEW s \in Timers, Stop(s) PROVE HandlesFit'
    <2>1. \A t \in Timers : Starting(t)' = Starting(t)
      BY <1>3 DEF Stop, Starting, Active
    <2>2. /\ timer' = [timer EXCEPT ![s] = None]
          /\ intervals' = [intervals EXCEPT ![s] = intervals[s] \ {timer[s]}] /\ starts' = starts
      BY <1>3 DEF Stop
    <2>3. /\ HandleShape' /\ timer'[s] = None /\ intervals'[s] = intervals[s] \ {timer[s]}
          /\ \A t \in Timers \ {s} : timer'[t] = timer[t] /\ intervals'[t] = intervals[t]
      BY <2>2 DEF HandlesFit, HandleShape
    <2>4. \A t \in Timers \ {s} : HandlesFitOf(t)'
      BY <2>1, <2>2, <2>3, HandlesStay DEF HandlesFit
    <2>5. HandlesFitOf(s)
      BY DEF HandlesFit
    <2>6. Cardinality(intervals'[s]) <= Cardinality(intervals[s]) /\ Cardinality(intervals'[s]) \in Nat
      <3>1. /\ IsFiniteSet(intervals[s]) /\ Cardinality(intervals[s]) \in Nat
        BY <2>5, FiniteParts
      <3>2. PICK rest : rest = intervals[s] \ {timer[s]}
        OBVIOUS
      <3>3. rest \subseteq intervals[s]
        BY <3>2
      <3>4. IsFiniteSet(rest) /\ Cardinality(rest) <= Cardinality(intervals[s])
        BY <3>1, <3>3, FS_Subset
      <3>5. Cardinality(rest) \in Nat
        BY <3>4, FS_CardinalityType
      <3> QED BY <2>3, <3>2, <3>4, <3>5
    <2>7. HandlesFitOf(s)'
      BY <2>1, <2>2, <2>3, <2>5, <2>6, FiniteParts DEF HandlesFitOf
    <2> QED BY <2>3, <2>4, <2>7 DEF HandlesFit
  <1>4. ASSUME NEW s \in Timers, NEW r \in Runs, CallStart(s, r) PROVE HandlesFit'
    <2>1. /\ run'[r].of = s /\ run'[r].kind = "start"
          /\ run'[r] # Free /\ \A q \in Runs \ {r} : run'[q] = run[q]
      <3>1. Enter(s, r, "start", "loadIdentity") /\ "start" \in Kinds
        BY <1>4 DEF CallStart, Kinds
      <3> QED BY <3>1, EnterEffect
    <2>2. /\ Starting(s)' = Starting(s) \cup {r} /\ r \notin Starting(s)
          /\ \A t \in Timers \ {s} : Starting(t)' = Starting(t)
      BY <1>4, <2>1 DEF CallStart, Starting, Active
    <2>3. /\ UNCHANGED <<timer, intervals>> /\ HandleShape' /\ starts'[s] = starts[s] + 1
          /\ \A t \in Timers \ {s} : starts'[t] = starts[t]
      BY <1>4 DEF CallStart, HandlesFit, HandleShape
    <2>4. HandlesFitOf(s)
      BY DEF HandlesFit
    <2>5. starts'[s] \in 0..MaxStarts
      BY <1>4, <2>3, <2>4, BoundsAssumption DEF CallStart, HandlesFitOf
    <2>6. Cardinality(Starting(s)') = Cardinality(Starting(s)) + 1
      BY <2>2, <2>4, FiniteParts, FS_AddElement
    <2>7. HandlesFitOf(s)'
      BY <2>3, <2>4, <2>5, <2>6, FiniteParts DEF HandlesFitOf
    <2>8. \A t \in Timers \ {s} : HandlesFitOf(t)'
      BY <2>2, <2>3, HandlesStay DEF HandlesFit
    <2> QED BY <2>3, <2>7, <2>8 DEF HandlesFit
  <1>5. ASSUME NEW s \in Timers, NEW r \in Runs, CallTrigger(s, r) PROVE HandlesFit'
    <2>1. /\ run'[r].kind = "trigger" /\ ~Active(r)
          /\ \A q \in Runs \ {r} : run'[q] = run[q]
      <3>1. Enter(s, r, "trigger", "loadIdentity") /\ "trigger" \in Kinds /\ ~Active(r)
        BY <1>5 DEF CallTrigger, Kinds
      <3> QED BY <3>1, EnterEffect
    <2>2. \A t \in Timers : Starting(t)' = Starting(t)
      BY <2>1 DEF Starting, Active
    <2> QED BY <1>1, <1>5, <2>2 DEF CallTrigger
  <1>6. ASSUME NEW r \in Runs, BeginJob(r) PROVE HandlesFit'
    <2>1. PICK s \in Timers, kind \in Kinds : s = run[r].of /\ kind = run[r].kind
      BY <1>6, ActiveShape DEF BeginJob, Waits
    <2>2. Enter(s, r, kind, "job") /\ Active(r)
      BY <1>6, <2>1 DEF BeginJob, Waits
    <2>3. /\ run'[r].of = s /\ run'[r].kind = kind /\ run'[r] # Free
          /\ \A q \in Runs \ {r} : run'[q] = run[q]
      BY <2>2, EnterEffect
    <2>4. \A t \in Timers : Starting(t)' = Starting(t)
      BY <2>1, <2>2, <2>3 DEF Starting, Active
    <2> QED BY <1>1, <1>6, <2>4 DEF BeginJob
  <1>7. ASSUME NEW s \in Timers, NEW r \in Runs, Tick(s, r) PROVE HandlesFit'
    <2>1. /\ run'[r].kind = "tick" /\ ~Active(r)
          /\ \A q \in Runs \ {r} : run'[q] = run[q]
      <3>1. Enter(s, r, "tick", "job") /\ "tick" \in Kinds /\ ~Active(r)
        BY <1>7 DEF Tick, Kinds
      <3> QED BY <3>1, EnterEffect
    <2>2. \A t \in Timers : Starting(t)' = Starting(t)
      BY <2>1 DEF Starting, Active
    <2> QED BY <1>1, <1>7, <2>2 DEF Tick
  <1>8. ASSUME NEW r \in Runs, PostMsg(r) PROVE HandlesFit'
    BY <1>1, <1>8 DEF PostMsg, Starting, Active
  <1>9. ASSUME NEW r \in Runs, NoIdentity(r) PROVE HandlesFit'
    <2>1. PICK s \in Timers : s = run[r].of
      BY <1>9, ActiveShape DEF NoIdentity, Waits
    <2>2. run'[r] = Free /\ \A q \in Runs \ {r} : run'[q] = run[q]
      BY <1>9, LeaveEffect DEF NoIdentity
    <2>3. /\ Starting(s)' = Starting(s) \ {r}
          /\ \A t \in Timers \ {s} : Starting(t)' = Starting(t)
      BY <2>1, <2>2 DEF Starting, Active
    <2>4. UNCHANGED <<timer, intervals, starts>> /\ HandlesFitOf(s)
      BY <1>9 DEF NoIdentity, HandlesFit
    <2>5. Cardinality(Starting(s)') <= Cardinality(Starting(s)) /\ Cardinality(Starting(s)') \in Nat
      BY <2>3, <2>4, FiniteParts, OneLess
    <2>6. HandlesFitOf(s)'
      BY <2>4, <2>5, FiniteParts DEF HandlesFitOf
    <2>7. \A t \in Timers \ {s} : HandlesFitOf(t)'
      BY <2>3, <2>4, HandlesStay DEF HandlesFit
    <2> QED BY <2>4, <2>6, <2>7 DEF HandlesFit, HandleShape
  <1>10. ASSUME NEW r \in Runs, SkipJob(r) \/ JobSucceeds(r) PROVE HandlesFit'
    <2>1. /\ Active(r) /\ Leave(r) /\ starts' = starts
          /\ Schedule(r, intervals[run[r].of], timer[run[r].of])
      BY <1>10 DEF SkipJob, JobSucceeds, Waits, Running
    <2>2. timer[run[r].of] \in intervals[run[r].of] \cup {None}
      BY <2>1, ActiveShape DEF HandlesFit, HandlesFitOf
    <2> QED BY <2>1, <2>2, ExecutionEnds
  <1>11. ASSUME NEW r \in Runs, JobFails(r) PROVE HandlesFit'
    <2>1. /\ Active(r) /\ Leave(r) /\ starts' = starts
          /\ Schedule(r, intervals[run[r].of] \ {timer[run[r].of]}, None)
      BY <1>11 DEF JobFails, Running
    <2> QED BY <2>1, ExecutionEnds
  <1> QED BY <1>2, <1>3, <1>4, <1>5, <1>6, <1>7, <1>8, <1>9, <1>10, <1>11 DEF Next, JobEnds

(* The state is well typed; above all a timer only holds the handle of a    *)
(* live interval, however many starts overlap.                              *)
THEOREM TypeCorrect == Spec => []TypeOK
  <1> DEFINE Small == errors \in 0..MaxErrors /\ late \in BOOLEAN
  <1>1. Init => HandlesFit /\ Small
    <2> SUFFICES ASSUME Init PROVE HandlesFit /\ Small
      OBVIOUS
    <2>1. \A r \in Runs : ~Active(r)
      BY DEF Init, Active
    <2>2. HandleShape
      BY DEF Init, HandleShape
    <2>3. ASSUME NEW s \in Timers PROVE HandlesFitOf(s)
      <3>1. Starting(s) = {} /\ intervals[s] = {} /\ Cardinality({}) = 0
        BY <2>1, FS_EmptySet DEF Init, Starting
      <3>2. Cardinality(intervals[s]) = 0 /\ Cardinality(Starting(s)) = 0
        BY <3>1
      <3>3. starts[s] = 0 /\ timer[s] = None
        BY DEF Init
      <3> QED BY <3>1, <3>2, <3>3, BoundsAssumption DEF HandlesFitOf
    <2>4. errors = 0 /\ late = FALSE
      BY DEF Init
    <2>5. errors \in 0..MaxErrors
      BY <2>4, BoundsAssumption
    <2>6. late \in BOOLEAN
      BY <2>4
    <2> QED BY <2>2, <2>3, <2>5, <2>6 DEF HandlesFit
  <1>2. ASSUME Inv, HandlesFit, [Next]_vars PROVE HandlesFit'
    BY <1>2, HandlesStep DEF Inv
  <1>3. ASSUME Small, [Next]_vars PROVE Small'
    <2>1. CASE UNCHANGED <<errors, late>>
      BY <1>3, <2>1
    <2>2. ASSUME NEW r \in Runs, PostMsg(r) PROVE Small'
      BY <1>3, <2>2 DEF PostMsg
    <2>3. ASSUME NEW r \in Runs, JobFails(r) PROVE Small'
      BY <1>3, <2>3, BoundsAssumption DEF JobFails
    <2> QED BY <1>3, <2>1, <2>2, <2>3
        DEF vars, Next, JobEnds, CallStart, CallTrigger, NoIdentity, BeginJob, SkipJob, Tick, Stop,
            JobSucceeds
  <1>4. Inv /\ HandlesFit /\ Small => TypeOK
    <2> SUFFICES ASSUME Inv, HandlesFit, Small PROVE TypeOK
      OBVIOUS
    <2>1. \A s \in Timers : /\ intervals[s] \subseteq Handles /\ timer[s] \in intervals[s] \cup {None}
                            /\ starts[s] \in 0..MaxStarts
      BY DEF HandlesFit, HandlesFitOf
    <2>2. /\ intervals \in [Timers -> SUBSET Handles] /\ timer \in [Timers -> Handles \cup {None}]
          /\ starts \in [Timers -> 0..MaxStarts]
      BY <2>1 DEF HandlesFit, HandleShape
    <2> QED BY <2>1, <2>2 DEF Inv, Shape, TypeOK
  <1> HIDE DEF Small
  <1> QED BY <1>1, <1>2, <1>3, <1>4, InvHolds, PTL DEF Spec
=============================================================================
