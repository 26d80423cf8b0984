--------------------------- MODULE SchedulerTimer ---------------------------
(***************************************************************************)
(* SchedulerTimer, the timer behind every wallet worker of the frontend:    *)
(* src/frontend/src/lib/schedulers/scheduler.ts.  Timers are its instances. *)
(*                                                                         *)
(* start, trigger and the callback of the interval are asynchronous         *)
(* functions that interleave at their awaits.  Each execution of one of     *)
(* them is an element of Runs; stop is synchronous.                         *)
(***************************************************************************)
EXTENDS Integers, FiniteSets

CONSTANTS
  Timers,     \* the instances of SchedulerTimer
  Runs,       \* executions that can be in flight at the same time
  Scheduled,  \* is interval a number, and not 'disabled'?
  MaxStarts,  \* bound: calls of start of a timer
  MaxStops,   \* bound: calls of stop of a timer
  MaxErrors   \* bound: jobs that fail

ASSUME RunsAssumption == IsFiniteSet(Runs) /\ Scheduled \in BOOLEAN
ASSUME BoundsAssumption == MaxStarts \in Nat /\ MaxStops \in Nat /\ MaxErrors \in Nat

VARIABLES
  timer,      \* this.timer: the handle of an interval, or None
  timerStatus,\* this.timerStatus
  intervals,  \* the intervals the JavaScript engine keeps firing
  run,        \* the executions in flight
  starts, stops, errors,
  late        \* the data posted last is of a job that was stopped, and no other job runs

vars == <<timer, timerStatus, intervals, run, starts, stops, errors, late>>

-----------------------------------------------------------------------------
None == 0
Handles == 1..MaxStarts
SyncState == {"idle", "in_progress"}

(* An execution: its timer, who asked for it, where it waits, and the       *)
(* number of calls of stop before its job began.                            *)
Kinds == {"start", "trigger", "tick"}
Free == [kind |-> "none"]
Executions ==
  [of : Timers, kind : Kinds, at : {"loadIdentity", "job"}, since : 0..MaxStops]

Active(r) == run[r] # Free
Running(r) == Active(r) /\ run[r].at = "job"
RunningOf(s, r) == Running(r) /\ run[r].of = s
Waits(r) == Active(r) /\ run[r].at = "loadIdentity"
Enter(s, r, kind, at) ==
  run' = [run EXCEPT ![r] = [of |-> s, kind |-> kind, at |-> at, since |-> stops[s]]]
Leave(r) == run' = [run EXCEPT ![r] = Free]
SetStatus(s, state) == timerStatus' = [timerStatus EXCEPT ![s] = state]

(* setInterval returns a handle that no live interval has. *)
Fresh(live) == CHOOSE h \in Handles : h \notin live

(* What start does once its first execution is over: it sets an interval    *)
(* and forgets the handle this.timer may hold by then.                      *)
Schedule(r, live, handle) ==
  LET sets == run[r].kind = "start" /\ Scheduled
  IN /\ timer' = [timer EXCEPT ![run[r].of] = IF sets THEN Fresh(live) ELSE handle]
     /\ intervals' =
          [intervals EXCEPT ![run[r].of] = IF sets THEN live \cup {Fresh(live)} ELSE live]

Init ==
  /\ timer = [s \in Timers |-> None]
  /\ timerStatus = [s \in Timers |-> "idle"]
  /\ intervals = [s \in Timers |-> {}]
  /\ run = [r \in Runs |-> Free]
  /\ starts = [s \in Timers |-> 0] /\ stops = [s \in Timers |-> 0]
  /\ errors = 0
  /\ late = FALSE

-----------------------------------------------------------------------------
(* start and trigger up to their first await.  A start while the timer is   *)
(* set returns at once.                                                     *)
CallStart(s, r) ==
  /\ ~Active(r) /\ starts[s] < MaxStarts
  /\ timer[s] = None
  /\ Enter(s, r, "start", "loadIdentity")
  /\ starts' = [starts EXCEPT ![s] = @ + 1]
  /\ UNCHANGED <<timer, timerStatus, intervals, stops, errors, late>>

CallTrigger(s, r) ==
  /\ ~Active(r)
  /\ Enter(s, r, "trigger", "loadIdentity")
  /\ UNCHANGED <<timer, timerStatus, intervals, starts, stops, errors, late>>

NoIdentity(r) ==
  /\ Waits(r)
  /\ Leave(r)
  /\ UNCHANGED <<timer, timerStatus, intervals, starts, stops, errors, late>>

(* executeJob of a start or a trigger: the job begins if the timer is idle. *)
BeginJob(r) ==
  /\ Waits(r) /\ timerStatus[run[r].of] = "idle"
  /\ SetStatus(run[r].of, "in_progress")
  /\ Enter(run[r].of, r, run[r].kind, "job")
  /\ UNCHANGED <<timer, intervals, starts, stops, errors, late>>

SkipJob(r) ==
  /\ Waits(r) /\ timerStatus[run[r].of] # "idle"
  /\ Leave(r)
  /\ Schedule(r, intervals[run[r].of], timer[run[r].of])
  /\ UNCHANGED <<timerStatus, starts, stops, errors, late>>

(* Mutation of Tick: the status is not looked at. *)
TickAnyway(s, r) ==
  /\ ~Active(r) /\ intervals[s] # {}
  /\ SetStatus(s, "in_progress")
  /\ Enter(s, r, "tick", "job")
  /\ UNCHANGED <<timer, intervals, starts, stops, errors, late>>

(* An interval fires; it does nothing unless the timer is idle. *)
Tick(s, r) ==
  /\ ~Active(r) /\ intervals[s] # {} /\ timerStatus[s] = "idle"
  /\ SetStatus(s, "in_progress")
  /\ Enter(s, r, "tick", "job")
  /\ UNCHANGED <<timer, intervals, starts, stops, errors, late>>

(* postMsg of a running job; an idle timer drops the data. *)
PostMsg(r) ==
  /\ Running(r) /\ timerStatus[run[r].of] # "idle"
  /\ late' = (/\ run[r].since # stops[run[r].of]
              /\ \A q \in Runs : RunningOf(run[r].of, q) => q = r)
  /\ UNCHANGED <<timer, timerStatus, intervals, run, starts, stops, errors>>

(* Mutation of JobSucceeds: the status is not reset. *)
JobLeavesStatus(r) ==
  /\ Running(r)
  /\ Leave(r)
  /\ Schedule(r, intervals[run[r].of], timer[run[r].of])
  /\ UNCHANGED <<timerStatus, starts, stops, errors, late>>

JobSucceeds(r) ==
  /\ Running(r)
  /\ SetStatus(run[r].of, "idle")
  /\ Leave(r)
  /\ Schedule(r, intervals[run[r].of], timer[run[r].of])
  /\ UNCHANGED <<starts, stops, errors, late>>

(* Mutation of JobFails: stop leaves a handle that is no longer live. *)
JobFailsKeepsHandle(r) ==
  /\ Running(r) /\ errors < MaxErrors
  /\ SetStatus(run[r].of, "idle")
  /\ errors' = errors + 1
  /\ Leave(r)
  /\ timer' = timer
  /\ intervals' = [intervals EXCEPT ![run[r].of] = @ \ {timer[run[r].of]}]
  /\ UNCHANGED <<starts, stops, late>>

(* The status becomes "error", and stop() at once makes it "idle" again.    *)
(* A failed first execution does not keep start from setting the interval.  *)
JobFails(r) ==
  /\ Running(r) /\ errors < MaxErrors
  /\ SetStatus(run[r].of, "idle")
  /\ errors' = errors + 1
  /\ Leave(r)
  /\ Schedule(r, intervals[run[r].of] \ {timer[run[r].of]}, None)
  /\ UNCHANGED <<starts, stops, late>>

(* Mutation of Stop: the status is not reset. *)
StopKeepsStatus(s) ==
  /\ stops[s] < MaxStops
  /\ stops' = [stops EXCEPT ![s] = @ + 1]
  /\ timer' = [timer EXCEPT ![s] = None]
  /\ intervals' = [intervals EXCEPT ![s] = @ \ {timer[s]}]
  /\ UNCHANGED <<timerStatus, run, starts, errors, late>>

Stop(s) ==
  /\ stops[s] < MaxStops
  /\ stops' = [stops EXCEPT ![s] = @ + 1]
  /\ timer' = [timer EXCEPT ![s] = None]
  /\ intervals' = [intervals EXCEPT ![s] = @ \ {timer[s]}]
  /\ SetStatus(s, "idle")
  /\ UNCHANGED <<run, starts, errors, late>>

JobEnds(r) == JobSucceeds(r) \/ JobFails(r)

Next ==
  \/ \E s \in Timers, r \in Runs : CallStart(s, r) \/ CallTrigger(s, r) \/ Tick(s, r)
  \/ \E r \in Runs :
       NoIdentity(r) \/ BeginJob(r) \/ SkipJob(r) \/ PostMsg(r) \/ JobEnds(r)
  \/ \E s \in Timers : Stop(s)

Spec == Init /\ [][Next]_vars

(* Jobs end and promises settle: the timeouts of the network calls see to   *)
(* that.  An interval fires again and again; fairness is strong because the *)
(* bound on the executions in flight may disable Tick in between.           *)
Fairness ==
  /\ \A r \in Runs :
       WF_vars(NoIdentity(r) \/ BeginJob(r) \/ SkipJob(r)) /\ WF_vars(JobEnds(r))
  /\ \A s \in Timers : SF_vars(\E r \in Runs : Tick(s, r))
FairSpec == Spec /\ Fairness

-----------------------------------------------------------------------------
(* Properties. *)

(* Types; and this.timer only holds the handle of a live interval, so that  *)
(* a timer without an interval can always be started again.                 *)
TypeOK ==
  /\ intervals \in [Timers -> SUBSET Handles]
  /\ timer \in [Timers -> Handles \cup {None}]
  /\ \A s \in Timers : timer[s] \in intervals[s] \cup {None}
  /\ timerStatus \in [Timers -> SyncState]
  /\ run \in [Runs -> Executions \cup {Free}]
  /\ starts \in [Timers -> 0..MaxStarts] /\ stops \in [Timers -> 0..MaxStops]
  /\ errors \in 0..MaxErrors
  /\ late \in BOOLEAN

(* The status never sticks at in_progress, which would keep every later     *)
(* execution away: some job is still running that will reset it.            *)
BusyMeansRunning ==
  \A s \in Timers : timerStatus[s] = "in_progress" => \E r \in Runs : RunningOf(s, r)

JobsDontOverlap(s) ==
  \A r, q \in Runs : RunningOf(s, r) /\ RunningOf(s, q) => r = q

(* "Avoid to sync if already in progress - do not duplicate calls": only a  *)
(* stop while a job runs lets a second job run next to it.                  *)
OverlapNeedsStop == \A s \in Timers : stops[s] = 0 => JobsDontOverlap(s)

(* "The worker scheduler was stopped between the start of the execution and *)
(* the actual completion of the job": a stopped job posts no data, unless   *)
(* another job of its timer runs by then.                                   *)
StoppedJobsAreSilent == ~late

(* As long as an interval lives, the wallet keeps being refreshed.          *)
Refreshes ==
  \A s \in Timers :
    (intervals[s] # {}) ~> (intervals[s] = {} \/ \E r \in Runs : RunningOf(s, r))
=============================================================================
