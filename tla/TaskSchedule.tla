---------------------------- MODULE TaskSchedule ----------------------------
(***************************************************************************)
(* When a cron task of src/tasks is executed: the POST hook that picks its *)
(* next time, the poll that looks ahead for due tasks, and the worker that *)
(* creates the next task when one is over.  Two clocks meet: the POST hook *)
(* reads the clock of the process, the poll that of postgres.              *)
(*                                                                         *)
(* Time is in ticks (half a second in the runs).                           *)
(***************************************************************************)
EXTENDS Integers

CONSTANTS
  Interval, \* env.tasks.queueIntervalMS
  Second,   \* a second
  Period,   \* the cron expression: it occurs at every multiple of Period
  Skew,     \* by how much the clock of postgres is ahead, or behind if negative
  Horizon   \* bound: the time at which a run ends

ASSUME ScheduleAssumption ==
  /\ Interval \in Nat \ {0} /\ Second \in Nat \ {0} /\ Period \in Nat \ {0}
  /\ Skew \in Int /\ Horizon \in Nat

VARIABLES
  now,       \* the time by the clock of the process
  phase,     \* the row is queued, or a worker executes it
  scheduled, \* is scheduled to execute on-time
  polled,    \* when the worker SELECTed the row
  refused    \* the POST of a next task was refused (history)

scheduleVars == <<now, phase, scheduled, polled, refused>>
-----------------------------------------------------------------------------
\* Fault: the look-ahead is a second more than that.
OneSecondMore == ((Interval + Second - 1) \div Second + 1) * Second

\* Math.ceil(queueIntervalMS / 1000) seconds.
LookAhead == ((Interval + Second - 1) \div Second) * Second

NextAfter(t) == (t \div Period + 1) * Period

\* Fault: the first occurrence is taken, however close it is.
FirstOccurrence(t) == NextAfter(t)

\* The hook: the next occurrence, or the one after it if that is too close.
CronTime(t) == IF NextAfter(t) < t + Interval THEN NextAfter(NextAfter(t))
               ELSE NextAfter(t)

ScheduleInit ==
  /\ now = 0
  /\ phase = "queued"
  /\ scheduled = CronTime(0)
  /\ polled = 0
  /\ refused = FALSE

Tick == /\ now < Horizon
        /\ now' = now + 1
        /\ UNCHANGED <<phase, scheduled, polled, refused>>

Poll == /\ phase = "queued"
        /\ scheduled <= now + Skew + LookAhead
        /\ phase' = "executing"
        /\ polled' = now
        /\ UNCHANGED <<now, scheduled, refused>>

\* The execution is over: the row is updated and the next task POSTed.  The
\* hook asserts that its time is far enough in the future: when it is not,
\* the process exits, and the row is queued as it was.
FinishExecution ==
  /\ phase = "executing"
  /\ phase' = "queued"
  /\ IF CronTime(now) >= now + Interval
     THEN scheduled' = CronTime(now) /\ UNCHANGED refused
     ELSE refused' = TRUE /\ UNCHANGED scheduled
  /\ UNCHANGED <<now, polled>>

ScheduleNext == Tick \/ Poll \/ FinishExecution
ScheduleSpec == ScheduleInit /\ [][ScheduleNext]_scheduleVars
-----------------------------------------------------------------------------
\* Every variable stays in its set.
ScheduleTypeOK ==
  /\ now \in Nat /\ polled \in Nat /\ scheduled \in Nat
  /\ phase \in {"queued", "executing"}
  /\ refused \in BOOLEAN

\* What Math.ceil adds to an interval that is no whole number of seconds.
Rounding == (Second - (Interval % Second)) % Second

\* An occurrence of a cron expression is executed once: the task that follows
\* an execution, which may have been early, is for a later occurrence.  The one
\* exception is an execution over so soon that it does not outlast the lead
\* that the rounding and the clock of postgres give the poll over the hook.
OccurrenceOnce ==
  [][phase = "executing" /\ phase' = "queued" =>
       scheduled' > scheduled \/ now - polled <= Skew + Rounding]_scheduleVars

\* The next task can always be created: the hook reschedules it for the next
\* run, so that the task creation doesn't fail.
NextIsCreated == ~refused
=============================================================================
