------------------------------ MODULE TaskQueue ------------------------------
(***************************************************************************)
(* The task queue of src/tasks: the task table in postgres, the Worker of  *)
(* each pine instance with its pollers, addTaskHandler and addCronTask,    *)
(* and the API clients that create and cancel tasks.                       *)
(*                                                                         *)
(* A poller keeps its row locked (FOR UPDATE SKIP LOCKED) from the SELECT  *)
(* until its transaction is over; a PATCH of a locked row waits for that.  *)
(* Task names stand for rows: a job is one row, a cron task is the row its *)
(* handler has now (a unique index allows one that is queued).             *)
(***************************************************************************)
EXTENDS Naturals, FiniteSets

CONSTANTS
  Instances,       \* pine processes that share the database
  Slots,           \* pollers a Worker may have
  Jobs,            \* tasks created by a POST, to be executed to an end
  Crons,           \* tasks that addCronTask registers
  Preexisting,     \* those whose row an older release created
  AttemptLimit,    \* attempt_limit of each task
  QueueConcurrency, \* values of env.tasks.queueConcurrency, the first one
  InitialConcurrency,
  Outcomes,        \* statuses that handlers return
  MaxFaults,       \* bound: lost connections, crashes, handlers that throw
  MaxMoves,        \* bound: calls of stop(), changes of queueConcurrency
  None             \* no task

Tasks == Jobs \cup Crons
Statuses == {"queued", "cancelled", "succeeded", "failed"}

ASSUME TaskAssumption ==
  /\ Jobs \cap Crons = {}
  /\ Preexisting \subseteq Crons
  /\ AttemptLimit \in [Tasks -> Nat \ {0}]
  /\ QueueConcurrency \subseteq 0..Cardinality(Slots)
  /\ InitialConcurrency \in QueueConcurrency
  /\ Outcomes \subseteq Statuses
  /\ MaxFaults \in Nat /\ MaxMoves \in Nat
  /\ None \notin Tasks

VARIABLES
  row,         \* the task table
  poller,      \* poller[i][s]: what each poller of each Worker is doing
  up,          \* instances whose process runs
  running,     \* Worker.running
  concurrency, \* env.tasks.queueConcurrency of each instance
  registered,  \* Worker.handlers
  adding,      \* addCronTask between its rejected POST and its PATCH
  past,        \* past[k]: k and the tasks scheduled before it, once its time has come
  waiting,     \* PATCHes that wait for the lock of each row
  executions,  \* handler calls made for each row so far (history)
  faults, moves

workerVars == <<running, concurrency>>
handlerVars == <<registered, adding>>
vars == <<row, poller, up, workerVars, handlerVars, past, waiting, executions,
          faults, moves>>
-----------------------------------------------------------------------------
\* A row is "due" when its scheduled time is within the look-ahead of a poll,
\* which may be before that time has come.
\* A cron task has the expression of the release that runs, or of an old one.
Schedules == {"unset", "later", "due"}
Expressions == {"none", "old", "new"}
Rows == [status : Statuses \cup {"none"}, attempts : Nat, sched : Schedules,
         cron : Expressions]
Row(st, a, sc, e) == [status |-> st, attempts |-> a, sched |-> sc, cron |-> e]
NoRow == Row("none", 0, "unset", "none")

\* What the POST hook makes of a new task.
Queued(sc, e) == Row("queued", 0, sc, e)

\* A poller that executes a task goes by the row as its SELECT returned it.
\* "severed": the connection was lost, and the handler still runs.
Stages == {"off", "polling", "sleeping", "executing", "severed"}
Pollers == [at : Stages, task : Tasks \cup {None}, read : Rows]
Poller(at) == [at |-> at, task |-> None, read |-> NoRow]

Patches == Instances \X {"cancel", "update"}

LockHolders(k) == {p \in Instances \X Slots :
                     /\ poller[p[1]][p[2]].at = "executing"
                     /\ poller[p[1]][p[2]].task = k}
\* Fault: the poll does not lock the row it reads.
NeverLocked(k) == FALSE
Locked(k) == LockHolders(k) # {}

\* currentConcurrency: the pollers of a Worker that have not stopped.
Alive(i) == {s \in Slots : poller[i][s].at # "off"}

\* Fault: the limit counts the pollers only when they are spawned.
CanExecuteWhileRunning(i) == running[i]
CanExecute(i) == running[i] /\ Cardinality(Alive(i)) <= concurrency[i]

\* Where a poller goes at the end of poll(): another round, or off.
Continue(i, s) ==
  poller' = [poller EXCEPT ![i][s] =
               Poller(IF CanExecute(i) THEN "polling" ELSE "off")]

\* The waiting PATCHes of a row that is unlocked while it is queued.
Patched(r, P) ==
  [r EXCEPT !.status = IF \E p \in P : p[2] = "cancel" THEN "cancelled" ELSE @,
            !.cron = IF \E p \in P : p[2] = "update" THEN "new" ELSE @]
-----------------------------------------------------------------------------
Init ==
  /\ row = [k \in Tasks |-> IF k \in Preexisting
                           THEN Row("queued", 0, "later", "old") ELSE NoRow]
  /\ poller = [i \in Instances |-> [s \in Slots |-> Poller("off")]]
  /\ up = [i \in Instances |-> FALSE]
  /\ running = [i \in Instances |-> FALSE]
  /\ concurrency = [i \in Instances |-> InitialConcurrency]
  /\ registered = [i \in Instances |-> {}]
  /\ adding = [i \in Instances |-> None]
  /\ past = [k \in Tasks |-> {}]
  /\ waiting = [k \in Tasks |-> {}]
  /\ executions = [k \in Tasks |-> 0]
  /\ faults = 0 /\ moves = 0

Boot(i) ==
  /\ ~up[i]
  /\ up' = [up EXCEPT ![i] = TRUE]
  /\ UNCHANGED <<row, poller, workerVars, handlerVars, waiting, executions,
                 faults, moves, past>>

\* addTaskHandler
Register(i, k) ==
  /\ up[i]
  /\ k \in Jobs \ registered[i]
  /\ registered' = [registered EXCEPT ![i] = @ \cup {k}]
  /\ UNCHANGED <<row, poller, up, workerVars, adding, waiting, executions,
                 faults, moves, past>>

\* addCronTask: the handler is registered and the task POSTed.  The unique
\* index rejects the POST while the handler has a queued cron task.
AddCron(i, c) ==
  /\ up[i]
  /\ adding[i] = None
  /\ c \in Crons \ registered[i]
  /\ registered' = [registered EXCEPT ![i] = @ \cup {c}]
  /\ IF row[c].status = "queued"
     THEN /\ adding' = [adding EXCEPT ![i] = c]
          /\ UNCHANGED <<row, executions>>
     ELSE /\ row' = [row EXCEPT ![c] = Queued("later", "new")]
          /\ executions' = [executions EXCEPT ![c] = 0]
          /\ UNCHANGED adding
  /\ UNCHANGED <<poller, up, workerVars, waiting, faults, moves, past>>

\* Fault: the PATCH does not wait for the lock.
PatchAtOnce(i, k, as) ==
  row' = [row EXCEPT ![k] = Patched(@, {<<i, as>>})] /\ UNCHANGED waiting

\* A PATCH of the rows it finds queued: at once, or after the lock is gone.
Patch(i, k, as) ==
  IF Locked(k)
  THEN waiting' = [waiting EXCEPT ![k] = @ \cup {<<i, as>>}] /\ UNCHANGED row
  ELSE row' = [row EXCEPT ![k] = Patched(@, {<<i, as>>})] /\ UNCHANGED waiting

\* addCronTask after the conflict: PATCH the queued task if its expression
\* differs.  The time it is scheduled to execute on stays as it is.
UpdateCron(i) ==
  /\ adding[i] # None
  /\ adding' = [adding EXCEPT ![i] = None]
  /\ IF row[adding[i]].status = "queued" /\ row[adding[i]].cron # "new"
     THEN Patch(i, adding[i], "update")
     ELSE UNCHANGED <<row, waiting>>
  /\ UNCHANGED <<poller, up, workerVars, registered, executions, faults, moves, past>>

\* A client POSTs a task to an instance that has its handler.
Create(i, k) ==
  /\ up[i]
  /\ k \in Jobs \cap registered[i]
  /\ row[k].status = "none"
  /\ \E sc \in {"unset", "later"} : row' = [row EXCEPT ![k] = Queued(sc, "none")]
  /\ UNCHANGED <<poller, up, workerVars, handlerVars, waiting, executions,
                 faults, moves, past>>

\* A client marks the queued task as cancelled.
Cancel(i, k) ==
  /\ up[i]
  /\ row[k].status = "queued"
  /\ Patch(i, k, "cancel")
  /\ UNCHANGED <<poller, up, workerVars, handlerVars, executions, faults, moves, past>>
-----------------------------------------------------------------------------
\* Worker.start: spawn pollers up to the limit, counting those still alive.
Start(i) ==
  /\ up[i]
  /\ running' = [running EXCEPT ![i] = TRUE]
  /\ \E S \in SUBSET (Slots \ Alive(i)) :
       /\ IF Cardinality(Alive(i)) < concurrency[i]
          THEN Cardinality(S) = concurrency[i] - Cardinality(Alive(i))
          ELSE S = {}
       /\ poller' = [poller EXCEPT ![i] = [s \in Slots |->
                       IF s \in S THEN Poller("polling") ELSE @[s]]]
  /\ UNCHANGED <<row, up, concurrency, handlerVars, waiting, executions, faults,
                 moves, past>>

Stop(i) ==
  /\ running[i]
  /\ moves < MaxMoves
  /\ running' = [running EXCEPT ![i] = FALSE]
  /\ moves' = moves + 1
  /\ UNCHANGED <<row, poller, up, concurrency, handlerVars, waiting, executions,
                 faults, past>>

\* The application assigns env.tasks.queueConcurrency.
SetConcurrency(i, n) ==
  /\ up[i] /\ n # concurrency[i]
  /\ moves < MaxMoves
  /\ concurrency' = [concurrency EXCEPT ![i] = n]
  /\ moves' = moves + 1
  /\ UNCHANGED <<row, poller, up, running, handlerVars, waiting, executions,
                 faults, past>>

\* Fault: a comparison with NULL, which is never true, leaves the row out.
TimedRows(i) ==
  {k \in registered[i] : /\ row[k].status = "queued"
                         /\ row[k].attempts <= AttemptLimit[k]
                         /\ row[k].sched = "due"
                         /\ ~Locked(k)}

\* The rows the SELECT of poll() may return.
Candidates(i) ==
  {k \in registered[i] : /\ row[k].status = "queued"
                         /\ row[k].attempts <= AttemptLimit[k]
                         /\ row[k].sched # "later"
                         /\ ~Locked(k)}

\* Fault: the rows are ordered by their time, but the latest comes first.
Latest(K) ==
  LET timed == {k \in K : row[k].sched = "due"}
      late == {k \in timed : \A l \in timed : k \in past[l] => l = k}
  IN IF timed # {} THEN late ELSE K

\* Its ORDER BY: the earliest time first, one that has come before one that is
\* still ahead, and NULLS last.
First(K) ==
  LET timed == {k \in K : row[k].sched = "due"}
      came == {k \in timed : k \in past[k]}
  IN IF came # {} THEN {k \in came : past[k] \cap came = {k}}
     ELSE IF timed # {} THEN timed ELSE K

\* poll() finds a task and calls its handler.
Take(i, s) ==
  /\ poller[i][s].at = "polling"
  /\ \E k \in First(Candidates(i)) :
       /\ poller' = [poller EXCEPT ![i][s] =
                       [at |-> "executing", task |-> k, read |-> row[k]]]
       /\ executions' = [executions EXCEPT ![k] = @ + 1]
  /\ UNCHANGED <<row, up, workerVars, handlerVars, waiting, faults, moves, past>>

\* poll() finds none, or has no handlers, and sleeps for queueIntervalMS.
TakeNothing(i, s) ==
  /\ poller[i][s].at = "polling"
  /\ Candidates(i) = {}
  /\ poller' = [poller EXCEPT ![i][s] = Poller("sleeping")]
  /\ UNCHANGED <<row, up, workerVars, handlerVars, waiting, executions, faults,
                 moves, past>>

Wake(i, s) ==
  /\ poller[i][s].at = "sleeping"
  /\ Continue(i, s)
  /\ UNCHANGED <<row, up, workerVars, handlerVars, waiting, executions, faults,
                 moves, past>>
-----------------------------------------------------------------------------
(***************************************************************************)
(* The end of an execution.  update() counts the attempt, and queues a     *)
(* failed task again while attempts are left; the time is that of the      *)
(* exponential backoff.                                                    *)
(***************************************************************************)
\* Fault: a retry is scheduled without its attempt being counted.
ForgetsAttempt(p, outcome) ==
  LET k == p.task
      n == p.read.attempts + 1
  IN IF outcome = "failed" /\ n < AttemptLimit[k]
     THEN [row[k] EXCEPT !.sched = "later"]
     ELSE [row[k] EXCEPT !.attempts = n, !.status = outcome]

Updated(p, outcome) ==
  LET k == p.task
      n == p.read.attempts + 1
  IN IF outcome = "failed" /\ n < AttemptLimit[k]
     THEN [row[k] EXCEPT !.attempts = n, !.status = "queued", !.sched = "later"]
     ELSE [row[k] EXCEPT !.attempts = n, !.status = outcome]

\* Fault: a cron task recurs only after a success.
RecursAfterSuccess(p, r) == p.read.cron # "none" /\ r.status = "succeeded"

\* A cron task is followed by a new one when it is over, but not cancelled.
Recurs(p, r) == p.read.cron # "none" /\ r.status \in {"failed", "succeeded"}

\* Fault: the worker writes its result over the PATCHes that waited for it.
OverwritesPatches(k, r) == {r}

\* What the unlocked row becomes: PATCHes that waited apply if it is queued.
\* They may change a finished row too, having found it before it finished.
Unlocked(k, r) ==
  IF r.status = "queued" THEN {Patched(r, waiting[k])}
  ELSE {r, Patched(r, waiting[k])}

\* The handler returned, and the poll's transaction commits.
Finish(i, s, outcome) ==
  LET p == poller[i][s]
      k == p.task
      r == Updated(p, outcome)
  IN /\ p.at = "executing"
     /\ \E after \in IF Recurs(p, r) THEN {Queued("later", p.read.cron)}
                     ELSE Unlocked(k, r) :
          row' = [row EXCEPT ![k] = after]
     /\ executions' = [executions EXCEPT ![k] = IF Recurs(p, r) THEN 0 ELSE @]
     /\ waiting' = [waiting EXCEPT ![k] = {}]
     /\ Continue(i, s)
     /\ UNCHANGED <<up, workerVars, handlerVars, faults, moves, past>>

\* The transaction is rolled back after the handler returned: its COMMIT
\* fails.  poll() logs that and goes on.
CommitFails(i, s) ==
  LET k == poller[i][s].task
  IN /\ faults < MaxFaults
     /\ poller[i][s].at = "executing"
     /\ row' = [row EXCEPT ![k] = Patched(@, waiting[k])]
     /\ waiting' = [waiting EXCEPT ![k] = {}]
     /\ Continue(i, s)
     /\ faults' = faults + 1
     /\ UNCHANGED <<up, workerVars, handlerVars, executions, moves, past>>

\* The connection is lost while the handler runs: the server drops the lock.
Sever(i, s) ==
  LET k == poller[i][s].task
  IN /\ faults < MaxFaults
     /\ poller[i][s].at = "executing"
     /\ row' = [row EXCEPT ![k] = Patched(@, waiting[k])]
     /\ waiting' = [waiting EXCEPT ![k] = {}]
     /\ poller' = [poller EXCEPT ![i][s].at = "severed"]
     /\ faults' = faults + 1
     /\ UNCHANGED <<up, workerVars, handlerVars, executions, moves, past>>

\* The process ends: every transaction of it is rolled back, and the next
\* one starts from nothing.
Exit(i) ==
  LET freed == {k \in Tasks : \E p \in LockHolders(k) : p[1] = i}
      left(k) == {p \in waiting[k] : p[1] # i}
  IN /\ up' = [up EXCEPT ![i] = FALSE]
     /\ poller' = [poller EXCEPT ![i] = [s \in Slots |-> Poller("off")]]
     /\ running' = [running EXCEPT ![i] = FALSE]
     /\ concurrency' = [concurrency EXCEPT ![i] = InitialConcurrency]
     /\ registered' = [registered EXCEPT ![i] = {}]
     /\ adding' = [adding EXCEPT ![i] = None]
     /\ row' = [k \in Tasks |-> IF k \in freed THEN Patched(row[k], left(k))
                                ELSE row[k]]
     /\ waiting' = [k \in Tasks |-> IF k \in freed THEN {} ELSE left(k)]
     /\ faults' = faults + 1
     /\ UNCHANGED <<executions, moves, past>>

\* A crash, or a handler that throws: execute() then exits the process with
\* all that its other pollers are executing.
Crash(i) == up[i] /\ faults < MaxFaults /\ Exit(i)

\* A severed handler ends: its update() fails, so execute() exits.
SeveredEnds(i, s) == poller[i][s].at = "severed" /\ Exit(i)

\* Time passes until a scheduled row is within the look-ahead of a poll,
TimePasses(k) ==
  /\ row[k].status = "queued" /\ row[k].sched = "later"
  /\ row' = [row EXCEPT ![k].sched = "due"]
  /\ past' = [l \in Tasks |-> IF l = k THEN {} ELSE past[l] \ {k}]
  /\ UNCHANGED <<poller, up, workerVars, handlerVars, waiting, executions,
                 faults, moves>>

\* and until its time has come.
TimeComes(k) ==
  /\ row[k].status = "queued" /\ row[k].sched = "due" /\ k \notin past[k]
  /\ past' = [past EXCEPT ![k] = {k} \cup {l \in Tasks : l \in past[l]}]
  /\ UNCHANGED <<row, poller, up, workerVars, handlerVars, waiting, executions,
                 faults, moves>>
-----------------------------------------------------------------------------
Round(i, s) == Take(i, s) \/ TakeNothing(i, s) \/ Wake(i, s)
Settle(i, s) == (\E o \in Outcomes : Finish(i, s, o)) \/ SeveredEnds(i, s)

Next ==
  \/ \E i \in Instances :
       \/ Boot(i) \/ Start(i) \/ Stop(i) \/ UpdateCron(i) \/ Crash(i)
       \/ \E n \in QueueConcurrency : SetConcurrency(i, n)
       \/ \E k \in Tasks : \/ Register(i, k) \/ AddCron(i, k)
                           \/ Create(i, k) \/ Cancel(i, k)
       \/ \E s \in Slots : \/ Round(i, s) \/ Settle(i, s)
                           \/ CommitFails(i, s) \/ Sever(i, s)
  \/ \E k \in Tasks : TimePasses(k) \/ TimeComes(k)

Spec == Init /\ [][Next]_vars

(***************************************************************************)
(* Pollers go on, handlers settle and time passes.                         *)
(***************************************************************************)
Fairness ==
  /\ \A i \in Instances, s \in Slots : WF_vars(Round(i, s)) /\ WF_vars(Settle(i, s))
  /\ \A k \in Tasks : WF_vars(TimePasses(k)) /\ WF_vars(TimeComes(k))
FairSpec == Spec /\ Fairness

\* Every process is restarted, registers its tasks and calls start().
Deployed ==
  \A i \in Instances :
    /\ WF_vars(Boot(i))
    /\ WF_vars(UpdateCron(i))
    /\ WF_vars(~running[i] /\ Start(i))
    /\ \A k \in Tasks : WF_vars(Register(i, k)) /\ WF_vars(AddCron(i, k))
-----------------------------------------------------------------------------
(***************************************************************************)
(* Properties.                                                             *)
(***************************************************************************)

\* Every variable stays in its set.
TypeOK ==
  /\ row \in [Tasks -> Rows]
  /\ poller \in [Instances -> [Slots -> Pollers]]
  /\ up \in [Instances -> BOOLEAN]
  /\ running \in [Instances -> BOOLEAN]
  /\ concurrency \in [Instances -> QueueConcurrency]
  /\ registered \in [Instances -> SUBSET Tasks]
  /\ adding \in [Instances -> Crons \cup {None}]
  /\ past \in [Tasks -> SUBSET Tasks]
  /\ waiting \in [Tasks -> SUBSET Patches]
  /\ executions \in [Tasks -> Nat]
  /\ faults \in Nat /\ moves \in Nat

\* Unless the connection of one was lost, no two pollers of any instances
\* execute a task at once, and what update() computes from the row that its
\* poller read long ago does not overwrite what somebody wrote in the meantime.
ExecutesAlone ==
  /\ \A k \in Tasks : Cardinality(LockHolders(k)) <= 1
  /\ \A i \in Instances, s \in Slots :
       poller[i][s].at = "executing" => /\ poller[i][s].read = row[poller[i][s].task]
                                        /\ poller[i][s].read.status = "queued"

\* The handler of a task is called once per attempt it is allowed, and again
\* only for a process or connection that was lost; and a task is given up as
\* failed with its last attempt, not before.
AttemptsCounted ==
  \A k \in Tasks : /\ executions[k] <= AttemptLimit[k] + faults
                   /\ row[k].status = "failed" => row[k].attempts = AttemptLimit[k]

\* Once a cron task has the expression of the release that runs, no worker
\* still busy with the old one brings that back.
ExpressionKept ==
  [][\A c \in Crons : row[c].cron = "new" => row'[c].cron = "new"]_vars

\* A client whose PATCH to "cancelled" had to wait finds, when it is
\* answered, that the task will not be executed any more.
Answered(k) == \E p \in waiting[k] : p[2] = "cancel" /\ p \notin waiting'[k] /\ up'[p[1]]
JobCancelled == [][\A k \in Jobs : Answered(k) => row'[k].status # "queued"]_vars

\* Pollers in excess of the limit, all of them after stop(), stop.
Excess(i) == Cardinality(Alive(i)) > IF running[i] THEN concurrency[i] ELSE 0
ExcessStops == \A i \in Instances : Excess(i) ~> ~Excess(i)

\* While processes are deployed, a job that is scheduled for a time is at last
\* over, whatever crashes on the way and however often cron tasks recur, as the
\* poll takes the earliest first; one without a time comes last, and is over at
\* last if polls find no cron task waiting again and again.  A cron task is
\* executed again and again until somebody cancels it.
Ends(k) == row[k].status # "queued"
TimedJobsEnd == \A k \in Jobs : ~Ends(k) /\ row[k].sched # "unset" ~> Ends(k)
JobsEnd == \A k \in Jobs : ~Ends(k) ~> Ends(k)
FindsNoCron ==
  \E i \in Instances, s \in Slots :
    (Take(i, s) \/ TakeNothing(i, s)) /\ Candidates(i) \cap Crons = {}
CronsRecur ==
  \A c \in Crons : row[c].status # "none" ~> Locked(c) \/ row[c].status = "cancelled"
TasksGoOn ==
  Deployed => /\ TimedJobsEnd
              /\ ([]<><<FindsNoCron>>_vars => JobsEnd)
              /\ CronsRecur
=============================================================================
