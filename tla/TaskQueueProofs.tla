--------------------------- MODULE TaskQueueProofs ---------------------------
(***************************************************************************)
(* Proofs about TaskQueue, for any number of processes, pollers and tasks. *)
(* A row that is executed is locked, and all else follows from that: it    *)
(* stays as its poller has read it.                                        *)
(***************************************************************************)
EXTENDS TaskQueue, TaskSchedule, FiniteSetTheorems, TLAPS

Executing(i, s, k) == poller[i][s].at = "executing" /\ poller[i][s].task = k

\* The row lock has one holder.
Alone ==
  \A k \in Tasks, i, j \in Instances, s, t \in Slots :
    Executing(i, s, k) /\ Executing(j, t, k) => i = j /\ s = t

\* What a poller has read is what its task is.
AsRead ==
  \A i \in Instances, s \in Slots :
    poller[i][s].at = "executing" => /\ poller[i][s].task \in Tasks
                                     /\ poller[i][s].read = row[poller[i][s].task]
                                     /\ poller[i][s].read.status = "queued"
                                     /\ poller[i][s].read.sched # "later"

\* No release has an expression for a job.
JobsOccurOnce ==
  /\ \A i \in Instances : adding[i] \in Crons \cup {None}
  /\ \A k \in Jobs : /\ row[k].cron = "none"
                     /\ \A p \in waiting[k] : p[2] # "update"

IInv == TypeOK /\ Alone /\ AsRead /\ JobsOccurOnce
-----------------------------------------------------------------------------
LEMMA UnlockedRow ==
  ASSUME TypeOK, NEW k \in Tasks, ~Locked(k), NEW i \in Instances, NEW s \in Slots
  PROVE  ~Executing(i, s, k)
<1>1. <<i, s>> \in Instances \X Slots /\ <<i, s>>[1] = i /\ <<i, s>>[2] = s
  OBVIOUS
<1> QED BY <1>1 DEF Locked, LockHolders, Executing

LEMMA RowsOf ==
  ASSUME NEW st \in Statuses \cup {"none"}, NEW a \in Nat, NEW sc \in Schedules,
         NEW e \in Expressions
  PROVE  Row(st, a, sc, e) \in Rows
  BY DEF Row, Rows

LEMMA PatchedRow ==
  ASSUME NEW r \in Rows, NEW P
  PROVE  /\ Patched(r, P) \in Rows
         /\ Patched(r, P).status \in {r.status, "cancelled"}
         /\ Patched(r, P).cron \in {r.cron, "new"}
         /\ Patched(r, P).attempts = r.attempts
         /\ (\E p \in P : p[2] = "cancel") => Patched(r, P).status = "cancelled"
         /\ (\A p \in P : p[2] # "update") => Patched(r, P).cron = r.cron
  BY DEF Patched, Rows, Statuses, Expressions

LEMMA UpdatedRow ==
  ASSUME TypeOK, NEW p \in Pollers, p.task \in Tasks, NEW o \in Outcomes
  PROVE  /\ Updated(p, o) \in Rows
         /\ Updated(p, o).cron = row[p.task].cron
         /\ Updated(p, o).attempts = p.read.attempts + 1
         /\ Updated(p, o).status = o \/ (o = "failed" /\ Updated(p, o).status = "queued")
<1>1. /\ row[p.task] \in Rows /\ p.read.attempts + 1 \in Nat
      /\ o \in Statuses \cup {"none"}
  BY TaskAssumption DEF TypeOK, Pollers, Rows
<1> DEFINE r == row[p.task]
           n == p.read.attempts + 1
           again == [r EXCEPT !.attempts = n, !.status = "queued", !.sched = "later"]
           over == [r EXCEPT !.attempts = n, !.status = o]
<1>2. /\ again \in Rows /\ again.cron = r.cron /\ again.attempts = n
      /\ again.status = "queued"
  BY <1>1 DEF Rows, Statuses, Schedules
<1>3. over \in Rows /\ over.cron = r.cron /\ over.attempts = n /\ over.status = o
  BY <1>1 DEF Rows
<1>4. Updated(p, o) = IF o = "failed" /\ n < AttemptLimit[p.task] THEN again ELSE over
  BY DEF Updated
<1> HIDE DEF again, over
<1> QED BY <1>2, <1>3, <1>4

LEMMA PollerAt ==
  ASSUME NEW at \in Stages
  PROVE  /\ Poller(at) \in Pollers
         /\ Poller(at).at = at
  BY DEF Poller, Pollers, NoRow, Row, Rows, Statuses, Schedules, Expressions

\* What a round of a poller or a PATCH comes to.
LEMMA Continues ==
  ASSUME TypeOK, NEW i \in Instances, NEW s \in Slots, Continue(i, s)
  PROVE  /\ poller' \in [Instances -> [Slots -> Pollers]]
         /\ poller'[i][s].at \in {"polling", "off"}
         /\ \A j \in Instances, t \in Slots :
              ~(j = i /\ t = s) => poller'[j][t] = poller[j][t]
<1>1. PICK at \in {"polling", "off"} : poller' = [poller EXCEPT ![i][s] = Poller(at)]
  BY DEF Continue
<1>2. at \in Stages
  BY DEF Stages
<1> QED BY <1>1, <1>2, PollerAt DEF TypeOK

LEMMA PatchOf ==
  ASSUME TypeOK, NEW k \in Tasks, NEW i \in Instances,
         NEW as \in {"cancel", "update"}, Patch(i, k, as)
  PROVE  /\ row' \in [Tasks -> Rows]
         /\ waiting' \in [Tasks -> SUBSET Patches]
         /\ \A l \in Tasks : l # k => row'[l] = row[l] /\ waiting'[l] = waiting[l]
         /\ \/ /\ row'[k] = row[k]
               /\ waiting'[k] = waiting[k] \cup {<<i, as>>}
            \/ /\ row'[k] = Patched(row[k], {<<i, as>>})
               /\ waiting'[k] = waiting[k] /\ ~Locked(k)
<1>1. CASE Locked(k)
  <2>1. waiting' = [waiting EXCEPT ![k] = @ \cup {<<i, as>>}] /\ row' = row
    BY <1>1 DEF Patch
  <2>2. <<i, as>> \in Patches /\ <<i, as>>[2] = as
    BY DEF Patches
  <2>3. \A l \in Tasks :
          waiting'[l] = IF l = k THEN waiting[k] \cup {<<i, as>>} ELSE waiting[l]
    BY <2>1 DEF TypeOK
  <2> QED BY <2>1, <2>2, <2>3 DEF TypeOK
<1>2. CASE ~Locked(k)
  <2>1. row' = [row EXCEPT ![k] = Patched(@, {<<i, as>>})] /\ waiting' = waiting
    BY <1>2 DEF Patch
  <2>2. row[k] \in Rows
    BY DEF TypeOK
  <2> QED BY <1>2, <2>1, <2>2, PatchedRow DEF TypeOK
<1> QED BY <1>1, <1>2

LEMMA PatchOther ==
  ASSUME TypeOK, NEW k \in Tasks, NEW i \in Instances,
         NEW as \in {"cancel", "update"}, Patch(i, k, as), NEW l \in Tasks, l # k
  PROVE  row'[l] = row[l] /\ waiting'[l] = waiting[l]
  BY PatchOf

LEMMA Init_IInv == Init => IInv
<1> SUFFICES ASSUME Init PROVE IInv
  OBVIOUS
<1> USE TaskAssumption DEF Init, Tasks
<1>1. TypeOK
  BY DEF TypeOK, Row, NoRow, Rows, Statuses, Schedules, Expressions, Poller,
         Pollers, Stages, Patches
<1>2. Alone /\ AsRead
  BY DEF Alone, AsRead, Executing, Poller
<1>3. JobsOccurOnce
  BY DEF JobsOccurOnce, Row, NoRow
<1> QED BY <1>1, <1>2, <1>3 DEF IInv

LEMMA FirstCandidate ==
  ASSUME NEW i \in Instances, TypeOK, NEW k \in First(Candidates(i))
  PROVE  /\ k \in Tasks /\ row[k].status = "queued" /\ ~Locked(k)
         /\ row[k].sched # "later"
         /\ row[k].attempts <= AttemptLimit[k]
  BY DEF First, Candidates, TypeOK

\* What an execution leaves: its row, brought up to date, or the next task.
LEMMA FinishedRow ==
  ASSUME TypeOK, AsRead, NEW i \in Instances, NEW s \in Slots, NEW o \in Outcomes,
         Finish(i, s, o)
  PROVE  LET p == poller[i][s]
             k == p.task
             r == Updated(p, o)
         IN  \E after \in Rows :
               /\ row' = [row EXCEPT ![k] = after]
               /\ \/ /\ after = Queued("later", row[k].cron)
                     /\ row[k].cron # "none" /\ Recurs(p, r)
                  \/ after = r /\ r.status # "queued" /\ ~Recurs(p, r)
                  \/ after = Patched(r, waiting[k]) /\ ~Recurs(p, r)
<1> DEFINE p == poller[i][s]
           k == p.task
           r == Updated(p, o)
<1>1. p \in Pollers /\ p.at = "executing" /\ k \in Tasks /\ p.read = row[k]
  BY DEF TypeOK, AsRead, Finish
<1>2. r \in Rows
  BY <1>1, UpdatedRow
<1>3. PICK after : /\ row' = [row EXCEPT ![k] = after]
                   /\ after \in IF Recurs(p, r) THEN {Queued("later", p.read.cron)}
                                 ELSE Unlocked(k, r)
  BY DEF Finish
<1>4. CASE Recurs(p, r)
  <2>1. after = Queued("later", row[k].cron) /\ row[k].cron # "none"
    BY <1>1, <1>3, <1>4 DEF Recurs
  <2>2. row[k].cron \in Expressions
    BY <1>1 DEF TypeOK, Rows
  <2>3. after \in Rows
    BY <2>1, <2>2, RowsOf DEF Queued, Statuses, Schedules
  <2> QED BY <1>3, <1>4, <2>1, <2>3
<1>5. CASE ~Recurs(p, r)
  <2>1. \/ (after = r /\ r.status # "queued")
        \/ after = Patched(r, waiting[k])
    BY <1>3, <1>5 DEF Unlocked
  <2>2. after \in Rows
    BY <1>2, <2>1, PatchedRow
  <2> QED BY <1>3, <1>5, <2>1, <2>2
<1> QED BY <1>4, <1>5

\* Every row, poller and PATCH stays of its kind.
LEMMA TypeStep ==
  ASSUME TypeOK, AsRead, [Next]_vars
  PROVE  TypeOK'
<1> USE TaskAssumption DEF workerVars, handlerVars
<1>1. ASSUME NEW i \in Instances,
             \/ Boot(i) \/ Stop(i) \/ \E n \in QueueConcurrency : SetConcurrency(i, n)
             \/ \E k \in Tasks : Register(i, k)
      PROVE  TypeOK'
  <2>1. CASE Boot(i)
    BY <2>1 DEF TypeOK, Boot
  <2>2. CASE Stop(i)
    BY <2>2 DEF TypeOK, Stop
  <2>3. ASSUME NEW n \in QueueConcurrency, SetConcurrency(i, n) PROVE TypeOK'
    BY <2>3 DEF TypeOK, SetConcurrency
  <2>4. ASSUME NEW k \in Tasks, Register(i, k) PROVE TypeOK'
    BY <2>4 DEF TypeOK, Register
  <2> QED BY <1>1, <2>1, <2>2, <2>3, <2>4
<1>2. ASSUME NEW i \in Instances, Start(i) PROVE TypeOK'
  <2>1. PICK X \in SUBSET Slots :
          poller' = [poller EXCEPT ![i] = [s \in Slots |->
                       IF s \in X THEN Poller("polling") ELSE @[s]]]
    BY <1>2 DEF Start
  <2>2. poller' \in [Instances -> [Slots -> Pollers]]
    BY <2>1, PollerAt DEF TypeOK, Stages
  <2> QED BY <1>2, <2>2 DEF TypeOK, Start
<1>3. ASSUME NEW i \in Instances, UpdateCron(i) PROVE TypeOK'
  <2>1. adding[i] \in Tasks
    BY <1>3 DEF UpdateCron, TypeOK, Tasks
  <2>2. row' \in [Tasks -> Rows] /\ waiting' \in [Tasks -> SUBSET Patches]
    <3>1. CASE UNCHANGED <<row, waiting>>
      BY <3>1 DEF TypeOK
    <3>2. CASE Patch(i, adding[i], "update")
      BY <2>1, <3>2, PatchOf
    <3> QED BY <1>3, <3>1, <3>2 DEF UpdateCron
  <2> QED BY <1>3, <2>2 DEF TypeOK, UpdateCron
<1>4. ASSUME NEW i \in Instances, NEW k \in Tasks, AddCron(i, k) PROVE TypeOK'
  <2>1. Queued("later", "new") \in Rows
    BY RowsOf DEF Queued, Statuses, Schedules, Expressions
  <2>2. k \in Crons /\ registered' \in [Instances -> SUBSET Tasks]
    BY <1>4 DEF TypeOK, AddCron
  <2>3. /\ row' \in [Tasks -> Rows] /\ executions' \in [Tasks -> Nat]
        /\ adding' \in [Instances -> Crons \cup {None}]
    <3>1. CASE row[k].status = "queued"
      <4>1. /\ adding' = [adding EXCEPT ![i] = k]
            /\ row' = row /\ executions' = executions
        BY <1>4, <3>1 DEF AddCron
      <4> QED BY <2>2, <4>1 DEF TypeOK
    <3>2. CASE row[k].status # "queued"
      <4>1. /\ row' = [row EXCEPT ![k] = Queued("later", "new")]
            /\ executions' = [executions EXCEPT ![k] = 0] /\ adding' = adding
        BY <1>4, <3>2 DEF AddCron
      <4> QED BY <2>1, <4>1 DEF TypeOK
    <3> QED BY <3>1, <3>2
  <2>4. UNCHANGED <<poller, up, workerVars, waiting, faults, moves, past>>
    BY <1>4 DEF AddCron
  <2> QED BY <2>2, <2>3, <2>4 DEF TypeOK
<1>5. ASSUME NEW i \in Instances, NEW k \in Tasks, Create(i, k) PROVE TypeOK'
  <2>1. \A sc \in {"unset", "later"} : Queued(sc, "none") \in Rows
    BY RowsOf DEF Queued, Statuses, Schedules, Expressions
  <2> QED BY <1>5, <2>1 DEF TypeOK, Create
<1>6. ASSUME NEW i \in Instances, NEW k \in Tasks, Cancel(i, k) PROVE TypeOK'
  <2>1. row' \in [Tasks -> Rows] /\ waiting' \in [Tasks -> SUBSET Patches]
    BY <1>6, PatchOf DEF Cancel
  <2> QED BY <1>6, <2>1 DEF TypeOK, Cancel
<1>7. ASSUME NEW i \in Instances, NEW s \in Slots, Take(i, s) PROVE TypeOK'
  <2>1. PICK k \in First(Candidates(i)) :
          /\ poller' = [poller EXCEPT ![i][s] =
                          [at |-> "executing", task |-> k, read |-> row[k]]]
          /\ executions' = [executions EXCEPT ![k] = @ + 1]
    BY <1>7 DEF Take
  <2>2. k \in Tasks
    BY <2>1, FirstCandidate
  <2>3. [at |-> "executing", task |-> k, read |-> row[k]] \in Pollers
    BY <2>2 DEF TypeOK, Pollers, Stages
  <2>4. poller' \in [Instances -> [Slots -> Pollers]] /\ executions' \in [Tasks -> Nat]
    BY <2>1, <2>2, <2>3 DEF TypeOK
  <2> QED BY <1>7, <2>4 DEF TypeOK, Take
<1>8. ASSUME NEW i \in Instances, NEW s \in Slots, TakeNothing(i, s) PROVE TypeOK'
  BY <1>8, PollerAt DEF TypeOK, TakeNothing, Stages
<1>9. ASSUME NEW i \in Instances, NEW s \in Slots, Wake(i, s) PROVE TypeOK'
  BY <1>9, Continues DEF TypeOK, Wake
<1>10. ASSUME NEW i \in Instances, NEW s \in Slots, NEW o \in Outcomes,
              Finish(i, s, o)
       PROVE  TypeOK'
  <2>1. PICK after \in Rows : row' = [row EXCEPT ![poller[i][s].task] = after]
    BY <1>10, FinishedRow
  <2>2. poller' \in [Instances -> [Slots -> Pollers]]
    BY <1>10, Continues DEF Finish
  <2>3. executions' \in [Tasks -> Nat] /\ waiting' \in [Tasks -> SUBSET Patches]
    BY <1>10 DEF TypeOK, Finish
  <2> QED BY <1>10, <2>1, <2>2, <2>3 DEF TypeOK, Finish
<1>11. ASSUME NEW i \in Instances, NEW s \in Slots, CommitFails(i, s) PROVE TypeOK'
  <2>1. row' \in [Tasks -> Rows]
    BY <1>11, PatchedRow DEF TypeOK, CommitFails
  <2>2. poller' \in [Instances -> [Slots -> Pollers]]
    BY <1>11, Continues DEF CommitFails
  <2> QED BY <1>11, <2>1, <2>2 DEF TypeOK, CommitFails
<1>12. ASSUME NEW i \in Instances, NEW s \in Slots, Sever(i, s) PROVE TypeOK'
  <2>1. row' \in [Tasks -> Rows]
    BY <1>12, PatchedRow DEF TypeOK, Sever
  <2>2. [poller[i][s] EXCEPT !.at = "severed"] \in Pollers
    <3>1. poller[i][s] \in Pollers
      BY DEF TypeOK
    <3> QED BY <3>1 DEF Pollers, Stages
  <2>3. poller' \in [Instances -> [Slots -> Pollers]]
    BY <1>12, <2>2 DEF TypeOK, Sever
  <2> QED BY <1>12, <2>1, <2>3 DEF TypeOK, Sever
<1>13. ASSUME NEW i \in Instances, Exit(i) PROVE TypeOK'
  <2>1. row' \in [Tasks -> Rows]
    BY <1>13, PatchedRow DEF TypeOK, Exit
  <2>2. poller' \in [Instances -> [Slots -> Pollers]]
    BY <1>13, PollerAt DEF TypeOK, Exit, Stages
  <2>3. waiting' \in [Tasks -> SUBSET Patches]
    BY <1>13 DEF TypeOK, Exit
  <2>4. /\ up' \in [Instances -> BOOLEAN] /\ running' \in [Instances -> BOOLEAN]
        /\ concurrency' \in [Instances -> QueueConcurrency]
    BY <1>13, TaskAssumption DEF TypeOK, Exit
  <2>5. /\ registered' \in [Instances -> SUBSET Tasks]
        /\ adding' \in [Instances -> Crons \cup {None}]
    BY <1>13 DEF TypeOK, Exit
  <2>6. executions' = executions /\ faults' \in Nat /\ moves' = moves /\ past' = past
    BY <1>13 DEF TypeOK, Exit
  <2> QED BY <2>1, <2>2, <2>3, <2>4, <2>5, <2>6 DEF TypeOK
<1>14. ASSUME NEW k \in Tasks, TimePasses(k) PROVE TypeOK'
  <2>1. [row[k] EXCEPT !.sched = "due"] \in Rows
    <3>1. row[k] \in Rows
      BY DEF TypeOK
    <3> QED BY <3>1 DEF Rows, Schedules
  <2> QED BY <1>14, <2>1 DEF TypeOK, TimePasses
<1>16. ASSUME NEW k \in Tasks, TimeComes(k) PROVE TypeOK'
  BY <1>16 DEF TypeOK, TimeComes
<1>15. CASE UNCHANGED vars
  BY <1>15 DEF TypeOK, vars
<1> QED BY <1>1, <1>2, <1>3, <1>4, <1>5, <1>6, <1>7, <1>8, <1>9, <1>10, <1>11,
           <1>12, <1>13, <1>14, <1>15, <1>16
        DEF Next, Round, Settle, Crash, SeveredEnds

\* A row that is executed is changed by nobody, and taken by no other poller.
LEMMA LockStep ==
  ASSUME IInv, [Next]_vars, NEW j \in Instances, NEW t \in Slots,
         poller'[j][t].at = "executing"
  PROVE  \/ Take(j, t)
         \/ /\ poller'[j][t] = poller[j][t]
            /\ row'[poller[j][t].task] = row[poller[j][t].task]
            /\ \A i \in Instances, s \in Slots :
                 ~(i = j /\ s = t) /\ Take(i, s) => poller'[i][s].task # poller[j][t].task
<1> DEFINE k == poller[j][t].task
           Kept == poller'[j][t] = poller[j][t] /\ row'[k] = row[k]
<1> USE DEF IInv
<1>1. ASSUME poller'[j][t] = poller[j][t]
      PROVE  /\ k \in Tasks /\ Locked(k) /\ row[k].status = "queued"
             /\ row[k].sched # "later"
             /\ \A i \in Instances, s \in Slots : Executing(i, s, k) => i = j /\ s = t
  <2>1. k \in Tasks /\ poller[j][t].at = "executing"
    BY <1>1 DEF AsRead
  <2> QED BY <1>1, <2>1, UnlockedRow DEF AsRead, Alone, Executing
<1>2. ASSUME NEW i \in Instances,
             \/ Boot(i) \/ Stop(i) \/ \E n \in QueueConcurrency : SetConcurrency(i, n)
             \/ \E l \in Tasks : Register(i, l)
      PROVE  Kept
  BY <1>2 DEF Boot, Stop, SetConcurrency, Register
<1>3. ASSUME NEW i \in Instances, Start(i) PROVE Kept
  <2>1. PICK X \in SUBSET Slots :
          poller' = [poller EXCEPT ![i] = [s \in Slots |->
                       IF s \in X THEN Poller("polling") ELSE @[s]]]
    BY <1>3 DEF Start
  <2>2. poller'[j][t] \in {poller[j][t], Poller("polling")}
    BY <2>1 DEF TypeOK
  <2> QED BY <1>3, <2>2 DEF Start, Poller
<1>4. ASSUME NEW i \in Instances, UpdateCron(i) PROVE Kept
  <2>1. adding[i] \in Tasks /\ poller' = poller
    BY <1>4 DEF UpdateCron, TypeOK, Tasks
  <2>2. ASSUME NEW a \in Tasks, Patch(i, a, "update") PROVE Kept
    <3>1. k \in Tasks /\ Locked(k)
      BY <1>1, <2>1
    <3>2. row'[k] = row[k] \/ ~Locked(k)
      BY <2>2, <3>1, PatchOf
    <3> QED BY <2>1, <3>1, <3>2
  <2>3. ASSUME UNCHANGED <<row, waiting>> PROVE Kept
    BY <2>1, <2>3
  <2>4. UNCHANGED <<row, waiting>> \/ Patch(i, adding[i], "update")
    BY <1>4 DEF UpdateCron
  <2> QED BY <2>1, <2>2, <2>3, <2>4
<1>5. ASSUME NEW i \in Instances, NEW l \in Tasks, Cancel(i, l) PROVE Kept
  <2>1. poller' = poller /\ Patch(i, l, "cancel")
    BY <1>5 DEF Cancel
  <2> QED BY <1>1, <2>1, PatchOf
<1>6. ASSUME NEW i \in Instances, NEW l \in Tasks, AddCron(i, l) \/ Create(i, l)
      PROVE  Kept
  <2>1. /\ poller' = poller
        /\ row[l].status # "queued" \/ row' = row
        /\ \A m \in Tasks \ {l} : row'[m] = row[m]
    BY <1>6 DEF AddCron, Create, TypeOK
  <2> QED BY <1>1, <2>1
<1>7. ASSUME NEW i \in Instances, NEW s \in Slots, Take(i, s), ~(i = j /\ s = t)
      PROVE  Kept /\ poller'[i][s].task # k
  <2>1. PICK l \in First(Candidates(i)) :
          poller' = [poller EXCEPT ![i][s] =
                       [at |-> "executing", task |-> l, read |-> row[l]]]
    BY <1>7 DEF Take
  <2>2. /\ poller'[j][t] = poller[j][t] /\ poller'[i][s].task = l
        /\ row' = row
    BY <1>7, <2>1 DEF TypeOK, Take
  <2>3. ~Locked(l)
    BY <2>1, FirstCandidate
  <2> QED BY <1>1, <2>2, <2>3
<1>8. ASSUME NEW i \in Instances, NEW s \in Slots, TakeNothing(i, s) \/ Wake(i, s)
      PROVE  Kept
  <2>1. /\ poller'[i][s].at # "executing" /\ row' = row
        /\ ~(i = j /\ s = t) => poller'[j][t] = poller[j][t]
    <3>1. CASE TakeNothing(i, s)
      BY <3>1 DEF TypeOK, TakeNothing, Poller
    <3>2. CASE Wake(i, s)
      BY <3>2, Continues DEF Wake
    <3> QED BY <1>8, <3>1, <3>2
  <2> QED BY <2>1
<1>9. ASSUME NEW i \in Instances, NEW s \in Slots,
             \/ \E o \in Outcomes : Finish(i, s, o)
             \/ CommitFails(i, s) \/ Sever(i, s)
      PROVE  Kept
  <2> DEFINE l == poller[i][s].task
  <2>1. /\ poller'[i][s].at # "executing" /\ Executing(i, s, l)
        /\ ~(i = j /\ s = t) => poller'[j][t] = poller[j][t]
    <3>1. CASE Sever(i, s)
      BY <3>1 DEF TypeOK, Sever, Executing
    <3>2. CASE ~Sever(i, s)
      BY <1>9, <3>2, Continues DEF Finish, CommitFails, Executing
    <3> QED BY <3>1, <3>2
  <2>2. \A m \in Tasks \ {l} : row'[m] = row[m]
    BY <1>9 DEF Finish, CommitFails, Sever, TypeOK
  <2> QED BY <1>1, <2>1, <2>2
<1>10. ASSUME NEW i \in Instances, Exit(i) PROVE Kept
  <2>1. j # i /\ poller'[j][t] = poller[j][t]
    BY <1>10 DEF Exit, TypeOK, Poller
  <2>2. \A p \in LockHolders(k) : p[1] # i
    BY <1>1, <2>1 DEF LockHolders, Executing
  <2>3. row'[k] = row[k]
    BY <1>1, <1>10, <2>1, <2>2 DEF Exit
  <2> QED BY <2>1, <2>3
<1>11. ASSUME NEW l \in Tasks, TimePasses(l) PROVE Kept
  <2>1. poller' = poller /\ row[l].sched = "later" /\ \A m \in Tasks \ {l} : row'[m] = row[m]
    BY <1>11 DEF TimePasses, TypeOK
  <2> QED BY <1>1, <2>1
<1>12. ASSUME UNCHANGED vars \/ \E l \in Tasks : TimeComes(l) PROVE Kept
  BY <1>12 DEF vars, TimeComes
<1> HIDE DEF Kept
<1>13. Kept \/ Take(j, t)
  BY <1>2, <1>3, <1>4, <1>5, <1>6, <1>7, <1>8, <1>9, <1>10, <1>11, <1>12
     DEF Next, Round, Settle, Crash, SeveredEnds
<1> QED BY <1>7, <1>13 DEF Kept

\* Hence the lock has one holder, who knows its row.
LEMMA AloneStep == ASSUME IInv, [Next]_vars PROVE Alone' /\ AsRead'
<1>1. ASSUME NEW i \in Instances, NEW s \in Slots, Take(i, s)
      PROVE  /\ poller'[i][s].task \in Tasks /\ ~Locked(poller'[i][s].task)
             /\ poller'[i][s].read = row[poller'[i][s].task] /\ row' = row
             /\ poller'[i][s].read.status = "queued" /\ poller'[i][s].read.sched # "later"
             /\ \A j \in Instances, t \in Slots :
                  ~(i = j /\ s = t) => poller'[j][t] = poller[j][t]
  <2>1. PICK k \in First(Candidates(i)) :
          poller' = [poller EXCEPT ![i][s] =
                       [at |-> "executing", task |-> k, read |-> row[k]]]
    BY <1>1 DEF Take
  <2> QED BY <1>1, <2>1, FirstCandidate DEF IInv, TypeOK, Take
<1>2. Alone'
  <2> SUFFICES ASSUME NEW k \in Tasks, NEW i \in Instances, NEW j \in Instances,
                      NEW s \in Slots, NEW t \in Slots,
                      Executing(i, s, k)', Executing(j, t, k)', ~(i = j /\ s = t)
               PROVE  FALSE
    BY DEF Alone
  <2>1. CASE Take(i, s)
    BY <1>1, <2>1, UnlockedRow DEF Executing, IInv
  <2>2. CASE Take(j, t)
    BY <1>1, <2>2, UnlockedRow DEF Executing, IInv
  <2>3. CASE ~Take(i, s) /\ ~Take(j, t)
    BY <2>3, LockStep DEF Executing, Alone, IInv
  <2> QED BY <2>1, <2>2, <2>3
<1>3. AsRead'
  BY <1>1, LockStep DEF AsRead, IInv
<1> QED BY <1>2, <1>3

\* No action gives a job an expression.
LEMMA JobsStep == ASSUME IInv, [Next]_vars PROVE JobsOccurOnce'
<1> USE TaskAssumption DEF IInv, JobsOccurOnce
<1>1. adding' \in [Instances -> Crons \cup {None}]
  BY TypeStep DEF TypeOK
<1>2. ASSUME NEW k \in Jobs,
             \/ \E i \in Instances :
                  \/ Boot(i) \/ Stop(i) \/ Start(i)
                  \/ \E n \in QueueConcurrency : SetConcurrency(i, n)
                  \/ \E l \in Tasks : Register(i, l)
                  \/ \E s \in Slots : Take(i, s) \/ TakeNothing(i, s) \/ Wake(i, s)
             \/ UNCHANGED vars
      PROVE  row' = row /\ waiting' = waiting
  BY <1>2 DEF Boot, Stop, Start, SetConcurrency, Register, Take, TakeNothing, Wake, vars
<1>3. ASSUME NEW k \in Jobs, NEW i \in Instances,
             UpdateCron(i) \/ \E l \in Tasks : Cancel(i, l)
      PROVE  row'[k].cron = "none" /\ \A p \in waiting'[k] : p[2] # "update"
  <2>0. k \in Tasks
    BY DEF Tasks
  <2>1. ASSUME NEW c \in Crons, Patch(i, c, "update")
        PROVE  row'[k].cron = "none" /\ \A p \in waiting'[k] : p[2] # "update"
    <3>1. c \in Tasks /\ c # k
      BY DEF Tasks
    <3>2. row'[k] = row[k] /\ waiting'[k] = waiting[k]
      BY <2>0, <2>1, <3>1, PatchOf
    <3> QED BY <3>2
  <2>2. ASSUME NEW l \in Tasks, Patch(i, l, "cancel")
        PROVE  row'[k].cron = "none" /\ \A p \in waiting'[k] : p[2] # "update"
    <3>1. \A r \in Rows : Patched(r, {<<i, "cancel">>}).cron = r.cron
      BY PatchedRow
    <3>2. /\ row'[k] = row[k] \/ row'[k] = Patched(row[k], {<<i, "cancel">>})
          /\ waiting'[k] \subseteq waiting[k] \cup {<<i, "cancel">>}
      <4>1. CASE l = k
        BY <2>2, <4>1, PatchOf
      <4>2. CASE l # k
        <5>1. row'[k] = row[k] /\ waiting'[k] = waiting[k]
          BY <2>0, <2>2, <4>2, PatchOther
        <5> QED BY <5>1
      <4> QED BY <4>1, <4>2
    <3>3. row[k] \in Rows
      BY <2>0 DEF TypeOK
    <3> QED BY <3>1, <3>2, <3>3
  <2>3. CASE UNCHANGED <<row, waiting>>
    BY <2>3
  <2> QED BY <1>3, <2>1, <2>2, <2>3 DEF UpdateCron, Cancel
<1>4. ASSUME NEW k \in Jobs, NEW i \in Instances, NEW l \in Tasks,
             AddCron(i, l) \/ Create(i, l)
      PROVE  row'[k].cron = "none" /\ waiting' = waiting
  BY <1>4 DEF AddCron, Create, Queued, Row, TypeOK, Tasks
<1>5. ASSUME NEW k \in Jobs, NEW i \in Instances, NEW s \in Slots, NEW o \in Outcomes,
             Finish(i, s, o)
      PROVE  row'[k].cron = "none" /\ waiting'[k] \subseteq waiting[k]
  <2> DEFINE p == poller[i][s]
             l == p.task
  <2>1. p \in Pollers /\ l \in Tasks /\ k \in Tasks
    BY <1>5 DEF Finish, TypeOK, AsRead, Tasks
  <2>2. waiting'[k] \subseteq waiting[k]
    BY <1>5, <2>1 DEF Finish, TypeOK
  <2>3. PICK after \in Rows :
          /\ row' = [row EXCEPT ![l] = after]
          /\ \/ row[l].cron # "none"
             \/ after \in {Updated(p, o), Patched(Updated(p, o), waiting[l])}
    BY <1>5, FinishedRow
  <2>4. CASE l = k
    <3>1. Updated(p, o) \in Rows /\ Updated(p, o).cron = "none"
      BY <2>1, <2>4, UpdatedRow
    <3>2. after.cron = "none"
      BY <2>3, <2>4, <3>1, PatchedRow
    <3>3. row'[k] = after
      BY <2>1, <2>3, <2>4 DEF TypeOK
    <3> QED BY <2>2, <3>2, <3>3
  <2>5. CASE l # k
    <3>1. row'[k] = row[k]
      BY <2>1, <2>3, <2>5 DEF TypeOK
    <3> QED BY <2>2, <3>1
  <2> QED BY <2>2, <2>4, <2>5
<1>6. ASSUME NEW k \in Jobs, NEW i \in Instances, NEW s \in Slots,
             CommitFails(i, s) \/ Sever(i, s)
      PROVE  row'[k].cron = "none" /\ waiting'[k] \subseteq waiting[k]
  <2>1. PICK l : /\ row' = [row EXCEPT ![l] = Patched(@, waiting[l])]
                 /\ waiting' = [waiting EXCEPT ![l] = {}]
    BY <1>6 DEF CommitFails, Sever
  <2>2. /\ row'[k] \in {row[k], Patched(row[k], waiting[k])}
        /\ waiting'[k] \subseteq waiting[k] /\ row[k] \in Rows
    BY <2>1 DEF TypeOK, Tasks
  <2> QED BY <2>2, PatchedRow
<1>7. ASSUME NEW k \in Jobs, NEW i \in Instances, Exit(i)
      PROVE  row'[k].cron = "none" /\ waiting'[k] \subseteq waiting[k]
  <2> DEFINE P == {p \in waiting[k] : p[1] # i}
  <2>1. row'[k] \in {row[k], Patched(row[k], P)} /\ waiting'[k] \in {{}, P}
    BY <1>7 DEF Exit, Tasks
  <2>2. row[k] \in Rows
    BY DEF TypeOK, Tasks
  <2>3. \A p \in P : p[2] # "update"
    OBVIOUS
  <2>4. P \subseteq waiting[k]
    OBVIOUS
  <2> HIDE DEF P
  <2> QED BY <2>1, <2>2, <2>3, <2>4, PatchedRow
<1>8. ASSUME NEW k \in Jobs, NEW l \in Tasks, TimePasses(l)
      PROVE  row'[k].cron = "none" /\ waiting' = waiting
  <2>1. row[l] \in Rows /\ k \in Tasks
    BY DEF TypeOK, Tasks
  <2> QED BY <1>8, <2>1 DEF TimePasses, TypeOK, Rows
<1>10. ASSUME NEW l \in Tasks, TimeComes(l) PROVE row' = row /\ waiting' = waiting
  BY <1>10 DEF TimeComes
<1>9. \A k \in Jobs : row'[k].cron = "none" /\ \A p \in waiting'[k] : p[2] # "update"
  BY <1>2, <1>3, <1>4, <1>5, <1>6, <1>7, <1>8, <1>10
     DEF Next, Round, Settle, Crash, SeveredEnds
<1> QED BY <1>1, <1>9

LEMMA Invariant == Spec => []IInv
<1>1. IInv /\ [Next]_vars => IInv'
  BY TypeStep, AloneStep, JobsStep DEF IInv
<1> QED BY <1>1, Init_IInv, PTL DEF Spec

\* Every reachable state has its type.
THEOREM TypeCorrect == Spec => []TypeOK
<1>1. IInv => TypeOK
  BY DEF IInv
<1> QED BY <1>1, Invariant, PTL

\* However many processes and pollers there are and whatever fails, a task is
\* executed by one poller, and its row stays as this poller has read it.
THEOREM OneExecutor == Spec => []ExecutesAlone
<1>1. ASSUME IInv, NEW k \in Tasks PROVE Cardinality(LockHolders(k)) <= 1
  <2>1. \A p, q \in LockHolders(k) : p = q
    <3> SUFFICES ASSUME NEW p \in LockHolders(k), NEW q \in LockHolders(k) PROVE p = q
      OBVIOUS
    <3>1. /\ p \in Instances \X Slots /\ Executing(p[1], p[2], k)
          /\ q \in Instances \X Slots /\ Executing(q[1], q[2], k)
      BY DEF LockHolders, Executing
    <3>2. p[1] = q[1] /\ p[2] = q[2]
      BY <1>1, <3>1 DEF IInv, Alone
    <3> QED BY <3>1, <3>2
  <2>2. CASE LockHolders(k) = {}
    BY <2>2, FS_EmptySet
  <2>3. CASE LockHolders(k) # {}
    <3>1. PICK p : LockHolders(k) = {p}
      BY <2>1, <2>3
    <3> QED BY <3>1, FS_Singleton
  <2> QED BY <2>2, <2>3
<1>2. IInv => ExecutesAlone
  BY <1>1 DEF IInv, AsRead, ExecutesAlone
<1> QED BY <1>2, Invariant, PTL

\* No worker still busy with an old release brings its expression back.
THEOREM NewExpressionStays == Spec => ExpressionKept
<1> DEFINE Kept == \A c \in Crons : row[c].cron = "new" => row'[c].cron = "new"
<1>1. ASSUME IInv, [Next]_vars, NEW c \in Crons, row[c].cron = "new"
      PROVE  row'[c].cron = "new"
  <2> USE DEF IInv
  <2>0. c \in Tasks /\ row[c] \in Rows
    BY <1>1 DEF Tasks, TypeOK
  <2>1. ASSUME NEW P, row'[c] \in {row[c], Patched(row[c], P)} PROVE row'[c].cron = "new"
    BY <1>1, <2>0, <2>1, PatchedRow
  <2>2. ASSUME NEW i \in Instances, NEW k \in Tasks, NEW as \in {"cancel", "update"},
               Patch(i, k, as)
        PROVE  row'[c].cron = "new"
    <3>1. row'[c] \in {row[c], Patched(row[c], {<<i, as>>})}
      <4>1. CASE c = k
        BY <1>1, <2>2, <4>1, PatchOf
      <4>2. CASE c # k
        BY <1>1, <2>0, <2>2, <4>2, PatchOf
      <4> QED BY <4>1, <4>2
    <3> QED BY <2>1, <3>1
  <2>3. ASSUME NEW i \in Instances, UpdateCron(i) PROVE row'[c].cron = "new"
    <3>1. adding[i] \in Tasks
      BY <1>1, <2>3 DEF UpdateCron, TypeOK, Tasks
    <3>2. UNCHANGED row \/ Patch(i, adding[i], "update")
      BY <2>3 DEF UpdateCron
    <3> QED BY <1>1, <2>2, <3>1, <3>2
  <2>4. ASSUME NEW i \in Instances, NEW k \in Tasks, Cancel(i, k)
        PROVE  row'[c].cron = "new"
    BY <2>2, <2>4 DEF Cancel
  <2>5. ASSUME NEW i \in Instances, NEW k \in Tasks, AddCron(i, k) \/ Create(i, k)
        PROVE  row'[c].cron = "new"
    <3>1. /\ row'[c] = row[c] \/ row'[c].cron = "new"
      BY <1>1, <2>0, <2>5, TaskAssumption DEF AddCron, Create, Queued, Row, TypeOK
    <3> QED BY <1>1, <3>1
  <2>6. ASSUME NEW i \in Instances, NEW s \in Slots, NEW o \in Outcomes, Finish(i, s, o)
        PROVE  row'[c].cron = "new"
    <3> DEFINE p == poller[i][s]
               l == p.task
    <3>1. p \in Pollers /\ l \in Tasks
      BY <1>1, <2>6 DEF Finish, TypeOK, AsRead
    <3>2. PICK after \in Rows :
            /\ row' = [row EXCEPT ![l] = after]
            /\ \/ after = Queued("later", row[l].cron)
               \/ after \in {Updated(p, o), Patched(Updated(p, o), waiting[l])}
      BY <1>1, <2>6, FinishedRow
    <3>3. CASE l = c
      <4>1. Updated(p, o) \in Rows /\ Updated(p, o).cron = "new"
        BY <1>1, <3>1, <3>3, UpdatedRow
      <4>2. after.cron = "new"
        BY <1>1, <3>2, <3>3, <4>1, PatchedRow DEF Queued, Row
      <4>3. row'[c] = after
        BY <1>1, <2>0, <3>2, <3>3 DEF TypeOK
      <4> QED BY <4>2, <4>3
    <3>4. CASE l # c
      BY <1>1, <2>0, <3>1, <3>2, <3>4 DEF TypeOK
    <3> QED BY <3>3, <3>4
  <2>7. ASSUME NEW i \in Instances, NEW s \in Slots, CommitFails(i, s) \/ Sever(i, s)
        PROVE  row'[c].cron = "new"
    <3>1. row'[c] \in {row[c], Patched(row[c], waiting[c])}
      BY <1>1, <2>0, <2>7 DEF CommitFails, Sever, TypeOK
    <3> QED BY <2>1, <3>1
  <2>8. ASSUME NEW i \in Instances, Exit(i) PROVE row'[c].cron = "new"
    <3>1. row'[c] \in {row[c], Patched(row[c], {p \in waiting[c] : p[1] # i})}
      BY <2>0, <2>8 DEF Exit
    <3> QED BY <2>1, <3>1
  <2>9. ASSUME NEW k \in Tasks, TimePasses(k) PROVE row'[c].cron = "new"
    BY <1>1, <2>0, <2>9 DEF TimePasses, TypeOK, Rows
  <2>10. ASSUME \/ \E i \in Instances :
                    \/ Boot(i) \/ Stop(i) \/ Start(i)
                    \/ \E n \in QueueConcurrency : SetConcurrency(i, n)
                    \/ \E l \in Tasks : Register(i, l)
                    \/ \E s \in Slots : Take(i, s) \/ TakeNothing(i, s) \/ Wake(i, s)
                \/ \E k \in Tasks : TimeComes(k)
                \/ UNCHANGED vars
         PROVE  row'[c].cron = "new"
    BY <1>1, <2>10 DEF Boot, Stop, Start, SetConcurrency, Register, Take, TakeNothing,
         Wake, TimeComes, vars
  <2> QED BY <1>1, <2>3, <2>4, <2>5, <2>6, <2>7, <2>8, <2>9, <2>10
          DEF Next, Round, Settle, Crash, SeveredEnds
<1>2. IInv /\ [Next]_vars => Kept
  BY <1>1
<1>3. ExpressionKept <=> [][Kept]_vars
  BY DEF ExpressionKept
<1> HIDE DEF Kept
<1> QED BY <1>2, <1>3, Invariant, PTL DEF Spec

\* A client whose cancellation had to wait is never told of a job that is executed
\* again, whatever the worker it waited for made of the row.
THEOREM CancelledJobsStop == Spec => JobCancelled
<1> DEFINE Stopped == \A k \in Jobs : Answered(k) => row'[k].status # "queued"
<1>1. ASSUME IInv, [Next]_vars, NEW k \in Jobs, Answered(k)
      PROVE  row'[k].status # "queued"
  <2> USE DEF IInv
  <2>0. k \in Tasks /\ row[k] \in Rows
    BY <1>1 DEF Tasks, TypeOK
  <2>1. PICK q \in waiting[k] : q[2] = "cancel" /\ q \notin waiting'[k] /\ up'[q[1]]
    BY <1>1 DEF Answered
  <2>2. ASSUME NEW r \in Rows, NEW P, q \in P PROVE Patched(r, P).status # "queued"
    BY <2>1, <2>2, PatchedRow
  <2>3. ASSUME waiting'[k] = waiting[k] \/ \E w \in Patches : waiting'[k] = waiting[k] \cup {w}
        PROVE  FALSE
    BY <2>1, <2>3
  <2>4. ASSUME NEW i \in Instances, UpdateCron(i) \/ \E l \in Tasks : Cancel(i, l)
        PROVE  FALSE
    <3>1. ASSUME NEW l \in Tasks, NEW as \in {"cancel", "update"}, Patch(i, l, as)
          PROVE  FALSE
      <4>1. CASE l = k
        <5>1. waiting'[k] = waiting[k] \/ waiting'[k] = waiting[k] \cup {<<i, as>>}
          BY <1>1, <3>1, <4>1, PatchOf
        <5>2. <<i, as>> \in Patches
          BY DEF Patches
        <5> QED BY <2>3, <5>1, <5>2
      <4>2. CASE l # k
        <5>1. row'[k] = row[k] /\ waiting'[k] = waiting[k]
          BY <1>1, <2>0, <3>1, <4>2, PatchOther
        <5> QED BY <2>3, <5>1
      <4> QED BY <4>1, <4>2
    <3>2. adding[i] # None => adding[i] \in Tasks
      BY <1>1 DEF TypeOK, Tasks
    <3>3. \/ waiting' = waiting
          \/ \E l \in Tasks : Patch(i, l, "update") \/ Patch(i, l, "cancel")
      BY <2>4, <3>2 DEF UpdateCron, Cancel
    <3> QED BY <2>3, <3>1, <3>3
  <2>5. ASSUME NEW i \in Instances, NEW s \in Slots, NEW o \in Outcomes, Finish(i, s, o)
        PROVE  row'[k].status # "queued"
    <3> DEFINE p == poller[i][s]
               l == p.task
    <3>1. p \in Pollers /\ l \in Tasks
      BY <1>1, <2>5 DEF Finish, TypeOK, AsRead
    <3>2. l = k
      BY <1>1, <2>0, <2>1, <2>5, <3>1 DEF Finish, TypeOK
    <3>3. PICK after \in Rows :
            /\ row' = [row EXCEPT ![l] = after]
            /\ \/ row[l].cron # "none"
               \/ after = Updated(p, o) /\ Updated(p, o).status # "queued"
               \/ after = Patched(Updated(p, o), waiting[l])
      BY <1>1, <2>5, FinishedRow
    <3>4. Updated(p, o) \in Rows /\ row[k].cron = "none"
      BY <1>1, <3>1, <3>2, UpdatedRow DEF JobsOccurOnce
    <3>5. after.status # "queued"
      BY <2>1, <2>2, <3>2, <3>3, <3>4
    <3>6. row'[k] = after
      BY <1>1, <2>0, <3>2, <3>3 DEF TypeOK
    <3> QED BY <3>5, <3>6
  <2>6. ASSUME NEW i \in Instances, NEW s \in Slots, CommitFails(i, s) \/ Sever(i, s)
        PROVE  row'[k].status # "queued"
    <3>1. PICK l : /\ row' = [row EXCEPT ![l] = Patched(@, waiting[l])]
                   /\ waiting' = [waiting EXCEPT ![l] = {}]
      BY <2>6 DEF CommitFails, Sever
    <3>2. l = k
      BY <1>1, <2>0, <2>1, <3>1 DEF TypeOK
    <3>3. row'[k] = Patched(row[k], waiting[k])
      BY <1>1, <2>0, <3>1, <3>2 DEF TypeOK
    <3> QED BY <2>0, <2>1, <2>2, <3>3
  <2>7. ASSUME NEW i \in Instances, Exit(i) PROVE row'[k].status # "queued"
    <3> DEFINE P == {p \in waiting[k] : p[1] # i}
    <3>1. q \in Patches /\ q[1] \in Instances
      BY <1>1, <2>0, <2>1 DEF TypeOK, Patches
    <3>2. q \in P
      BY <1>1, <2>1, <2>7, <3>1 DEF Exit, TypeOK
    <3>3. waiting'[k] = P \/ row'[k] = Patched(row[k], P)
      BY <2>0, <2>7 DEF Exit
    <3> HIDE DEF P
    <3> QED BY <2>0, <2>1, <2>2, <3>2, <3>3
  <2>8. ASSUME \/ \E i \in Instances :
                    \/ Boot(i) \/ Stop(i) \/ Start(i)
                    \/ \E n \in QueueConcurrency : SetConcurrency(i, n)
                    \/ \E l \in Tasks : Register(i, l) \/ AddCron(i, l) \/ Create(i, l)
                    \/ \E s \in Slots : Take(i, s) \/ TakeNothing(i, s) \/ Wake(i, s)
               \/ \E l \in Tasks : TimePasses(l) \/ TimeComes(l)
               \/ UNCHANGED vars
        PROVE  FALSE
    <3>1. waiting' = waiting
      BY <2>8 DEF Boot, Stop, Start, SetConcurrency, Register, AddCron, Create, Take,
           TakeNothing, Wake, TimePasses, TimeComes, vars
    <3> QED BY <2>3, <3>1
  <2> QED BY <1>1, <2>4, <2>5, <2>6, <2>7, <2>8
          DEF Next, Round, Settle, Crash, SeveredEnds
<1>2. IInv /\ [Next]_vars => Stopped
  BY <1>1
<1>3. JobCancelled <=> [][Stopped]_vars
  BY DEF JobCancelled
<1> HIDE DEF Stopped
<1> QED BY <1>2, <1>3, Invariant, PTL DEF Spec

-----------------------------------------------------------------------------
\* What AttemptsCounted rests on: a handler call that is not counted yet is being
\* executed, or was lost to a fault; and a queued task has attempts left.
Counted(k) ==
  /\ executions[k] <= row[k].attempts + faults + IF Locked(k) THEN 1 ELSE 0
  /\ row[k].attempts <= AttemptLimit[k]
  /\ row[k].status = "none" => row[k].attempts = 0
  /\ row[k].status = "queued" => row[k].attempts < AttemptLimit[k]
  /\ row[k].status = "failed" => row[k].attempts = AttemptLimit[k]

LEMMA StaysLocked ==
  ASSUME NEW k \in Tasks, Locked(k),
         \A i \in Instances, s \in Slots : Executing(i, s, k) => Executing(i, s, k)'
  PROVE  Locked(k)'
<1>1. PICK p \in Instances \X Slots : Executing(p[1], p[2], k)
  BY DEF Locked, LockHolders, Executing
<1>2. Executing(p[1], p[2], k)'
  BY <1>1
<1> QED BY <1>1, <1>2 DEF Locked, LockHolders, Executing

LEMMA CountedStep ==
  ASSUME IInv, [Next]_vars, "queued" \notin Outcomes, NEW k \in Tasks, Counted(k)
  PROVE  Counted(k)'
<1> USE DEF IInv
<1>0. /\ row[k] \in Rows /\ row[k].attempts \in Nat /\ executions[k] \in Nat
      /\ faults \in Nat /\ AttemptLimit[k] \in Nat \ {0}
  BY TaskAssumption DEF TypeOK, Rows
\* Whatever patches the row, and whoever goes on executing it.
<1>1. ASSUME /\ row'[k].attempts = row[k].attempts
             /\ row'[k].status \in {row[k].status, "cancelled"}
             /\ executions'[k] = executions[k]
             /\ \/ faults' = faults + 1
                \/ faults' = faults /\ (Locked(k) => Locked(k)')
      PROVE  Counted(k)'
  BY <1>0, <1>1 DEF Counted
<1>2. ASSUME NEW P, row'[k] \in {row[k], Patched(row[k], P)}
      PROVE  /\ row'[k].attempts = row[k].attempts
             /\ row'[k].status \in {row[k].status, "cancelled"}
  BY <1>0, <1>2, PatchedRow
<1>3. ASSUME poller' = poller PROVE Locked(k)' <=> Locked(k)
  BY <1>3 DEF Locked, LockHolders
<1>4. ASSUME NEW i \in Instances,
             \/ Boot(i) \/ Stop(i) \/ \E n \in QueueConcurrency : SetConcurrency(i, n)
             \/ \E l \in Tasks : Register(i, l)
      PROVE  Counted(k)'
  <2>1. poller' = poller /\ row' = row /\ executions' = executions /\ faults' = faults
    BY <1>4 DEF Boot, Stop, SetConcurrency, Register
  <2> QED BY <1>1, <1>3, <2>1
<1>5. ASSUME NEW i \in Instances, Start(i) PROVE Counted(k)'
  <2>1. PICK X \in SUBSET (Slots \ Alive(i)) :
          poller' = [poller EXCEPT ![i] = [s \in Slots |->
                       IF s \in X THEN Poller("polling") ELSE @[s]]]
    BY <1>5 DEF Start
  <2>2. \A j \in Instances, s \in Slots :
          Executing(j, s, k) => poller'[j][s] = poller[j][s]
    BY <2>1 DEF TypeOK, Executing, Alive
  <2>3. Locked(k) => Locked(k)'
    BY <2>2, StaysLocked DEF Executing
  <2> QED BY <1>1, <1>5, <2>3 DEF Start
<1>6. ASSUME NEW i \in Instances, UpdateCron(i) \/ \E l \in Tasks : Cancel(i, l)
      PROVE  Counted(k)'
  <2>1. poller' = poller /\ executions' = executions /\ faults' = faults
    BY <1>6 DEF UpdateCron, Cancel
  <2>2. ASSUME NEW l \in Tasks, NEW as \in {"cancel", "update"}, Patch(i, l, as)
        PROVE  row'[k] \in {row[k], Patched(row[k], {<<i, as>>})}
    <3>1. CASE l = k
      BY <2>2, <3>1, PatchOf
    <3>2. CASE l # k
      <4>1. row'[k] = row[k] /\ waiting'[k] = waiting[k]
        BY <2>2, <3>2, PatchOther
      <4> QED BY <4>1
    <3> QED BY <3>1, <3>2
  <2>3. adding[i] # None => adding[i] \in Tasks
    BY DEF TypeOK, Tasks
  <2>4. \/ row' = row
        \/ \E l \in Tasks : Patch(i, l, "update") \/ Patch(i, l, "cancel")
    BY <1>6, <2>3 DEF UpdateCron, Cancel
  <2>5. \E P : row'[k] \in {row[k], Patched(row[k], P)}
    BY <2>2, <2>4
  <2> QED BY <1>1, <1>2, <1>3, <2>1, <2>5
<1>7. ASSUME NEW i \in Instances, NEW l \in Tasks, AddCron(i, l) \/ Create(i, l)
      PROVE  Counted(k)'
  <2>1. poller' = poller /\ faults' = faults
    BY <1>7 DEF AddCron, Create
  <2>2. CASE row'[k] = row[k] /\ executions'[k] = executions[k]
    BY <1>1, <1>3, <2>1, <2>2
  <2>3. CASE /\ row'[k].attempts = 0 /\ row'[k].status = "queued"
             /\ executions'[k] = 0 \/ (row[k].status = "none" /\ executions' = executions)
    BY <1>0, <1>3, <2>1, <2>3 DEF Counted
  <2>4. CASE AddCron(i, l)
    BY <2>2, <2>3, <2>4 DEF AddCron, Queued, Row, TypeOK
  <2>5. CASE Create(i, l)
    BY <2>2, <2>3, <2>5 DEF Create, Queued, Row, TypeOK
  <2> QED BY <1>7, <2>4, <2>5
<1>8. ASSUME NEW i \in Instances, NEW s \in Slots, Take(i, s) PROVE Counted(k)'
  <2>1. PICK l \in First(Candidates(i)) :
          /\ poller' = [poller EXCEPT ![i][s] =
                          [at |-> "executing", task |-> l, read |-> row[l]]]
          /\ executions' = [executions EXCEPT ![l] = @ + 1]
    BY <1>8 DEF Take
  <2>2. l \in Tasks /\ ~Locked(l)
    BY <2>1, FirstCandidate
  <2>3. row' = row /\ faults' = faults /\ poller[i][s].at = "polling"
    BY <1>8 DEF Take
  <2>4. CASE l = k
    <3>1. Executing(i, s, k)'
      BY <2>1, <2>4 DEF Executing, TypeOK
    <3>2. Locked(k)'
      <4>1. /\ <<i, s>> \in Instances \X Slots
            /\ <<i, s>>[1] = i /\ <<i, s>>[2] = s
        OBVIOUS
      <4> QED BY <3>1, <4>1 DEF Locked, LockHolders, Executing
    <3>3. executions'[k] = executions[k] + 1
      BY <2>1, <2>4 DEF TypeOK
    <3> QED BY <1>0, <2>2, <2>3, <2>4, <3>2, <3>3 DEF Counted
  <2>5. CASE l # k
    <3>1. \A j \in Instances, t \in Slots :
            Executing(j, t, k) => poller'[j][t] = poller[j][t]
      BY <2>1, <2>3 DEF TypeOK, Executing
    <3>2. Locked(k) => Locked(k)'
      BY <3>1, StaysLocked DEF Executing
    <3>3. executions'[k] = executions[k]
      BY <2>1, <2>5 DEF TypeOK
    <3> QED BY <1>1, <2>3, <3>2, <3>3
  <2> QED BY <2>4, <2>5
<1>9. ASSUME NEW i \in Instances, NEW s \in Slots, TakeNothing(i, s) \/ Wake(i, s)
      PROVE  Counted(k)'
  <2>1. /\ row' = row /\ executions' = executions /\ faults' = faults
        /\ poller[i][s].at # "executing"
    BY <1>9 DEF TakeNothing, Wake
  <2>2. \A j \in Instances, t \in Slots :
          ~(j = i /\ t = s) => poller'[j][t] = poller[j][t]
    <3>1. CASE TakeNothing(i, s)
      BY <3>1 DEF TypeOK, TakeNothing
    <3>2. CASE Wake(i, s)
      BY <3>2, Continues DEF Wake
    <3> QED BY <1>9, <3>1, <3>2
  <2>3. Locked(k) => Locked(k)'
    BY <2>1, <2>2, StaysLocked DEF Executing
  <2> QED BY <1>1, <2>1, <2>3
<1>10. ASSUME NEW i \in Instances, NEW s \in Slots, NEW o \in Outcomes, Finish(i, s, o)
       PROVE  Counted(k)'
  <2> DEFINE p == poller[i][s]
             l == p.task
             r == Updated(p, o)
  <2>1. /\ p \in Pollers /\ l \in Tasks /\ p.read = row[l] /\ row[l].status = "queued"
        /\ faults' = faults
    BY <1>10 DEF Finish, TypeOK, AsRead
  <2>2. PICK after \in Rows :
          /\ row' = [row EXCEPT ![l] = after]
          /\ \/ after = Queued("later", row[l].cron) /\ Recurs(p, r)
             \/ after \in {r, Patched(r, waiting[l])} /\ ~Recurs(p, r)
    BY <1>10, FinishedRow
  <2>3. CASE l = k
    <3>1. row'[k] = after
      BY <2>2, <2>3 DEF TypeOK
    <3>2. executions'[k] = IF Recurs(p, r) THEN 0 ELSE executions[k]
      BY <1>10, <2>3 DEF Finish, TypeOK
    <3>3. CASE Recurs(p, r)
      <4>1. after.attempts = 0 /\ after.status = "queued"
        BY <2>2, <3>3 DEF Queued, Row
      <4> QED BY <1>0, <2>1, <3>1, <3>2, <3>3, <4>1 DEF Counted
    <3>4. CASE ~Recurs(p, r)
      <4>1. /\ r \in Rows /\ r.attempts = row[k].attempts + 1
        BY <2>1, <2>3, UpdatedRow
      <4>2. /\ r.status = "queued" => r.attempts < AttemptLimit[k]
            /\ r.status = "failed" => r.attempts >= AttemptLimit[k]
            /\ r.status # "none"
        BY <1>0, <2>1, <2>3, TaskAssumption DEF Updated, Rows, Statuses
      <4>3. /\ after.attempts = r.attempts
            /\ after.status \in {r.status, "cancelled"}
        BY <2>2, <3>4, <4>1, PatchedRow
      <4>4. row[k].attempts < AttemptLimit[k]
        BY <2>1, <2>3 DEF Counted
      <4> QED BY <1>0, <2>1, <3>1, <3>2, <3>4, <4>1, <4>2, <4>3, <4>4 DEF Counted
    <3> QED BY <3>3, <3>4
  <2>4. CASE l # k
    <3>1. row'[k] = row[k] /\ executions'[k] = executions[k]
      BY <1>10, <2>2, <2>4 DEF Finish, TypeOK
    <3>2. \A j \in Instances, t \in Slots :
            Executing(j, t, k) => poller'[j][t] = poller[j][t]
      BY <1>10, <2>4, Continues DEF Finish, Executing
    <3>3. Locked(k) => Locked(k)'
      BY <3>2, StaysLocked DEF Executing
    <3> QED BY <1>1, <2>1, <3>1, <3>3
  <2> QED BY <2>3, <2>4
<1>11. ASSUME NEW i \in Instances,
              \/ Exit(i) \/ \E s \in Slots : CommitFails(i, s) \/ Sever(i, s)
       PROVE  Counted(k)'
  <2>1. faults' = faults + 1 /\ executions' = executions
    BY <1>11 DEF Exit, CommitFails, Sever
  <2>2. \E P : row'[k] \in {row[k], Patched(row[k], P)}
    <3>1. CASE Exit(i)
      BY <3>1 DEF Exit
    <3>2. CASE \E s \in Slots : CommitFails(i, s) \/ Sever(i, s)
      <4>1. PICK l : row' = [row EXCEPT ![l] = Patched(@, waiting[l])]
        BY <3>2 DEF CommitFails, Sever
      <4> QED BY <4>1 DEF TypeOK
    <3> QED BY <1>11, <3>1, <3>2
  <2> QED BY <1>1, <1>2, <2>1, <2>2
<1>12. ASSUME NEW l \in Tasks, TimePasses(l) PROVE Counted(k)'
  <2>1. /\ row'[k].attempts = row[k].attempts /\ row'[k].status = row[k].status
        /\ poller' = poller /\ executions' = executions /\ faults' = faults
    BY <1>0, <1>12 DEF TimePasses, TypeOK, Rows
  <2> QED BY <1>1, <1>3, <2>1
<1>13. CASE UNCHANGED vars \/ \E l \in Tasks : TimeComes(l)
  BY <1>1, <1>3, <1>13 DEF vars, TimeComes
<1> QED BY <1>4, <1>5, <1>6, <1>7, <1>8, <1>9, <1>10, <1>11, <1>12, <1>13
        DEF Next, Round, Settle, Crash, SeveredEnds

\* While handlers do not ask for another round by returning "queued", a task is
\* executed as often as it has attempts, and once more for each fault at most.
THEOREM AttemptsAreCounted ==
  ASSUME "queued" \notin Outcomes
  PROVE  Spec => []AttemptsCounted
<1> DEFINE C == \A k \in Tasks : Counted(k)
<1>1. Init => C
  <2>1. ASSUME Init, NEW k \in Tasks
        PROVE  /\ row[k].attempts = 0 /\ row[k].status \in {"none", "queued"}
               /\ executions[k] = 0 /\ faults = 0 /\ AttemptLimit[k] \in Nat \ {0}
    BY <2>1, TaskAssumption DEF Init, Row, NoRow
  <2> QED BY <2>1 DEF Counted
<1>2. IInv /\ C /\ [Next]_vars => C'
  BY CountedStep
<1>3. IInv /\ C => AttemptsCounted
  <2>1. ASSUME IInv, NEW k \in Tasks, Counted(k), Locked(k) PROVE row[k].status = "queued"
    BY <2>1 DEF Locked, LockHolders, IInv, AsRead
  <2>2. ASSUME IInv, NEW k \in Tasks, Counted(k)
        PROVE  /\ executions[k] <= AttemptLimit[k] + faults
               /\ row[k].status = "failed" => row[k].attempts = AttemptLimit[k]
    <3>1. /\ row[k].attempts \in Nat /\ executions[k] \in Nat /\ faults \in Nat
          /\ AttemptLimit[k] \in Nat
      BY <2>2, TaskAssumption DEF IInv, TypeOK, Rows
    <3> QED BY <2>1, <2>2, <3>1 DEF Counted
  <2> QED BY <2>2 DEF AttemptsCounted
<1> HIDE DEF C
<1> QED BY <1>1, <1>2, <1>3, Invariant, PTL DEF Spec
-----------------------------------------------------------------------------
(***************************************************************************)
(* The schedule of a cron task (TaskSchedule), for every interval, period  *)
(* and skew of the clocks.                                                 *)
(***************************************************************************)

\* What a poll saw of the row it executes: the time is within its look-ahead.
Ahead == phase = "executing" => scheduled <= polled + Skew + LookAhead

ScheduleIInv == ScheduleTypeOK /\ Ahead

LEMMA LookAheadNat == LookAhead \in Nat
<1> DEFINE n == (Interval + Second - 1) \div Second
<1>1. Interval \in Nat /\ Second \in Nat \ {0} /\ Interval + Second - 1 \in Nat
  BY ScheduleAssumption
<1>2. n \in Nat
  BY <1>1
<1>3. n * Second \in Nat
  BY <1>1, <1>2
<1> QED BY <1>3 DEF LookAhead

\* The next occurrence is a time.
LEMMA NextAfterNat == ASSUME NEW t \in Nat PROVE NextAfter(t) \in Nat
<1>1. Period \in Nat \ {0}
  BY ScheduleAssumption
<1>2. t \div Period + 1 \in Nat
  BY <1>1
<1>3. (t \div Period + 1) * Period \in Nat
  BY <1>1, <1>2
<1> QED BY <1>3 DEF NextAfter

LEMMA CronTimeNat == ASSUME NEW t \in Nat PROVE CronTime(t) \in Nat
<1>1. NextAfter(t) \in Nat
  BY NextAfterNat
<1>2. NextAfter(NextAfter(t)) \in Nat
  BY <1>1, NextAfterNat
<1> QED BY <1>1, <1>2 DEF CronTime

\* The occurrences are the multiples of Period, Period apart.
LEMMA Division ==
  ASSUME NEW t \in Nat
  PROVE  /\ t \div Period \in Nat
         /\ Period * (t \div Period) <= t
         /\ t < Period * (t \div Period) + Period
<1>1. Period \in Nat \ {0}
  BY ScheduleAssumption
<1>2. t = Period * (t \div Period) + (t % Period)
  BY <1>1, Z3
<1>3. t % Period \in 0 .. (Period - 1)
  BY <1>1, Z3
<1>4. t \div Period \in Nat
  BY <1>1, Z3
<1>5. Period * (t \div Period) \in Nat
  BY <1>1, <1>4
<1> QED BY <1>1, <1>2, <1>3, <1>4, <1>5

LEMMA NextAfterIsLater ==
  ASSUME NEW t \in Nat
  PROVE  /\ NextAfter(t) = Period * (t \div Period) + Period
         /\ NextAfter(t) > t
<1>1. Period \in Nat \ {0}
  BY ScheduleAssumption
<1>2. t \div Period \in Nat /\ t < Period * (t \div Period) + Period
  BY Division
<1>3. (t \div Period + 1) * Period = Period * (t \div Period) + Period
  BY <1>1, <1>2
<1> QED BY <1>2, <1>3 DEF NextAfter

\* The occurrence after an occurrence comes a period later.
LEMMA NextAfterOccurrence ==
  ASSUME NEW t \in Nat
  PROVE  NextAfter(NextAfter(t)) = NextAfter(t) + Period
<1> DEFINE q == t \div Period
           n == NextAfter(t)
           d == n \div Period
<1>1. Period \in Nat \ {0}
  BY ScheduleAssumption
<1>2. q \in Nat
  BY Division
<1>3. n \in Nat /\ n = Period * q + Period
  BY NextAfterNat, NextAfterIsLater
<1>4. d \in Nat /\ Period * d <= n /\ n < Period * d + Period
  BY <1>3, Division
<1>5. NextAfter(n) = Period * d + Period
  BY <1>3, NextAfterIsLater
<1> HIDE DEF q, n, d
<1>6. d = q + 1
  <2>1. Period * d < Period * (q + 2)
    BY <1>1, <1>2, <1>3, <1>4
  <2>2. Period * q < Period * d
    BY <1>1, <1>2, <1>3, <1>4
  <2>3. ~ (d <= q)
    BY <2>2, <1>1, <1>2, <1>4, Z3
  <2>4. ~ (d >= q + 2)
    BY <2>1, <1>1, <1>2, <1>4, Z3
  <2> QED BY <2>3, <2>4, <1>2, <1>4
<1>7. NextAfter(n) = n + Period
  BY <1>1, <1>2, <1>3, <1>5, <1>6
<1> QED BY <1>7 DEF n

\* The hook never refuses the time it picked for a cron expression that
\* occurs no more often than the queue is polled.
LEMMA FarEnough ==
  ASSUME Interval <= Period, NEW t \in Nat
  PROVE  CronTime(t) >= t + Interval
<1>1. NextAfter(t) \in Nat /\ NextAfter(t) > t
  BY NextAfterNat, NextAfterIsLater
<1>2. NextAfter(NextAfter(t)) = NextAfter(t) + Period
  BY NextAfterOccurrence
<1>3. Interval \in Nat /\ Period \in Nat
  BY ScheduleAssumption
<1> QED BY <1>1, <1>2, <1>3 DEF CronTime

LEMMA ScheduleInitInv == ScheduleInit => ScheduleIInv
<1>1. CronTime(0) \in Nat
  BY CronTimeNat
<1> SUFFICES ASSUME ScheduleInit PROVE ScheduleIInv
  OBVIOUS
<1>2. refused \in BOOLEAN
  BY Zenon DEF ScheduleInit
<1>3. now \in Nat /\ polled \in Nat /\ scheduled \in Nat /\ phase = "queued"
  BY <1>1 DEF ScheduleInit
<1> QED BY <1>2, <1>3 DEF ScheduleIInv, ScheduleTypeOK, Ahead

LEMMA ScheduleNextInv == ScheduleIInv /\ [ScheduleNext]_scheduleVars => ScheduleIInv'
<1> SUFFICES ASSUME ScheduleIInv, [ScheduleNext]_scheduleVars PROVE ScheduleIInv'
  OBVIOUS
<1> USE DEF ScheduleIInv, ScheduleTypeOK, Ahead
<1>1. CASE Tick
  BY <1>1 DEF Tick
<1>2. CASE Poll
  BY <1>2 DEF Poll
<1>3. CASE FinishExecution
  <2>1. CronTime(now) \in Nat
    BY CronTimeNat
  <2> QED BY <1>3, <2>1 DEF FinishExecution
<1>4. CASE UNCHANGED scheduleVars
  BY <1>4 DEF scheduleVars
<1> QED BY <1>1, <1>2, <1>3, <1>4 DEF ScheduleNext

\* Quotient and remainder are what they should be.
LEMMA DividedBySecond ==
  ASSUME NEW k \in Nat, NEW j \in 0 .. (Second - 1), NEW a \in Nat, a = Second * k + j
  PROVE  a \div Second = k /\ a % Second = j
<1> DEFINE d == a \div Second
           e == a % Second
<1>1. Second \in Nat \ {0}
  BY ScheduleAssumption
<1>2. a = Second * d + e
  BY <1>1, Z3
<1>3. e \in 0 .. (Second - 1)
  BY <1>1, Z3
<1>4. d \in Nat
  BY <1>1, Z3
<1> HIDE DEF d, e
<1>5. d = k
  <2>1. Second * d < Second * (k + 1)
    BY <1>1, <1>2, <1>3, <1>4
  <2>2. Second * k < Second * (d + 1)
    BY <1>1, <1>2, <1>3, <1>4
  <2>3. ~ (d >= k + 1)
    BY <2>1, <1>1, <1>4, Z3
  <2>4. ~ (k >= d + 1)
    BY <2>2, <1>1, <1>4, Z3
  <2> QED BY <2>3, <2>4, <1>4
<1>6. e = j
  BY <1>1, <1>2, <1>3, <1>4, <1>5
<1> QED BY <1>5, <1>6 DEF d, e

\* A poll looks ahead for the interval and what it is rounded up by.
LEMMA LooksAhead == LookAhead = Interval + Rounding
<1> DEFINE q == Interval \div Second
           m == Interval % Second
<1>1. Second \in Nat \ {0} /\ Interval \in Nat
  BY ScheduleAssumption
<1>2. Interval = Second * q + m
  BY <1>1, Z3
<1>3. m \in 0 .. (Second - 1)
  BY <1>1, Z3
<1>4. q \in Nat
  BY <1>1, Z3
<1> HIDE DEF q, m
<1>5. CASE m = 0
  <2>1. (Interval + Second - 1) \div Second = q
    <3>1. Second - 1 \in 0 .. (Second - 1) /\ Interval + Second - 1 \in Nat
      BY <1>1
    <3>2. Interval + Second - 1 = Second * q + (Second - 1)
      BY <1>1, <1>2, <1>4, <1>5
    <3> QED BY <1>4, <3>1, <3>2, DividedBySecond
  <2>2. Second % Second = 0
    <3>1. 0 \in 0 .. (Second - 1) /\ Second = Second * 1 + 0
      BY <1>1
    <3> QED BY <1>1, <3>1, DividedBySecond
  <2>3. Rounding = 0
    <3>1. Second - m = Second
      BY <1>1, <1>5
    <3> QED BY <2>2, <3>1 DEF Rounding, m
  <2>4. q * Second = Interval
    BY <1>1, <1>2, <1>4, <1>5
  <2> QED BY <1>1, <2>1, <2>3, <2>4 DEF LookAhead
<1>6. CASE m # 0
  <2>1. (Interval + Second - 1) \div Second = q + 1
    <3>1. m - 1 \in 0 .. (Second - 1) /\ Interval + Second - 1 \in Nat /\ q + 1 \in Nat
      BY <1>1, <1>3, <1>4, <1>6
    <3>2. Second * (q + 1) = Second * q + Second
      BY <1>1, <1>4
    <3>3. Interval + Second - 1 = Second * (q + 1) + (m - 1)
      BY <1>1, <1>2, <1>3, <1>4, <3>2
    <3> QED BY <3>1, <3>3, DividedBySecond
  <2>2. Rounding = Second - m
    <3>1. Second - m \in 0 .. (Second - 1) /\ Second - m \in Nat
          /\ Second - m = Second * 0 + (Second - m)
      BY <1>1, <1>3, <1>6
    <3>2. (Second - m) % Second = Second - m
      BY <3>1, DividedBySecond
    <3> QED BY <3>2 DEF Rounding, m
  <2>3. (q + 1) * Second = Second * q + Second
    BY <1>1, <1>4
  <2>4. (q + 1) * Second = Interval + (Second - m)
    BY <1>1, <1>2, <1>3, <1>4, <2>3
  <2> QED BY <2>1, <2>2, <2>4 DEF LookAhead
<1> QED BY <1>5, <1>6

\* The next task is for the occurrence just executed, or an earlier one, only
\* if the execution was over within the lead of the poll over the hook.
LEMMA Later ==
  ASSUME Interval <= Period, ScheduleIInv, FinishExecution
  PROVE  scheduled' > scheduled \/ now - polled <= Skew + Rounding
<1>1. /\ now \in Nat /\ polled \in Nat /\ scheduled \in Nat
      /\ Interval \in Nat /\ Skew \in Int /\ LookAhead \in Nat
      /\ CronTime(now) \in Nat
  BY LookAheadNat, CronTimeNat, ScheduleAssumption DEF ScheduleIInv, ScheduleTypeOK
<1>2. CronTime(now) >= now + Interval
  BY <1>1, FarEnough
<1>3. scheduled' = CronTime(now) /\ phase = "executing"
  BY <1>2 DEF FinishExecution
<1>4. scheduled <= polled + Skew + LookAhead
  BY <1>3 DEF ScheduleIInv, Ahead
<1>5. Rounding \in Int /\ LookAhead = Interval + Rounding
  <2>1. Second \in Nat \ {0} /\ Interval % Second \in Int
    BY ScheduleAssumption, Z3
  <2>2. Rounding \in Int
    BY <2>1, Z3 DEF Rounding
  <2> QED BY <2>2, LooksAhead
<1> QED BY <1>1, <1>2, <1>3, <1>4, <1>5

\* ScheduleIInv holds in every state.
THEOREM ScheduleInvariant == ScheduleSpec => []ScheduleIInv
<1> QED BY ScheduleInitInv, ScheduleNextInv, PTL DEF ScheduleSpec

\* Type correctness of the schedule of a cron task.
THEOREM ScheduleTypeCorrect == ScheduleSpec => []ScheduleTypeOK
<1>1. ScheduleIInv => ScheduleTypeOK
  BY DEF ScheduleIInv
<1> QED BY <1>1, ScheduleInvariant, PTL

\* The POST of the next cron task is never refused, so update() does not end
\* the process, if the expression occurs no more often than the queue is
\* polled.
THEOREM NextAlwaysCreated == Interval <= Period => (ScheduleSpec => []NextIsCreated)
<1> SUFFICES ASSUME Interval <= Period PROVE ScheduleSpec => []NextIsCreated
  OBVIOUS
<1>1. ScheduleInit => NextIsCreated
  BY Zenon DEF ScheduleInit, NextIsCreated
<1>2. ScheduleIInv /\ NextIsCreated /\ [ScheduleNext]_scheduleVars => NextIsCreated'
  <2> SUFFICES ASSUME ScheduleIInv, NextIsCreated, [ScheduleNext]_scheduleVars PROVE NextIsCreated'
    OBVIOUS
  <2>1. CASE Tick
    BY <2>1, Zenon DEF Tick, NextIsCreated
  <2>2. CASE Poll
    BY <2>2, Zenon DEF Poll, NextIsCreated
  <2>3. CASE FinishExecution
    <3>1. CronTime(now) >= now + Interval
      BY FarEnough DEF ScheduleIInv, ScheduleTypeOK
    <3>2. UNCHANGED refused
      BY <2>3, <3>1, Zenon DEF FinishExecution
    <3> QED BY <3>2, Zenon DEF NextIsCreated
  <2>4. CASE UNCHANGED scheduleVars
    BY <2>4, Zenon DEF scheduleVars, NextIsCreated
  <2> QED BY <2>1, <2>2, <2>3, <2>4 DEF ScheduleNext
<1> QED BY <1>1, <1>2, ScheduleInvariant, PTL DEF ScheduleSpec

\* The task that update() creates is for a later occurrence than the one just
\* executed, whatever the time the execution took and by whatever the clocks
\* differ, unless it was over within the lead that the rounding and the clock of
\* postgres give the poll; with an interval of whole seconds and one clock, that
\* is no time at all.
THEOREM EachOccurrenceOnce == Interval <= Period => (ScheduleSpec => OccurrenceOnce)
<1> SUFFICES ASSUME Interval <= Period PROVE ScheduleSpec => OccurrenceOnce
  OBVIOUS
<1> DEFINE Once == phase = "executing" /\ phase' = "queued" =>
                     scheduled' > scheduled \/ now - polled <= Skew + Rounding
<1>1. ScheduleIInv /\ [ScheduleNext]_scheduleVars => [Once]_scheduleVars
  <2> SUFFICES ASSUME ScheduleIInv, ScheduleNext, phase = "executing", phase' = "queued"
               PROVE  scheduled' > scheduled \/ now - polled <= Skew + Rounding
    OBVIOUS
  <2>1. FinishExecution
    BY DEF ScheduleNext, Tick, Poll
  <2> QED BY <2>1, Later
<1> QED BY <1>1, ScheduleInvariant, PTL DEF ScheduleSpec, OccurrenceOnce
=============================================================================
