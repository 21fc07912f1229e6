--------------------------------- MODULE Tx ---------------------------------
(***************************************************************************)
(* The transaction layer of src/database-layer/db.ts for postgres: the     *)
(* pool of connections, the Tx objects that createTransaction hands to a   *)
(* callback, the read-only clones of Tx.asReadOnly, the AutomaticClose     *)
(* timer, the end / rollback / preCommit listeners, and the server session *)
(* at the other end of each connection.                                    *)
(*                                                                         *)
(* JavaScript runs one callback at a time, so an action is what the code   *)
(* does between two awaits.  Three parties act on one Tx: the callback it  *)
(* was created for, anyone else who rolls it back (tryCancelRequest on a   *)
(* closed HTTP request, a parent transaction), and the timer.              *)
(***************************************************************************)
EXTENDS Naturals, Sequences, FiniteSets

CONSTANTS
  Clients,        \* physical pg connections; the pool opens them on demand
  PoolSize,       \* config.max: connections open at once
  Txs,            \* Tx objects, each made by one createTransaction call
  Readers,        \* those made by db.readTransaction
  TimeoutMS,      \* options.timeoutMS of each, Unset when it was not passed
  Unset,
  Hooked,         \* those with a preCommit listener that awaits something
  Cancellable,    \* those another party may roll back
  Droppers,       \* those whose callback calls dropTable
  Lenient,        \* those whose callback swallows a failed statement
  Hanging,        \* those whose callback may never settle
  MaxStatements,  \* bound: statements a callback issues
  MaxFaults,      \* bound: connections that break, commits that are refused
  None            \* no connection

PoolStates == {"unborn", "idle", "dead"}

ASSUME TxAssumption ==
  /\ Readers \subseteq Txs /\ Hooked \subseteq Txs /\ Cancellable \subseteq Txs
  /\ Droppers \subseteq Txs /\ Lenient \subseteq Txs /\ Hanging \subseteq Txs
  /\ PoolSize \in Nat /\ MaxStatements \in Nat /\ MaxFaults \in Nat
  /\ Unset \notin Nat
  /\ TimeoutMS \in [Txs -> Nat \cup {Unset}]
  /\ PoolStates \cap Txs = {}
  /\ None \notin Clients

VARIABLES
  pc,         \* where the callback of each Tx is
  client,     \* Tx.db: the connection of each Tx, kept after its release
  closed,     \* the handles of each Tx whose functions were replaced
  statements, \* statements issued by each callback
  holder,     \* who checked each connection out of the pool, or its state
  queue,      \* requests on each connection, the first one being executed
  session,    \* the server's transaction on each connection
  durable,    \* transactions with committed writes
  wrote,      \* transactions one of whose statements wrote (history)
  notified,   \* listeners of each Tx that were run
  faults      \* faults so far

callVars == <<client, closed, statements>>
serverVars == <<session, durable, wrote>>
vars == <<pc, callVars, holder, queue, serverVars, notified, faults>>
-----------------------------------------------------------------------------
Places == {"new", "running", "waiting", "throwing", "preCommit",
           "committing", "done"}
Kinds == {"START", "STATEMENT", "COMMIT", "ROLLBACK"}
Handles == {"main", "view"}
Queries == [tx : Txs, kind : Kinds, handle : Handles]
Query(t, k, h) == [tx |-> t, kind |-> k, handle |-> h]
Sessions == [open : BOOLEAN, aborted : BOOLEAN, writes : SUBSET Txs]
Session(o, a, w) == [open |-> o, aborted |-> a, writes |-> w]
NoSession == Session(FALSE, FALSE, {})

\* readTransaction passes the callback tx.asReadOnly(): a clone that shares
\* the connection and the timer but has its own `closed` and listeners.
Handle(t) == IF t \in Readers THEN "view" ELSE "main"
\* Fault: closeTransaction leaves the functions of the handle in place.
NeverClosed(t) == FALSE
Closed(t) == Handle(t) \in closed[t]

Items(s) == {s[i] : i \in 1..Len(s)}
Outstanding(t) == {q \in UNION {Items(queue[c]) : c \in Clients} : q.tx = t}
CheckedOut(c) == holder[c] \in Txs
Usable(t) == client[t] \in Clients /\ holder[client[t]] # "dead"

\* The Tx constructor makes an AutomaticClose only for a positive timeout.
HasAutomaticClose(t) == TimeoutMS[t] # Unset /\ TimeoutMS[t] > 0

\* Fault: decrementPending does not set the timer again.
TimerOnlyOnce(t) == /\ HasAutomaticClose(t)
                    /\ client[t] # None
                    /\ closed[t] = {}
                    /\ statements[t] = 0

\* The timer runs while pending = 0, until a close of either handle cancels it.
TimerRunning(t) == /\ HasAutomaticClose(t)
                   /\ client[t] # None
                   /\ closed[t] = {}
                   /\ Outstanding(t) = {}

AfterError(t) == IF t \in Lenient THEN "running" ELSE "throwing"

\* Where the callbacks are once the queries Q are rejected: one sees its
\* statement fail, another its COMMIT, and end() rejects.
PcRejecting(Q) ==
  [t \in Txs |-> IF Query(t, "COMMIT", Handle(t)) \in Q THEN "done"
                 ELSE IF Query(t, "STATEMENT", Handle(t)) \in Q
                 THEN AfterError(t)
                 ELSE pc[t]]

\* Fault: a COMMIT without an answer is announced as a rollback.
RollbackOnLostCommit(Q) ==
  [t \in Txs |-> IF \E k \in {"ROLLBACK", "COMMIT"} : Query(t, k, Handle(t)) \in Q
                 THEN {"rollback"} ELSE notified[t]]

\* Fault: clearListeners runs before the listeners.
ClearedFirst(Q) == notified

\* rollback() runs its handle's listeners in a finally, so also on rejection;
\* whichever of end and rollback is first empties all the lists.
NotifiedRejecting(Q) ==
  [t \in Txs |-> IF Query(t, "ROLLBACK", Handle(t)) \in Q /\ notified[t] = {}
                 THEN {"rollback"}
                 ELSE notified[t]]

\* client.release(): the latest checkout is undone whoever calls it, and a
\* connection nobody holds makes it throw.
Release(c) == holder' = IF CheckedOut(c)
                        THEN [holder EXCEPT ![c] = "idle"]
                        ELSE holder

\* Fault: a failed COMMIT or ROLLBACK releases the client without its error.
ReleaseAnyway(c) == /\ holder' = [holder EXCEPT ![c] = "idle"]
                    /\ UNCHANGED session
                    /\ queue' = [queue EXCEPT ![c] = <<>>]
                    /\ pc' = PcRejecting(Items(queue[c]))
                    /\ notified' = NotifiedRejecting(Items(queue[c]))

\* The pool drops a connection for good (client.release(err), or a broken
\* socket): its queries are rejected and the server rolls its session back.
Destroy(c) == /\ holder' = [holder EXCEPT ![c] = "dead"]
              /\ session' = [session EXCEPT ![c] = NoSession]
              /\ queue' = [queue EXCEPT ![c] = <<>>]
              /\ pc' = PcRejecting(Items(queue[c]))
              /\ notified' = NotifiedRejecting(Items(queue[c]))
-----------------------------------------------------------------------------
Init ==
  /\ pc = [t \in Txs |-> "new"]
  /\ client = [t \in Txs |-> None]
  /\ closed = [t \in Txs |-> {}]
  /\ statements = [t \in Txs |-> 0]
  /\ holder = [c \in Clients |-> "unborn"]
  /\ queue = [c \in Clients |-> <<>>]
  /\ session = [c \in Clients |-> NoSession]
  /\ durable = {}
  /\ wrote = {}
  /\ notified = [t \in Txs |-> {}]
  /\ faults = 0

Live == {c \in Clients : holder[c] \notin {"unborn", "dead"}}

(***************************************************************************)
(* createTransaction: pool.connect() resolves, the Tx is built and START   *)
(* TRANSACTION is sent without being awaited; the callback starts at once. *)
(***************************************************************************)
Connect(t, c) ==
  /\ pc[t] = "new"
  /\ \/ holder[c] = "idle"
     \/ holder[c] = "unborn" /\ Cardinality(Live) < PoolSize
  /\ holder' = [holder EXCEPT ![c] = t]
  /\ client' = [client EXCEPT ![t] = c]
  /\ queue' = [queue EXCEPT ![c] = Append(@, Query(t, "START", "main"))]
  /\ pc' = [pc EXCEPT ![t] = "running"]
  /\ UNCHANGED <<closed, statements, serverVars, notified, faults>>

\* pool.connect() rejects (connectionTimeoutMillis, database down): the
\* caller gets the error and there is no Tx.
ConnectFails(t) ==
  /\ pc[t] = "new"
  /\ pc' = [pc EXCEPT ![t] = "done"]
  /\ UNCHANGED <<callVars, holder, queue, serverVars, notified, faults>>

\* dropTable calls $executeSql, which closeTransaction does not replace: it
\* reaches the database through a closed handle too, unless that is read-only.
DropsTable(t) == t \in Droppers \ Readers

\* The callback awaits a statement; a closed handle rejects executeSql.
Execute(t) ==
  /\ pc[t] = "running"
  /\ statements[t] < MaxStatements
  /\ statements' = [statements EXCEPT ![t] = @ + 1]
  /\ IF Usable(t) /\ (Closed(t) => DropsTable(t))
     THEN /\ queue' = [queue EXCEPT ![client[t]] =
                         Append(@, Query(t, "STATEMENT", Handle(t)))]
          /\ pc' = [pc EXCEPT ![t] = "waiting"]
     ELSE /\ pc' = [pc EXCEPT ![t] = AfterError(t)]
          /\ UNCHANGED queue
  /\ UNCHANGED <<client, closed, holder, serverVars, notified, faults>>

(***************************************************************************)
(* rollback() of handle h: the queries behind the one in progress are      *)
(* rejected, ROLLBACK is sent, and the handle is closed at once.  A dead   *)
(* connection rejects the ROLLBACK.  The callback's own calls settle it.   *)
(***************************************************************************)
InProgress(s) == IF s = <<>> THEN <<>> ELSE <<Head(s)>>
SendRollback(t, h, isOwn) ==
  LET c == client[t]
      waiting == IF Usable(t) THEN Items(SubSeq(queue[c], 2, Len(queue[c])))
                 ELSE {}
      rejected == IF Usable(t) THEN waiting
                  ELSE {Query(t, "ROLLBACK", h)}
  IN /\ closed' = [closed EXCEPT ![t] = @ \cup {h}]
     /\ pc' = [PcRejecting(rejected) EXCEPT ![t] = IF isOwn THEN "done" ELSE @]
     /\ notified' = NotifiedRejecting(rejected)
     /\ queue' = IF Usable(t)
                 THEN [queue EXCEPT ![c] =
                         Append(InProgress(@), Query(t, "ROLLBACK", h))]
                 ELSE queue
     /\ UNCHANGED <<client, statements, holder, serverVars, faults>>

\* The part of end() behind its preCommit listeners: COMMIT, then close.
\* closeTransaction replaced end, but not an end that has already started.
SendCommit(t) ==
  /\ closed' = [closed EXCEPT ![t] = @ \cup {Handle(t)}]
  /\ IF Usable(t)
     THEN /\ queue' = [queue EXCEPT ![client[t]] =
                         Append(@, Query(t, "COMMIT", Handle(t)))]
          /\ pc' = [pc EXCEPT ![t] = "committing"]
     ELSE /\ pc' = [pc EXCEPT ![t] = "done"]
          /\ UNCHANGED queue
  /\ UNCHANGED <<client, statements, holder, serverVars, notified, faults>>

\* The callback returned, so createTransaction calls tx.end().
End(t) ==
  /\ pc[t] = "running"
  /\ \/ /\ ~Closed(t)
        /\ t \notin Hooked
        /\ SendCommit(t)
     \/ /\ IF Closed(t) THEN pc' = [pc EXCEPT ![t] = "done"]
           ELSE t \in Hooked /\ pc' = [pc EXCEPT ![t] = "preCommit"]
        /\ UNCHANGED <<callVars, holder, queue, serverVars, notified, faults>>

PreCommitDone(t) == pc[t] = "preCommit" /\ SendCommit(t)

\* The callback, or a preCommit listener, threw: tx.rollback(), whose
\* rejection on a closed handle is ignored.
Throw(t) ==
  /\ pc[t] \in {"running", "throwing", "preCommit"}
  /\ IF Closed(t)
     THEN /\ pc' = [pc EXCEPT ![t] = "done"]
          /\ UNCHANGED <<callVars, holder, queue, serverVars, notified, faults>>
     ELSE SendRollback(t, Handle(t), TRUE)

\* Another party rolls back the handle the callback was given.
Cancel(t) ==
  /\ t \in Cancellable
  /\ client[t] # None
  /\ ~Closed(t)
  /\ SendRollback(t, Handle(t), FALSE)

\* AutomaticClose rolls back the Tx it was made for, never the clone of it.
TimerFires(t) == TimerRunning(t) /\ SendRollback(t, "main", FALSE)
-----------------------------------------------------------------------------
(***************************************************************************)
(* The server answers the query in progress on a connection.               *)
(***************************************************************************)
Executing(c, k) == queue[c] # <<>> /\ Head(queue[c]).kind = k
Dequeue(c) == queue' = [queue EXCEPT ![c] = Tail(@)]

ServeStart(c) ==
  /\ Executing(c, "START")
  /\ Dequeue(c)
  /\ session' = [session EXCEPT ![c] = Session(TRUE, @.aborted, @.writes)]
  /\ UNCHANGED <<pc, callVars, holder, durable, wrote, notified, faults>>

\* Outside a transaction block every statement commits by itself.
ServeStatement(c) ==
  LET t == Head(queue[c]).tx
      written == {t} \ Readers
  IN /\ Executing(c, "STATEMENT")
     /\ ~session[c].aborted
     /\ Dequeue(c)
     /\ pc' = [pc EXCEPT ![t] = "running"]
     /\ wrote' = wrote \cup written
     /\ IF session[c].open
        THEN /\ session' = [session EXCEPT ![c] =
                              Session(TRUE, FALSE, @.writes \cup written)]
             /\ UNCHANGED durable
        ELSE durable' = durable \cup written /\ UNCHANGED session
     /\ UNCHANGED <<callVars, holder, notified, faults>>

\* The statement fails: of itself, or because an earlier one did.
FailStatement(c) ==
  LET t == Head(queue[c]).tx
  IN /\ Executing(c, "STATEMENT")
     /\ Dequeue(c)
     /\ pc' = [pc EXCEPT ![t] = AfterError(t)]
     /\ session' = [session EXCEPT ![c] = Session(@.open, @.open, @.writes)]
     /\ UNCHANGED <<callVars, holder, durable, wrote, notified, faults>>

\* COMMIT succeeds; that of an aborted session does so too, and rolls back.
\* The 'end' listeners run only if release() did not throw.
Committed(c) == IF session[c].aborted THEN {} ELSE session[c].writes
ServeCommit(c) ==
  LET t == Head(queue[c]).tx
  IN /\ Executing(c, "COMMIT")
     /\ Dequeue(c)
     /\ durable' = durable \cup Committed(c)
     /\ session' = [session EXCEPT ![c] = NoSession]
     /\ Release(c)
     /\ pc' = [pc EXCEPT ![t] = "done"]
     /\ notified' = IF CheckedOut(c) /\ notified[t] = {}
                    THEN [notified EXCEPT ![t] = {"end"}]
                    ELSE notified
     /\ UNCHANGED <<callVars, wrote, faults>>

ServeRollback(c) ==
  LET q == Head(queue[c])
  IN /\ Executing(c, "ROLLBACK")
     /\ Dequeue(c)
     /\ session' = [session EXCEPT ![c] = NoSession]
     /\ Release(c)
     /\ notified' = NotifiedRejecting({q})
     /\ UNCHANGED <<pc, callVars, durable, wrote, faults>>

\* The server refuses a COMMIT (a deferred constraint): it rolls back, and
\* _commit releases the client with the error.
CommitRefused(c) ==
  /\ faults < MaxFaults
  /\ Executing(c, "COMMIT")
  /\ session[c].open /\ ~session[c].aborted
  /\ CheckedOut(c)
  /\ Destroy(c)
  /\ faults' = faults + 1
  /\ UNCHANGED <<callVars, durable, wrote>>

\* Nobody saw the answer to a COMMIT in progress: it may have been done.
PerhapsCommitted(c) ==
  \/ UNCHANGED durable
  \/ Executing(c, "COMMIT") /\ durable' = durable \cup Committed(c)

\* The socket breaks, and the 'error' listener of initPool releases it.
Disconnect(c) ==
  /\ faults < MaxFaults
  /\ holder[c] \notin {"unborn", "dead"}
  /\ Destroy(c)
  /\ PerhapsCommitted(c)
  /\ faults' = faults + 1
  /\ UNCHANGED <<callVars, wrote>>

\* timeout(ROLLBACK, rollbackTimeout): _rollback releases with the error.
\* (When nobody holds the connection that release throws, to no effect.)
RollbackTimeout(c) ==
  /\ \E q \in Items(queue[c]) : q.kind = "ROLLBACK"
  /\ CheckedOut(c)
  /\ Destroy(c)
  /\ PerhapsCommitted(c)
  /\ UNCHANGED <<callVars, wrote, faults>>
-----------------------------------------------------------------------------
Serve(c) == \/ ServeStart(c) \/ ServeStatement(c) \/ FailStatement(c)
            \/ ServeCommit(c) \/ ServeRollback(c) \/ CommitRefused(c)
Callback(t) == Execute(t) \/ End(t) \/ PreCommitDone(t) \/ Throw(t)

Next == \/ \E t \in Txs : \/ \E c \in Clients : Connect(t, c)
                          \/ ConnectFails(t)
                          \/ Callback(t)
                          \/ Cancel(t)
                          \/ TimerFires(t)
        \/ \E c \in Clients : Serve(c) \/ Disconnect(c) \/ RollbackTimeout(c)

Spec == Init /\ [][Next]_vars

(***************************************************************************)
(* Timers fire and callbacks that do not hang settle.  The server may stay *)
(* silent.                                                                 *)
(***************************************************************************)
Fairness ==
  /\ \A t \in Txs : WF_vars(TimerFires(t))
  /\ \A t \in Txs \ Hanging : WF_vars(Callback(t))
  /\ \A c \in Clients : WF_vars(RollbackTimeout(c))
FairSpec == Spec /\ Fairness

ServerAnswers == \A c \in Clients : WF_vars(Serve(c))
-----------------------------------------------------------------------------
(***************************************************************************)
(* Properties.                                                             *)
(***************************************************************************)

\* The combinations of features under which a handle is closed only while no
\* call on it can still reach the connection: preCommit listeners that await
\* and dropTable are not raced by a third party, and readTransaction is given
\* no timeout.
SafeUse ==
  /\ Cancellable \cap (Hooked \cup Droppers) = {}
  /\ \A t \in Hooked \cup Droppers \cup Readers : ~HasAutomaticClose(t)

\* Every variable stays in its set.
TypeOK ==
  /\ pc \in [Txs -> Places]
  /\ client \in [Txs -> Clients \cup {None}]
  /\ closed \in [Txs -> SUBSET Handles]
  /\ statements \in [Txs -> Nat]
  /\ holder \in [Clients -> Txs \cup PoolStates]
  /\ queue \in [Clients -> Seq(Queries)]
  /\ session \in [Clients -> Sessions]
  /\ durable \in SUBSET Txs
  /\ wrote \in SUBSET Txs
  /\ notified \in [Txs -> SUBSET {"end", "rollback"}]
  /\ faults \in Nat

\* A query only ever travels on a connection its own transaction holds: none
\* is sent, or still unanswered, once the connection is back in the pool.
OwnConnection ==
  \A c \in Clients : \A i \in 1..Len(queue[c]) : holder[c] = queue[c][i].tx

\* A connection goes back to the pool with its transaction over: whoever
\* takes it next does not inherit an open block or unanswered queries.
CleanPool ==
  \A c \in Clients : holder[c] = "idle" => /\ session[c] = NoSession
                                           /\ queue[c] = <<>>

\* A Tx that is over told its listeners how it ended, whoever ended it.  Only
\* a COMMIT that fails tells nobody.
SettledIsAnnounced ==
  \A t \in Txs : /\ faults = 0 /\ client[t] # None
                 /\ pc[t] = "done" /\ Outstanding(t) = {}
                 => notified[t] # {}

\* While the server answers, the connection of a Tx goes back to the pool, or
\* dies, unless its callback hangs and it was given no timeout; and once a
\* rollback was asked for it is given up even when the server never answers.
Held(t) == client[t] # None /\ holder[client[t]] = t
RollingBack(t) == Held(t) /\ \E q \in Outstanding(t) : q.kind = "ROLLBACK"
ConnectionReturned ==
  /\ ServerAnswers =>
       \A t \in Txs : t \notin Hanging \/ HasAutomaticClose(t) => Held(t) ~> ~Held(t)
  /\ \A t \in Txs : RollingBack(t) ~> ~Held(t)

\* Refinement: seen from the callers, a transaction's writes appear together
\* or not at all, and its listeners learn which.
Stage(t) == IF t \in durable THEN "committed"
            ELSE IF \E c \in Clients : t \in session[c].writes THEN "written"
            ELSE IF t \in wrote THEN "lost" ELSE "active"
Atomic == INSTANCE AtomicTx WITH stage <- [t \in Txs |-> Stage(t)],
                                 told <- notified
AtomicSpec == Atomic!Spec
=============================================================================
