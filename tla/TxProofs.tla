------------------------------ MODULE TxProofs ------------------------------
(***************************************************************************)
(* Proofs about Tx: its variables keep their types, and, when the features *)
(* are combined as SafeUse says, no query ever reaches a connection its    *)
(* transaction does not hold, the pool only hands out clean connections,   *)
(* a Tx that is over has told its listeners, and Tx implements AtomicTx.   *)
(***************************************************************************)
EXTENDS Tx, TLAPS

\* Rejected queries move callbacks within Places, and never to the places a
\* callback enters of its own accord.
LEMMA RejectingPc ==
  ASSUME TypeOK, NEW Q
  PROVE  /\ PcRejecting(Q) \in [Txs -> Places]
         /\ \A t \in Txs : PcRejecting(Q)[t] \in {"new", "preCommit"}
                             => PcRejecting(Q)[t] = pc[t]
BY DEF TypeOK, PcRejecting, AfterError, Places

LEMMA RejectingNotified ==
  ASSUME TypeOK, NEW Q
  PROVE  NotifiedRejecting(Q) \in [Txs -> SUBSET {"end", "rollback"}]
BY DEF TypeOK, NotifiedRejecting

LEMMA QueryType ==
  ASSUME NEW t \in Txs, NEW k \in Kinds, NEW h \in Handles
  PROVE  /\ Query(t, k, h) \in Queries
         /\ Query(t, k, h).tx = t
         /\ Query(t, k, h).kind = k
BY DEF Query, Queries

LEMMA HandleType == ASSUME NEW t \in Txs PROVE Handle(t) \in Handles
BY DEF Handle, Handles

\* What a connection's queue is after each way of changing it.
LEMMA AppendQueue ==
  ASSUME NEW s \in Seq(Queries), NEW q \in Queries
  PROVE  /\ Append(s, q) \in Seq(Queries)
         /\ Len(Append(s, q)) = Len(s) + 1
         /\ \A i \in 1..Len(s) : Append(s, q)[i] = s[i]
         /\ Append(s, q)[Len(s) + 1] = q
OBVIOUS

LEMMA HeadTail ==
  ASSUME NEW s \in Seq(Queries), s # <<>>
  PROVE  /\ Len(s) >= 1
         /\ Head(s) = s[1]
         /\ Head(s) \in Queries
         /\ Tail(s) \in Seq(Queries)
         /\ Len(Tail(s)) = Len(s) - 1
         /\ \A i \in 1..Len(Tail(s)) : Tail(s)[i] = s[i + 1]
OBVIOUS

LEMMA InProgressQueue ==
  ASSUME NEW s \in Seq(Queries), NEW q \in Queries
  PROVE  LET r == Append(InProgress(s), q)
         IN  /\ r \in Seq(Queries)
             /\ s = <<>> => Len(r) = 1 /\ r[1] = q
             /\ s # <<>> => Len(r) = 2 /\ r[1] = s[1] /\ r[2] = q
BY DEF InProgress
-----------------------------------------------------------------------------
(***************************************************************************)
(* Type correctness.                                                       *)
(***************************************************************************)
LEMMA RollbackType ==
  ASSUME TypeOK, NEW t \in Txs, NEW h \in Handles, NEW own \in BOOLEAN,
         SendRollback(t, h, own)
  PROVE  TypeOK'
<1> DEFINE q == Query(t, "ROLLBACK", h)
           c == client[t]
<1>1. q \in Queries
  BY QueryType DEF Kinds
<1>2. queue' \in [Clients -> Seq(Queries)]
  <2>1. CASE Usable(t)
    <3>1. c \in Clients
      BY <2>1 DEF Usable
    <3>2. Append(InProgress(queue[c]), q) \in Seq(Queries)
      BY <1>1, <3>1, InProgressQueue DEF TypeOK
    <3> QED
      BY <2>1, <3>1, <3>2 DEF SendRollback, TypeOK
  <2>2. CASE ~Usable(t)
    BY <2>2 DEF SendRollback, TypeOK
  <2> QED
    BY <2>1, <2>2
<1>3. pc' \in [Txs -> Places]
  BY RejectingPc DEF SendRollback, Places
<1>4. notified' \in [Txs -> SUBSET {"end", "rollback"}]
  BY RejectingNotified DEF SendRollback
<1> QED
  BY <1>2, <1>3, <1>4 DEF SendRollback, serverVars, TypeOK

LEMMA SendType ==
  ASSUME TypeOK, NEW c \in Clients, NEW q \in Queries,
         queue' = [queue EXCEPT ![c] = Append(@, q)]
  PROVE  queue' \in [Clients -> Seq(Queries)]
BY AppendQueue DEF TypeOK

LEMMA CommitType ==
  ASSUME TypeOK, NEW t \in Txs, SendCommit(t)
  PROVE  TypeOK'
<1>1. Query(t, "COMMIT", Handle(t)) \in Queries
  BY QueryType, HandleType DEF Kinds
<1>2. CASE Usable(t)
  <2>1. queue' \in [Clients -> Seq(Queries)]
    BY <1>1, <1>2, SendType DEF SendCommit, Usable
  <2> QED
    BY <1>2, <2>1, HandleType DEF SendCommit, serverVars, TypeOK, Places
<1>3. CASE ~Usable(t)
  BY <1>3, HandleType DEF SendCommit, serverVars, TypeOK, Places
<1> QED
  BY <1>2, <1>3

LEMMA DestroyType ==
  ASSUME TypeOK, NEW c \in Clients, Destroy(c),
         UNCHANGED <<callVars, wrote>>, PerhapsCommitted(c), faults' \in Nat
  PROVE  TypeOK'
<1>1. pc' \in [Txs -> Places]
  BY RejectingPc DEF Destroy
<1>2. notified' \in [Txs -> SUBSET {"end", "rollback"}]
  BY RejectingNotified DEF Destroy
<1>3. durable' \in SUBSET Txs
  BY DEF PerhapsCommitted, Committed, TypeOK, Session, Sessions
<1>4. session' \in [Clients -> Sessions]
  BY DEF Destroy, NoSession, Session, TypeOK, Sessions
<1>5. queue' \in [Clients -> Seq(Queries)]
  BY DEF Destroy, TypeOK
<1>6. holder' \in [Clients -> Txs \cup PoolStates]
  BY DEF Destroy, TypeOK, PoolStates
<1> QED
  BY <1>1, <1>2, <1>3, <1>4, <1>5, <1>6 DEF callVars, TypeOK

LEMMA StepType == TypeOK /\ [Next]_vars => TypeOK'
<1> SUFFICES ASSUME TypeOK, [Next]_vars PROVE TypeOK'
  OBVIOUS
<1>1. ASSUME NEW t \in Txs, NEW c \in Clients, Connect(t, c) PROVE TypeOK'
  <2>1. Query(t, "START", "main") \in Queries
    BY QueryType DEF Kinds, Handles
  <2>2. queue' \in [Clients -> Seq(Queries)]
    BY <1>1, <2>1, SendType DEF Connect
  <2> QED
    BY <1>1, <2>2 DEF Connect, serverVars, TypeOK, Places
<1>2. ASSUME NEW t \in Txs, ConnectFails(t) PROVE TypeOK'
  BY <1>2 DEF ConnectFails, callVars, serverVars, TypeOK, Places
<1>3. ASSUME NEW t \in Txs, Execute(t) PROVE TypeOK'
  <2>1. Query(t, "STATEMENT", Handle(t)) \in Queries
    BY QueryType, HandleType DEF Kinds
  <2>2. queue' \in [Clients -> Seq(Queries)]
    <3>1. CASE Usable(t) /\ (Closed(t) => DropsTable(t))
      BY <1>3, <2>1, <3>1, SendType DEF Execute, Usable
    <3>2. CASE ~(Usable(t) /\ (Closed(t) => DropsTable(t)))
      BY <1>3, <3>2 DEF Execute, TypeOK
    <3> QED
      BY <3>1, <3>2
  <2>3. pc' \in [Txs -> Places]
    BY <1>3 DEF Execute, TypeOK, Places, AfterError
  <2>4. statements' \in [Txs -> Nat]
    BY <1>3 DEF Execute, TypeOK
  <2> QED
    BY <1>3, <2>2, <2>3, <2>4 DEF Execute, serverVars, TypeOK
<1>4. ASSUME NEW t \in Txs, End(t) PROVE TypeOK'
  <2>1. CASE SendCommit(t)
    BY <2>1, CommitType
  <2>2. CASE /\ pc' = [pc EXCEPT ![t] = "done"] \/ pc' = [pc EXCEPT ![t] = "preCommit"]
             /\ UNCHANGED <<callVars, holder, queue, serverVars, notified, faults>>
    BY <2>2 DEF callVars, serverVars, TypeOK, Places
  <2> QED
    BY <1>4, <2>1, <2>2 DEF End
<1>5. ASSUME NEW t \in Txs, PreCommitDone(t) PROVE TypeOK'
  BY <1>5, CommitType DEF PreCommitDone
<1>6. ASSUME NEW t \in Txs, Throw(t) PROVE TypeOK'
  <2>1. CASE SendRollback(t, Handle(t), TRUE)
    BY <2>1, RollbackType, HandleType
  <2>2. CASE /\ pc' = [pc EXCEPT ![t] = "done"]
             /\ UNCHANGED <<callVars, holder, queue, serverVars, notified, faults>>
    BY <2>2 DEF callVars, serverVars, TypeOK, Places
  <2> QED
    BY <1>6, <2>1, <2>2 DEF Throw
<1>7. ASSUME NEW t \in Txs, Cancel(t) PROVE TypeOK'
  BY <1>7, RollbackType, HandleType DEF Cancel
<1>8. ASSUME NEW t \in Txs, TimerFires(t) PROVE TypeOK'
  BY <1>8, RollbackType DEF TimerFires, Handles
<1>9. ASSUME NEW c \in Clients, queue[c] # <<>>, Dequeue(c)
      PROVE  /\ queue' \in [Clients -> Seq(Queries)]
             /\ Head(queue[c]) \in Queries
             /\ Head(queue[c]).tx \in Txs
  BY <1>9, HeadTail DEF Dequeue, TypeOK, Queries
<1>10. ASSUME NEW c \in Clients, ServeStart(c) PROVE TypeOK'
  BY <1>9, <1>10 DEF ServeStart, Executing, callVars, TypeOK, Session, Sessions
<1>11. ASSUME NEW c \in Clients, ServeStatement(c) PROVE TypeOK'
  <2>1. session' \in [Clients -> Sessions] /\ durable' \in SUBSET Txs
    <3>1. CASE session[c].open
      <4>1. Head(queue[c]).tx \in Txs
        BY <1>9, <1>11 DEF ServeStatement, Executing
      <4>2. Session(TRUE, FALSE, session[c].writes \cup ({Head(queue[c]).tx} \ Readers))
              \in Sessions
        BY <4>1 DEF TypeOK, Session, Sessions
      <4> QED
        BY <1>11, <3>1, <4>2 DEF ServeStatement, TypeOK
    <3>2. CASE ~session[c].open
      BY <1>9, <1>11, <3>2 DEF ServeStatement, Executing, TypeOK, Session, Sessions
    <3> QED
      BY <3>1, <3>2
  <2> QED
    BY <1>9, <1>11, <2>1 DEF ServeStatement, Executing, callVars, TypeOK, Places
<1>12. ASSUME NEW c \in Clients, FailStatement(c) PROVE TypeOK'
  BY <1>9, <1>12 DEF FailStatement, Executing, AfterError, callVars, TypeOK,
                     Session, Sessions, Places
<1>13. ASSUME NEW c \in Clients, Release(c) PROVE holder' \in [Clients -> Txs \cup PoolStates]
  BY <1>13 DEF Release, TypeOK, PoolStates
<1>14. ASSUME NEW c \in Clients, ServeCommit(c) PROVE TypeOK'
  <2>1. durable' \in SUBSET Txs
    BY <1>14 DEF ServeCommit, Committed, TypeOK, Session, Sessions
  <2>2. session' \in [Clients -> Sessions]
    BY <1>14 DEF ServeCommit, NoSession, Session, TypeOK, Sessions
  <2>3. notified' \in [Txs -> SUBSET {"end", "rollback"}]
    BY <1>14 DEF ServeCommit, TypeOK
  <2> QED
    BY <1>9, <1>13, <1>14, <2>1, <2>2, <2>3
       DEF ServeCommit, Executing, callVars, TypeOK, Places
<1>15. ASSUME NEW c \in Clients, ServeRollback(c) PROVE TypeOK'
  <2>1. session' \in [Clients -> Sessions]
    BY <1>15 DEF ServeRollback, NoSession, Session, TypeOK, Sessions
  <2>2. notified' \in [Txs -> SUBSET {"end", "rollback"}]
    BY <1>15, RejectingNotified DEF ServeRollback
  <2> QED
    BY <1>9, <1>13, <1>15, <2>1, <2>2 DEF ServeRollback, Executing, callVars, TypeOK
<1>16. ASSUME NEW c \in Clients, CommitRefused(c) PROVE TypeOK'
  BY <1>16, DestroyType DEF CommitRefused, PerhapsCommitted, TypeOK
<1>17. ASSUME NEW c \in Clients, Disconnect(c) PROVE TypeOK'
  BY <1>17, DestroyType DEF Disconnect, TypeOK
<1>18. ASSUME NEW c \in Clients, RollbackTimeout(c) PROVE TypeOK'
  BY <1>18, DestroyType DEF RollbackTimeout, TypeOK
<1>19. CASE UNCHANGED vars
  BY <1>19 DEF vars, callVars, serverVars, TypeOK
<1> QED
  BY <1>1, <1>2, <1>3, <1>4, <1>5, <1>6, <1>7, <1>8, <1>10, <1>11, <1>12,
     <1>14, <1>15, <1>16, <1>17, <1>18, <1>19 DEF Next, Callback, Serve

\* Every reachable state of the transaction layer is well typed.
THEOREM TypeCorrect == Spec => []TypeOK
<1>1. Init => TypeOK
  BY DEF Init, TypeOK, Places, PoolStates, NoSession, Session, Sessions
<1> QED
  BY <1>1, StepType, PTL DEF Spec
-----------------------------------------------------------------------------
(***************************************************************************)
(* The inductive invariant behind OwnConnection and CleanPool.             *)
(***************************************************************************)
Ends(q) == q.kind \in {"COMMIT", "ROLLBACK"}

\* A Tx that does not exist yet has no connection; the holder of a connection
\* is the Tx that has it as its client.
Holding == /\ \A t \in Txs : pc[t] = "new" => client[t] = None /\ closed[t] = {}
           /\ \A c \in Clients : CheckedOut(c) => client[holder[c]] = c

\* As long as no handle of a Tx is closed it holds its connection.
OpenHolds == \A t \in Txs : client[t] # None /\ closed[t] = {}
                              => holder[client[t]] \in {t, "dead"}

\* Only the handle of the callback is ever closed, and that of a transaction
\* with preCommit listeners or dropTable only when its callback is through.
Alone == \A t \in Txs : /\ closed[t] \subseteq {Handle(t)}
                        /\ pc[t] = "preCommit" => t \in Hooked
                        /\ t \in Hooked \cup Droppers /\ closed[t] # {}
                             => pc[t] \in {"committing", "done"}

\* A COMMIT or ROLLBACK is the last query of its Tx, whose handle is closed.
LastEnds ==
  \A c \in Clients : \A i \in 1..Len(queue[c]) :
    Ends(queue[c][i]) => i = Len(queue[c]) /\ closed[queue[c][i].tx] # {}

\* A statement is awaited by its callback, so there is one at a time.
OneWaits ==
  \A c \in Clients : \A i \in 1..Len(queue[c]) :
    queue[c][i].kind = "STATEMENT" =>
      /\ pc[queue[c][i].tx] = "waiting"
      /\ \A j \in 1..Len(queue[c]) : queue[c][j].kind = "STATEMENT" => i = j

\* Nothing is written outside the transaction block of the holder.
SessionOwned ==
  \A c \in Clients :
    /\ CheckedOut(c) => \/ session[c].open
                        \/ queue[c] # <<>> /\ queue[c][1].kind = "START"
    /\ ~CheckedOut(c) => session[c] = NoSession
    /\ \A t \in session[c].writes : t = holder[c]

IInv == /\ TypeOK
        /\ OwnConnection
        /\ Holding
        /\ OpenHolds
        /\ Alone
        /\ LastEnds
        /\ OneWaits
        /\ SessionOwned

\* A pool state is no transaction.
LEMMA NoPoolTx == \A t \in Txs : t \notin PoolStates
BY TxAssumption

\* The queries on a connection are those of transactions.
LEMMA QueueTx ==
  ASSUME TypeOK, NEW c \in Clients
  PROVE  /\ queue[c] \in Seq(Queries)
         /\ Len(queue[c]) \in Nat
         /\ \A i \in 1..Len(queue[c]) :
              queue[c][i] \in Queries /\ queue[c][i].tx \in Txs
<1>1. queue[c] \in Seq(Queries)
  BY DEF TypeOK
<1>2. \A i \in 1..Len(queue[c]) : queue[c][i] \in Queries
  BY <1>1
<1>3. \A q \in Queries : q.tx \in Txs
  BY DEF Queries
<1> QED
  BY <1>1, <1>2, <1>3

\* Nothing is queued on a connection nobody holds.
LEMMA UnheldQueue ==
  ASSUME TypeOK, OwnConnection, NEW c \in Clients, holder[c] \notin Txs
  PROVE  queue[c] = <<>>
<1> SUFFICES ASSUME queue[c] # <<>> PROVE FALSE
  OBVIOUS
<1>1. 1 \in 1..Len(queue[c])
  BY HeadTail, QueueTx
<1> QED
  BY <1>1, QueueTx DEF OwnConnection

\* A Tx none of whose handles is closed, on a live connection, holds it and
\* has sent neither COMMIT nor ROLLBACK.
LEMMA OpenTx ==
  ASSUME IInv, NEW t \in Txs, closed[t] = {}, Usable(t)
  PROVE  /\ client[t] \in Clients
         /\ holder[client[t]] = t
         /\ \A i \in 1..Len(queue[client[t]]) :
              queue[client[t]][i].tx = t /\ ~Ends(queue[client[t]][i])
<1>1. client[t] \in Clients /\ client[t] # None /\ holder[client[t]] # "dead"
  BY TxAssumption DEF Usable
<1>2. holder[client[t]] = t
  BY <1>1 DEF IInv, OpenHolds
<1> QED
  BY <1>1, <1>2 DEF IInv, OwnConnection, LastEnds

\* Rejecting queries of one connection disturbs its holder only, and only to
\* end its COMMIT or its awaited statement.
LEMMA RejectingOwn ==
  ASSUME IInv, NEW c \in Clients, NEW Q, Q \subseteq Items(queue[c]),
         NEW t \in Txs, PcRejecting(Q)[t] # pc[t]
  PROVE  /\ holder[c] = t
         /\ \/ /\ PcRejecting(Q)[t] = "done"
               /\ \E q \in Q : q.tx = t /\ q.kind = "COMMIT"
            \/ /\ PcRejecting(Q)[t] \in {"running", "throwing"}
               /\ pc[t] = "waiting"
               /\ \E q \in Q : q.tx = t /\ q.kind = "STATEMENT"
<1> DEFINE cq == Query(t, "COMMIT", Handle(t))
           sq == Query(t, "STATEMENT", Handle(t))
<1>1. /\ cq.tx = t /\ cq.kind = "COMMIT"
      /\ sq.tx = t /\ sq.kind = "STATEMENT"
  BY DEF Query
<1>2. \A q \in Q : q.tx = holder[c]
  BY DEF Items, IInv, OwnConnection
<1>3. CASE cq \in Q
  BY <1>1, <1>2, <1>3 DEF PcRejecting
<1>4. CASE cq \notin Q /\ sq \in Q
  <2>1. pc[t] = "waiting"
    BY <1>1, <1>4 DEF Items, IInv, OneWaits
  <2>2. PcRejecting(Q)[t] \in {"running", "throwing"}
    BY <1>4 DEF PcRejecting, AfterError
  <2> QED
    BY <1>1, <1>2, <1>4, <2>1, <2>2
<1>5. CASE cq \notin Q /\ sq \notin Q
  BY <1>5 DEF PcRejecting
<1> QED
  BY <1>3, <1>4, <1>5
-----------------------------------------------------------------------------
(***************************************************************************)
(* The calls of db.ts keep the invariant.                                  *)
(***************************************************************************)
LEMMA ConnectInv ==
  ASSUME IInv, TypeOK', NEW t \in Txs, NEW c \in Clients, Connect(t, c)
  PROVE  IInv'
<1> USE NoPoolTx
<1> DEFINE q == Query(t, "START", "main")
<1>1. /\ q.tx = t /\ q.kind = "START"
  BY DEF Query
<1>2. /\ holder[c] \notin Txs /\ holder[c] # "dead"
      /\ client[t] = None /\ closed[t] = {} /\ pc[t] = "new"
  BY DEF Connect, IInv, Holding, PoolStates
<1>3. queue[c] = <<>>
  BY <1>2, UnheldQueue DEF IInv
<1>4. /\ queue' = [queue EXCEPT ![c] = <<q>>]
      /\ queue'[c] = <<q>> /\ Len(queue'[c]) = 1 /\ queue'[c][1] = q
  BY <1>3 DEF Connect, IInv, TypeOK
<1>5. /\ holder' = [holder EXCEPT ![c] = t]
      /\ client' = [client EXCEPT ![t] = c]
      /\ pc' = [pc EXCEPT ![t] = "running"]
      /\ UNCHANGED <<closed, session>>
  BY DEF Connect, serverVars
<1>6. \A d \in Clients \ {c} : queue'[d] = queue[d] /\ holder'[d] = holder[d]
  BY <1>4, <1>5 DEF IInv, TypeOK
<1>7. holder'[c] = t
  BY <1>5 DEF IInv, TypeOK
<1>8. OwnConnection'
  BY <1>1, <1>4, <1>6, <1>7 DEF IInv, OwnConnection
<1>9. Holding'
  BY <1>2, <1>5, <1>6, <1>7, TxAssumption DEF IInv, Holding, CheckedOut, TypeOK
<1>10. OpenHolds'
  BY <1>2, <1>5, <1>6, <1>7, TxAssumption DEF IInv, OpenHolds, TypeOK
<1>11. Alone'
  BY <1>2, <1>5 DEF IInv, Alone, TypeOK
<1>12. LastEnds'
  BY <1>1, <1>4, <1>5, <1>6 DEF IInv, LastEnds, Ends
<1>13. OneWaits'
  <2>1. ASSUME NEW d \in Clients, NEW i \in 1..Len(queue'[d]),
               queue'[d][i].kind = "STATEMENT"
        PROVE  /\ pc'[queue'[d][i].tx] = "waiting"
               /\ \A j \in 1..Len(queue'[d]) :
                    queue'[d][j].kind = "STATEMENT" => i = j
    <3>1. d # c /\ queue'[d] = queue[d]
      BY <1>1, <1>4, <1>6, <2>1
    <3>2. pc[queue[d][i].tx] = "waiting"
      BY <2>1, <3>1 DEF IInv, OneWaits
    <3>3. pc'[queue[d][i].tx] = "waiting"
      BY <1>2, <1>5, <2>1, <3>1, <3>2, QueueTx DEF IInv, TypeOK
    <3> QED
      BY <2>1, <3>1, <3>3 DEF IInv, OneWaits
  <2> QED
    BY <2>1 DEF OneWaits
<1>14. SessionOwned'
  <2>1. session[c] = NoSession
    BY <1>2 DEF IInv, SessionOwned, CheckedOut
  <2> QED
    BY <1>1, <1>4, <1>5, <1>6, <1>7, <2>1
       DEF IInv, SessionOwned, CheckedOut, NoSession, Session
<1> QED
  BY <1>8, <1>9, <1>10, <1>11, <1>12, <1>13, <1>14 DEF IInv

\* Sending q on c adds one query behind those of c.
LEMMA Sent ==
  ASSUME TypeOK, NEW c \in Clients, NEW q \in Queries,
         queue' = [queue EXCEPT ![c] = Append(@, q)]
  PROVE  /\ Len(queue[c]) \in Nat
         /\ Len(queue'[c]) = Len(queue[c]) + 1
         /\ queue'[c][Len(queue[c]) + 1] = q
         /\ queue'[c] # <<>>
         /\ \A d \in Clients \ {c} : queue'[d] = queue[d]
         /\ \A i \in 1..Len(queue'[c]) :
              \/ i \in 1..Len(queue[c]) /\ queue'[c][i] = queue[c][i]
              \/ i = Len(queue[c]) + 1 /\ queue'[c][i] = q
         /\ \A i \in 1..Len(queue[c]) : queue'[c][i] = queue[c][i]
<1>1. queue[c] \in Seq(Queries) /\ Len(queue[c]) \in Nat
  BY QueueTx
<1>2. queue'[c] = Append(queue[c], q) /\ \A d \in Clients \ {c} : queue'[d] = queue[d]
  BY DEF TypeOK
<1>3. /\ Len(queue'[c]) = Len(queue[c]) + 1
      /\ \A i \in 1..Len(queue[c]) : queue'[c][i] = queue[c][i]
      /\ queue'[c][Len(queue[c]) + 1] = q
  BY <1>1, <1>2, AppendQueue
<1>4. queue'[c] # <<>>
  BY <1>1, <1>3
<1>5. \A i \in 1..Len(queue'[c]) : i \in 1..Len(queue[c]) \/ i = Len(queue[c]) + 1
  BY <1>1, <1>3
<1> QED
  BY <1>1, <1>2, <1>3, <1>4, <1>5

\* An open Tx that sends a query keeps the parts of the invariant that are
\* about queues, provided that it closes when it sends its last.
LEMMA SendInv ==
  ASSUME IInv, NEW t \in Txs, closed[t] = {}, Usable(t),
         NEW q \in Queries, q.tx = t,
         queue' = [queue EXCEPT ![client[t]] = Append(@, q)],
         UNCHANGED <<client, holder, session>>,
         closed' = closed \/ closed' = [closed EXCEPT ![t] = {Handle(t)}],
         Ends(q) => closed'[t] # {}
  PROVE  OwnConnection' /\ LastEnds' /\ SessionOwned'
<1> DEFINE c == client[t]
<1>1. /\ c \in Clients
      /\ holder[c] = t
      /\ \A i \in 1..Len(queue[c]) :
           queue[c][i].tx = t /\ ~Ends(queue[c][i])
  BY OpenTx
<1>2. \A u \in Txs : closed[u] # {} => closed'[u] # {}
  BY DEF IInv, TypeOK
<1> HIDE DEF c
<1> USE <1>1
<1>3. queue' = [queue EXCEPT ![c] = Append(@, q)] /\ holder' = holder /\ session' = session
  BY DEF c
<1>4. /\ Len(queue[c]) \in Nat
      /\ Len(queue'[c]) = Len(queue[c]) + 1
      /\ queue'[c] # <<>>
      /\ \A d \in Clients \ {c} : queue'[d] = queue[d]
      /\ \A i \in 1..Len(queue'[c]) :
           \/ i \in 1..Len(queue[c]) /\ queue'[c][i] = queue[c][i]
           \/ i = Len(queue[c]) + 1 /\ queue'[c][i] = q
      /\ \A i \in 1..Len(queue[c]) : queue'[c][i] = queue[c][i]
  BY <1>3, Sent DEF IInv
<1>5. OwnConnection'
  BY <1>3, <1>4 DEF IInv, OwnConnection
<1>6. LastEnds'
  <2>1. ASSUME NEW d \in Clients, NEW i \in 1..Len(queue'[d]), Ends(queue'[d][i])
        PROVE  i = Len(queue'[d]) /\ closed'[queue'[d][i].tx] # {}
    <3>1. CASE d = c
      <4>1. i = Len(queue[c]) + 1 /\ queue'[c][i] = q
        BY <1>4, <2>1, <3>1 DEF Ends
      <4> QED
        BY <1>4, <2>1, <3>1, <4>1
    <3>2. CASE d # c
      <4>1. queue'[d] = queue[d]
        BY <1>4, <3>2
      <4>2. i = Len(queue[d]) /\ closed[queue[d][i].tx] # {}
        BY <2>1, <4>1 DEF IInv, LastEnds
      <4> QED
        BY <1>2, <2>1, <4>1, <4>2, QueueTx DEF IInv
    <3> QED
      BY <3>1, <3>2
  <2> QED
    BY <2>1 DEF LastEnds, Ends
<1>7. SessionOwned'
  <2>1. queue[c] # <<>> => queue'[c][1] = queue[c][1]
    BY <1>4, QueueTx, HeadTail DEF IInv
  <2> QED
    BY <1>3, <1>4, <2>1 DEF IInv, SessionOwned, CheckedOut
<1> QED
  BY <1>5, <1>6, <1>7

LEMMA ExecuteInv ==
  ASSUME IInv, TypeOK', NEW t \in Txs, Execute(t)
  PROVE  IInv'
<1> DEFINE q == Query(t, "STATEMENT", Handle(t))
           c == client[t]
<1>1. q.tx = t /\ q.kind = "STATEMENT" /\ q \in Queries
  BY QueryType, HandleType DEF Query, Kinds
<1>2. /\ pc[t] = "running"
      /\ UNCHANGED <<client, closed, holder, session>>
  BY DEF Execute, serverVars
<1>3. \A d \in Clients : \A i \in 1..Len(queue[d]) :
        queue[d][i].kind = "STATEMENT" => queue[d][i].tx # t
  BY <1>2 DEF IInv, OneWaits
<1>4. CASE Usable(t) /\ (Closed(t) => DropsTable(t))
  <2>1. closed[t] = {}
    BY <1>2, <1>4 DEF IInv, Alone, Closed, DropsTable
  <2>2. /\ queue' = [queue EXCEPT ![c] = Append(@, q)]
        /\ pc' = [pc EXCEPT ![t] = "waiting"]
        /\ c \in Clients
    BY <1>4 DEF Execute, Usable
  <2>3. OwnConnection' /\ LastEnds' /\ SessionOwned'
    BY <1>1, <1>2, <1>4, <2>1, <2>2, SendInv DEF Ends
  <2>4. Holding' /\ OpenHolds' /\ Alone'
    BY <1>2, <2>1, <2>2 DEF IInv, Holding, OpenHolds, Alone, CheckedOut, TypeOK
  <2>5. OneWaits'
    <3> HIDE DEF c, q
    <3>1. ASSUME NEW d \in Clients, NEW i \in 1..Len(queue'[d]),
                 queue'[d][i].kind = "STATEMENT"
          PROVE  /\ pc'[queue'[d][i].tx] = "waiting"
                 /\ \A j \in 1..Len(queue'[d]) :
                      queue'[d][j].kind = "STATEMENT" => i = j
      <4>1. pc'[t] = "waiting"
        BY <2>2 DEF IInv, TypeOK
      <4>2. CASE d = c
        <5>1. \A j \in 1..Len(queue[c]) : queue[c][j].kind # "STATEMENT"
          BY <1>3, <2>1, <2>2, <1>4, OpenTx DEF c
        <5>2. \A j \in 1..Len(queue'[c]) :
                 \/ j \in 1..Len(queue[c]) /\ queue'[c][j] = queue[c][j]
                 \/ j = Len(queue[c]) + 1 /\ queue'[c][j] = q
          BY <1>1, <2>2, Sent DEF IInv
        <5> QED
          BY <1>1, <3>1, <4>1, <4>2, <5>1, <5>2
      <4>3. CASE d # c
        <5>1. queue'[d] = queue[d]
          BY <2>2, <4>3 DEF IInv, TypeOK
        <5> QED
          BY <2>2, <3>1, <5>1, <1>3, QueueTx DEF IInv, OneWaits, TypeOK
      <4> QED
        BY <4>2, <4>3
    <3> QED
      BY <3>1 DEF OneWaits
  <2> QED
    BY <2>3, <2>4, <2>5 DEF IInv
<1>5. CASE ~(Usable(t) /\ (Closed(t) => DropsTable(t)))
  <2>1. /\ pc' = [pc EXCEPT ![t] = AfterError(t)]
        /\ UNCHANGED queue
    BY <1>5 DEF Execute
  <2>2. /\ OwnConnection' /\ LastEnds' /\ SessionOwned' /\ OpenHolds'
    BY <1>2, <2>1
       DEF IInv, OwnConnection, LastEnds, Ends, SessionOwned, OpenHolds, CheckedOut
  <2>3. Holding' /\ Alone'
    BY <1>2, <2>1 DEF IInv, Holding, Alone, CheckedOut, AfterError, TypeOK
  <2>4. OneWaits'
    BY <1>3, <2>1, QueueTx DEF IInv, OneWaits, TypeOK
  <2> QED
    BY <2>2, <2>3, <2>4 DEF IInv
<1> QED
  BY <1>4, <1>5

\* A Tx that awaits nothing has no statement queued.
LEMMA NoStatement ==
  ASSUME IInv, NEW t \in Txs, pc[t] # "waiting"
  PROVE  \A d \in Clients : \A i \in 1..Len(queue[d]) :
           queue[d][i].kind = "STATEMENT" => queue[d][i].tx # t
BY DEF IInv, OneWaits

LEMMA CommitInv ==
  ASSUME IInv, TypeOK', NEW t \in Txs, closed[t] = {},
         pc[t] \in {"running", "preCommit"}, SendCommit(t)
  PROVE  IInv'
<1> DEFINE q == Query(t, "COMMIT", Handle(t))
           c == client[t]
<1>1. q.tx = t /\ q.kind = "COMMIT" /\ q \in Queries
  BY QueryType, HandleType DEF Query, Kinds
<1>2. /\ closed' = [closed EXCEPT ![t] = {Handle(t)}]
      /\ closed'[t] # {}
      /\ UNCHANGED <<client, holder, session>>
      /\ pc' = [pc EXCEPT ![t] = "committing"] \/ pc' = [pc EXCEPT ![t] = "done"]
  BY DEF SendCommit, serverVars, IInv, TypeOK
<1>3. Holding' /\ OpenHolds' /\ Alone'
  BY <1>2 DEF IInv, Holding, OpenHolds, Alone, CheckedOut, TypeOK
<1>4. CASE Usable(t)
  <2>1. queue' = [queue EXCEPT ![c] = Append(@, q)] /\ c \in Clients
    BY <1>4 DEF SendCommit, Usable
  <2>2. OwnConnection' /\ LastEnds' /\ SessionOwned'
    BY <1>1, <1>2, <1>4, <2>1, SendInv
  <2>3. OneWaits'
    <3> HIDE DEF c, q
    <3>1. ASSUME NEW d \in Clients, NEW i \in 1..Len(queue'[d]),
                 queue'[d][i].kind = "STATEMENT"
          PROVE  i \in 1..Len(queue[d]) /\ queue'[d][i] = queue[d][i]
      BY <1>1, <2>1, <3>1, Sent DEF IInv
    <3>2. ASSUME NEW d \in Clients, NEW i \in 1..Len(queue'[d]),
                 queue'[d][i].kind = "STATEMENT"
          PROVE  pc'[queue'[d][i].tx] = "waiting"
      BY <1>2, <3>1, <3>2, NoStatement, QueueTx DEF IInv, OneWaits, TypeOK
    <3> QED
      BY <3>1, <3>2 DEF IInv, OneWaits
  <2> QED
    BY <1>3, <2>2, <2>3 DEF IInv
<1>5. CASE ~Usable(t)
  <2>1. queue' = queue
    BY <1>5 DEF SendCommit
  <2>2. OwnConnection' /\ SessionOwned'
    BY <1>2, <2>1 DEF IInv, OwnConnection, SessionOwned, CheckedOut
  <2>3. LastEnds'
    BY <1>2, <2>1, QueueTx DEF IInv, LastEnds, Ends, TypeOK
  <2>4. OneWaits'
    BY <1>2, <2>1, NoStatement, QueueTx DEF IInv, OneWaits, TypeOK
  <2> QED
    BY <1>3, <2>2, <2>3, <2>4 DEF IInv
<1> QED
  BY <1>4, <1>5

\* The queries that a rollback rejects are those behind the one in progress.
LEMMA BehindFirst ==
  ASSUME NEW s \in Seq(Queries)
  PROVE  \A r \in Items(SubSeq(s, 2, Len(s))) :
           \E k \in 1..Len(s) : k >= 2 /\ r = s[k]
<1> SUFFICES ASSUME NEW i \in 1..Len(SubSeq(s, 2, Len(s)))
             PROVE  \E k \in 1..Len(s) : k >= 2 /\ SubSeq(s, 2, Len(s))[i] = s[k]
  BY DEF Items
<1>1. i + 1 \in 1..Len(s) /\ SubSeq(s, 2, Len(s))[i] = s[i + 1]
  OBVIOUS
<1> QED
  BY <1>1

\* A rollback leaves the query in progress and its own ROLLBACK.
LEMMA RolledBack ==
  ASSUME TypeOK, NEW c \in Clients, NEW q \in Queries,
         queue' = [queue EXCEPT ![c] = Append(InProgress(@), q)]
  PROVE  /\ queue'[c] # <<>>
         /\ queue[c] # <<>> => queue'[c][1] = queue[c][1]
         /\ \A d \in Clients \ {c} : queue'[d] = queue[d]
         /\ \A i \in 1..Len(queue'[c]) :
              \/ i = Len(queue'[c]) /\ queue'[c][i] = q
              \/ i = 1 /\ i \in 1..Len(queue[c]) /\ queue'[c][i] = queue[c][1]
<1> DEFINE r == Append(InProgress(queue[c]), q)
<1>1. queue[c] \in Seq(Queries) /\ queue'[c] = r
  BY QueueTx DEF TypeOK
<1>2. \A d \in Clients \ {c} : queue'[d] = queue[d]
  BY DEF TypeOK
<1>3. CASE queue[c] = <<>>
  <2>1. Len(r) = 1 /\ r[1] = q
    BY <1>1, <1>3, InProgressQueue
  <2> HIDE DEF r
  <2> QED
    BY <1>1, <1>2, <1>3, <2>1
<1>4. CASE queue[c] # <<>>
  <2>1. Len(r) = 2 /\ r[1] = queue[c][1] /\ r[2] = q
    BY <1>1, <1>4, InProgressQueue
  <2>2. Len(queue[c]) \in Nat /\ Len(queue[c]) >= 1
    BY <1>1, <1>4, HeadTail
  <2> HIDE DEF r
  <2>3. queue'[c] # <<>>
    BY <1>1, <2>1
  <2>4. Len(queue'[c]) = 2
    BY <1>1, <2>1
  <2>5. \A i \in 1..2 : i = 1 \/ i = 2
    OBVIOUS
  <2>6. ASSUME NEW i \in 1..Len(queue'[c])
        PROVE  \/ i = Len(queue'[c]) /\ queue'[c][i] = q
               \/ i = 1 /\ i \in 1..Len(queue[c]) /\ queue'[c][i] = queue[c][1]
    <3>1. CASE i = 1
      BY <1>1, <2>1, <2>2, <3>1
    <3>2. CASE i = 2
      BY <1>1, <2>1, <2>4, <3>2
    <3> QED
      BY <2>4, <2>5, <3>1, <3>2
  <2> QED
    BY <1>1, <1>2, <1>4, <2>1, <2>3, <2>6
<1> QED
  BY <1>3, <1>4

LEMMA RollbackInv ==
  ASSUME IInv, TypeOK', NEW t \in Txs, NEW own \in BOOLEAN, closed[t] = {},
         pc[t] # "new",
         own => pc[t] \in {"running", "throwing", "preCommit"},
         ~own => t \notin Hooked \cup Droppers,
         SendRollback(t, Handle(t), own)
  PROVE  IInv'
<1> DEFINE q == Query(t, "ROLLBACK", Handle(t))
           c == client[t]
           W == Items(SubSeq(queue[c], 2, Len(queue[c])))
           rejected == IF Usable(t) THEN W ELSE {q}
<1>1. q.tx = t /\ q.kind = "ROLLBACK" /\ q \in Queries
  BY QueryType, HandleType DEF Query, Kinds
<1>2. /\ closed' = [closed EXCEPT ![t] = {Handle(t)}]
      /\ closed'[t] # {}
      /\ UNCHANGED <<client, holder, session>>
      /\ pc' = [PcRejecting(rejected) EXCEPT ![t] = IF own THEN "done" ELSE @]
  BY DEF SendRollback, serverVars, IInv, TypeOK
<1>3. PcRejecting(rejected) \in [Txs -> Places]
  BY RejectingPc DEF IInv
<1>4. \A u \in Txs \ {t} : PcRejecting(rejected)[u] = pc[u]
  <2>1. CASE Usable(t)
    <3>1. c \in Clients /\ holder[c] = t
      BY <2>1, OpenTx
    <3>2. rejected \subseteq Items(queue[c])
      BY <2>1, <3>1, BehindFirst, QueueTx DEF IInv, Items
    <3> QED
      BY <3>1, <3>2, RejectingOwn
  <2>2. CASE ~Usable(t)
    BY <2>2 DEF PcRejecting, Query
  <2> QED
    BY <2>1, <2>2
<1>5. /\ \A u \in Txs \ {t} : pc'[u] = pc[u] /\ closed'[u] = closed[u]
      /\ own => pc'[t] = "done"
      /\ ~own => pc'[t] = PcRejecting(rejected)[t]
  BY <1>2, <1>3, <1>4 DEF IInv, TypeOK
<1>6. /\ pc'[t] = "preCommit" => t \in Hooked
      /\ pc'[t] = "new" => pc[t] = "new"
      /\ t \in Hooked \cup Droppers => pc'[t] = "done"
  BY <1>5, RejectingPc DEF IInv, Alone
<1> HIDE DEF rejected
<1>7. Alone'
  BY <1>2, <1>5, <1>6 DEF IInv, Alone, TypeOK
<1>8. OpenHolds'
  BY <1>2, <1>5 DEF IInv, OpenHolds
<1>9. CASE Usable(t)
  <2>1. /\ c \in Clients
        /\ holder[c] = t
        /\ \A i \in 1..Len(queue[c]) :
             queue[c][i].tx = t /\ ~Ends(queue[c][i])
    BY <1>9, OpenTx
  <2>2. queue' = [queue EXCEPT ![c] = Append(InProgress(@), q)]
    BY <1>9 DEF SendRollback
  <2>5. Holding'
    BY <1>2, <1>5, <1>6, <2>1, TxAssumption DEF IInv, Holding, CheckedOut, TypeOK
  <2> HIDE DEF c, q
  <2>6. /\ queue'[c] # <<>>
        /\ queue[c] # <<>> => queue'[c][1] = queue[c][1]
        /\ \A d \in Clients \ {c} : queue'[d] = queue[d]
        /\ \A i \in 1..Len(queue'[c]) :
             \/ i = Len(queue'[c]) /\ queue'[c][i] = q
             \/ i = 1 /\ i \in 1..Len(queue[c]) /\ queue'[c][i] = queue[c][1]
    BY <1>1, <2>1, <2>2, RolledBack DEF IInv
  <2>7. OwnConnection'
    BY <1>1, <1>2, <2>1, <2>6 DEF IInv, OwnConnection
  <2>8. LastEnds'
    <3>1. ASSUME NEW d \in Clients, NEW i \in 1..Len(queue'[d]), Ends(queue'[d][i])
          PROVE  i = Len(queue'[d]) /\ closed'[queue'[d][i].tx] # {}
      <4>1. CASE d = c
        BY <1>1, <1>2, <2>1, <2>6, <3>1, <4>1
      <4>2. CASE d # c
        <5>1. queue'[d] = queue[d]
          BY <2>6, <4>2
        <5>2. i = Len(queue[d]) /\ closed[queue[d][i].tx] # {}
          BY <3>1, <5>1 DEF IInv, LastEnds
        <5> QED
          BY <1>2, <3>1, <5>1, <5>2, QueueTx DEF IInv, TypeOK
      <4> QED
        BY <4>1, <4>2
    <3> QED
      BY <3>1 DEF LastEnds, Ends
  <2>9. SessionOwned'
    BY <1>2, <2>6 DEF IInv, SessionOwned, CheckedOut
  <2>10. OneWaits'
    <3>1. ASSUME NEW d \in Clients, NEW i \in 1..Len(queue'[d]),
                 queue'[d][i].kind = "STATEMENT"
          PROVE  /\ pc'[queue'[d][i].tx] = "waiting"
                 /\ \A j \in 1..Len(queue'[d]) :
                      queue'[d][j].kind = "STATEMENT" => i = j
      <4>1. CASE d = c
        <5>1. i = 1 /\ i \in 1..Len(queue[c]) /\ queue'[c][1] = queue[c][1]
          BY <1>1, <2>6, <3>1, <4>1
        <5>2. /\ queue[c][1].kind = "STATEMENT" /\ queue[c][1].tx = t
              /\ pc[t] = "waiting" /\ ~own
              /\ \A j \in 1..Len(queue[c]) : queue[c][j].kind = "STATEMENT" => j = 1
          BY <2>1, <3>1, <4>1, <5>1 DEF IInv, OneWaits
        <5>3. rejected = Items(SubSeq(queue[c], 2, Len(queue[c])))
          BY <1>9 DEF rejected, c
        <5>4. \A r \in rejected :
                /\ \E k \in 1..Len(queue[c]) : r = queue[c][k]
                /\ r.kind \notin {"STATEMENT", "COMMIT"}
          BY <2>1, <5>2, <5>3, BehindFirst, QueueTx DEF Ends, IInv
        <5>5. PcRejecting(rejected)[t] = pc[t]
          BY <2>1, <5>4, RejectingOwn DEF Items
        <5> QED
          BY <1>1, <1>5, <2>6, <3>1, <4>1, <5>1, <5>2, <5>5
      <4>2. CASE d # c
        <5>1. queue'[d] = queue[d] /\ holder[d] = queue[d][i].tx /\ queue[d][i].tx \in Txs
          BY <2>6, <3>1, <4>2, QueueTx DEF IInv, OwnConnection
        <5>2. queue[d][i].tx # t
          BY <4>2, <5>1 DEF IInv, Holding, CheckedOut, c
        <5> QED
          BY <1>5, <3>1, <5>1, <5>2 DEF IInv, OneWaits
      <4> QED
        BY <4>1, <4>2
    <3> QED
      BY <3>1 DEF OneWaits
  <2> QED
    BY <1>7, <1>8, <2>5, <2>7, <2>8, <2>9, <2>10 DEF IInv
<1>10. CASE ~Usable(t)
  <2>1. queue' = queue
    BY <1>10 DEF SendRollback
  <2>2. OwnConnection' /\ SessionOwned'
    BY <1>2, <2>1 DEF IInv, OwnConnection, SessionOwned, CheckedOut
  <2>3. LastEnds'
    BY <1>2, <2>1, QueueTx DEF IInv, LastEnds, Ends, TypeOK
  <2>4. PcRejecting(rejected)[t] = pc[t]
    BY <1>10 DEF PcRejecting, Query, rejected
  <2>5. OneWaits'
    <3>1. \A u \in Txs : pc[u] = "waiting" => pc'[u] = "waiting"
      BY <1>5, <2>4
    <3> QED
      BY <2>1, <3>1, QueueTx DEF IInv, OneWaits
  <2>6. Holding'
    BY <1>2, <1>5, <1>6 DEF IInv, Holding, CheckedOut
  <2> QED
    BY <1>7, <1>8, <2>2, <2>3, <2>5, <2>6 DEF IInv
<1> QED
  BY <1>9, <1>10
-----------------------------------------------------------------------------
(***************************************************************************)
(* The server's answers, and failures, keep the invariant.                 *)
(***************************************************************************)
\* An answer removes the first query.
LEMMA Answered ==
  ASSUME TypeOK, NEW c \in Clients, queue[c] # <<>>, Dequeue(c)
  PROVE  /\ Head(queue[c]) = queue[c][1]
         /\ 1 \in 1..Len(queue[c])
         /\ Len(queue[c]) \in Nat
         /\ queue[c][1].tx \in Txs
         /\ Len(queue'[c]) = Len(queue[c]) - 1
         /\ \A d \in Clients \ {c} : queue'[d] = queue[d]
         /\ \A i \in 1..Len(queue'[c]) :
              i + 1 \in 1..Len(queue[c]) /\ queue'[c][i] = queue[c][i + 1]
<1>1. queue[c] \in Seq(Queries) /\ queue'[c] = Tail(queue[c])
  BY QueueTx DEF TypeOK, Dequeue
<1>2. /\ Len(queue[c]) >= 1 /\ Len(queue[c]) \in Nat
      /\ Head(queue[c]) = queue[c][1]
      /\ Len(Tail(queue[c])) = Len(queue[c]) - 1
      /\ \A i \in 1..Len(Tail(queue[c])) : Tail(queue[c])[i] = queue[c][i + 1]
  BY <1>1, HeadTail, QueueTx
<1>3. 1 \in 1..Len(queue[c]) /\ queue[c][1].tx \in Txs
  BY <1>2, QueueTx
<1>4. \A d \in Clients \ {c} : queue'[d] = queue[d]
  BY DEF TypeOK, Dequeue
<1>5. \A i \in 1..Len(queue'[c]) : i + 1 \in 1..Len(queue[c])
  BY <1>1, <1>2
<1> QED
  BY <1>1, <1>2, <1>3, <1>4, <1>5

\* The answer to a START or a statement leaves the holder where it is.
LEMMA AnswerInv ==
  ASSUME IInv, TypeOK', NEW c \in Clients, queue[c] # <<>>, Dequeue(c),
         queue[c][1].kind \in {"START", "STATEMENT"},
         UNCHANGED <<callVars, holder>>,
         \A u \in Txs : pc'[u] = pc[u]
                        \/ /\ u = queue[c][1].tx
                           /\ queue[c][1].kind = "STATEMENT"
                           /\ pc'[u] \in {"running", "throwing"},
         \A d \in Clients \ {c} : session'[d] = session[d],
         session'[c].open,
         \A u \in session'[c].writes : u \in session[c].writes \/ u = queue[c][1].tx
  PROVE  IInv'
<1> DEFINE t == queue[c][1].tx
<1>1. /\ 1 \in 1..Len(queue[c])
      /\ Len(queue[c]) \in Nat
      /\ t \in Txs
      /\ Len(queue'[c]) = Len(queue[c]) - 1
      /\ \A d \in Clients \ {c} : queue'[d] = queue[d]
      /\ \A i \in 1..Len(queue'[c]) :
           i + 1 \in 1..Len(queue[c]) /\ queue'[c][i] = queue[c][i + 1]
  BY Answered DEF IInv
<1>2. holder[c] = t
  BY <1>1 DEF IInv, OwnConnection
<1>3. /\ client' = client /\ closed' = closed /\ holder' = holder
  BY DEF callVars
<1>4. \A u \in Txs : pc'[u] # pc[u] => pc[u] = "waiting"
  BY <1>1 DEF IInv, OneWaits
<1>5. OwnConnection'
  BY <1>1, <1>3 DEF IInv, OwnConnection
<1>6. Holding'
  BY <1>3 DEF IInv, Holding, CheckedOut
<1>7. OpenHolds'
  BY <1>3 DEF IInv, OpenHolds
<1>8. Alone'
  BY <1>3, <1>4 DEF IInv, Alone
<1>9. LastEnds'
  <2>1. ASSUME NEW d \in Clients, NEW i \in 1..Len(queue'[d]), Ends(queue'[d][i])
        PROVE  i = Len(queue'[d]) /\ closed'[queue'[d][i].tx] # {}
    <3>1. CASE d = c
      <4>1. /\ i + 1 \in 1..Len(queue[c]) /\ queue'[c][i] = queue[c][i + 1]
            /\ i \in Nat
        BY <1>1, <2>1, <3>1
      <4>2. Ends(queue[c][i + 1])
        BY <2>1, <3>1, <4>1
      <4>3. i + 1 = Len(queue[c]) /\ closed[queue[c][i + 1].tx] # {}
        BY <4>1, <4>2 DEF IInv, LastEnds
      <4>4. i = Len(queue'[c])
        BY <1>1, <4>1, <4>3
      <4> QED
        BY <1>3, <3>1, <4>1, <4>3, <4>4
    <3>2. CASE d # c
      <4>1. queue'[d] = queue[d]
        BY <1>1, <3>2
      <4> QED
        BY <1>3, <2>1, <4>1 DEF IInv, LastEnds
    <3> QED
      BY <3>1, <3>2
  <2> QED
    BY <2>1 DEF LastEnds, Ends
<1>10. OneWaits'
  <2>1. ASSUME NEW d \in Clients, NEW i \in 1..Len(queue'[d]),
               queue'[d][i].kind = "STATEMENT"
        PROVE  /\ pc'[queue'[d][i].tx] = "waiting"
               /\ \A j \in 1..Len(queue'[d]) :
                    queue'[d][j].kind = "STATEMENT" => i = j
    <3>1. CASE d = c
      <4>1. /\ i + 1 \in 1..Len(queue[c])
            /\ queue'[c][i] = queue[c][i + 1]
            /\ pc[queue[c][i + 1].tx] = "waiting"
            /\ \A j \in 1..Len(queue[c]) :
                 queue[c][j].kind = "STATEMENT" => i + 1 = j
        BY <1>1, <2>1, <3>1 DEF IInv, OneWaits
      <4>2. queue[c][1].kind # "STATEMENT"
        <5>1. i \in Nat /\ i >= 1
          BY <1>1, <2>1, <3>1
        <5> QED
          BY <1>1, <4>1, <5>1
      <4>3. \A u \in Txs : pc'[u] = pc[u]
        BY <4>2
      <4>4. queue[c][i + 1].tx \in Txs
        BY <4>1, QueueTx DEF IInv
      <4>5. \A j \in 1..Len(queue'[c]) :
              queue'[c][j].kind = "STATEMENT" => i = j
        <5>1. ASSUME NEW j \in 1..Len(queue'[c]), queue'[c][j].kind = "STATEMENT"
              PROVE  i = j
          <6>1. j + 1 \in 1..Len(queue[c]) /\ queue[c][j + 1].kind = "STATEMENT"
            BY <1>1, <5>1
          <6>2. i + 1 = j + 1
            BY <4>1, <6>1
          <6>3. i \in Nat /\ j \in Nat
            BY <1>1, <2>1, <3>1, <5>1
          <6> QED
            BY <6>2, <6>3
        <5> QED
          BY <5>1
      <4> QED
        BY <1>1, <2>1, <3>1, <4>1, <4>3, <4>4, <4>5
    <3>2. CASE d # c
      <4>1. queue'[d] = queue[d] /\ queue[d][i].tx \in Txs /\ holder[d] = queue[d][i].tx
        BY <1>1, <2>1, <3>2, QueueTx DEF IInv, OwnConnection
      <4>2. queue[d][i].tx # t
        BY <1>2, <3>2, <4>1 DEF IInv, Holding, CheckedOut
      <4> QED
        BY <2>1, <4>1, <4>2 DEF IInv, OneWaits
    <3> QED
      BY <3>1, <3>2
  <2> QED
    BY <2>1 DEF OneWaits
<1>11. SessionOwned'
  <2>1. ASSUME NEW d \in Clients
        PROVE  /\ CheckedOut(d)' => \/ session'[d].open
                                    \/ queue'[d] # <<>> /\ queue'[d][1].kind = "START"
               /\ ~CheckedOut(d)' => session'[d] = NoSession
               /\ \A u \in session'[d].writes : u = holder'[d]
    <3>1. CASE d = c
      BY <1>1, <1>2, <1>3, <3>1 DEF IInv, SessionOwned, CheckedOut
    <3>2. CASE d # c
      BY <1>1, <1>3, <3>2 DEF IInv, SessionOwned, CheckedOut
    <3> QED
      BY <3>1, <3>2
  <2> QED
    BY <2>1 DEF SessionOwned, CheckedOut
<1> QED
  BY <1>5, <1>6, <1>7, <1>8, <1>9, <1>10, <1>11 DEF IInv

\* A connection is given up: back to the pool by a closed Tx, or dead.
LEMMA FreedInv ==
  ASSUME IInv, TypeOK', NEW c \in Clients,
         UNCHANGED callVars,
         queue' = [queue EXCEPT ![c] = <<>>],
         session' = [session EXCEPT ![c] = NoSession],
         \/ /\ holder' = [holder EXCEPT ![c] = "idle"]
            /\ CheckedOut(c)
            /\ closed[holder[c]] # {}
         \/ holder' = [holder EXCEPT ![c] = "dead"],
         \A u \in Txs : \/ pc'[u] = pc[u]
                        \/ /\ u = holder[c]
                           /\ \/ pc'[u] = "done"
                              \/ /\ pc[u] = "waiting"
                                 /\ pc'[u] \in {"running", "throwing"}
  PROVE  IInv'
<1>1. /\ client' = client /\ closed' = closed
      /\ queue'[c] = <<>> /\ session'[c] = NoSession
      /\ \A d \in Clients \ {c} : /\ queue'[d] = queue[d]
                                  /\ session'[d] = session[d]
                                  /\ holder'[d] = holder[d]
      /\ holder'[c] \in {"idle", "dead"}
      /\ holder'[c] = "idle" => CheckedOut(c) /\ closed[holder[c]] # {}
  BY DEF callVars, IInv, TypeOK
<1>2. "idle" \notin Txs /\ "dead" \notin Txs
  BY NoPoolTx DEF PoolStates
<1>3. OwnConnection'
  BY <1>1 DEF IInv, OwnConnection
<1>4. Holding'
  BY <1>1, <1>2 DEF IInv, Holding, CheckedOut
<1>5. OpenHolds'
  <2>1. ASSUME NEW t \in Txs, client[t] # None, closed[t] = {}
        PROVE  holder'[client[t]] \in {t, "dead"}
    <3>1. client[t] \in Clients /\ holder[client[t]] \in {t, "dead"}
      BY <2>1 DEF IInv, OpenHolds, TypeOK
    <3>2. CASE client[t] = c
      BY <1>1, <1>2, <2>1, <3>1, <3>2 DEF CheckedOut
    <3>3. CASE client[t] # c
      BY <1>1, <3>1, <3>3
    <3> QED
      BY <3>2, <3>3
  <2> QED
    BY <1>1, <2>1 DEF OpenHolds
<1>6. Alone'
  BY <1>1 DEF IInv, Alone
<1>7. LastEnds'
  BY <1>1 DEF IInv, LastEnds, Ends
<1>8. OneWaits'
  <2>1. ASSUME NEW d \in Clients, NEW i \in 1..Len(queue'[d]),
               queue'[d][i].kind = "STATEMENT"
        PROVE  /\ pc'[queue'[d][i].tx] = "waiting"
               /\ \A j \in 1..Len(queue'[d]) :
                    queue'[d][j].kind = "STATEMENT" => i = j
    <3>1. d # c /\ queue'[d] = queue[d]
      BY <1>1, <2>1
    <3>2. queue[d][i].tx \in Txs /\ holder[d] = queue[d][i].tx
      BY <2>1, <3>1, QueueTx DEF IInv, OwnConnection
    <3>3. queue[d][i].tx # holder[c]
      BY <3>1, <3>2 DEF IInv, Holding, CheckedOut
    <3> QED
      BY <2>1, <3>1, <3>2, <3>3 DEF IInv, OneWaits
  <2> QED
    BY <2>1 DEF OneWaits
<1>9. SessionOwned'
  <2>1. ASSUME NEW d \in Clients
        PROVE  /\ CheckedOut(d)' => \/ session'[d].open
                                    \/ queue'[d] # <<>> /\ queue'[d][1].kind = "START"
               /\ ~CheckedOut(d)' => session'[d] = NoSession
               /\ \A u \in session'[d].writes : u = holder'[d]
    <3>1. CASE d = c
      BY <1>1, <1>2, <3>1 DEF CheckedOut, NoSession, Session
    <3>2. CASE d # c
      BY <1>1, <3>2 DEF IInv, SessionOwned, CheckedOut
    <3> QED
      BY <3>1, <3>2
  <2> QED
    BY <2>1 DEF SessionOwned, CheckedOut
<1> QED
  BY <1>3, <1>4, <1>5, <1>6, <1>7, <1>8, <1>9 DEF IInv

LEMMA DestroyInv ==
  ASSUME IInv, TypeOK', NEW c \in Clients, Destroy(c), UNCHANGED callVars
  PROVE  IInv'
<1>1. \A u \in Txs :
        \/ PcRejecting(Items(queue[c]))[u] = pc[u]
        \/ /\ u = holder[c]
           /\ \/ PcRejecting(Items(queue[c]))[u] = "done"
              \/ /\ pc[u] = "waiting"
                 /\ PcRejecting(Items(queue[c]))[u] \in {"running", "throwing"}
  BY RejectingOwn
<1> QED
  BY <1>1, FreedInv DEF Destroy

\* The answer to a COMMIT or ROLLBACK is the end of a transaction.
LEMMA EndedInv ==
  ASSUME IInv, TypeOK', NEW c \in Clients, queue[c] # <<>>, Dequeue(c),
         Ends(Head(queue[c])), Release(c), UNCHANGED callVars,
         session' = [session EXCEPT ![c] = NoSession],
         pc' = pc \/ pc' = [pc EXCEPT ![Head(queue[c]).tx] = "done"]
  PROVE  IInv'
<1>1. /\ Head(queue[c]) = queue[c][1]
      /\ 1 \in 1..Len(queue[c])
      /\ queue[c][1].tx \in Txs
      /\ queue[c] \in Seq(Queries)
  BY Answered, QueueTx DEF IInv
<1>2. /\ holder[c] = queue[c][1].tx
      /\ Len(queue[c]) = 1
      /\ closed[queue[c][1].tx] # {}
  BY <1>1 DEF IInv, OwnConnection, LastEnds
<1>3. Tail(queue[c]) = <<>>
  <2>1. Tail(queue[c]) \in Seq(Queries) /\ Len(Tail(queue[c])) = 0
    BY <1>1, <1>2, HeadTail
  <2> DEFINE r == Tail(queue[c])
  <2> HIDE DEF r
  <2>2. r \in Seq(Queries) /\ Len(r) = 0 => r = <<>>
    OBVIOUS
  <2> QED
    BY <2>1, <2>2 DEF r
<1>4. queue' = [queue EXCEPT ![c] = <<>>]
  BY <1>3 DEF Dequeue
<1>5. holder' = [holder EXCEPT ![c] = "idle"] /\ CheckedOut(c)
  BY <1>1, <1>2 DEF Release, CheckedOut
<1>6. \A u \in Txs : \/ pc'[u] = pc[u]
                     \/ u = holder[c] /\ pc'[u] = "done"
  <2>1. CASE pc' = pc
    BY <2>1
  <2>2. CASE pc' = [pc EXCEPT ![Head(queue[c]).tx] = "done"]
    BY <1>1, <1>2, <2>2 DEF IInv, TypeOK
  <2> QED
    BY <2>1, <2>2
<1> QED
  BY <1>2, <1>4, <1>5, <1>6, FreedInv
-----------------------------------------------------------------------------
(***************************************************************************)
(* The theorems.                                                           *)
(***************************************************************************)
\* Nothing but its pc tells the invariant of a callback that is over.
LEMMA SettleInv ==
  ASSUME IInv, TypeOK', NEW t \in Txs, pc[t] # "waiting",
         \/ pc' = [pc EXCEPT ![t] = "done"]
         \/ closed[t] = {} /\ t \in Hooked /\ pc' = [pc EXCEPT ![t] = "preCommit"],
         UNCHANGED <<callVars, holder, queue, session>>
  PROVE  IInv'
<1>1. UNCHANGED <<client, closed, holder, queue, session>>
  BY DEF callVars
<1>2. /\ OwnConnection' /\ LastEnds' /\ SessionOwned' /\ OpenHolds'
  BY <1>1 DEF IInv, OwnConnection, LastEnds, Ends, SessionOwned, OpenHolds, CheckedOut
<1>3. Holding' /\ Alone'
  <2>1. \A u \in Txs \ {t} : pc'[u] = pc[u]
    BY DEF IInv, TypeOK
  <2>2. \/ pc'[t] = "done"
        \/ closed[t] = {} /\ t \in Hooked /\ pc'[t] = "preCommit"
    BY DEF IInv, TypeOK
  <2>3. Holding'
    BY <1>1, <2>1, <2>2 DEF IInv, Holding, CheckedOut
  <2>4. Alone'
    BY <1>1, <2>1, <2>2 DEF IInv, Alone
  <2> QED
    BY <2>3, <2>4
<1>4. OneWaits'
  <2>1. \A u \in Txs : pc[u] = "waiting" => pc'[u] = "waiting"
    BY DEF IInv, TypeOK
  <2> QED
    BY <1>1, <2>1, QueueTx DEF IInv, OneWaits
<1> QED
  BY <1>2, <1>3, <1>4 DEF IInv

LEMMA StepInv == SafeUse /\ IInv /\ [Next]_vars => IInv'
<1> SUFFICES ASSUME SafeUse, IInv, [Next]_vars PROVE IInv'
  OBVIOUS
<1> USE TxAssumption
<1>0. TypeOK'
  BY StepType DEF IInv
<1>1. ASSUME NEW t \in Txs, NEW c \in Clients, Connect(t, c) PROVE IInv'
  BY <1>0, <1>1, ConnectInv
<1>2. ASSUME NEW t \in Txs, ConnectFails(t) PROVE IInv'
  BY <1>0, <1>2, SettleInv DEF ConnectFails, serverVars
<1>3. ASSUME NEW t \in Txs, Execute(t) PROVE IInv'
  BY <1>0, <1>3, ExecuteInv
<1>4. ASSUME NEW t \in Txs, ~Closed(t) PROVE closed[t] = {}
  BY <1>4 DEF Closed, IInv, Alone
<1>5. ASSUME NEW t \in Txs, End(t) PROVE IInv'
  <2>1. CASE ~Closed(t) /\ SendCommit(t)
    BY <1>0, <1>4, <1>5, <2>1, CommitInv DEF End
  <2>2. CASE /\ IF Closed(t) THEN pc' = [pc EXCEPT ![t] = "done"]
                ELSE t \in Hooked /\ pc' = [pc EXCEPT ![t] = "preCommit"]
             /\ UNCHANGED <<callVars, holder, queue, serverVars, notified, faults>>
    BY <1>0, <1>4, <1>5, <2>2, SettleInv DEF End, serverVars
  <2> QED
    BY <1>5, <2>1, <2>2 DEF End
<1>6. ASSUME NEW t \in Txs, PreCommitDone(t) PROVE IInv'
  <2>1. closed[t] = {}
    BY <1>6 DEF PreCommitDone, IInv, Alone
  <2> QED
    BY <1>0, <1>6, <2>1, CommitInv DEF PreCommitDone
<1>7. ASSUME NEW t \in Txs, Throw(t) PROVE IInv'
  <2>1. CASE Closed(t)
    BY <1>0, <1>7, <2>1, SettleInv DEF Throw, serverVars
  <2>2. CASE ~Closed(t)
    BY <1>0, <1>4, <1>7, <2>2, RollbackInv DEF Throw
  <2> QED
    BY <2>1, <2>2
<1>8. ASSUME NEW t \in Txs, Cancel(t) PROVE IInv'
  <2>1. t \notin Hooked \cup Droppers /\ closed[t] = {} /\ pc[t] # "new"
    BY <1>4, <1>8 DEF Cancel, SafeUse, IInv, Holding
  <2> QED
    BY <1>0, <1>8, <2>1, RollbackInv DEF Cancel
<1>9. ASSUME NEW t \in Txs, TimerFires(t) PROVE IInv'
  <2>1. /\ t \notin Hooked \cup Droppers /\ Handle(t) = "main"
        /\ closed[t] = {} /\ pc[t] # "new"
    BY <1>9 DEF TimerFires, TimerRunning, SafeUse, IInv, Holding, Handle
  <2> QED
    BY <1>0, <1>9, <2>1, RollbackInv DEF TimerFires
<1>10. ASSUME NEW c \in Clients, ServeStart(c) PROVE IInv'
  <2>1. /\ queue[c] # <<>> /\ Head(queue[c]) = queue[c][1]
        /\ queue[c][1].kind = "START"
    BY <1>10, Answered DEF ServeStart, Executing, IInv
  <2>2. /\ session'[c].open
        /\ session'[c].writes = session[c].writes
        /\ \A d \in Clients \ {c} : session'[d] = session[d]
    BY <1>10 DEF ServeStart, Session, IInv, TypeOK
  <2> QED
    BY <1>0, <1>10, <2>1, <2>2, AnswerInv DEF ServeStart
<1>11. ASSUME NEW c \in Clients, queue[c] # <<>>, Dequeue(c),
              Executing(c, "STATEMENT")
       PROVE  /\ Head(queue[c]) = queue[c][1]
              /\ queue[c][1].kind = "STATEMENT"
              /\ queue[c][1].tx \in Txs
              /\ session[c].open
  <2>1. /\ Head(queue[c]) = queue[c][1] /\ queue[c][1].tx \in Txs
        /\ 1 \in 1..Len(queue[c])
    BY <1>11, Answered DEF IInv
  <2>2. CheckedOut(c) /\ queue[c][1].kind = "STATEMENT"
    BY <1>11, <2>1 DEF IInv, OwnConnection, CheckedOut, Executing
  <2> QED
    BY <2>1, <2>2 DEF IInv, SessionOwned
<1>12. ASSUME NEW c \in Clients, ServeStatement(c) PROVE IInv'
  <2>1. /\ Head(queue[c]) = queue[c][1]
        /\ queue[c][1].kind = "STATEMENT"
        /\ queue[c][1].tx \in Txs
        /\ session[c].open /\ queue[c] # <<>> /\ Dequeue(c)
    BY <1>11, <1>12 DEF ServeStatement, Executing
  <2>2. session' = [session EXCEPT ![c] =
          Session(TRUE, FALSE, @.writes \cup ({queue[c][1].tx} \ Readers))]
    BY <1>12, <2>1 DEF ServeStatement
  <2>3. /\ session'[c] = Session(TRUE, FALSE, session[c].writes \cup ({queue[c][1].tx} \ Readers))
        /\ \A d \in Clients \ {c} : session'[d] = session[d]
    BY <2>2 DEF IInv, TypeOK
  <2>4. /\ session'[c].open
        /\ \A u \in session'[c].writes : u \in session[c].writes \/ u = queue[c][1].tx
    BY <2>3 DEF Session
  <2>5. pc' = [pc EXCEPT ![queue[c][1].tx] = "running"]
    BY <1>12, <2>1 DEF ServeStatement
  <2>6. \A u \in Txs : \/ pc'[u] = pc[u]
                       \/ u = queue[c][1].tx /\ pc'[u] \in {"running", "throwing"}
    BY <2>1, <2>5 DEF IInv, TypeOK
  <2> QED
    BY <1>0, <1>12, <2>1, <2>3, <2>4, <2>6, AnswerInv DEF ServeStatement
<1>13. ASSUME NEW c \in Clients, FailStatement(c) PROVE IInv'
  <2>1. /\ Head(queue[c]) = queue[c][1]
        /\ queue[c][1].kind = "STATEMENT"
        /\ queue[c][1].tx \in Txs
        /\ session[c].open /\ queue[c] # <<>> /\ Dequeue(c)
    BY <1>11, <1>13 DEF FailStatement, Executing
  <2>2. /\ session'[c] = Session(session[c].open, session[c].open, session[c].writes)
        /\ \A d \in Clients \ {c} : session'[d] = session[d]
    BY <1>13 DEF FailStatement, IInv, TypeOK
  <2>3. session'[c].open /\ session'[c].writes = session[c].writes
    BY <2>1, <2>2 DEF Session
  <2>4. pc' = [pc EXCEPT ![queue[c][1].tx] = AfterError(queue[c][1].tx)]
    BY <1>13, <2>1 DEF FailStatement
  <2>5. \A u \in Txs : \/ pc'[u] = pc[u]
                       \/ u = queue[c][1].tx /\ pc'[u] \in {"running", "throwing"}
    BY <2>1, <2>4 DEF IInv, TypeOK, AfterError
  <2> QED
    BY <1>0, <1>13, <2>1, <2>2, <2>3, <2>5, AnswerInv DEF FailStatement
<1>14. ASSUME NEW c \in Clients, ServeCommit(c) PROVE IInv'
  BY <1>0, <1>14, EndedInv DEF ServeCommit, Executing, Ends
<1>15. ASSUME NEW c \in Clients, ServeRollback(c) PROVE IInv'
  BY <1>0, <1>15, EndedInv DEF ServeRollback, Executing, Ends
<1>16. ASSUME NEW c \in Clients, CommitRefused(c) PROVE IInv'
  BY <1>0, <1>16, DestroyInv DEF CommitRefused
<1>17. ASSUME NEW c \in Clients, Disconnect(c) PROVE IInv'
  BY <1>0, <1>17, DestroyInv DEF Disconnect
<1>18. ASSUME NEW c \in Clients, RollbackTimeout(c) PROVE IInv'
  BY <1>0, <1>18, DestroyInv DEF RollbackTimeout
<1>19. CASE UNCHANGED vars
  BY <1>0, <1>19 DEF vars, callVars, serverVars, IInv, OwnConnection, Holding,
                     OpenHolds, Alone, LastEnds, OneWaits, SessionOwned,
                     CheckedOut, Ends
<1> QED
  BY <1>1, <1>2, <1>3, <1>5, <1>6, <1>7, <1>8, <1>9, <1>10, <1>12, <1>13,
     <1>14, <1>15, <1>16, <1>17, <1>18, <1>19 DEF Next, Callback, Serve

LEMMA InitInv == Init => IInv
<1> SUFFICES ASSUME Init PROVE IInv
  OBVIOUS
<1>1. TypeOK
  BY DEF Init, TypeOK, Places, PoolStates, NoSession, Session, Sessions
<1>2. OwnConnection /\ LastEnds /\ OneWaits
  BY DEF Init, OwnConnection, LastEnds, OneWaits
<1>3. Holding /\ OpenHolds /\ Alone /\ SessionOwned
  BY NoPoolTx DEF Init, Holding, OpenHolds, Alone, SessionOwned, CheckedOut,
                  PoolStates, NoSession, Session
<1> QED
  BY <1>1, <1>2, <1>3 DEF IInv

\* However many transactions share the pool, a query only ever travels on a
\* connection its own transaction holds, as long as the features of db.ts are
\* combined as SafeUse says.
THEOREM OnlyOwnConnection == SafeUse => (Spec => []OwnConnection)
<1> SUFFICES ASSUME SafeUse PROVE Spec => []OwnConnection
  OBVIOUS
<1>1. IInv /\ [Next]_vars => IInv'
  BY StepInv
<1>2. IInv => OwnConnection
  BY DEF IInv
<1> QED
  BY <1>1, <1>2, InitInv, PTL DEF Spec

\* Nor does a transaction inherit the open block or the queries of another
\* from the pool.
THEOREM PoolIsClean == SafeUse => (Spec => []CleanPool)
<1> SUFFICES ASSUME SafeUse PROVE Spec => []CleanPool
  OBVIOUS
<1>1. IInv /\ [Next]_vars => IInv'
  BY StepInv
<1>2. IInv => CleanPool
  BY NoPoolTx, UnheldQueue DEF IInv, SessionOwned, CleanPool, CheckedOut, PoolStates
<1> QED
  BY <1>1, <1>2, InitInv, PTL DEF Spec
-----------------------------------------------------------------------------
\* A COMMIT or ROLLBACK that is executed is alone on its connection.
LEMMA LastOne ==
  ASSUME IInv, NEW c \in Clients, queue[c] # <<>>, Ends(Head(queue[c]))
  PROVE  /\ Head(queue[c]).tx \in Txs /\ holder[c] = Head(queue[c]).tx
         /\ closed[holder[c]] # {} /\ Tail(queue[c]) = <<>>
         /\ Items(queue[c]) = {Head(queue[c])}
<1>1. /\ queue[c] \in Seq(Queries) /\ Len(queue[c]) \in Nat /\ Len(queue[c]) >= 1
      /\ Head(queue[c]) = queue[c][1]
  BY QueueTx, HeadTail DEF IInv
<1>2. 1 \in 1..Len(queue[c]) /\ queue[c][1].tx \in Txs
  BY <1>1, QueueTx DEF IInv
<1>3. /\ holder[c] = queue[c][1].tx /\ Len(queue[c]) = 1
      /\ closed[queue[c][1].tx] # {}
  BY <1>1, <1>2 DEF IInv, OwnConnection, LastEnds
<1>4. Tail(queue[c]) = <<>>
  <2>1. Tail(queue[c]) \in Seq(Queries) /\ Len(Tail(queue[c])) = 0
    BY <1>1, <1>3, HeadTail
  <2> DEFINE r == Tail(queue[c])
  <2> HIDE DEF r
  <2>2. r \in Seq(Queries) /\ Len(r) = 0 => r = <<>>
    OBVIOUS
  <2> QED BY <2>1, <2>2 DEF r
<1>5. Items(queue[c]) = {queue[c][1]}
  BY <1>3 DEF Items
<1> QED BY <1>1, <1>2, <1>3, <1>4, <1>5

\* Who holds a connection is not new.
LEMMA HolderRuns ==
  ASSUME IInv, NEW c \in Clients, CheckedOut(c)
  PROVE  holder[c] \in Txs /\ pc[holder[c]] # "new"
BY TxAssumption DEF IInv, Holding, CheckedOut

\* A query that was sent joins those of its connection.
LEMMA Appended ==
  ASSUME TypeOK, NEW c \in Clients, NEW q \in Queries,
         queue' = [queue EXCEPT ![c] = Append(@, q)]
  PROVE  /\ \A d \in Clients \ {c} : queue'[d] = queue[d]
         /\ \A i \in 1..Len(queue'[c]) :
              queue'[c][i] = q \/ \E j \in 1..Len(queue[c]) : queue'[c][i] = queue[c][j]
<1>1. queue[c] \in Seq(Queries) /\ queue'[c] = Append(queue[c], q)
  BY DEF TypeOK
<1>2. /\ Len(queue[c]) \in Nat /\ Len(queue'[c]) = Len(queue[c]) + 1
      /\ queue'[c][Len(queue[c]) + 1] = q
      /\ \A i \in 1..Len(queue[c]) : queue'[c][i] = queue[c][i]
  BY <1>1, AppendQueue
<1>3. \A i \in 1..Len(queue'[c]) : i \in 1..Len(queue[c]) \/ i = Len(queue[c]) + 1
  BY <1>2
<1>4. \A d \in Clients \ {c} : queue'[d] = queue[d]
  BY DEF TypeOK
<1> QED BY <1>2, <1>3, <1>4
-----------------------------------------------------------------------------
(***************************************************************************)
(* Who is told: the invariant behind SettledIsAnnounced.                   *)
(***************************************************************************)
\* The query whose answer runs the listeners of a Tx.
Announcing(t) ==
  \E q \in Items(queue[client[t]]) :
    q \in {Query(t, "COMMIT", Handle(t)), Query(t, "ROLLBACK", Handle(t))}

\* While nothing breaks, a Tx is open on its connection until it is closed;
\* then its end is on the way, or announced.
WillTell(t) ==
  client[t] # None =>
    /\ pc[t] = "done" => closed[t] # {}
    /\ closed[t] = {} => holder[client[t]] = t
    /\ closed[t] # {} /\ notified[t] = {} => Announcing(t)
AllTell == faults = 0 => \A t \in Txs : WillTell(t)

\* The end of a Tx is on the way on the connection that it holds.
LEMMA AnnouncesOnOwn ==
  ASSUME IInv, NEW t \in Txs, client[t] # None, Announcing(t)
  PROVE  client[t] \in Clients /\ holder[client[t]] = t
<1>1. client[t] \in Clients
  BY DEF IInv, TypeOK
<1>2. PICK i \in 1..Len(queue[client[t]]) : queue[client[t]][i].tx = t
  BY DEF Announcing, Items, Query
<1> QED BY <1>1, <1>2 DEF IInv, OwnConnection

\* A step of one Tx, on its own connection or one nobody holds.
LEMMA OthersTell ==
  ASSUME IInv, AllTell, NEW t \in Txs, faults' = 0 => faults = 0,
         \A u \in Txs \ {t} : /\ pc'[u] = pc[u] /\ closed'[u] = closed[u]
                              /\ client'[u] = client[u] /\ notified'[u] = notified[u],
         \A d \in Clients : holder[d] \in Txs \ {t} =>
                              holder'[d] = holder[d] /\ queue'[d] = queue[d],
         faults = 0 => WillTell(t)'
  PROVE  AllTell'
<1> SUFFICES ASSUME faults = 0, NEW u \in Txs \ {t} PROVE WillTell(u)'
  BY DEF AllTell
<1> SUFFICES ASSUME client[u] # None
             PROVE  /\ pc[u] = "done" => closed[u] # {}
                    /\ closed[u] = {} => holder'[client[u]] = u
                    /\ closed[u] # {} /\ notified[u] = {} => Announcing(u)'
  BY DEF WillTell
<1>1. WillTell(u) /\ client[u] \in Clients
  BY DEF AllTell, IInv, TypeOK
<1>2. CASE holder[client[u]] = u
  <2>1. holder'[client[u]] = u /\ queue'[client[u]] = queue[client[u]]
    BY <1>1, <1>2
  <2> QED BY <1>1, <2>1 DEF WillTell, Announcing
<1>3. CASE holder[client[u]] # u
  BY <1>1, <1>3, AnnouncesOnOwn DEF WillTell
<1> QED BY <1>2, <1>3

\* A step that takes no end of t from the queue, and closes nothing.
LEMMA GoesOnTelling ==
  ASSUME IInv, AllTell, NEW t \in Txs, UNCHANGED <<client, closed, notified, holder, faults>>,
         \A u \in Txs \ {t} : pc'[u] = pc[u],
         pc'[t] = "done" => pc[t] = "done" \/ closed[t] # {} \/ client[t] = None,
         \A d \in Clients : holder[d] \in Txs \ {t} => queue'[d] = queue[d],
         client[t] \in Clients =>
           \A q \in Items(queue[client[t]]) : Ends(q) => q \in Items(queue'[client[t]])
  PROVE  AllTell'
<1>1. ASSUME faults = 0 PROVE WillTell(t)'
  <2>1. WillTell(t) /\ client[t] \in Clients \cup {None}
    BY <1>1 DEF AllTell, IInv, TypeOK
  <2>2. client[t] # None /\ Announcing(t) => Announcing(t)'
    BY <2>1 DEF Announcing, Ends, Query
  <2> QED BY <2>1, <2>2 DEF WillTell
<1> QED BY <1>1, OthersTell

\* Rejected queries tell only the holder of their connection.
LEMMA OthersNotified ==
  ASSUME IInv, NEW c \in Clients, NEW Q, Q \subseteq Items(queue[c]),
         NEW u \in Txs, holder[c] # u
  PROVE  NotifiedRejecting(Q)[u] = notified[u]
<1>1. \A q \in Q : q.tx = holder[c]
  BY DEF Items, IInv, OwnConnection
<1>2. Query(u, "ROLLBACK", Handle(u)).tx = u
  BY DEF Query
<1> QED BY <1>1, <1>2 DEF NotifiedRejecting

LEMMA ConnectTells ==
  ASSUME IInv, AllTell, NEW t \in Txs, NEW c \in Clients, Connect(t, c)
  PROVE  AllTell'
<1>1. /\ pc[t] = "new" /\ pc' = [pc EXCEPT ![t] = "running"]
      /\ holder[c] \in PoolStates /\ holder' = [holder EXCEPT ![c] = t]
      /\ client' = [client EXCEPT ![t] = c]
      /\ queue' = [queue EXCEPT ![c] = Append(@, Query(t, "START", "main"))]
      /\ UNCHANGED <<closed, notified, faults>>
  BY DEF Connect, PoolStates
<1>2. /\ \A u \in Txs \ {t} : pc'[u] = pc[u] /\ client'[u] = client[u]
      /\ pc'[t] = "running" /\ client'[t] = c /\ holder'[c] = t /\ closed[t] = {}
      /\ \A d \in Clients \ {c} : holder'[d] = holder[d] /\ queue'[d] = queue[d]
  BY <1>1 DEF IInv, TypeOK, Holding
<1>3. holder[c] \notin Txs
  BY <1>1, NoPoolTx
<1>4. WillTell(t)'
  BY <1>1, <1>2 DEF WillTell
<1> QED BY <1>1, <1>2, <1>3, <1>4, OthersTell

\* While nothing breaks, an open Tx has its connection.
LEMMA OpenIsUsable ==
  ASSUME IInv, AllTell, faults = 0, NEW t \in Txs, client[t] # None, closed[t] = {}
  PROVE  Usable(t) /\ client[t] \in Clients /\ holder[client[t]] = t
BY NoPoolTx DEF AllTell, WillTell, Usable, IInv, TypeOK, PoolStates

LEMMA RunsOnClient ==
  ASSUME IInv, NEW t \in Txs
  PROVE  \A c \in Clients : holder[c] = t => client[t] = c /\ client[t] # None
BY TxAssumption DEF IInv, Holding, CheckedOut

LEMMA ExecuteTells ==
  ASSUME IInv, AllTell, NEW t \in Txs, Execute(t)
  PROVE  AllTell'
<1>1. /\ UNCHANGED <<client, closed, notified, holder, faults>> /\ pc[t] = "running"
      /\ \A u \in Txs \ {t} : pc'[u] = pc[u] /\ pc'[t] # "done"
  BY DEF Execute, AfterError, IInv, TypeOK
<1>2. CASE queue' = queue
  BY <1>1, <1>2, GoesOnTelling DEF Execute, AfterError, IInv, TypeOK
<1>3. CASE /\ Usable(t) /\ (Closed(t) => DropsTable(t))
           /\ queue' = [queue EXCEPT ![client[t]] =
                                      Append(@, Query(t, "STATEMENT", Handle(t)))]
  <2>1. Query(t, "STATEMENT", Handle(t)) \in Queries
    BY QueryType, HandleType DEF Kinds
  <2>0. closed[t] = {}
    BY <1>1, <1>3 DEF IInv, Alone, Closed, DropsTable
  <2>2. PICK c \in Clients : c = client[t] /\ holder[c] = t
    BY <1>3, <2>0, OpenTx
  <2>3. queue[c] \in Seq(Queries) /\ queue'[c] = Append(queue[c], Query(t, "STATEMENT", Handle(t)))
    BY <1>3, <2>2 DEF IInv, TypeOK
  <2>4. Items(queue[c]) \subseteq Items(queue'[c])
    <3>1. Len(queue[c]) \in Nat
      BY <2>3
    <3> QED BY <2>1, <2>3, <3>1, AppendQueue DEF Items
  <2>5. pc'[t] # "done" /\ \A d \in Clients \ {c} : queue'[d] = queue[d]
    BY <1>3, <2>2 DEF Execute, IInv, TypeOK
  <2> QED BY <1>1, <2>2, <2>4, <2>5, GoesOnTelling
<1> QED BY <1>2, <1>3 DEF Execute

LEMMA CommitTells ==
  ASSUME IInv, AllTell, TypeOK', NEW t \in Txs, closed[t] = {}, SendCommit(t)
  PROVE  AllTell'
<1>1. /\ UNCHANGED <<client, holder, notified, faults>>
      /\ \A u \in Txs \ {t} : pc'[u] = pc[u] /\ closed'[u] = closed[u]
      /\ closed'[t] = {Handle(t)}
  BY DEF SendCommit, IInv, TypeOK
<1>2. \A d \in Clients : holder[d] \in Txs \ {t} => queue'[d] = queue[d]
  BY OpenTx DEF SendCommit, IInv, TypeOK
<1>3. ASSUME faults = 0, client[t] # None PROVE WillTell(t)'
  <2> DEFINE q == Query(t, "COMMIT", Handle(t))
  <2>1. PICK c \in Clients : Usable(t) /\ c = client[t] /\ holder[c] = t
    BY <1>3, OpenIsUsable
  <2>2. /\ queue[c] \in Seq(Queries) /\ Len(queue[c]) \in Nat
        /\ queue'[c] = Append(queue[c], q) /\ q \in Queries
    BY <2>1, QueryType, HandleType DEF SendCommit, IInv, TypeOK, Kinds
  <2> HIDE DEF q
  <2>3. q \in Items(queue'[c])
    BY <2>2, AppendQueue DEF Items
  <2>4. Announcing(t)'
    BY <1>1, <2>1, <2>3 DEF Announcing, q
  <2> QED BY <1>1, <2>4 DEF WillTell
<1>4. client[t] = None => WillTell(t)'
  BY <1>1 DEF WillTell
<1> QED BY <1>1, <1>2, <1>3, <1>4, OthersTell

\* A Tx without a connection has nobody to tell.
LEMMA UnconnectedTells ==
  ASSUME IInv, AllTell, NEW t \in Txs, NEW own \in BOOLEAN, client[t] = None,
         SendRollback(t, Handle(t), own)
  PROVE  AllTell'
<1> DEFINE Q == {Query(t, "ROLLBACK", Handle(t))}
<1>1. ~Usable(t)
  BY TxAssumption DEF Usable
<1>2. /\ UNCHANGED <<client, holder, queue, faults>> /\ notified' = NotifiedRejecting(Q)
      /\ pc' = [PcRejecting(Q) EXCEPT ![t] = IF own THEN "done" ELSE @]
      /\ \A u \in Txs \ {t} : closed'[u] = closed[u]
  BY <1>1 DEF SendRollback, IInv, TypeOK
<1>3. ASSUME NEW u \in Txs \ {t} PROVE pc'[u] = pc[u] /\ notified'[u] = notified[u]
  BY <1>2, <1>3 DEF PcRejecting, NotifiedRejecting, Query
<1>4. WillTell(t)'
  BY <1>2 DEF WillTell
<1> QED BY <1>2, <1>3, <1>4, OthersTell

LEMMA RollbackTells ==
  ASSUME IInv, AllTell, TypeOK', NEW t \in Txs, NEW own \in BOOLEAN, closed[t] = {},
         client[t] # None, SendRollback(t, Handle(t), own)
  PROVE  AllTell'
<1> DEFINE q == Query(t, "ROLLBACK", Handle(t))
<1>1. /\ UNCHANGED <<client, holder, faults>>
      /\ \A u \in Txs \ {t} : closed'[u] = closed[u]
      /\ closed'[t] = {Handle(t)}
      /\ q \in Queries /\ q.tx = t
  BY QueryType, HandleType DEF Kinds, SendRollback, IInv, TypeOK
<1> SUFFICES ASSUME faults = 0 PROVE AllTell'
  BY <1>1 DEF AllTell
<1>2. PICK c \in Clients : Usable(t) /\ c = client[t] /\ holder[c] = t
  BY OpenIsUsable
<1> DEFINE W == Items(SubSeq(queue[c], 2, Len(queue[c])))
<1>3. /\ queue' = [queue EXCEPT ![c] = Append(InProgress(@), q)]
      /\ pc' = [PcRejecting(W) EXCEPT ![t] = IF own THEN "done" ELSE @]
      /\ notified' = NotifiedRejecting(W)
  BY <1>2 DEF SendRollback
<1>4. W \subseteq Items(queue[c])
  BY BehindFirst, QueueTx DEF IInv, Items
<1>5. /\ PcRejecting(W) \in [Txs -> Places]
      /\ \A u \in Txs \ {t} : PcRejecting(W)[u] = pc[u]
  BY <1>2, <1>4, RejectingPc, RejectingOwn DEF IInv
<1>6. \A u \in Txs \ {t} : NotifiedRejecting(W)[u] = notified[u]
  BY <1>2, <1>4, OthersNotified
<1>7. /\ \A u \in Txs \ {t} : pc'[u] = pc[u] /\ notified'[u] = notified[u]
      /\ \A d \in Clients \ {c} : queue'[d] = queue[d]
  BY <1>3, <1>5, <1>6 DEF IInv, TypeOK
<1>8. q \in Items(queue'[c])
  <2>1. queue[c] \in Seq(Queries) /\ queue'[c] = Append(InProgress(queue[c]), q)
    BY <1>3 DEF IInv, TypeOK
  <2> HIDE DEF q
  <2>2. CASE queue[c] = <<>>
    BY <1>1, <2>1, <2>2, InProgressQueue DEF Items
  <2>3. CASE queue[c] # <<>>
    BY <1>1, <2>1, <2>3, InProgressQueue DEF Items
  <2> QED BY <2>2, <2>3
<1>9. WillTell(t)'
  <2>1. Announcing(t)'
    BY <1>1, <1>2, <1>8 DEF Announcing
  <2> QED BY <1>1, <2>1 DEF WillTell
<1> QED BY <1>1, <1>2, <1>7, <1>9, OthersTell

LEMMA SettleTells ==
  ASSUME IInv, AllTell, NEW t \in Txs, NEW p,
         p = "done" => closed[t] # {} \/ client[t] = None,
         pc' = [pc EXCEPT ![t] = p],
         UNCHANGED <<client, closed, holder, queue, notified, faults>>
  PROVE  AllTell'
BY GoesOnTelling DEF IInv, TypeOK

\* The server has answered the first query of a transaction, which did not end it.
LEMMA AnswerTells ==
  ASSUME IInv, AllTell, NEW c \in Clients, queue[c] # <<>>, Dequeue(c),
         ~Ends(Head(queue[c])), NEW t \in Txs, t = Head(queue[c]).tx,
         UNCHANGED <<client, closed, holder, notified, faults>>,
         \A u \in Txs \ {t} : pc'[u] = pc[u], pc'[t] = "done" => pc[t] = "done"
  PROVE  AllTell'
<1>1. /\ Head(queue[c]) = queue[c][1] /\ 1 \in 1..Len(queue[c])
      /\ queue[c] \in Seq(Queries) /\ queue'[c] = Tail(queue[c])
      /\ \A d \in Clients \ {c} : queue'[d] = queue[d]
  BY Answered DEF Dequeue, IInv, TypeOK
<1>2. holder[c] = t /\ client[t] = c
  BY <1>1, RunsOnClient DEF IInv, OwnConnection
<1>3. ASSUME NEW q \in Items(queue[c]), Ends(q) PROVE q \in Items(queue'[c])
  <2>1. PICK i \in 1..Len(queue[c]) : q = queue[c][i]
    BY DEF Items
  <2>2. i # 1 /\ Len(queue[c]) \in Nat
    BY <1>1, <1>3, <2>1
  <2>3. i - 1 \in 1..Len(Tail(queue[c])) /\ Tail(queue[c])[i - 1] = q
    BY <1>1, <2>1, <2>2, HeadTail
  <2> QED BY <1>1, <2>3 DEF Items
<1> QED BY <1>1, <1>2, <1>3, GoesOnTelling

\* The end of a Tx frees its connection and is announced.
LEMMA FreedTells ==
  ASSUME IInv, AllTell, NEW c \in Clients, NEW t \in Txs, holder[c] = t, closed[t] # {},
         UNCHANGED <<client, closed, faults>>,
         \A u \in Txs \ {t} : pc'[u] = pc[u] /\ notified'[u] = notified[u],
         \A d \in Clients \ {c} : holder'[d] = holder[d] /\ queue'[d] = queue[d],
         faults = 0 => notified'[t] # {}
  PROVE  AllTell'
<1>1. faults = 0 => WillTell(t)'
  BY DEF WillTell
<1> QED BY <1>1, OthersTell

LEMMA CommittedTells ==
  ASSUME IInv, AllTell, NEW c \in Clients, ServeCommit(c)
  PROVE  AllTell'
<1>1. PICK t : t = Head(queue[c]).tx
  OBVIOUS
<1>2. queue[c] # <<>> /\ Ends(Head(queue[c]))
  BY DEF ServeCommit, Executing, Ends
<1>3. t \in Txs /\ holder[c] = t /\ closed[t] # {}
  BY <1>1, <1>2, LastOne
<1>4. /\ pc' = [pc EXCEPT ![t] = "done"] /\ queue' = [queue EXCEPT ![c] = Tail(@)]
      /\ holder' = [holder EXCEPT ![c] = "idle"] /\ UNCHANGED <<client, closed, faults>>
      /\ notified' = IF notified[t] = {} THEN [notified EXCEPT ![t] = {"end"}]
                     ELSE notified
  BY <1>1, <1>3 DEF ServeCommit, Dequeue, Release, CheckedOut, callVars
<1>5. /\ \A u \in Txs \ {t} : pc'[u] = pc[u] /\ notified'[u] = notified[u]
      /\ \A d \in Clients \ {c} : holder'[d] = holder[d] /\ queue'[d] = queue[d]
      /\ notified'[t] # {}
  BY <1>3, <1>4 DEF IInv, TypeOK
<1> QED BY <1>3, <1>4, <1>5, FreedTells

\* A ROLLBACK that is rejected, or answered, is what was to be announced.
LEMMA RollbackAnnounced ==
  ASSUME IInv, AllTell, faults = 0, NEW c \in Clients, NEW q \in Items(queue[c]),
         q.kind = "ROLLBACK", NEW Q, q \in Q
  PROVE  /\ holder[c] \in Txs /\ closed[holder[c]] # {}
         /\ NotifiedRejecting(Q)[holder[c]] # {}
<1>1. PICK i \in 1..Len(queue[c]) : q = queue[c][i]
  BY DEF Items
<1>2. PICK t \in Txs : t = q.tx
  BY <1>1, QueueTx DEF IInv
<1>3. holder[c] = t /\ i = Len(queue[c]) /\ closed[t] # {}
  BY <1>1, <1>2 DEF IInv, OwnConnection, LastEnds, Ends
<1>4. client[t] = c /\ client[t] # None
  BY <1>3, RunsOnClient
<1>5. CASE notified[t] = {}
  <2>1. Announcing(t)
    BY <1>3, <1>4, <1>5 DEF AllTell, WillTell
  <2>2. PICK j \in 1..Len(queue[c]) :
          queue[c][j] \in {Query(t, "COMMIT", Handle(t)), Query(t, "ROLLBACK", Handle(t))}
    BY <1>4, <2>1 DEF Announcing, Items
  <2>3. Ends(queue[c][j])
    BY <2>2 DEF Ends, Query
  <2>4. j = i
    BY <1>3, <2>3 DEF IInv, LastEnds
  <2>5. q = Query(t, "ROLLBACK", Handle(t))
    BY <1>1, <2>2, <2>4 DEF Query
  <2> QED BY <1>3, <1>5, <2>5 DEF NotifiedRejecting
<1>6. CASE notified[t] # {}
  BY <1>3, <1>6 DEF NotifiedRejecting
<1> QED BY <1>3, <1>5, <1>6

LEMMA RolledBackTells ==
  ASSUME IInv, AllTell, NEW c \in Clients, ServeRollback(c)
  PROVE  AllTell'
<1>1. PICK q : q = Head(queue[c])
  OBVIOUS
<1>2. queue[c] # <<>> /\ Ends(q) /\ q.kind = "ROLLBACK"
  BY <1>1 DEF ServeRollback, Executing, Ends
<1>3. PICK t \in Txs : t = q.tx /\ holder[c] = t /\ closed[t] # {} /\ Items(queue[c]) = {q}
  BY <1>1, <1>2, LastOne
<1>4. /\ UNCHANGED <<pc, client, closed, faults>> /\ queue' = [queue EXCEPT ![c] = Tail(@)]
      /\ holder' = [holder EXCEPT ![c] = "idle"] /\ notified' = NotifiedRejecting({q})
  BY <1>1, <1>3 DEF ServeRollback, Dequeue, Release, CheckedOut, callVars
<1>5. \A u \in Txs \ {t} : pc'[u] = pc[u] /\ notified'[u] = notified[u]
  BY <1>3, <1>4, OthersNotified
<1>6. \A d \in Clients \ {c} : holder'[d] = holder[d] /\ queue'[d] = queue[d]
  BY <1>4 DEF IInv, TypeOK
<1>7. faults = 0 => notified'[t] # {}
  BY <1>2, <1>3, <1>4, RollbackAnnounced
<1> QED BY <1>3, <1>4, <1>5, <1>6, <1>7, FreedTells

LEMMA TimeoutTells ==
  ASSUME IInv, AllTell, NEW c \in Clients, RollbackTimeout(c)
  PROVE  AllTell'
<1> DEFINE Q == Items(queue[c])
<1>1. /\ UNCHANGED <<client, closed, faults>> /\ CheckedOut(c)
      /\ holder' = [holder EXCEPT ![c] = "dead"] /\ queue' = [queue EXCEPT ![c] = <<>>]
      /\ pc' = PcRejecting(Q) /\ notified' = NotifiedRejecting(Q)
  BY DEF RollbackTimeout, Destroy, callVars
<1>2. PICK q \in Q : q.kind = "ROLLBACK"
  BY DEF RollbackTimeout
<1> SUFFICES ASSUME faults = 0 PROVE AllTell'
  BY <1>1 DEF AllTell
<1>3. PICK t \in Txs : holder[c] = t /\ closed[t] # {} /\ notified'[t] # {}
  BY <1>1, <1>2, RollbackAnnounced
<1>4. \A u \in Txs \ {t} : notified'[u] = notified[u] /\ pc'[u] = pc[u]
  BY <1>1, <1>3, OthersNotified, RejectingOwn
<1>5. \A d \in Clients \ {c} : holder'[d] = holder[d] /\ queue'[d] = queue[d]
  BY <1>1 DEF IInv, TypeOK
<1> QED BY <1>1, <1>3, <1>4, <1>5, FreedTells

\* The server's answers to what does not end a transaction.
LEMMA ServeTells ==
  ASSUME IInv, AllTell, NEW c \in Clients,
         ServeStart(c) \/ ServeStatement(c) \/ FailStatement(c)
  PROVE  AllTell'
<1>1. PICK t : t = Head(queue[c]).tx
  OBVIOUS
<1>2. /\ queue[c] # <<>> /\ Dequeue(c) /\ ~Ends(Head(queue[c]))
      /\ UNCHANGED <<client, closed, holder, notified, faults>>
  BY DEF ServeStart, ServeStatement, FailStatement, Executing, Ends, callVars
<1>3. t \in Txs
  BY <1>1, <1>2, Answered, QueueTx DEF IInv
<1>4. \/ pc' = pc \/ pc' = [pc EXCEPT ![t] = "running"]
      \/ pc' = [pc EXCEPT ![t] = AfterError(t)]
  BY <1>1 DEF ServeStart, ServeStatement, FailStatement
<1>5. (\A u \in Txs \ {t} : pc'[u] = pc[u]) /\ (pc'[t] = "done" => pc[t] = "done")
  BY <1>3, <1>4 DEF IInv, TypeOK, AfterError
<1> QED BY <1>1, <1>2, <1>3, <1>5, AnswerTells

LEMMA StepTells == SafeUse /\ IInv /\ AllTell /\ [Next]_vars => AllTell'
<1> SUFFICES ASSUME SafeUse, IInv, AllTell, [Next]_vars PROVE AllTell'
  OBVIOUS
<1>0. TypeOK'
  BY StepType DEF IInv
<1>1. ASSUME NEW t \in Txs, ~Closed(t) PROVE closed[t] = {}
  BY <1>1 DEF Closed, IInv, Alone
<1>2. ASSUME NEW t \in Txs, NEW c \in Clients, Connect(t, c) PROVE AllTell'
  BY <1>2, ConnectTells
<1>3. ASSUME NEW t \in Txs, ConnectFails(t) PROVE AllTell'
  BY <1>3, SettleTells DEF ConnectFails, callVars, IInv, Holding
<1>4. ASSUME NEW t \in Txs, Execute(t) PROVE AllTell'
  BY <1>4, ExecuteTells
<1>5. ASSUME NEW t \in Txs, End(t) PROVE AllTell'
  <2>1. CASE ~Closed(t) /\ SendCommit(t)
    BY <1>0, <1>1, <2>1, CommitTells
  <2>2. CASE /\ IF Closed(t) THEN pc' = [pc EXCEPT ![t] = "done"]
                ELSE pc' = [pc EXCEPT ![t] = "preCommit"]
             /\ UNCHANGED <<callVars, holder, queue, notified, faults>>
    <3>1. Closed(t) => closed[t] # {}
      BY DEF Closed
    <3> QED BY <2>2, <3>1, SettleTells DEF callVars
  <2> QED BY <1>5, <2>1, <2>2 DEF End
<1>6. ASSUME NEW t \in Txs, PreCommitDone(t) PROVE AllTell'
  <2>1. closed[t] = {}
    BY <1>6 DEF PreCommitDone, IInv, Alone
  <2> QED BY <1>0, <1>6, <2>1, CommitTells DEF PreCommitDone
<1>7. ASSUME NEW t \in Txs, Throw(t) PROVE AllTell'
  <2>1. CASE Closed(t)
    BY <1>7, <2>1, SettleTells DEF Throw, Closed, callVars
  <2>2. CASE ~Closed(t)
    BY <1>0, <1>1, <1>7, <2>2, RollbackTells, UnconnectedTells DEF Throw
  <2> QED BY <2>1, <2>2
<1>8. ASSUME NEW t \in Txs, Cancel(t) PROVE AllTell'
  BY <1>0, <1>1, <1>8, RollbackTells DEF Cancel
<1>9. ASSUME NEW t \in Txs, TimerFires(t) PROVE AllTell'
  <2>1. Handle(t) = "main" /\ closed[t] = {} /\ client[t] # None
    BY <1>9 DEF TimerFires, TimerRunning, SafeUse, Handle
  <2> QED BY <1>0, <1>9, <2>1, RollbackTells DEF TimerFires
<1>10. ASSUME NEW c \in Clients, CommitRefused(c) \/ Disconnect(c) PROVE AllTell'
  <2>1. faults \in Nat /\ faults' = faults + 1
    BY <1>10 DEF CommitRefused, Disconnect, IInv, TypeOK
  <2> QED BY <2>1 DEF AllTell
<1>11. ASSUME NEW c \in Clients, Serve(c) PROVE AllTell'
  BY <1>10, <1>11, ServeTells, CommittedTells, RolledBackTells DEF Serve
<1>12. ASSUME NEW c \in Clients, RollbackTimeout(c) PROVE AllTell'
  BY <1>12, TimeoutTells
<1>13. CASE UNCHANGED vars
  BY <1>13 DEF vars, callVars, serverVars, AllTell, WillTell, Announcing
<1> QED
  BY <1>2, <1>3, <1>4, <1>5, <1>6, <1>7, <1>8, <1>9, <1>10, <1>11, <1>12, <1>13
     DEF Next, Callback

\* However many transactions share the pool, whoever ends a Tx, its listeners
\* are told before it is over, as long as no connection breaks and no COMMIT
\* is refused.
THEOREM SettledAnnounced == SafeUse => (Spec => []SettledIsAnnounced)
<1> SUFFICES ASSUME SafeUse PROVE Spec => []SettledIsAnnounced
  OBVIOUS
<1>1. Init => IInv /\ AllTell
  BY InitInv DEF Init, AllTell, WillTell
<1>2. IInv /\ AllTell /\ [Next]_vars => IInv' /\ AllTell'
  BY StepInv, StepTells
<1>3. IInv /\ AllTell => SettledIsAnnounced
  <2> SUFFICES ASSUME IInv, AllTell, faults = 0, NEW t \in Txs, client[t] # None,
                      pc[t] = "done", Outstanding(t) = {}, notified[t] = {}
               PROVE  FALSE
    BY DEF SettledIsAnnounced
  <2>1. Announcing(t) /\ client[t] \in Clients
    BY DEF AllTell, WillTell, IInv, TypeOK
  <2>2. PICK q \in Items(queue[client[t]]) : q.tx = t
    BY <2>1 DEF Announcing, Query
  <2> QED BY <2>1, <2>2 DEF Outstanding
<1> QED
  BY <1>1, <1>2, <1>3, PTL DEF Spec

-----------------------------------------------------------------------------
(***************************************************************************)
(* Tx implements AtomicTx: whatever fails, times out or is cancelled, and  *)
(* however many statements a transaction has, its writes appear together   *)
(* or are lost, and the listeners that run are those of what happened.     *)
(* Two premises: SafeUse, and that no callback swallows a failed statement *)
(* (Lenient): a COMMIT after one rolls back and is announced as an end.    *)
(***************************************************************************)

\* A Tx that does not exist yet has neither written nor told anybody.
Fresh == \A t \in Txs : pc[t] = "new" => notified[t] = {} /\ t \notin wrote

\* As long as a Tx holds its connection it is undecided: no listener ran, and
\* all that it wrote is in its session.
Undecided ==
  \A c \in Clients : CheckedOut(c) =>
    /\ notified[holder[c]] = {} /\ holder[c] \notin durable
    /\ holder[c] \in wrote => holder[c] \in session[c].writes

\* What is written was written by a statement, and only what is closed lasts.
Written == /\ durable \subseteq wrote
           /\ \A c \in Clients : session[c].writes \subseteq wrote
           /\ \A t \in durable : closed[t] # {}

\* A COMMIT is awaited by the callback that sent it.
CommitWaits ==
  \A c \in Clients : \A i \in 1..Len(queue[c]) :
    queue[c][i].kind = "COMMIT" => pc[queue[c][i].tx] = "committing"

\* After a statement has failed the callback throws, and sends no COMMIT.
AbortedEnds ==
  \A c \in Clients : CheckedOut(c) /\ session[c].aborted =>
    /\ pc[holder[c]] \in {"throwing", "done"}
    /\ \A i \in 1..Len(queue[c]) : queue[c][i].kind # "COMMIT"

Kept == Fresh /\ Undecided /\ Written /\ CommitWaits /\ AbortedEnds

RInv == IInv /\ Kept
-----------------------------------------------------------------------------
(***************************************************************************)
(* What the mapping Stage says of a transaction.                           *)
(***************************************************************************)
InSession(t) == \E c \in Clients : t \in session[c].writes

LEMMA StageIs ==
  ASSUME NEW t
  PROVE  /\ t \in durable => Stage(t) = "committed"
         /\ t \notin durable /\ InSession(t) => Stage(t) = "written"
         /\ t \notin durable /\ ~InSession(t) /\ t \in wrote => Stage(t) = "lost"
         /\ t \notin durable /\ ~InSession(t) /\ t \notin wrote => Stage(t) = "active"
BY DEF Stage, InSession

LEMMA StageIsNext ==
  ASSUME NEW t
  PROVE  /\ t \in durable' => Stage(t)' = "committed"
         /\ t \notin durable' /\ InSession(t)' => Stage(t)' = "written"
         /\ t \notin durable' /\ ~InSession(t)' /\ t \in wrote' => Stage(t)' = "lost"
         /\ t \notin durable' /\ ~InSession(t)' /\ t \notin wrote' => Stage(t)' = "active"
BY DEF Stage, InSession

\* The stage of a transaction that a step leaves alone.
LEMMA SameStage ==
  ASSUME NEW t, t \in durable' <=> t \in durable, t \in wrote' <=> t \in wrote,
         InSession(t)' <=> InSession(t)
  PROVE  Stage(t)' = Stage(t)
BY StageIs, StageIsNext

\* The holder of a connection is at work or has written nothing.
LEMMA HolderStage ==
  ASSUME RInv, NEW c \in Clients, CheckedOut(c)
  PROVE  /\ holder[c] \in Txs /\ notified[holder[c]] = {}
         /\ Stage(holder[c]) = IF holder[c] \in session[c].writes THEN "written" ELSE "active"
         /\ \A d \in Clients \ {c} : holder[c] \notin session[d].writes
<1> DEFINE t == holder[c]
<1>1. t \in Txs /\ t \notin durable /\ notified[t] = {}
  BY DEF RInv, Kept, Undecided, CheckedOut
<1>2. ASSUME NEW d \in Clients, t \in session[d].writes PROVE d = c
  <2>1. t = holder[d] /\ CheckedOut(d)
    BY <1>1, <1>2 DEF RInv, Kept, IInv, SessionOwned, CheckedOut
  <2> QED BY <2>1 DEF RInv, Kept, IInv, Holding
<1>3. CASE t \in session[c].writes
  BY <1>1, <1>2, <1>3, StageIs DEF InSession
<1>4. CASE t \notin session[c].writes
  <2>1. t \notin wrote /\ ~InSession(t)
    BY <1>2, <1>4 DEF RInv, Kept, Undecided, InSession
  <2> QED BY <1>1, <1>2, <1>4, <2>1, StageIs
<1> QED BY <1>1, <1>2, <1>3, <1>4
-----------------------------------------------------------------------------
(***************************************************************************)
(* Steps that decide nothing.                                              *)
(***************************************************************************)
\* No step that leaves writes and listeners alone is seen.
LEMMA Unseen ==
  ASSUME UNCHANGED <<durable, wrote, notified>>,
         \A c \in Clients : session'[c].writes = session[c].writes
  PROVE  UNCHANGED Atomic!vars
<1>1. \A t : InSession(t)' <=> InSession(t)
  BY DEF InSession
<1>2. \A t : Stage(t)' = Stage(t)
  BY <1>1, SameStage
<1> QED BY <1>2 DEF Atomic!vars

LEMMA HistoryKept ==
  ASSUME RInv, UNCHANGED <<durable, wrote, notified>>,
         \A c \in Clients : session'[c].writes = session[c].writes,
         \A c \in Clients : CheckedOut(c)' => holder'[c] = holder[c],
         \A t \in Txs : closed[t] \subseteq closed'[t],
         \A t \in Txs : pc'[t] = "new" => pc[t] = "new"
  PROVE  Fresh' /\ Undecided' /\ Written'
<1>1. durable \subseteq Txs
  BY DEF RInv, Kept, IInv, TypeOK
<1> QED BY <1>1 DEF RInv, Kept, Fresh, Undecided, Written, CheckedOut

\* No COMMIT is sent, and who awaits one goes on waiting.
LEMMA NoNewCommit ==
  ASSUME RInv, TypeOK',
         \A d \in Clients : \A i \in 1..Len(queue'[d]) :
           queue'[d][i].kind = "COMMIT" =>
             \E j \in 1..Len(queue[d]) : queue'[d][i] = queue[d][j],
         \A d \in Clients : \A i \in 1..Len(queue'[d]) :
           queue'[d][i].kind = "COMMIT" /\ pc[queue'[d][i].tx] = "committing"
             => pc'[queue'[d][i].tx] = "committing"
  PROVE  CommitWaits'
BY DEF RInv, Kept, CommitWaits

LEMMA NoNewAbort ==
  ASSUME RInv,
         \A d \in Clients : \A i \in 1..Len(queue'[d]) :
           queue'[d][i].kind = "COMMIT" =>
             \E j \in 1..Len(queue[d]) : queue'[d][i] = queue[d][j],
         \A d \in Clients : CheckedOut(d)' /\ session'[d].aborted =>
           CheckedOut(d) /\ holder'[d] = holder[d] /\ session[d].aborted,
         \A t \in Txs : pc[t] \in {"throwing", "done"} => pc'[t] \in {"throwing", "done"}
  PROVE  AbortedEnds'
BY DEF RInv, Kept, AbortedEnds, CheckedOut
-----------------------------------------------------------------------------
(***************************************************************************)
(* Steps of AtomicTx.                                                      *)
(***************************************************************************)
LEMMA SeenWrite ==
  ASSUME TypeOK, NEW t \in Txs, notified[t] = {}, Stage(t) \in {"active", "written"},
         Stage(t)' = "written", \A u \in Txs \ {t} : Stage(u)' = Stage(u),
         notified' = notified
  PROVE  Atomic!Next
<1>1. Atomic!Write(t)
  BY DEF Atomic!Write
<1> QED BY <1>1 DEF Atomic!Next

LEMMA SeenCommit ==
  ASSUME TypeOK, NEW t \in Txs, notified[t] = {}, Stage(t) \in {"active", "written"},
         Stage(t)' = IF Stage(t) = "written" THEN "committed" ELSE Stage(t),
         \A u \in Txs \ {t} : Stage(u)' = Stage(u),
         notified' = notified \/ notified' = [notified EXCEPT ![t] = {"end"}]
  PROVE  Atomic!Next
<1>1. Atomic!Commit(t)
  BY DEF Atomic!Commit, Atomic!MayTell
<1> QED BY <1>1 DEF Atomic!Next

LEMMA SeenUndo ==
  ASSUME TypeOK, NEW t \in Txs, notified[t] = {}, Stage(t) # "committed",
         Stage(t)' = IF Stage(t) = "written" THEN "lost" ELSE Stage(t),
         \A u \in Txs \ {t} : Stage(u)' = Stage(u),
         notified' = notified \/ notified' = [notified EXCEPT ![t] = {"rollback"}]
  PROVE  Atomic!Next
<1>1. Atomic!Undo(t)
  BY DEF Atomic!Undo, Atomic!MayTell
<1> QED BY <1>1 DEF Atomic!Next
-----------------------------------------------------------------------------
(***************************************************************************)
(* The end of the session on a connection.                                 *)
(***************************************************************************)
LEMMA EndedStage ==
  ASSUME RInv, NEW c \in Clients, NEW t \in Txs, holder[c] = t, wrote' = wrote,
         session' = [session EXCEPT ![c] = NoSession]
  PROVE  /\ durable' = durable =>
              /\ Stage(t)' = IF Stage(t) = "written" THEN "lost" ELSE Stage(t)
              /\ \A u \in Txs \ {t} : Stage(u)' = Stage(u)
         /\ durable' = durable \cup session[c].writes =>
              /\ Stage(t)' = IF Stage(t) = "written" THEN "committed" ELSE Stage(t)
              /\ \A u \in Txs \ {t} : Stage(u)' = Stage(u)
<1> USE DEF CheckedOut
<1>1. /\ t \in Txs /\ t \notin durable
      /\ Stage(t) = IF t \in session[c].writes THEN "written" ELSE "active"
      /\ \A d \in Clients \ {c} : t \notin session[d].writes
      /\ \A u \in session[c].writes : u = t
  BY HolderStage DEF RInv, Kept, Undecided, IInv, SessionOwned
<1>2. session'[c].writes = {} /\ \A d \in Clients \ {c} : session'[d] = session[d]
  BY DEF RInv, Kept, IInv, TypeOK, NoSession, Session
<1>3. ~InSession(t)'
  BY <1>1, <1>2 DEF InSession
<1>4. \A u \in Txs \ {t} : InSession(u)' <=> InSession(u)
  BY <1>1, <1>2 DEF InSession
<1>5. t \in wrote => t \in session[c].writes
  BY DEF RInv, Kept, Undecided
<1>6. t \in session[c].writes => t \in wrote
  BY DEF RInv, Kept, Written
<1>7. ASSUME durable' = durable
      PROVE  /\ Stage(t)' = IF Stage(t) = "written" THEN "lost" ELSE Stage(t)
             /\ \A u \in Txs \ {t} : Stage(u)' = Stage(u)
  BY <1>1, <1>3, <1>4, <1>5, <1>6, <1>7, StageIsNext, SameStage
<1>8. ASSUME durable' = durable \cup session[c].writes
      PROVE  /\ Stage(t)' = IF Stage(t) = "written" THEN "committed" ELSE Stage(t)
             /\ \A u \in Txs \ {t} : Stage(u)' = Stage(u)
  BY <1>1, <1>3, <1>4, <1>5, <1>6, <1>8, StageIsNext, SameStage
<1> QED BY <1>7, <1>8

\* COMMIT, ROLLBACK and the loss of a connection, with what they tell.
LEMMA Over ==
  ASSUME RInv, TypeOK', NEW c \in Clients, NEW t \in Txs, holder[c] = t,
         UNCHANGED <<callVars, wrote>>,
         queue' = [queue EXCEPT ![c] = <<>>],
         session' = [session EXCEPT ![c] = NoSession],
         ~CheckedOut(c)', \A d \in Clients \ {c} : holder'[d] = holder[d],
         \A u \in Txs \ {t} : pc'[u] = pc[u],
         pc'[t] # "new",
         pc[t] \in {"throwing", "done"} => pc'[t] \in {"throwing", "done"},
         \/ /\ durable' = durable
            /\ notified' = notified \/ notified' = [notified EXCEPT ![t] = {"rollback"}]
         \/ /\ durable' = durable \cup session[c].writes /\ closed[t] # {}
            /\ notified' = notified \/ notified' = [notified EXCEPT ![t] = {"end"}]
  PROVE  /\ Fresh' /\ Undecided' /\ Written' /\ CommitWaits' /\ AbortedEnds'
         /\ Atomic!Next
<1>1. /\ t \in Txs /\ notified[t] = {} /\ TypeOK
      /\ Stage(t) \in {"active", "written"}
      /\ \A u \in session[c].writes : u = t
      /\ client[t] = c
  BY HolderStage DEF RInv, Kept, IInv, SessionOwned, Holding, CheckedOut
<1>2. /\ closed' = closed /\ queue'[c] = <<>> /\ session'[c] = NoSession
      /\ \A d \in Clients \ {c} : queue'[d] = queue[d] /\ session'[d] = session[d]
  BY <1>1 DEF callVars, TypeOK
<1>3. \A d \in Clients \ {c} : CheckedOut(d) => holder[d] # t
  BY <1>1 DEF RInv, Kept, IInv, Holding
<1>4. \A d \in Clients \ {c} : CheckedOut(d)' <=> CheckedOut(d)
  BY DEF CheckedOut
<1>5. \A u \in Txs \ {t} : notified'[u] = notified[u] /\ (u \in durable' <=> u \in durable)
  BY <1>1 DEF TypeOK
<1>6. Fresh'
  BY <1>5 DEF RInv, Kept, Fresh
<1>7. Undecided'
  <2>1. ASSUME NEW d \in Clients, CheckedOut(d)'
        PROVE  /\ notified'[holder'[d]] = {} /\ holder'[d] \notin durable'
               /\ holder'[d] \in wrote' => holder'[d] \in session'[d].writes
    <3>1. d # c /\ CheckedOut(d) /\ holder'[d] = holder[d] /\ holder[d] \in Txs \ {t}
      BY <1>3, <1>4, <2>1 DEF CheckedOut
    <3> QED BY <1>2, <1>5, <3>1 DEF RInv, Kept, Undecided
  <2> QED BY <2>1 DEF Undecided
<1>8. Written'
  <2>1. \A d \in Clients : session'[d].writes \subseteq wrote
    BY <1>2 DEF RInv, Kept, Written, NoSession, Session
  <2> QED BY <1>1, <1>2, <2>1 DEF RInv, Kept, Written
<1>9. CommitWaits'
  <2>1. ASSUME NEW d \in Clients, NEW i \in 1..Len(queue'[d]), queue'[d][i].kind = "COMMIT"
        PROVE  pc'[queue'[d][i].tx] = "committing"
    <3>1. d # c /\ queue'[d] = queue[d]
      BY <1>2, <2>1
    <3>2. queue[d][i].tx = holder[d] /\ holder[d] \in Txs
      BY <1>1, <2>1, <3>1, QueueTx DEF RInv, Kept, IInv, OwnConnection
    <3> QED BY <1>3, <2>1, <3>1, <3>2 DEF RInv, Kept, CommitWaits, CheckedOut
  <2> QED BY <2>1 DEF CommitWaits
<1>10. AbortedEnds'
  <2>1. ASSUME NEW d \in Clients, CheckedOut(d)', session'[d].aborted
        PROVE  /\ pc'[holder'[d]] \in {"throwing", "done"}
               /\ \A i \in 1..Len(queue'[d]) : queue'[d][i].kind # "COMMIT"
    <3>1. d # c /\ CheckedOut(d) /\ holder'[d] = holder[d] /\ holder[d] \in Txs \ {t}
      BY <1>3, <1>4, <2>1 DEF CheckedOut
    <3> QED BY <1>2, <2>1, <3>1 DEF RInv, Kept, AbortedEnds
  <2> QED BY <2>1 DEF AbortedEnds
<1>11. Atomic!Next
  <2>1. CASE /\ durable' = durable
             /\ notified' = notified \/ notified' = [notified EXCEPT ![t] = {"rollback"}]
    BY <1>1, <2>1, EndedStage, SeenUndo
  <2>2. CASE /\ durable' = durable \cup session[c].writes
             /\ notified' = notified \/ notified' = [notified EXCEPT ![t] = {"end"}]
    BY <1>1, <2>2, EndedStage, SeenCommit
  <2> QED BY <2>1, <2>2
<1> QED BY <1>6, <1>7, <1>8, <1>9, <1>10, <1>11
-----------------------------------------------------------------------------
(***************************************************************************)
(* The steps of Tx.                                                        *)
(***************************************************************************)
Simulates == Kept' /\ [Atomic!Next]_(Atomic!vars)

\* What the queries of a connection, when rejected, tell its holder.
LEMMA RejectedTell ==
  ASSUME RInv, NEW c \in Clients, NEW t \in Txs, holder[c] = t,
         NEW Q, Q \subseteq Items(queue[c])
  PROVE  /\ \/ NotifiedRejecting(Q) = notified
            \/ NotifiedRejecting(Q) = [notified EXCEPT ![t] = {"rollback"}]
         /\ (\A q \in Q : q.kind # "ROLLBACK") => NotifiedRejecting(Q) = notified
<1>1. \A q \in Q : q.tx = t
  BY DEF Items, RInv, Kept, IInv, OwnConnection
<1>2. \A u \in Txs : /\ Query(u, "ROLLBACK", Handle(u)).tx = u
                     /\ Query(u, "ROLLBACK", Handle(u)).kind = "ROLLBACK"
  BY DEF Query
<1>3. notified \in [Txs -> SUBSET {"end", "rollback"}]
  BY DEF RInv, IInv, TypeOK
<1>4. \A u \in Txs : \/ NotifiedRejecting(Q)[u] = notified[u]
                     \/ u = t /\ NotifiedRejecting(Q)[u] = {"rollback"}
  BY <1>1, <1>2, <1>3 DEF NotifiedRejecting
<1>5. NotifiedRejecting(Q) \in [Txs -> SUBSET {"end", "rollback"}]
  BY RejectingNotified DEF RInv, IInv
<1>6. CASE NotifiedRejecting(Q)[t] = notified[t]
  <2>1. NotifiedRejecting(Q) = notified
    BY <1>3, <1>4, <1>5, <1>6
  <2> QED BY <2>1
<1>7. CASE NotifiedRejecting(Q)[t] = {"rollback"}
  <2>1. NotifiedRejecting(Q) = [notified EXCEPT ![t] = {"rollback"}]
    BY <1>3, <1>4, <1>5, <1>7
  <2>2. (\A q \in Q : q.kind # "ROLLBACK") => \A u \in Txs : NotifiedRejecting(Q)[u] = notified[u]
    BY <1>2 DEF NotifiedRejecting
  <2> QED BY <1>3, <1>5, <2>1, <2>2
<1> QED BY <1>4, <1>6, <1>7

LEMMA CommitSimulates ==
  ASSUME RInv, TypeOK', NEW c \in Clients, ServeCommit(c)
  PROVE  Simulates
<1>1. PICK t \in Txs : t = Head(queue[c]).tx /\ holder[c] = t
  BY LastOne DEF ServeCommit, Executing, Ends, RInv
<1>2. /\ queue[c] # <<>> /\ Head(queue[c]).kind = "COMMIT" /\ CheckedOut(c)
      /\ closed[t] # {} /\ Tail(queue[c]) = <<>>
  BY <1>1, LastOne DEF ServeCommit, Executing, Ends, RInv, CheckedOut
<1>3. ~session[c].aborted
  <2>1. Head(queue[c]) = queue[c][1] /\ 1 \in 1..Len(queue[c])
    BY <1>2, QueueTx, HeadTail DEF RInv, IInv
  <2> QED BY <1>2, <2>1 DEF RInv, Kept, AbortedEnds
<1>4. /\ queue' = [queue EXCEPT ![c] = <<>>]
      /\ durable' = durable \cup session[c].writes
      /\ session' = [session EXCEPT ![c] = NoSession]
      /\ holder' = [holder EXCEPT ![c] = "idle"]
      /\ pc' = [pc EXCEPT ![t] = "done"]
      /\ notified' = notified \/ notified' = [notified EXCEPT ![t] = {"end"}]
      /\ UNCHANGED <<callVars, wrote>>
  BY <1>1, <1>2, <1>3 DEF ServeCommit, Dequeue, Release, Committed
<1>5. /\ ~CheckedOut(c)' /\ \A d \in Clients \ {c} : holder'[d] = holder[d]
      /\ \A u \in Txs \ {t} : pc'[u] = pc[u]
      /\ pc'[t] = "done"
  BY <1>4, NoPoolTx DEF RInv, IInv, TypeOK, CheckedOut, PoolStates
<1>6. Kept' /\ Atomic!Next
  BY <1>1, <1>2, <1>4, <1>5, Over DEF Kept
<1> QED BY <1>6 DEF Simulates

LEMMA RollbackSimulates ==
  ASSUME RInv, TypeOK', NEW c \in Clients, ServeRollback(c)
  PROVE  Simulates
<1>1. PICK t \in Txs : t = Head(queue[c]).tx /\ holder[c] = t
  BY LastOne DEF ServeRollback, Executing, Ends, RInv
<1>2. /\ CheckedOut(c) /\ Tail(queue[c]) = <<>> /\ pc[t] # "new"
      /\ Items(queue[c]) = {Head(queue[c])}
  BY <1>1, LastOne, HolderRuns DEF ServeRollback, Executing, Ends, RInv, CheckedOut
<1>3. /\ queue' = [queue EXCEPT ![c] = <<>>]
      /\ session' = [session EXCEPT ![c] = NoSession]
      /\ holder' = [holder EXCEPT ![c] = "idle"]
      /\ notified' = NotifiedRejecting({Head(queue[c])})
      /\ UNCHANGED <<pc, durable, callVars, wrote>>
  BY <1>2 DEF ServeRollback, Dequeue, Release
<1>4. notified' = notified \/ notified' = [notified EXCEPT ![t] = {"rollback"}]
  BY <1>1, <1>2, <1>3, RejectedTell
<1>5. /\ ~CheckedOut(c)' /\ \A d \in Clients \ {c} : holder'[d] = holder[d]
  BY <1>3, NoPoolTx DEF RInv, IInv, TypeOK, CheckedOut, PoolStates
<1>6. Kept' /\ Atomic!Next
  BY <1>1, <1>2, <1>3, <1>4, <1>5, Over DEF Kept
<1> QED BY <1>6 DEF Simulates

\* A connection is lost: its queries are rejected, and a COMMIT may be done.
LEMMA DestroySimulates ==
  ASSUME RInv, TypeOK', NEW c \in Clients, Destroy(c),
         UNCHANGED <<callVars, wrote>>, PerhapsCommitted(c)
  PROVE  Simulates
<1> DEFINE Q == Items(queue[c])
<1>0. /\ holder' = [holder EXCEPT ![c] = "dead"]
      /\ session' = [session EXCEPT ![c] = NoSession]
      /\ queue' = [queue EXCEPT ![c] = <<>>]
      /\ pc' = PcRejecting(Q) /\ notified' = NotifiedRejecting(Q)
  BY DEF Destroy
<1>1. /\ ~CheckedOut(c)' /\ \A d \in Clients \ {c} : holder'[d] = holder[d]
      /\ \A d \in Clients \ {c} : queue'[d] = queue[d] /\ session'[d] = session[d]
      /\ queue'[c] = <<>> /\ session'[c] = NoSession
  BY <1>0, NoPoolTx DEF RInv, IInv, TypeOK, CheckedOut, PoolStates
<1>2. CASE ~CheckedOut(c)
  <2>1. queue[c] = <<>> /\ session[c] = NoSession
    BY <1>2, UnheldQueue DEF RInv, IInv, SessionOwned, CheckedOut
  <2>2. Q = {}
    BY <2>1 DEF Items
  <2>3. durable' = durable
    BY <2>1 DEF PerhapsCommitted, Executing
  <2>4. pc' = pc /\ notified' = notified
    BY <1>0, <2>2 DEF PcRejecting, NotifiedRejecting, RInv, IInv, TypeOK
  <2>5. \A d \in Clients : queue'[d] = queue[d] /\ session'[d] = session[d]
    BY <1>1, <2>1
  <2>6. UNCHANGED Atomic!vars
    BY <2>3, <2>4, <2>5, Unseen
  <2>7. \A d \in Clients : CheckedOut(d)' => d # c /\ holder'[d] = holder[d] /\ CheckedOut(d)
    BY <1>1 DEF CheckedOut
  <2>8. Fresh' /\ Undecided' /\ Written'
    BY <2>3, <2>4, <2>5, <2>7, HistoryKept DEF callVars
  <2>9. CommitWaits' /\ AbortedEnds'
    BY <2>4, <2>5, <2>7 DEF RInv, Kept, CommitWaits, AbortedEnds
  <2> QED BY <2>6, <2>8, <2>9 DEF Simulates, Kept
<1>3. CASE CheckedOut(c)
  <2>1. PICK t \in Txs : holder[c] = t
    BY <1>3 DEF CheckedOut
  <2>2. \A u \in Txs :
          \/ pc'[u] = pc[u]
          \/ u = t /\ pc'[u] = "done"
          \/ u = t /\ pc[u] = "waiting" /\ pc'[u] \in {"running", "throwing"}
    BY <1>0, <2>1, RejectingOwn DEF RInv
  <2>3. pc[t] # "new"
    BY <1>3, <2>1, HolderRuns DEF RInv
  <2>4. notified' = notified \/ notified' = [notified EXCEPT ![t] = {"rollback"}]
    BY <1>0, <2>1, RejectedTell
  <2>5. CASE durable' = durable
    <3>1. Kept' /\ Atomic!Next
      BY <1>0, <1>1, <2>1, <2>2, <2>3, <2>4, <2>5, Over DEF Kept
    <3> QED BY <3>1 DEF Simulates
  <2>6. CASE Executing(c, "COMMIT") /\ durable' = durable \cup Committed(c)
    <3>1. /\ queue[c] # <<>> /\ Head(queue[c]).kind = "COMMIT"
          /\ closed[t] # {} /\ Q = {Head(queue[c])}
      BY <2>1, <2>6, LastOne DEF Executing, Ends, RInv
    <3>2. notified' = notified
      BY <1>0, <2>1, <3>1, RejectedTell
    <3>3. Head(queue[c]) = queue[c][1] /\ 1 \in 1..Len(queue[c])
      BY <3>1, QueueTx, HeadTail DEF RInv, IInv
    <3>4. durable' = durable \cup session[c].writes
      BY <1>3, <2>6, <3>1, <3>3 DEF Committed, RInv, Kept, AbortedEnds
    <3>5. Kept' /\ Atomic!Next
      BY <1>0, <1>1, <2>1, <2>2, <2>3, <3>1, <3>2, <3>4, Over DEF Kept
    <3> QED BY <3>5 DEF Simulates
  <2> QED BY <2>5, <2>6 DEF PerhapsCommitted
<1> QED BY <1>2, <1>3

-----------------------------------------------------------------------------
NoneSent ==
  \A d \in Clients : \A i \in 1..Len(queue'[d]) :
    queue'[d][i].kind = "COMMIT" =>
      \E j \in 1..Len(queue[d]) : queue'[d][i] = queue[d][j]

LEMMA NextQueueTx ==
  ASSUME TypeOK'
  PROVE  \A d \in Clients : \A i \in 1..Len(queue'[d]) : queue'[d][i].tx \in Txs
<1> SUFFICES ASSUME NEW d \in Clients, NEW i \in 1..Len(queue'[d])
             PROVE  queue'[d][i].tx \in Txs
  OBVIOUS
<1>1. queue'[d] \in Seq(Queries)
  BY DEF TypeOK
<1>2. queue'[d][i] \in Queries
  BY <1>1
<1> QED BY <1>2 DEF Queries

\* Steps that send no COMMIT and decide nothing.
LEMMA QuietSimulates ==
  ASSUME RInv, TypeOK', UNCHANGED <<durable, wrote, notified, holder>>, NoneSent,
         \A d \in Clients : /\ session'[d].writes = session[d].writes
                            /\ session'[d].aborted = session[d].aborted,
         \A t \in Txs : closed[t] \subseteq closed'[t],
         \A t \in Txs : \/ pc'[t] = pc[t]
                        \/ /\ pc'[t] # "new" /\ pc[t] # "committing"
                           /\ pc[t] \in {"throwing", "done"} => pc'[t] \in {"throwing", "done"}
  PROVE  Simulates
<1>1. Fresh' /\ Undecided' /\ Written'
  BY HistoryKept
<1>2. \A d \in Clients : \A i \in 1..Len(queue'[d]) : queue'[d][i].tx \in Txs
  BY NextQueueTx
<1>3. CommitWaits'
  BY <1>2, NoNewCommit DEF NoneSent
<1>4. AbortedEnds'
  BY NoNewAbort DEF NoneSent, CheckedOut
<1>5. UNCHANGED Atomic!vars
  BY Unseen
<1> QED BY <1>1, <1>3, <1>4, <1>5 DEF Simulates, Kept

LEMMA ConnectSimulates ==
  ASSUME RInv, TypeOK', NEW t \in Txs, NEW c \in Clients, Connect(t, c)
  PROVE  Simulates
<1>1. /\ pc[t] = "new" /\ pc' = [pc EXCEPT ![t] = "running"]
      /\ holder[c] \in PoolStates /\ holder' = [holder EXCEPT ![c] = t]
      /\ queue' = [queue EXCEPT ![c] = Append(@, Query(t, "START", "main"))]
      /\ UNCHANGED <<closed, session, durable, wrote, notified>>
  BY DEF Connect, serverVars, PoolStates
<1>2. ~CheckedOut(c)
  BY <1>1, NoPoolTx DEF CheckedOut
<1>3. session[c] = NoSession
  BY <1>2 DEF RInv, IInv, SessionOwned
<1>4. /\ \A d \in Clients \ {c} : holder'[d] = holder[d]
      /\ holder'[c] = t /\ pc'[t] = "running"
      /\ \A u \in Txs \ {t} : pc'[u] = pc[u]
  BY <1>1 DEF RInv, IInv, TypeOK
<1>5. notified[t] = {} /\ t \notin wrote /\ t \notin durable
  BY <1>1 DEF RInv, Kept, Fresh, Written
<1>6. \A d \in Clients : CheckedOut(d) => holder[d] \in Txs \ {t}
  BY <1>1, HolderRuns DEF RInv
<1>7. Fresh' /\ Written'
  BY <1>1, <1>4 DEF RInv, Kept, Fresh, Written
<1>8. Undecided'
  BY <1>1, <1>4, <1>5 DEF RInv, Kept, Undecided, CheckedOut
<1>9. NoneSent
  <2>1. Query(t, "START", "main") \in Queries /\ Query(t, "START", "main").kind = "START"
    BY QueryType DEF Kinds, Handles
  <2> QED BY <1>1, <2>1, Appended DEF NoneSent, RInv, IInv
<1>10. CommitWaits'
  <2>1. \A d \in Clients : \A i \in 1..Len(queue'[d]) : queue'[d][i].tx \in Txs
    BY NextQueueTx
  <2> QED BY <1>1, <1>4, <1>9, <2>1, NoNewCommit DEF NoneSent
<1>11. AbortedEnds'
  <2>1. \A d \in Clients : CheckedOut(d)' /\ session'[d].aborted =>
          CheckedOut(d) /\ holder'[d] = holder[d] /\ session[d].aborted
    BY <1>1, <1>3, <1>4 DEF CheckedOut, NoSession, Session
  <2>2. \A u \in Txs : pc[u] \in {"throwing", "done"} => pc'[u] \in {"throwing", "done"}
    BY <1>1, <1>4
  <2> QED BY <1>9, <2>1, <2>2, NoNewAbort DEF NoneSent
<1>12. UNCHANGED Atomic!vars
  BY <1>1, Unseen
<1> QED BY <1>7, <1>8, <1>10, <1>11, <1>12 DEF Simulates, Kept

\* A callback that goes on without the database.
LEMMA AloneSimulates ==
  ASSUME RInv, TypeOK', NEW t \in Txs, NEW p, p # "new", pc[t] # "committing",
         pc[t] \in {"throwing", "done"} => p \in {"throwing", "done"},
         pc' = [pc EXCEPT ![t] = p],
         UNCHANGED <<closed, holder, queue, serverVars, notified>>
  PROVE  Simulates
<1>1. \A u \in Txs : \/ pc'[u] = pc[u]
                     \/ u = t /\ pc'[u] = p
  BY DEF RInv, IInv, TypeOK
<1>2. NoneSent
  BY DEF NoneSent
<1> QED BY <1>1, <1>2, QuietSimulates DEF serverVars

LEMMA ExecuteSimulates ==
  ASSUME RInv, TypeOK', NEW t \in Txs, Execute(t)
  PROVE  Simulates
<1>1. CASE Usable(t) /\ (Closed(t) => DropsTable(t))
  <2>1. /\ client[t] \in Clients
        /\ queue' = [queue EXCEPT ![client[t]] = Append(@, Query(t, "STATEMENT", Handle(t)))]
        /\ pc[t] = "running" /\ pc' = [pc EXCEPT ![t] = "waiting"]
        /\ UNCHANGED <<closed, holder, session, durable, wrote, notified>>
    BY <1>1 DEF Execute, Usable, serverVars
  <2>2. /\ Query(t, "STATEMENT", Handle(t)) \in Queries
        /\ Query(t, "STATEMENT", Handle(t)).kind = "STATEMENT"
    BY QueryType, HandleType DEF Kinds
  <2>3. NoneSent
    BY <2>1, <2>2, Appended DEF NoneSent, RInv, IInv
  <2>4. \A u \in Txs : \/ pc'[u] = pc[u]
                       \/ u = t /\ pc'[u] = "waiting"
    BY <2>1 DEF RInv, IInv, TypeOK
  <2> QED BY <2>1, <2>3, <2>4, QuietSimulates
<1>2. CASE ~(Usable(t) /\ (Closed(t) => DropsTable(t)))
  BY <1>2, AloneSimulates DEF Execute, AfterError
<1> QED BY <1>1, <1>2

LEMMA SendsCommit ==
  ASSUME RInv, TypeOK', NEW t \in Txs, closed[t] = {},
         pc[t] \in {"running", "preCommit"}, SendCommit(t)
  PROVE  Simulates
<1>0. /\ \A u \in Txs : closed[u] \subseteq closed'[u]
      /\ UNCHANGED <<holder, session, durable, wrote, notified>>
  BY DEF SendCommit, serverVars, RInv, IInv, TypeOK
<1>1. CASE ~Usable(t)
  <2>1. queue' = queue /\ pc' = [pc EXCEPT ![t] = "done"]
    BY <1>1 DEF SendCommit
  <2>2. NoneSent
    BY <2>1 DEF NoneSent
  <2>3. \A u \in Txs : \/ pc'[u] = pc[u]
                       \/ u = t /\ pc'[u] = "done"
    BY <2>1 DEF RInv, IInv, TypeOK
  <2> QED BY <1>0, <2>2, <2>3, QuietSimulates
<1>2. CASE Usable(t)
  <2> DEFINE q == Query(t, "COMMIT", Handle(t))
  <2>1. PICK c \in Clients : c = client[t] /\ holder[c] = t
    BY <1>2, OpenTx DEF RInv
  <2>2. /\ queue' = [queue EXCEPT ![c] = Append(@, q)]
        /\ pc' = [pc EXCEPT ![t] = "committing"]
    BY <1>2, <2>1 DEF SendCommit
  <2>3. q \in Queries /\ q.tx = t /\ q.kind = "COMMIT"
    BY QueryType, HandleType DEF Kinds
  <2>4. pc'[t] = "committing" /\ \A u \in Txs \ {t} : pc'[u] = pc[u]
    BY <2>2 DEF RInv, IInv, TypeOK
  <2> HIDE DEF q
  <2>5. /\ \A d \in Clients \ {c} : queue'[d] = queue[d]
        /\ \A i \in 1..Len(queue'[c]) :
             queue'[c][i] = q \/ \E j \in 1..Len(queue[c]) : queue'[c][i] = queue[c][j]
    BY <2>2, <2>3, Appended DEF RInv, IInv
  <2>6. Fresh' /\ Undecided' /\ Written'
    BY <1>0, <2>4, HistoryKept
  <2>7. CommitWaits'
    <3>1. \A d \in Clients : \A j \in 1..Len(queue[d]) :
            queue[d][j].kind = "COMMIT" =>
              pc[queue[d][j].tx] = "committing" /\ queue[d][j].tx \in Txs \ {t}
      BY QueueTx DEF RInv, Kept, CommitWaits, IInv
    <3> QED BY <2>3, <2>4, <2>5, <3>1 DEF CommitWaits
  <2>8. AbortedEnds'
    <3>1. ASSUME NEW d \in Clients, CheckedOut(d)', session'[d].aborted
          PROVE  /\ pc'[holder'[d]] \in {"throwing", "done"}
                 /\ \A i \in 1..Len(queue'[d]) : queue'[d][i].kind # "COMMIT"
      <4>1. CheckedOut(d) /\ session[d].aborted /\ holder'[d] = holder[d]
        BY <1>0, <3>1 DEF CheckedOut
      <4>2. pc[holder[d]] \in {"throwing", "done"}
        BY <4>1 DEF RInv, Kept, AbortedEnds
      <4>3. d # c /\ holder[d] \in Txs \ {t}
        BY <2>1, <4>1, <4>2 DEF CheckedOut
      <4> QED BY <2>4, <2>5, <4>1, <4>2, <4>3 DEF RInv, Kept, AbortedEnds
    <3> QED BY <3>1 DEF AbortedEnds
  <2>9. UNCHANGED Atomic!vars
    BY <1>0, Unseen
  <2> QED BY <2>6, <2>7, <2>8, <2>9 DEF Simulates, Kept
<1> QED BY <1>1, <1>2

\* ROLLBACK on a dead connection is announced at once.
LEMMA SendsRollback ==
  ASSUME RInv, TypeOK', NEW t \in Txs, NEW own \in BOOLEAN, closed[t] = {}, pc[t] # "new",
         own => pc[t] \in {"running", "throwing", "preCommit"},
         SendRollback(t, Handle(t), own)
  PROVE  Simulates
<1> DEFINE q == Query(t, "ROLLBACK", Handle(t))
<1>0. /\ \A u \in Txs : closed[u] \subseteq closed'[u]
      /\ UNCHANGED <<holder, session, durable, wrote>>
      /\ q \in Queries /\ q.tx = t /\ q.kind = "ROLLBACK"
  BY QueryType, HandleType DEF Kinds, SendRollback, serverVars, RInv, IInv, TypeOK
<1>1. CASE Usable(t)
  <2>1. PICK c \in Clients : c = client[t] /\ holder[c] = t
    BY <1>1, OpenTx DEF RInv
  <2> DEFINE W == Items(SubSeq(queue[c], 2, Len(queue[c])))
  <2>2. /\ queue' = [queue EXCEPT ![c] = Append(InProgress(@), q)]
        /\ pc' = [PcRejecting(W) EXCEPT ![t] = IF own THEN "done" ELSE @]
        /\ notified' = NotifiedRejecting(W)
    BY <1>1, <2>1 DEF SendRollback
  <2>3. W \subseteq Items(queue[c]) /\ \A r \in W : ~Ends(r)
    <3>1. \A i \in 1..Len(queue[c]) : ~Ends(queue[c][i])
      BY <1>1, <2>1, OpenTx DEF RInv
    <3> QED BY <3>1, BehindFirst, QueueTx DEF RInv, IInv, Items
  <2>4. notified' = notified
    BY <2>1, <2>2, <2>3, RejectedTell DEF Ends
  <2>5. PcRejecting(W) \in [Txs -> Places]
    BY RejectingPc DEF RInv, IInv
  <2>6. \A u \in Txs : \/ PcRejecting(W)[u] = pc[u]
                       \/ pc[u] = "waiting" /\ PcRejecting(W)[u] \in {"running", "throwing"}
    BY <2>3, RejectingOwn DEF RInv, Ends
  <2> HIDE DEF W
  <2>7. \A u \in Txs : \/ pc'[u] = pc[u]
                       \/ pc[u] = "waiting" /\ pc'[u] \in {"running", "throwing"}
                       \/ u = t /\ own /\ pc'[u] = "done"
    BY <2>2, <2>5, <2>6
  <2>8. NoneSent
    <3> HIDE DEF q
    <3>1. /\ \A d \in Clients \ {c} : queue'[d] = queue[d]
          /\ \A i \in 1..Len(queue'[c]) :
               \/ i = Len(queue'[c]) /\ queue'[c][i] = q
               \/ i = 1 /\ i \in 1..Len(queue[c]) /\ queue'[c][i] = queue[c][1]
      BY <1>0, <2>2, RolledBack DEF RInv, IInv
    <3> QED BY <1>0, <3>1 DEF NoneSent
  <2> QED BY <1>0, <2>4, <2>7, <2>8, QuietSimulates
<1>2. CASE ~Usable(t)
  <2>1. /\ queue' = queue /\ notified' = NotifiedRejecting({q})
        /\ pc' = [PcRejecting({q}) EXCEPT ![t] = IF own THEN "done" ELSE @]
    BY <1>2 DEF SendRollback
  <2>2. PcRejecting({q}) = pc
    BY DEF PcRejecting, Query, RInv, IInv, TypeOK
  <2>3. \A u \in Txs : \/ pc'[u] = pc[u]
                       \/ u = t /\ own /\ pc'[u] = "done"
    BY <2>1, <2>2 DEF RInv, IInv, TypeOK
  <2>4. NoneSent
    BY <2>1 DEF NoneSent
  <2>5. \A c \in Clients : CheckedOut(c) => holder[c] # t
    BY <1>2, NoPoolTx DEF RInv, IInv, Holding, CheckedOut, Usable, PoolStates
  <2>6. CASE notified' = notified
    BY <1>0, <2>3, <2>4, <2>6, QuietSimulates
  <2>7. CASE notified[t] = {} /\ notified' = [notified EXCEPT ![t] = {"rollback"}]
    <3>1. \A u \in Txs \ {t} : notified'[u] = notified[u]
      BY <2>7 DEF RInv, IInv, TypeOK
    <3>2. Fresh' /\ Written'
      <4>1. Fresh'
        BY <1>0, <2>3, <3>1 DEF RInv, Kept, Fresh
      <4>2. durable \subseteq Txs
        BY DEF RInv, IInv, TypeOK
      <4>3. Written'
        BY <1>0, <4>2 DEF RInv, Kept, Written
      <4> QED BY <4>1, <4>3
    <3>3. Undecided'
      BY <1>0, <2>5, <3>1 DEF RInv, Kept, Undecided, CheckedOut
    <3>4. CommitWaits'
      <4>1. \A d \in Clients : \A i \in 1..Len(queue'[d]) : queue'[d][i].tx \in Txs
        BY NextQueueTx
      <4> QED BY <2>3, <2>4, <4>1, NoNewCommit DEF NoneSent
    <3>5. AbortedEnds'
      BY <1>0, <2>3, <2>4, NoNewAbort DEF NoneSent, CheckedOut
    <3>6. \A u : InSession(u)' <=> InSession(u)
      BY <1>0 DEF InSession
    <3>7. \A u : Stage(u)' = Stage(u)
      BY <1>0, <3>6, SameStage
    <3>8. t \notin durable /\ ~InSession(t)
      <4>1. \A c \in Clients : t \notin session[c].writes
        BY <2>5, TxAssumption DEF RInv, IInv, SessionOwned, CheckedOut
      <4> QED BY <4>1 DEF RInv, Kept, Written, InSession
    <3>9. Atomic!Next
      BY <2>7, <3>7, <3>8, StageIs, SeenUndo DEF RInv, IInv
    <3> QED BY <3>2, <3>3, <3>4, <3>5, <3>9 DEF Simulates, Kept
  <2>8. \/ notified' = notified
        \/ notified[t] = {} /\ notified' = [notified EXCEPT ![t] = {"rollback"}]
    <3>1. \A u \in Txs : Query(u, "ROLLBACK", Handle(u)) = q => u = t
      BY DEF Query
    <3>2. notified \in [Txs -> SUBSET {"end", "rollback"}]
      BY DEF RInv, IInv, TypeOK
    <3>3. notified' = [u \in Txs |-> IF u = t /\ notified[u] = {} THEN {"rollback"} ELSE notified[u]]
      BY <2>1, <3>1 DEF NotifiedRejecting
    <3> QED BY <3>2, <3>3
  <2> QED BY <2>6, <2>7, <2>8
<1> QED BY <1>1, <1>2

LEMMA EndSimulates ==
  ASSUME RInv, TypeOK', NEW t \in Txs, End(t)
  PROVE  Simulates
<1>1. pc[t] = "running"
  BY DEF End
<1>2. CASE ~Closed(t) /\ SendCommit(t)
  <2>1. closed[t] = {}
    BY <1>2 DEF Closed, RInv, IInv, Alone
  <2> QED BY <1>1, <1>2, <2>1, SendsCommit
<1>3. CASE /\ \E p \in {"done", "preCommit"} : pc' = [pc EXCEPT ![t] = p]
           /\ UNCHANGED <<callVars, holder, queue, serverVars, notified, faults>>
  BY <1>1, <1>3, AloneSimulates DEF callVars
<1> QED BY <1>2, <1>3 DEF End

LEMMA ThrowSimulates ==
  ASSUME RInv, TypeOK', NEW t \in Txs, Throw(t)
  PROVE  Simulates
<1>1. pc[t] \in {"running", "throwing", "preCommit"}
  BY DEF Throw
<1>2. CASE Closed(t)
  BY <1>1, <1>2, AloneSimulates DEF Throw, callVars
<1>3. CASE ~Closed(t)
  <2>1. closed[t] = {}
    BY <1>3 DEF Closed, RInv, IInv, Alone
  <2>2. SendRollback(t, Handle(t), TRUE)
    BY <1>3 DEF Throw
  <2> QED BY <1>1, <2>1, <2>2, SendsRollback
<1> QED BY <1>2, <1>3

\* The answer to a statement that awaits it.
LEMMA StatementAnswered ==
  ASSUME RInv, TypeOK', NEW c \in Clients, queue[c] # <<>>, Dequeue(c),
         Executing(c, "STATEMENT"), NEW t, t = Head(queue[c]).tx
  PROVE  /\ t \in Txs /\ holder[c] = t /\ pc[t] = "waiting" /\ session[c].open
         /\ NoneSent
         /\ \A i \in 1..Len(queue'[c]) : queue'[c][i].kind # "COMMIT"
<1>1. /\ Head(queue[c]) = queue[c][1] /\ 1 \in 1..Len(queue[c]) /\ t \in Txs
      /\ \A d \in Clients \ {c} : queue'[d] = queue[d]
      /\ \A i \in 1..Len(queue'[c]) :
           i + 1 \in 1..Len(queue[c]) /\ queue'[c][i] = queue[c][i + 1]
  BY Answered DEF RInv, IInv
<1>2. queue[c][1].kind = "STATEMENT"
  BY <1>1 DEF Executing
<1>3. holder[c] = t /\ pc[t] = "waiting"
  BY <1>1, <1>2 DEF RInv, IInv, OwnConnection, OneWaits
<1>4. session[c].open
  BY <1>1, <1>2, <1>3 DEF RInv, IInv, SessionOwned, CheckedOut
<1>5. NoneSent
  BY <1>1 DEF NoneSent
<1>6. \A i \in 1..Len(queue[c]) : queue[c][i].kind # "COMMIT"
  BY <1>3 DEF RInv, Kept, IInv, CommitWaits, OwnConnection
<1> QED BY <1>1, <1>3, <1>4, <1>5, <1>6

LEMMA StartSimulates ==
  ASSUME RInv, TypeOK', NEW c \in Clients, ServeStart(c)
  PROVE  Simulates
<1>1. /\ queue[c] # <<>> /\ Dequeue(c)
      /\ session' = [session EXCEPT ![c] = Session(TRUE, session[c].aborted, session[c].writes)]
      /\ UNCHANGED <<pc, closed, holder, durable, wrote, notified>>
  BY DEF ServeStart, Executing, callVars
<1>2. NoneSent
  BY <1>1, Answered DEF NoneSent, RInv, IInv
<1>3. \A d \in Clients : /\ session'[d].writes = session[d].writes
                         /\ session'[d].aborted = session[d].aborted
  BY <1>1 DEF RInv, IInv, TypeOK, Session
<1> QED BY <1>1, <1>2, <1>3, QuietSimulates

LEMMA StatementSimulates ==
  ASSUME RInv, TypeOK', NEW c \in Clients, ServeStatement(c)
  PROVE  Simulates
<1>1. PICK t : t = Head(queue[c]).tx
  OBVIOUS
<1>2. queue[c] # <<>> /\ Dequeue(c) /\ Executing(c, "STATEMENT")
  BY DEF ServeStatement, Executing
<1>3. /\ t \in Txs /\ holder[c] = t /\ pc[t] = "waiting" /\ session[c].open
      /\ NoneSent
  BY <1>1, <1>2, StatementAnswered
<1> DEFINE W == {t} \ Readers
<1>4. /\ pc' = [pc EXCEPT ![t] = "running"]
      /\ wrote' = wrote \cup W /\ durable' = durable
      /\ session' = [session EXCEPT ![c] = Session(TRUE, FALSE, session[c].writes \cup W)]
      /\ UNCHANGED <<closed, holder, notified>>
  BY <1>1, <1>3 DEF ServeStatement, callVars
<1>5. /\ session'[c] = Session(TRUE, FALSE, session[c].writes \cup W)
      /\ \A d \in Clients \ {c} : session'[d] = session[d]
      /\ pc'[t] = "running" /\ \A u \in Txs \ {t} : pc'[u] = pc[u]
  BY <1>3, <1>4 DEF RInv, IInv, TypeOK
<1>6. session'[c].writes = session[c].writes \cup W /\ ~session'[c].aborted
  BY <1>5 DEF Session
<1>7. \A d \in Clients \ {c} : CheckedOut(d) => holder[d] \in Txs \ {t}
  BY <1>3 DEF RInv, IInv, Holding, CheckedOut
<1>8. Fresh'
  BY <1>4, <1>5 DEF RInv, Kept, Fresh
<1>9. Undecided'
  <2>1. ASSUME NEW d \in Clients, CheckedOut(d)'
        PROVE  /\ notified'[holder'[d]] = {} /\ holder'[d] \notin durable'
               /\ holder'[d] \in wrote' => holder'[d] \in session'[d].writes
    <3>1. CheckedOut(d) /\ holder'[d] = holder[d]
      BY <1>4, <2>1 DEF CheckedOut
    <3>2. CASE d = c
      BY <1>3, <1>4, <1>6, <3>1, <3>2 DEF RInv, Kept, Undecided
    <3>3. CASE d # c
      BY <1>4, <1>5, <1>7, <3>1, <3>3 DEF RInv, Kept, Undecided
    <3> QED BY <3>2, <3>3
  <2> QED BY <2>1 DEF Undecided
<1>10. Written'
  BY <1>4, <1>5, <1>6 DEF RInv, Kept, Written
<1>11. CommitWaits'
  BY <1>3, <1>5, NextQueueTx, NoNewCommit DEF NoneSent
<1>12. AbortedEnds'
  <2>1. \A d \in Clients : CheckedOut(d)' /\ session'[d].aborted =>
          CheckedOut(d) /\ holder'[d] = holder[d] /\ session[d].aborted
    BY <1>4, <1>5, <1>6 DEF CheckedOut
  <2>2. \A u \in Txs : pc[u] \in {"throwing", "done"} => pc'[u] \in {"throwing", "done"}
    BY <1>3, <1>5
  <2> QED BY <1>3, <2>1, <2>2, NoNewAbort DEF NoneSent
<1>13. [Atomic!Next]_(Atomic!vars)
  <2>1. CASE t \in Readers
    <3>1. UNCHANGED <<durable, wrote, notified>>
      BY <1>4, <2>1
    <3>2. \A d \in Clients : session'[d].writes = session[d].writes
      BY <1>5, <1>6, <2>1
    <3> QED BY <3>1, <3>2, Unseen
  <2>2. CASE t \notin Readers
    <3>1. /\ t \notin durable /\ notified[t] = {} /\ TypeOK
          /\ Stage(t) \in {"active", "written"}
      BY <1>3, HolderStage DEF RInv, Kept, Undecided, CheckedOut, IInv
    <3>2. InSession(t)'
      BY <1>6, <2>2 DEF InSession
    <3>3. Stage(t)' = "written"
      BY <1>4, <3>1, <3>2, StageIsNext
    <3>4. \A u \in Txs \ {t} : InSession(u)' <=> InSession(u)
      BY <1>5, <1>6 DEF InSession
    <3>5. \A u \in Txs \ {t} : Stage(u)' = Stage(u)
      BY <1>4, <3>4, SameStage
    <3> QED BY <1>3, <1>4, <3>1, <3>3, <3>5, SeenWrite
  <2> QED BY <2>1, <2>2
<1> QED BY <1>8, <1>9, <1>10, <1>11, <1>12, <1>13 DEF Simulates, Kept

LEMMA FailureSimulates ==
  ASSUME RInv, TypeOK', Lenient = {}, NEW c \in Clients, FailStatement(c)
  PROVE  Simulates
<1>1. PICK t : t = Head(queue[c]).tx
  OBVIOUS
<1>2. queue[c] # <<>> /\ Dequeue(c) /\ Executing(c, "STATEMENT")
  BY DEF FailStatement, Executing
<1>3. /\ t \in Txs /\ holder[c] = t /\ pc[t] = "waiting" /\ session[c].open
      /\ NoneSent /\ \A i \in 1..Len(queue'[c]) : queue'[c][i].kind # "COMMIT"
  BY <1>1, <1>2, StatementAnswered
<1>4. /\ pc' = [pc EXCEPT ![t] = "throwing"]
      /\ session' = [session EXCEPT ![c] = Session(session[c].open, session[c].open, session[c].writes)]
      /\ UNCHANGED <<closed, holder, durable, wrote, notified>>
  BY <1>1 DEF FailStatement, AfterError, callVars
<1>5. /\ \A d \in Clients : session'[d].writes = session[d].writes
      /\ \A d \in Clients \ {c} : session'[d] = session[d]
      /\ pc'[t] = "throwing" /\ \A u \in Txs \ {t} : pc'[u] = pc[u]
  BY <1>3, <1>4 DEF RInv, IInv, TypeOK, Session
<1>6. Fresh' /\ Undecided' /\ Written'
  BY <1>4, <1>5, HistoryKept
<1>7. CommitWaits'
  BY <1>3, <1>5, NextQueueTx, NoNewCommit DEF NoneSent
<1>8. AbortedEnds'
  <2>1. ASSUME NEW d \in Clients, CheckedOut(d)', session'[d].aborted
        PROVE  /\ pc'[holder'[d]] \in {"throwing", "done"}
               /\ \A i \in 1..Len(queue'[d]) : queue'[d][i].kind # "COMMIT"
    <3>1. CheckedOut(d) /\ holder'[d] = holder[d] /\ holder[d] \in Txs
      BY <1>4, <2>1 DEF CheckedOut
    <3>2. CASE d = c
      BY <1>3, <1>5, <3>1, <3>2
    <3>3. CASE d # c
      <4>1. queue'[d] = queue[d] /\ session[d].aborted
        BY <1>2, <1>5, <2>1, <3>3 DEF Dequeue, RInv, IInv, TypeOK
      <4>2. pc[holder[d]] \in {"throwing", "done"}
        BY <3>1, <4>1 DEF RInv, Kept, AbortedEnds
      <4> QED BY <1>3, <1>5, <3>1, <4>1, <4>2 DEF RInv, Kept, AbortedEnds
    <3> QED BY <3>2, <3>3
  <2> QED BY <2>1 DEF AbortedEnds
<1>9. UNCHANGED Atomic!vars
  BY <1>4, <1>5, Unseen
<1> QED BY <1>6, <1>7, <1>8, <1>9 DEF Simulates, Kept
-----------------------------------------------------------------------------
\* Every step of Tx is a step of AtomicTx or none.
LEMMA StepSimulates ==
  ASSUME SafeUse, Lenient = {}, RInv, [Next]_vars
  PROVE  RInv' /\ Simulates
<1>0. IInv /\ IInv' /\ TypeOK'
  BY StepInv DEF RInv, IInv
<1> SUFFICES Simulates
  BY <1>0 DEF RInv, Simulates
<1>1. ASSUME NEW t \in Txs, ~Closed(t) PROVE closed[t] = {}
  BY <1>0, <1>1 DEF Closed, IInv, Alone
<1>2. ASSUME NEW t \in Txs, ConnectFails(t) PROVE Simulates
  BY <1>0, <1>2, AloneSimulates DEF ConnectFails, callVars
<1>3. ASSUME NEW t \in Txs, PreCommitDone(t) PROVE Simulates
  <2>1. closed[t] = {}
    BY <1>0, <1>3 DEF PreCommitDone, IInv, Alone
  <2> QED BY <1>0, <1>3, <2>1, SendsCommit DEF PreCommitDone
<1>4. ASSUME NEW t \in Txs, Cancel(t) PROVE Simulates
  <2>1. closed[t] = {} /\ pc[t] # "new" /\ SendRollback(t, Handle(t), FALSE)
    BY <1>0, <1>1, <1>4 DEF Cancel, IInv, Holding
  <2> QED BY <1>0, <2>1, SendsRollback
<1>5. ASSUME NEW t \in Txs, TimerFires(t) PROVE Simulates
  <2>1. /\ closed[t] = {} /\ pc[t] # "new" /\ Handle(t) = "main"
        /\ SendRollback(t, "main", FALSE)
    BY <1>0, <1>5 DEF TimerFires, TimerRunning, SafeUse, IInv, Holding, Handle
  <2> QED BY <1>0, <2>1, SendsRollback
<1>6. ASSUME NEW c \in Clients, CommitRefused(c) PROVE Simulates
  <2>1. Destroy(c) /\ PerhapsCommitted(c) /\ UNCHANGED <<callVars, wrote>>
    BY <1>6 DEF CommitRefused, PerhapsCommitted
  <2> QED BY <1>0, <2>1, DestroySimulates
<1>7. ASSUME NEW c \in Clients, Disconnect(c) \/ RollbackTimeout(c) PROVE Simulates
  <2>1. Destroy(c) /\ PerhapsCommitted(c) /\ UNCHANGED <<callVars, wrote>>
    BY <1>7 DEF Disconnect, RollbackTimeout
  <2> QED BY <1>0, <2>1, DestroySimulates
<1>8. CASE UNCHANGED vars
  <2>1. NoneSent
    BY <1>8 DEF NoneSent, vars
  <2> QED BY <1>0, <1>8, <2>1, QuietSimulates DEF vars, callVars, serverVars
<1>9. ASSUME NEW t \in Txs, NEW c \in Clients, Connect(t, c) PROVE Simulates
  BY <1>0, <1>9, ConnectSimulates
<1>10. ASSUME NEW t \in Txs, Callback(t) PROVE Simulates
  BY <1>0, <1>3, <1>10, ExecuteSimulates, EndSimulates, ThrowSimulates DEF Callback
<1>11. ASSUME NEW c \in Clients, Serve(c) PROVE Simulates
  BY <1>0, <1>6, <1>11, StartSimulates, StatementSimulates, FailureSimulates,
     CommitSimulates, RollbackSimulates DEF Serve
<1> QED
  BY <1>2, <1>4, <1>5, <1>7, <1>8, <1>9, <1>10, <1>11 DEF Next

LEMMA InitSimulates == Init => RInv /\ Atomic!Init
<1> SUFFICES ASSUME Init PROVE RInv /\ Atomic!Init
  OBVIOUS
<1>1. IInv
  BY InitInv
<1>2. Kept
  BY NoPoolTx DEF Init, Kept, Fresh, Undecided, Written, CommitWaits, AbortedEnds,
                  CheckedOut, PoolStates, NoSession, Session
<1>3. \A t : Stage(t) = "active"
  <2>1. \A t : t \notin durable /\ t \notin wrote /\ ~InSession(t)
    BY DEF Init, InSession, NoSession, Session
  <2> QED BY <2>1, StageIs
<1>4. Atomic!Init
  BY <1>3 DEF Init, Atomic!Init
<1> QED BY <1>1, <1>2, <1>4 DEF RInv

\* Whatever connections break, commits are refused, timers fire or third
\* parties roll back: createTransaction keeps what AtomicTx promises, provided
\* the features are combined as SafeUse says and no callback swallows a failure.
THEOREM ImplementsAtomicTx == SafeUse /\ Lenient = {} => (Spec => AtomicSpec)
<1> SUFFICES ASSUME SafeUse, Lenient = {} PROVE Spec => AtomicSpec
  OBVIOUS
<1>1. RInv /\ [Next]_vars => RInv' /\ [Atomic!Next]_(Atomic!vars)
  BY StepSimulates DEF Simulates
<1> QED
  BY <1>1, InitSimulates, PTL DEF Spec, AtomicSpec, Atomic!Spec
=============================================================================
