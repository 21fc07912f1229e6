------------------------------ MODULE Request ------------------------------
(***************************************************************************)
(* The life of an OData request (src/sbvr-api/sbvr-utils.ts): the parts of *)
(* a batch one after another, each in a transaction of its own; change     *)
(* sets; actions (actions.ts); side-effect hooks and their rollback        *)
(* functions (hooks.ts); and tryCancelRequest, run whenever the connection *)
(* of the client closes, also after the response.                          *)
(*                                                                         *)
(* A transaction is what Tx provides: 'rollback' listeners run once it is  *)
(* rolled back, and none when its COMMIT fails, whether or not the server  *)
(* has committed it before the answer was lost.  <<p, n>> is the n-th      *)
(* request of part p, and the side-effect hook it may have; <<0, 0>>       *)
(* stands for the hooks of the whole request (reqHooks).                   *)
(***************************************************************************)
EXTENDS Naturals, Sequences

CONSTANTS
  Requests,    \* the requests that may arrive
  MaxEffects,  \* bound: rollback functions a hook registers
  MaxFaults,   \* bound: connections and commits that fail, timeouts
  NoTx         \* no transaction

\* "api": an internal request (runURI), never a batch and without headers;
\* "tx": one that passes a transaction as well.
Callers == {"client", "api", "tx"}
Kinds == {"single", "changeset", "action"}

ASSUME RequestAssumption ==
  /\ Requests \subseteq [caller : Callers, kinds : Seq(Kinds) \ {<<>>}, goOn : BOOLEAN]
  /\ \A r \in Requests :
       r.caller # "client" => ~r.goOn /\ r.kinds \in {<<"single">>, <<"action">>}
  /\ MaxEffects \in Nat /\ MaxFaults \in Nat /\ NoTx \notin Nat

VARIABLES
  request,      \* the one that arrived; goOn is odata.continue-on-error
  at,           \* where runODataRequest is
  part, sub,    \* the request it is at
  current,      \* the transaction of this part, if it has begun
  reqTx,        \* req.tx
  tx,           \* stage of each transaction; 0 is the one that was passed
  transactions, \* those tryCancelRequest rolls back
  listening,    \* hooks that the 'rollback' listeners of each roll back
  hook,         \* the side-effect hooks
  stray,        \* hooks that still run although their request has failed
  written,      \* requests whose query ran
  outcome,      \* what each part resolved to
  cutOff,       \* transactions that were open when the connection closed
  closes, faults

flowVars == <<request, at, part, sub, current, reqTx>>
txVars == <<tx, transactions, listening, written>>
hookVars == <<hook, stray>>
restVars == <<outcome, cutOff, closes, faults>>
vars == <<flowVars, txVars, hookVars, restVars>>
-----------------------------------------------------------------------------
Parts == 1..Len(request.kinds)
Kind(p) == request.kinds[p]
Subs(p) == IF Kind(p) = "changeset" THEN 1..2 ELSE 1..1
Hooks(p) == {<<p, n>> : n \in Subs(p)}
ReqHooks == <<0, 0>>
Here == IF at = "preparse" THEN ReqHooks ELSE <<part, sub>>

\* made: side effects, each with its rollback function; fns: the functions in
\* rollbackFns; asked: somebody called rollbackRequestHooks, which rolls the
\* hooks of a request back one after another; undone: functions called.
HookStates == [made : Nat, fns : Nat, asked : BOOLEAN, rolledBack : BOOLEAN, undone : Nat]
NewHook == [made |-> 0, fns |-> 0, asked |-> FALSE, rolledBack |-> FALSE, undone |-> 0]
HookIds(r) == {h \in (0..Len(r.kinds)) \X (0..2) : h[1] = 0 <=> h[2] = 0}

\* rollbackRequestHooks
Asked(H) == [h \in DOMAIN hook |-> IF h \in H THEN [hook[h] EXCEPT !.asked = TRUE]
                                   ELSE hook[h]]

\* registerRollback: at once when the hook is rolled back already.
Registered(h) == IF h.rolledBack THEN [h EXCEPT !.made = @ + 1, !.undone = @ + 1]
                 ELSE [h EXCEPT !.made = @ + 1, !.fns = @ + 1]

\* SideEffectHook.rollback
RolledBack(h) == [h EXCEPT !.asked = FALSE, !.rolledBack = TRUE,
                           !.undone = IF h.rolledBack THEN @ ELSE @ + h.fns]
-----------------------------------------------------------------------------
\* After a COMMIT without an answer: "unheard", the server has committed; or
\* "lost", it has not.
TxStages == {"none", "open", "rollingBack", "rolledBack", "committing", "committed",
             "unheard", "lost"}

Init ==
  /\ request \in Requests
  /\ at = "preparse" /\ part = 1 /\ sub = 1
  /\ current = NoTx
  /\ reqTx = IF request.caller = "tx" THEN 0 ELSE NoTx
  /\ tx = [t \in 0..Len(request.kinds) |-> IF t = reqTx THEN "open" ELSE "none"]
  /\ transactions = {reqTx} \ {NoTx}
  /\ listening = [t \in DOMAIN tx |-> IF t = reqTx THEN {ReqHooks} ELSE {}]
  /\ hook = [h \in HookIds(request) |-> NewHook]
  /\ stray = {} /\ written = {}
  /\ outcome = [p \in Parts |-> "none"]
  /\ cutOff = {} /\ closes = 0 /\ faults = 0

\* The part is over.  mapTill stops at an error, settleMapSeries goes on.
Resolve(result) ==
  /\ outcome' = [outcome EXCEPT ![part] = result]
  /\ current' = NoTx /\ sub' = 1
  /\ IF part = Len(request.kinds) \/ (result = "error" /\ ~request.goOn)
     THEN at' = "done" /\ UNCHANGED part
     ELSE at' = "parse" /\ part' = part + 1
  /\ UNCHANGED request

\* runHooks runs the hooks of a phase at once: when one of them throws the
\* others go on.
MayStray == stray' \in {stray, stray \cup {Here}}

\* A hook that runs has a side effect and registers what undoes it.
HasEffect(h) ==
  /\ \/ h = Here /\ at \in {"preparse", "prepare", "prerun", "postrun"}
     \/ h \in stray
  /\ hook[h].made < MaxEffects
  /\ hook' = [hook EXCEPT ![h] = Registered(@)]
  /\ UNCHANGED <<flowVars, txVars, stray, restVars>>

\* The PREPARSE hooks are over; when one throws the whole request fails.
PreParsed ==
  /\ at = "preparse"
  /\ \/ at' = "parse" /\ UNCHANGED stray
     \/ at' = "done" /\ MayStray
  /\ UNCHANGED <<request, part, sub, current, reqTx, txVars, hook, restVars>>

Parse ==
  /\ at = "parse"
  /\ at' = IF Kind(part) = "action" THEN "begin" ELSE "prepare"
  /\ UNCHANGED <<request, part, sub, current, reqTx, txVars, hookVars, restVars>>

ParseFails ==
  /\ at = "parse"
  /\ Resolve("error")
  /\ UNCHANGED <<reqTx, txVars, hookVars, cutOff, closes, faults>>

Last == \A n \in Subs(part) : n <= sub

\* prepareRequest, with the POSTPARSE hooks: all the requests of a change set
\* are prepared before its transaction begins.
Prepare ==
  /\ at = "prepare"
  /\ IF Last THEN sub' = 1 /\ at' = "begin" ELSE sub' = sub + 1 /\ UNCHANGED at
  /\ UNCHANGED <<request, part, current, reqTx, txVars, hookVars, restVars>>

\* The hooks of this request are rolled back, and those of all requests.
PrepareFails ==
  /\ at = "prepare"
  /\ hook' = Asked({ReqHooks, Here})
  /\ MayStray
  /\ Resolve("error")
  /\ UNCHANGED <<reqTx, txVars, cutOff, closes, faults>>
-----------------------------------------------------------------------------
\* Fault: the transaction is listed only once its first request has run.
NotListed(t) ==
  /\ listening' = [listening EXCEPT ![t] = @ \cup Hooks(part) \cup {ReqHooks}]
  /\ UNCHANGED <<transactions, hook>>

\* What runODataRequest does first in a transaction.  The listener of one
\* that is rolled back already runs at once; that of one that has ended never.
Enter(t) ==
  LET H == Hooks(part) \cup {ReqHooks}
  IN /\ transactions' = transactions \cup {t}
     /\ IF tx[t] = "rolledBack" THEN hook' = Asked(H) /\ UNCHANGED listening
        ELSE listening' = [listening EXCEPT ![t] = @ \cup H] /\ UNCHANGED hook

\* runTransaction and runAction: in req.tx when there is one, which may be
\* that of an action earlier in the batch, or in a transaction of its own.
Begin ==
  LET own == reqTx = NoTx
      t == IF own THEN part ELSE reqTx
  IN /\ at = "begin"
     /\ current' = t
     /\ tx' = IF own THEN [tx EXCEPT ![t] = "open"] ELSE tx
     /\ IF Kind(part) = "action"
        THEN /\ at' = "action" /\ reqTx' = t
             /\ UNCHANGED <<transactions, listening, hook>>
        ELSE at' = "prerun" /\ UNCHANGED reqTx /\ Enter(t)
     /\ UNCHANGED <<request, part, sub, written, stray, restVars>>

BeginFails ==
  /\ at = "begin" /\ reqTx = NoTx
  /\ faults < MaxFaults
  /\ Resolve("error")
  /\ faults' = faults + 1
  /\ UNCHANGED <<reqTx, txVars, hookVars, cutOff, closes>>

\* The PRERUN hooks are over and the query runs.  A closed Tx rejects it.
Query ==
  /\ at \in {"prerun", "action"}
  /\ tx[current] = "open"
  /\ written' = written \cup {<<part, sub>>}
  /\ at' = IF at = "action" THEN "end" ELSE "postrun"
  /\ UNCHANGED <<request, part, sub, current, reqTx, tx, transactions, listening,
                 hookVars, restVars>>

\* The POSTRUN and PRERESPOND hooks are over.
Respond ==
  /\ at = "postrun"
  /\ IF Last THEN at' = "end" /\ UNCHANGED sub ELSE at' = "prerun" /\ sub' = sub + 1
  /\ UNCHANGED <<request, part, current, reqTx, txVars, hookVars, restVars>>

\* The callback throws: createTransaction rolls back a transaction of its own
\* that is open, and waits for that.
Unwind ==
  IF current = part /\ tx[current] = "open"
  THEN /\ tx' = [tx EXCEPT ![current] = "rollingBack"]
       /\ at' = "rollback"
       /\ UNCHANGED <<request, part, sub, current, outcome>>
  ELSE Resolve("error") /\ UNCHANGED tx

\* Fault: the change set goes on with the next request after an error.
SkipsToNext ==
  /\ at \in {"prerun", "postrun", "action"}
  /\ MayStray
  /\ IF Last THEN Unwind
     ELSE sub' = sub + 1 /\ at' = "prerun" /\ UNCHANGED <<request, part, current, tx, outcome>>
  /\ UNCHANGED <<reqTx, transactions, listening, written, hook, cutOff, closes, faults>>

\* A hook or a query of runRequest fails, or the action does.  What the
\* POSTRUN-ERROR hooks do before that counts as an effect of the phase.
RunFails ==
  /\ at \in {"prerun", "postrun", "action"}
  /\ MayStray
  /\ Unwind
  /\ UNCHANGED <<reqTx, transactions, listening, written, hook, cutOff, closes, faults>>

\* Fault: the part resolves before its transaction has ended.
AnsweredEarly ==
  /\ at = "end"
  /\ tx' = IF tx[part] = "open" THEN [tx EXCEPT ![part] = "committing"] ELSE tx
  /\ Resolve("ok")
  /\ UNCHANGED <<reqTx, transactions, listening, written, hookVars, cutOff, closes, faults>>

\* The callback returns: tx.end(), unless the transaction is somebody else's.
End ==
  /\ at = "end"
  /\ IF current # part THEN Resolve("ok") /\ UNCHANGED tx
     ELSE IF tx[part] # "open" THEN Resolve("error") /\ UNCHANGED tx
     ELSE /\ tx' = [tx EXCEPT ![part] = "committing"]
          /\ at' = "commit"
          /\ UNCHANGED <<request, part, sub, current, outcome>>
  /\ UNCHANGED <<reqTx, transactions, listening, written, hookVars, cutOff, closes, faults>>

Commits ==
  /\ at = "commit"
  /\ tx' = [tx EXCEPT ![part] = "committed"]
  /\ Resolve("ok")
  /\ UNCHANGED <<reqTx, transactions, listening, written, hookVars, cutOff, closes, faults>>

\* COMMIT is refused, or its answer is lost: the callback throws either way.
CommitFails ==
  /\ at = "commit"
  /\ faults < MaxFaults
  /\ \E stage \in {"unheard", "lost"} : tx' = [tx EXCEPT ![part] = stage]
  /\ Resolve("error")
  /\ faults' = faults + 1
  /\ UNCHANGED <<reqTx, transactions, listening, written, hookVars, cutOff, closes>>

\* A transaction of the request is rolled back for its timeout.
TimesOut(t) ==
  /\ t # 0 /\ tx[t] = "open"
  /\ faults < MaxFaults
  /\ tx' = [tx EXCEPT ![t] = "rollingBack"]
  /\ faults' = faults + 1
  /\ UNCHANGED <<flowVars, transactions, listening, written, hookVars,
                 outcome, cutOff, closes>>

\* ROLLBACK is answered, or given up: the 'rollback' listeners run.
RollsBack(t) ==
  /\ tx[t] = "rollingBack"
  /\ tx' = [tx EXCEPT ![t] = "rolledBack"]
  /\ hook' = Asked(listening[t])
  /\ transactions' = IF t = 0 THEN {} ELSE transactions
  /\ IF at = "rollback" /\ t = part THEN Resolve("error")
     ELSE UNCHANGED <<request, at, part, sub, current, outcome>>
  /\ UNCHANGED <<reqTx, listening, written, stray, cutOff, closes, faults>>
-----------------------------------------------------------------------------
\* Open when the connection closes, with a part that is no action in it.
CutOff == {p \in Parts : Kind(p) # "action" /\ tx[p] = "open"}

\* Fault: the hooks of the part are rolled back whatever became of it.
CloseUndoesAll ==
  /\ request.caller = "client"
  /\ closes < 2
  /\ tx' = [t \in DOMAIN tx |-> IF t \in transactions /\ tx[t] = "open"
                                THEN "rollingBack" ELSE tx[t]]
  /\ transactions' = {}
  /\ hook' = Asked(UNION {listening[t] : t \in transactions} \cup {ReqHooks})
  /\ cutOff' = cutOff \cup CutOff
  /\ closes' = closes + 1
  /\ UNCHANGED <<flowVars, listening, written, stray, outcome, faults>>

\* 'close' of the request or of the response: tryCancelRequest.
Close ==
  /\ request.caller = "client"
  /\ closes < 2
  /\ tx' = [t \in DOMAIN tx |-> IF t \in transactions /\ tx[t] = "open"
                                THEN "rollingBack" ELSE tx[t]]
  /\ transactions' = {}
  /\ hook' = Asked({ReqHooks})
  /\ cutOff' = cutOff \cup CutOff
  /\ closes' = closes + 1
  /\ UNCHANGED <<flowVars, listening, written, stray, outcome, faults>>

\* The owner of the transaction that was passed rolls it back at any time,
\* or commits it after the request.
OwnerEnds ==
  /\ tx[0] = "open"
  /\ \/ tx' = [tx EXCEPT ![0] = "rollingBack"]
     \/ at = "done" /\ tx' = [tx EXCEPT ![0] = "committed"]
  /\ UNCHANGED <<flowVars, transactions, listening, written, hookVars, restVars>>

\* The hooks of a request are rolled back one after another, so that of one
\* may come a while after it was asked for.  The functions of one hook are
\* called in a row.
RollbackHook(h) ==
  /\ hook[h].asked
  /\ hook' = [hook EXCEPT ![h] = RolledBack(@)]
  /\ UNCHANGED <<flowVars, txVars, stray, restVars>>
-----------------------------------------------------------------------------
Flow == \/ PreParsed \/ Parse \/ ParseFails \/ Prepare \/ PrepareFails
        \/ Begin \/ BeginFails \/ Query \/ Respond \/ RunFails
        \/ End \/ Commits \/ CommitFails

Next == \/ Flow \/ Close \/ OwnerEnds
        \/ \E t \in DOMAIN tx : TimesOut(t) \/ RollsBack(t)
        \/ \E h \in DOMAIN hook : HasEffect(h) \/ RollbackHook(h)

Spec == Init /\ [][Next]_vars

(***************************************************************************)
(* Hooks settle, the database answers (or is given up, as in Tx), and      *)
(* rollback functions settle.  One request has finitely many of each, so   *)
(* fairness to all of them together is fairness to each.                   *)
(***************************************************************************)
FairSpec ==
  /\ Spec
  /\ WF_vars(Flow)
  /\ WF_vars(\E t \in DOMAIN tx : RollsBack(t))
  /\ WF_vars(\E h \in DOMAIN hook : RollbackHook(h))
-----------------------------------------------------------------------------
TypeOK ==
  /\ request \in Requests
  /\ at \in {"preparse", "parse", "prepare", "begin", "prerun", "postrun", "action",
            "end", "commit", "rollback", "done"}
  /\ part \in Parts /\ sub \in Subs(part)
  /\ {current, reqTx} \subseteq DOMAIN tx \cup {NoTx}
  /\ tx \in [0..Len(request.kinds) -> TxStages]
  /\ transactions \subseteq DOMAIN tx /\ cutOff \subseteq Parts
  /\ listening \in [DOMAIN tx -> SUBSET HookIds(request)]
  /\ DOMAIN hook = HookIds(request) /\ \A h \in DOMAIN hook : hook[h] \in HookStates
  /\ {stray, written} \subseteq SUBSET DOMAIN hook
  /\ outcome \in [Parts -> {"none", "ok", "error"}]
  /\ closes \in 0..2 /\ faults \in 0..MaxFaults

Undone(h) == hook[h].undone = hook[h].made

\* The transaction that is to hold what a part writes.
Of(p) == IF request.caller = "tx" THEN 0 ELSE p

\* The rollback functions of a hook are called at most once each, although
\* the close of the request, that of the response, a request that fails to
\* prepare and the 'rollback' of a transaction all ask for them; and never for
\* a part that succeeded and whose transaction committed.
UndoneRightly ==
  /\ \A h \in DOMAIN hook : hook[h].undone <= hook[h].made
  /\ \A p \in Parts :
       outcome[p] = "ok" /\ tx[Of(p)] = "committed"
         => \A h \in Hooks(p) : ~hook[h].asked /\ hook[h].undone = 0

\* A change set is committed as a whole or not at all, whichever of its
\* requests fails, whenever the client goes away, and also when nobody hears
\* that it was.
PartIsAtomic ==
  \A p \in Parts : tx[p] \in {"committed", "unheard"} => Hooks(p) \subseteq written

\* What a client is told of a part in a transaction of its own is true: of a
\* success, that the transaction has committed; of an error, that it is over
\* and has not, or that the answer to its COMMIT was lost, so that nobody knows.
AnswerIsTrue ==
  \A p \in Parts : Of(p) = p =>
    /\ outcome[p] = "ok" => tx[p] = "committed"
    /\ outcome[p] = "error" => tx[p] \notin {"open", "committing", "committed"}

\* A client that goes away while a part runs leaves nothing of it: the
\* transaction is rolled back.  And once a transaction is, for whatever reason,
\* each side effect of the requests in it is undone, also that of a hook that
\* was still running.
CancelIsComplete ==
  /\ []<>(\A p \in cutOff : tx[p] = "rolledBack" /\ \A h \in Hooks(p) : Undone(h))
  /\ []<>(\A t \in DOMAIN tx : tx[t] = "rolledBack" => \A h \in listening[t] : Undone(h))
=============================================================================
