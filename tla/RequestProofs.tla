---------------------------- MODULE RequestProofs ----------------------------
(***************************************************************************)
(* Proofs about Request, for a batch of any number of parts, any number of *)
(* side effects and any moment of a close: what a part resolves to is what *)
(* became of its transaction, and its hooks are rolled back only for a     *)
(* part that has failed.                                                   *)
(***************************************************************************)
EXTENDS Request, TLAPS

\* Nothing has become of the parts to come, nor of this one before it begins.
Ahead ==
  /\ at # "done" => outcome[part] = "none"
  /\ \A p \in Parts : p > part => outcome[p] = "none" /\ tx[p] = "none"
  /\ at \in {"preparse", "parse", "prepare", "begin"} => tx[part] = "none"
  /\ at \in {"preparse", "parse", "begin"} => sub = 1

\* The transaction that a part runs in: its own, or req.tx; and that of an
\* action earlier in the batch is over.
Runs == {"prerun", "postrun", "action", "end", "commit", "rollback"}
Theirs ==
  /\ request.caller = "tx" => reqTx = 0
  /\ request.caller # "tx" /\ reqTx # NoTx =>
       /\ reqTx \in Parts
       /\ outcome[reqTx] # "none" \/ (reqTx = part /\ at \in Runs)
  /\ at \in Runs => current # NoTx /\ current \in {part, reqTx}
  /\ request.caller # "tx" /\ at \in {"postrun", "end"} => current = part
  /\ at \in {"commit", "rollback"} => current = part
  /\ at = "commit" => tx[part] = "committing"
  /\ at = "rollback" => tx[part] = "rollingBack"
  /\ at # "done" /\ tx[part] # "none" => current = part

\* What a part resolves to is what became of its transaction.
Settled ==
  \A p \in Parts :
    /\ outcome[p] # "none" => tx[p] # "open"
    /\ tx[p] = "committing" => p = part /\ at = "commit"
    /\ tx[p] = "committed" => outcome[p] = "ok"
    /\ outcome[p] = "ok" /\ request.caller # "tx" => tx[p] = "committed"

\* The requests of a part are written one after another.
Writes ==
  /\ at = "prerun" => \A n \in Subs(part) : n < sub => <<part, n>> \in written
  /\ at = "postrun" => \A n \in Subs(part) : n <= sub => <<part, n>> \in written
  /\ at \in {"end", "commit"} => Hooks(part) \subseteq written
  /\ at = "action" => Kind(part) = "action" /\ sub = 1
  /\ PartIsAtomic

\* The part has no transaction, and will have none.
Without(p) == request.caller # "tx" /\ tx[p] = "none" /\ reqTx # NoTx

\* Only the hooks of parts that have failed are rolled back.
Blames ==
  /\ \A p \in Parts : \A h \in Hooks(p) :
       hook[h].asked \/ hook[h].rolledBack =>
         outcome[p] = "error" \/ tx[Of(p)] = "rolledBack" \/ Without(p)
  /\ \A t \in DOMAIN tx : \A p \in Parts : \A h \in Hooks(p) :
       h \in listening[t] => t = Of(p) \/ Without(p)

\* A hook that is rolled back has all of its functions called.
Counts ==
  \A h \in DOMAIN hook :
    /\ hook[h].undone = IF hook[h].rolledBack THEN hook[h].made ELSE 0
    /\ ~hook[h].rolledBack => hook[h].fns = hook[h].made

IInv == TypeOK /\ Ahead /\ Theirs /\ Settled /\ Writes /\ Blames /\ Counts
-----------------------------------------------------------------------------
\* What the assumption on the requests says of the one that arrived.
LEMMA Shape ==
  ASSUME TypeOK
  PROVE  /\ Len(request.kinds) \in Nat /\ Len(request.kinds) >= 1
         /\ Parts \subseteq Nat \ {0} /\ NoTx \notin Nat
         /\ request.caller \in Callers /\ request.goOn \in BOOLEAN
         /\ \A p \in Parts : Kind(p) \in Kinds
         /\ request.caller # "client" => Len(request.kinds) = 1
         /\ DOMAIN tx = 0..Len(request.kinds)
  BY RequestAssumption DEF TypeOK, Parts, Kind

\* What rollbackRequestHooks, and the functions of a hook, come to.
LEMMA AskedDoes ==
  ASSUME TypeOK, NEW G
  PROVE  /\ DOMAIN Asked(G) = DOMAIN hook
         /\ \A h \in DOMAIN hook :
              /\ Asked(G)[h] \in HookStates
              /\ Asked(G)[h].asked = (h \in G \/ hook[h].asked)
              /\ Asked(G)[h].made = hook[h].made /\ Asked(G)[h].fns = hook[h].fns
              /\ Asked(G)[h].rolledBack = hook[h].rolledBack
              /\ Asked(G)[h].undone = hook[h].undone
<1> SUFFICES ASSUME NEW h \in DOMAIN hook
             PROVE  /\ Asked(G)[h] \in HookStates
                    /\ Asked(G)[h].asked = (h \in G \/ hook[h].asked)
                    /\ Asked(G)[h].made = hook[h].made /\ Asked(G)[h].fns = hook[h].fns
                    /\ Asked(G)[h].rolledBack = hook[h].rolledBack
                    /\ Asked(G)[h].undone = hook[h].undone
  BY DEF Asked
<1>1. hook[h] \in HookStates
  BY DEF TypeOK
<1>2. CASE h \in G
  <2>1. Asked(G)[h] = [hook[h] EXCEPT !.asked = TRUE]
    BY <1>2 DEF Asked
  <2> QED BY <1>1, <1>2, <2>1 DEF HookStates
<1>3. CASE h \notin G
  <2>1. Asked(G)[h] = hook[h]
    BY <1>3 DEF Asked
  <2> QED BY <1>1, <1>3, <2>1 DEF HookStates
<1> QED BY <1>2, <1>3

\* What registering a function does to a hook.
LEMMA RegisteredDoes ==
  ASSUME NEW k \in HookStates
  PROVE  /\ Registered(k) \in HookStates /\ Registered(k).made = k.made + 1
         /\ Registered(k).asked = k.asked /\ Registered(k).rolledBack = k.rolledBack
         /\ Registered(k).undone = IF k.rolledBack THEN k.undone + 1 ELSE k.undone
         /\ Registered(k).fns = IF k.rolledBack THEN k.fns ELSE k.fns + 1
<1>0. /\ k.made \in Nat /\ k.fns \in Nat /\ k.undone \in Nat
      /\ k.made + 1 \in Nat /\ k.fns + 1 \in Nat /\ k.undone + 1 \in Nat
      /\ k.asked \in BOOLEAN /\ k.rolledBack \in BOOLEAN
  BY DEF HookStates
<1>1. CASE k.rolledBack
  <2>1. Registered(k) = [k EXCEPT !.made = k.made + 1, !.undone = k.undone + 1]
    BY <1>1 DEF Registered
  <2> QED BY <1>0, <1>1, <2>1 DEF HookStates
<1>2. CASE ~k.rolledBack
  <2>1. Registered(k) = [k EXCEPT !.made = k.made + 1, !.fns = k.fns + 1]
    BY <1>2 DEF Registered
  <2> QED BY <1>0, <1>2, <2>1 DEF HookStates
<1> QED BY <1>1, <1>2

\* What the rollback of a hook does to it.
LEMMA RolledBackDoes ==
  ASSUME NEW k \in HookStates
  PROVE  /\ RolledBack(k) \in HookStates /\ RolledBack(k).made = k.made
         /\ RolledBack(k).fns = k.fns
         /\ RolledBack(k).asked = FALSE /\ RolledBack(k).rolledBack = TRUE
         /\ RolledBack(k).undone = IF k.rolledBack THEN k.undone ELSE k.undone + k.fns
<1>0. /\ k.made \in Nat /\ k.fns \in Nat /\ k.undone \in Nat
      /\ k.undone + k.fns \in Nat
      /\ k.asked \in BOOLEAN /\ k.rolledBack \in BOOLEAN
  BY DEF HookStates
<1>1. CASE k.rolledBack
  <2>1. RolledBack(k) = [k EXCEPT !.asked = FALSE, !.rolledBack = TRUE]
    BY <1>1 DEF RolledBack, HookStates
  <2> QED BY <1>0, <1>1, <2>1 DEF HookStates
<1>2. CASE ~k.rolledBack
  <2>1. RolledBack(k) = [k EXCEPT !.asked = FALSE, !.rolledBack = TRUE,
                                  !.undone = k.undone + k.fns]
    BY <1>2 DEF RolledBack
  <2> QED BY <1>0, <1>2, <2>1 DEF HookStates
<1> QED BY <1>1, <1>2

\* A part that is over: the next one, or the end.
LEMMA ResolveDoes ==
  ASSUME TypeOK, NEW result \in {"ok", "error"}, Resolve(result)
  PROVE  /\ outcome' = [outcome EXCEPT ![part] = result]
         /\ request' = request /\ current' = NoTx /\ sub' = 1
         /\ \/ at' = "done" /\ part' = part
            \/ at' = "parse" /\ part' = part + 1 /\ part' \in Parts
  BY Shape DEF Resolve, TypeOK, Parts

\* A request fails while its transaction is open, or has none that it may end.
LEMMA UnwindDoes ==
  ASSUME TypeOK, Ahead, Theirs, at \in Runs, Unwind
  PROVE  \/ /\ current = part /\ tx[part] = "open" /\ at' = "rollback"
            /\ tx' = [tx EXCEPT ![part] = "rollingBack"]
            /\ UNCHANGED <<request, part, sub, current, outcome>>
         \/ Resolve("error") /\ tx' = tx /\ tx[part] # "open"
  BY DEF Unwind, Theirs, Runs

\* The part after one that is over has not begun.
LEMMA ResolvesAhead ==
  ASSUME TypeOK, Ahead, NEW result \in {"ok", "error"}, Resolve(result),
         \A p \in Parts : p > part => tx'[p] = tx[p]
  PROVE  Ahead'
<1>1. /\ Parts' = Parts /\ part \in Parts /\ Parts \subseteq Nat
      /\ DOMAIN outcome = Parts
  BY ResolveDoes, Shape DEF TypeOK, Parts
<1>2. \A p \in Parts : p # part => outcome'[p] = outcome[p]
  BY <1>1, ResolveDoes
<1>3. CASE at' = "done" /\ part' = part
  BY <1>1, <1>2, <1>3 DEF Ahead
<1>4. CASE at' = "parse" /\ part' = part + 1 /\ part' \in Parts
  BY <1>1, <1>2, <1>4, ResolveDoes DEF Ahead
<1> QED BY <1>3, <1>4, ResolveDoes

\* The hooks of the parts are hooks of the request.
LEMMA HooksOfParts ==
  ASSUME TypeOK PROVE \A p \in Parts : Hooks(p) \subseteq DOMAIN hook
<1> SUFFICES ASSUME NEW p \in Parts, NEW h \in Hooks(p) PROVE h \in HookIds(request)
  BY DEF TypeOK
<1>1. PICK n \in Subs(p) : h = <<p, n>>
  BY DEF Hooks
<1>2. n \in 1..2 /\ p \in 0..Len(request.kinds) /\ p # 0
  BY Shape DEF Subs, Parts
<1> QED BY <1>1, <1>2 DEF HookIds

\* The parts are run in order: what is to come has not begun, and a part has no
\* transaction before runTransaction.
LEMMA AheadStep ==
  ASSUME TypeOK, Ahead, Theirs, [Next]_vars
  PROVE  Ahead'
<1>1. ASSUME RunFails PROVE Ahead'
  <2>1. CASE /\ current = part /\ tx[part] = "open" /\ at' = "rollback"
             /\ tx' = [tx EXCEPT ![part] = "rollingBack"]
             /\ UNCHANGED <<request, part, sub, current, outcome>>
    <3>1. \A p \in Parts : p > part => tx'[p] = tx[p]
      BY <2>1, Shape DEF TypeOK
    <3>2. at # "done"
      BY <1>1 DEF RunFails
    <3> QED BY <2>1, <3>1, <3>2 DEF Ahead, Parts
  <2>2. CASE Resolve("error") /\ tx' = tx
    BY <2>2, ResolvesAhead
  <2>3. at \in Runs
    BY <1>1 DEF RunFails, Runs
  <2> QED BY <1>1, <2>1, <2>2, <2>3, UnwindDoes DEF RunFails
<1>2. ASSUME End PROVE Ahead'
  <2>1. CASE \E result \in {"ok", "error"} : Resolve(result) /\ tx' = tx
    BY <2>1, ResolvesAhead
  <2>2. CASE /\ tx' = [tx EXCEPT ![part] = "committing"] /\ at' = "commit"
             /\ UNCHANGED <<request, part, sub, current, outcome>>
    <3>1. \A p \in Parts : p > part => tx'[p] = tx[p]
      BY <2>2, Shape DEF TypeOK
    <3> QED BY <1>2, <2>2, <3>1 DEF End, Ahead, Parts
  <2> QED BY <1>2, <2>1, <2>2 DEF End
<1>3. ASSUME NEW t \in DOMAIN tx, RollsBack(t) PROVE Ahead'
  <2>1. tx' = [tx EXCEPT ![t] = "rolledBack"] /\ tx[t] # "none"
    BY <1>3 DEF RollsBack
  <2>2. \A p \in Parts : p > part => tx'[p] = tx[p]
    BY <2>1, Shape DEF TypeOK, Ahead
  <2>3. CASE Resolve("error")
    BY <2>2, <2>3, ResolvesAhead
  <2>4. CASE UNCHANGED <<request, at, part, sub, current, outcome>>
    BY <2>1, <2>2, <2>4, Shape DEF Ahead, Parts, TypeOK
  <2> QED BY <1>3, <2>3, <2>4 DEF RollsBack
<1> USE RequestAssumption DEF TypeOK, Ahead, Theirs, Runs, TxStages, Parts,
      Kind, Subs, Hooks, Here, ReqHooks, txVars, hookVars, restVars, flowVars
<1>4. ASSUME PreParsed PROVE Ahead'
  BY <1>4, Shape DEF PreParsed, MayStray
<1>5. ASSUME Parse PROVE Ahead'
  BY <1>5, Shape DEF Parse
<1>6. ASSUME ParseFails PROVE Ahead'
  BY <1>6, Shape DEF ParseFails, Resolve
<1>7. ASSUME Prepare PROVE Ahead'
  BY <1>7, Shape DEF Prepare, Last
<1>8. ASSUME PrepareFails PROVE Ahead'
  BY <1>8, Shape DEF PrepareFails, Resolve, MayStray, Asked
<1>9. ASSUME Begin PROVE Ahead'
  BY <1>9, Shape DEF Begin, Enter, Asked
<1>10. ASSUME BeginFails PROVE Ahead'
  BY <1>10, Shape DEF BeginFails, Resolve
<1>11. ASSUME Query PROVE Ahead'
  BY <1>11, Shape DEF Query
<1>12. ASSUME Respond PROVE Ahead'
  BY <1>12, Shape DEF Respond, Last
<1>13. ASSUME Commits PROVE Ahead'
  BY <1>13, Shape DEF Commits, Resolve
<1>14. ASSUME CommitFails PROVE Ahead'
  BY <1>14, Shape DEF CommitFails, Resolve
<1>15. ASSUME Close PROVE Ahead'
  BY <1>15, Shape DEF Close, Asked, CutOff
<1>16. ASSUME OwnerEnds PROVE Ahead'
  BY <1>16, Shape DEF OwnerEnds
<1>17. ASSUME NEW t \in DOMAIN tx, TimesOut(t) PROVE Ahead'
  BY <1>17, Shape DEF TimesOut
<1>18. ASSUME NEW h \in DOMAIN hook, HasEffect(h) PROVE Ahead'
  BY <1>18, Shape DEF HasEffect, Registered
<1>19. ASSUME NEW h \in DOMAIN hook, RollbackHook(h) PROVE Ahead'
  BY <1>19, Shape DEF RollbackHook, RolledBack
<1>20. CASE UNCHANGED vars
  BY <1>20, Shape DEF vars
<1> QED BY <1>1, <1>2, <1>3, <1>4, <1>5, <1>6, <1>7, <1>8, <1>9, <1>10, <1>11,
      <1>12, <1>13, <1>14, <1>15, <1>16, <1>17, <1>18, <1>19, <1>20 DEF Next,
      Flow

\* Whose transaction a part runs in. Only the part that began a transaction
\* commits it or rolls it back.
LEMMA TheirsStep ==
  ASSUME TypeOK, Ahead, Theirs, Settled, [Next]_vars
  PROVE  Theirs'
<1>1. ASSUME PrepareFails PROVE Theirs'
  <2>1. Resolve("error") /\ tx' = tx /\ reqTx' = reqTx
    BY <1>1 DEF PrepareFails, txVars
  <2> QED BY <1>1, <2>1, Shape, ResolveDoes DEF PrepareFails, TypeOK, Ahead,
       Theirs, Runs, Parts
<1>2. ASSUME RunFails PROVE Theirs'
  <2>1. CASE /\ current = part /\ tx[part] = "open" /\ at' = "rollback"
             /\ tx' = [tx EXCEPT ![part] = "rollingBack"]
             /\ UNCHANGED <<request, part, sub, current, outcome>>
    BY <1>2, <2>1, Shape DEF RunFails, TypeOK, Ahead, Theirs, Settled, Runs,
         TxStages, Parts, Kind, Subs, Hooks, Here, ReqHooks, txVars, hookVars,
         restVars, flowVars
  <2>2. CASE Resolve("error") /\ tx' = tx /\ tx[part] # "open"
    BY <1>2, <2>2, Shape, ResolveDoes DEF RunFails, TypeOK, Ahead, Theirs,
         Settled, Runs, TxStages, Parts, Kind, Subs, Hooks, Here, ReqHooks,
         txVars, hookVars, restVars, flowVars
  <2>3. at \in Runs
    BY <1>2 DEF RunFails, Runs
  <2> QED BY <1>2, <2>1, <2>2, <2>3, UnwindDoes DEF RunFails
<1> USE RequestAssumption DEF TypeOK, Ahead, Theirs, Settled, Runs, TxStages,
      Parts, Kind, Subs, Hooks, Here, ReqHooks, txVars, hookVars, restVars,
      flowVars
<1>3. ASSUME PreParsed PROVE Theirs'
  BY <1>3, Shape DEF PreParsed, MayStray
<1>4. ASSUME Parse PROVE Theirs'
  BY <1>4, Shape DEF Parse
<1>5. ASSUME ParseFails PROVE Theirs'
  BY <1>5, Shape DEF ParseFails, Resolve
<1>6. ASSUME Prepare PROVE Theirs'
  BY <1>6, Shape DEF Prepare, Last
<1>7. ASSUME Begin PROVE Theirs'
  BY <1>7, Shape DEF Begin, Enter, Asked
<1>8. ASSUME BeginFails PROVE Theirs'
  BY <1>8, Shape DEF BeginFails, Resolve
<1>9. ASSUME Query PROVE Theirs'
  BY <1>9, Shape DEF Query
<1>10. ASSUME Respond PROVE Theirs'
  BY <1>10, Shape DEF Respond, Last
<1>11. ASSUME End PROVE Theirs'
  <2>1. CASE UNCHANGED tx
    BY <1>11, <2>1, Shape DEF End, Resolve
  <2>2. CASE current = part /\ tx[part] = "open"
    BY <1>11, <2>2, Shape DEF End
  <2> QED BY <1>11, <2>1, <2>2 DEF End
<1>12. ASSUME Commits PROVE Theirs'
  BY <1>12, Shape DEF Commits, Resolve
<1>13. ASSUME CommitFails PROVE Theirs'
  BY <1>13, Shape DEF CommitFails, Resolve
<1>14. ASSUME Close PROVE Theirs'
  BY <1>14, Shape DEF Close, Asked, CutOff
<1>15. ASSUME OwnerEnds PROVE Theirs'
  BY <1>15, Shape DEF OwnerEnds
<1>16. ASSUME NEW t \in DOMAIN tx, TimesOut(t) PROVE Theirs'
  BY <1>16, Shape DEF TimesOut
<1>17. ASSUME NEW t \in DOMAIN tx, RollsBack(t) PROVE Theirs'
  BY <1>17, Shape DEF RollsBack, Asked, Resolve
<1>18. ASSUME NEW h \in DOMAIN hook, HasEffect(h) PROVE Theirs'
  BY <1>18, Shape DEF HasEffect, Registered
<1>19. ASSUME NEW h \in DOMAIN hook, RollbackHook(h) PROVE Theirs'
  BY <1>19, Shape DEF RollbackHook, RolledBack
<1>20. CASE UNCHANGED vars
  BY <1>20, Shape DEF vars
<1> QED BY <1>1, <1>2, <1>3, <1>4, <1>5, <1>6, <1>7, <1>8, <1>9, <1>10, <1>11,
      <1>12, <1>13, <1>14, <1>15, <1>16, <1>17, <1>18, <1>19, <1>20 DEF Next,
      Flow

\* A part resolves only once its transaction has ended; and only a COMMIT that
\* was answered makes it a success.
LEMMA SettledStep ==
  ASSUME TypeOK, Ahead, Theirs, Settled, [Next]_vars
  PROVE  Settled'
<1> USE RequestAssumption DEF TypeOK, Ahead, Theirs, Settled, Runs, TxStages,
      Parts, Kind, Subs, Hooks, Here, ReqHooks, txVars, hookVars, restVars,
      flowVars
<1>1. ASSUME PreParsed PROVE Settled'
  BY <1>1, Shape DEF PreParsed, MayStray
<1>2. ASSUME Parse PROVE Settled'
  BY <1>2, Shape DEF Parse
<1>3. ASSUME ParseFails PROVE Settled'
  BY <1>3, Shape DEF ParseFails, Resolve
<1>4. ASSUME Prepare PROVE Settled'
  BY <1>4, Shape DEF Prepare, Last
<1>5. ASSUME PrepareFails PROVE Settled'
  BY <1>5, Shape DEF PrepareFails, Resolve, MayStray, Asked
<1>6. ASSUME Begin PROVE Settled'
  BY <1>6, Shape DEF Begin, Enter, Asked
<1>7. ASSUME BeginFails PROVE Settled'
  BY <1>7, Shape DEF BeginFails, Resolve
<1>8. ASSUME Query PROVE Settled'
  BY <1>8, Shape DEF Query
<1>9. ASSUME Respond PROVE Settled'
  BY <1>9, Shape DEF Respond, Last
<1>10. ASSUME RunFails PROVE Settled'
  BY <1>10, Shape DEF RunFails, Unwind, Resolve, MayStray
<1>11. ASSUME End PROVE Settled'
  BY <1>11, Shape DEF End, Resolve
<1>12. ASSUME Commits PROVE Settled'
  BY <1>12, Shape DEF Commits, Resolve
<1>13. ASSUME CommitFails PROVE Settled'
  BY <1>13, Shape DEF CommitFails, Resolve
<1>14. ASSUME Close PROVE Settled'
  BY <1>14, Shape DEF Close, Asked, CutOff
<1>15. ASSUME OwnerEnds PROVE Settled'
  BY <1>15, Shape DEF OwnerEnds
<1>16. ASSUME NEW t \in DOMAIN tx, TimesOut(t) PROVE Settled'
  BY <1>16, Shape DEF TimesOut
<1>17. ASSUME NEW t \in DOMAIN tx, RollsBack(t) PROVE Settled'
  BY <1>17, Shape DEF RollsBack, Asked, Resolve
<1>18. ASSUME NEW h \in DOMAIN hook, HasEffect(h) PROVE Settled'
  BY <1>18, Shape DEF HasEffect, Registered
<1>19. ASSUME NEW h \in DOMAIN hook, RollbackHook(h) PROVE Settled'
  BY <1>19, Shape DEF RollbackHook, RolledBack
<1>20. CASE UNCHANGED vars
  BY <1>20, Shape DEF vars
<1> QED BY <1>1, <1>2, <1>3, <1>4, <1>5, <1>6, <1>7, <1>8, <1>9, <1>10, <1>11,
      <1>12, <1>13, <1>14, <1>15, <1>16, <1>17, <1>18, <1>19, <1>20 DEF Next,
      Flow

\* A change set gets to its COMMIT only with all of its requests written.
LEMMA WritesStep ==
  ASSUME TypeOK, Ahead, Theirs, Settled, Writes, [Next]_vars
  PROVE  Writes'
<1>1. ASSUME Respond PROVE Writes'
  <2>1. CASE Last /\ at' = "end" /\ sub' = sub
    <3>1. \A n \in Subs(part) : <<part, n>> \in written
      BY <1>1, <2>1, Shape DEF Respond, Last, Writes, Subs
    <3> QED BY <1>1, <2>1, <3>1 DEF Respond, Writes, PartIsAtomic, txVars,
         restVars, Hooks, Subs, Kind, Parts
  <2>2. CASE at' = "prerun" /\ sub' = sub + 1
    BY <1>1, <2>2, Shape DEF Respond, TypeOK, Writes, PartIsAtomic, txVars,
         restVars, Hooks, Subs, Kind, Parts
  <2> QED BY <1>1, <2>1, <2>2 DEF Respond
<1> USE RequestAssumption DEF TypeOK, Ahead, Theirs, Settled, Writes,
      PartIsAtomic, Runs, TxStages, Parts, Kind, Subs, Hooks, Here, ReqHooks,
      txVars, hookVars, restVars, flowVars
<1>2. ASSUME PreParsed PROVE Writes'
  BY <1>2, Shape DEF PreParsed, MayStray
<1>3. ASSUME Parse PROVE Writes'
  BY <1>3, Shape DEF Parse
<1>4. ASSUME ParseFails PROVE Writes'
  BY <1>4, Shape DEF ParseFails, Resolve
<1>5. ASSUME Prepare PROVE Writes'
  BY <1>5, Shape DEF Prepare, Last
<1>6. ASSUME PrepareFails PROVE Writes'
  BY <1>6, Shape DEF PrepareFails, Resolve, MayStray, Asked
<1>7. ASSUME Begin PROVE Writes'
  BY <1>7, Shape DEF Begin, Enter, Asked
<1>8. ASSUME BeginFails PROVE Writes'
  BY <1>8, Shape DEF BeginFails, Resolve
<1>9. ASSUME Query PROVE Writes'
  BY <1>9, Shape DEF Query
<1>10. ASSUME RunFails PROVE Writes'
  BY <1>10, Shape DEF RunFails, Unwind, Resolve, MayStray
<1>11. ASSUME End PROVE Writes'
  BY <1>11, Shape DEF End, Resolve
<1>12. ASSUME Commits PROVE Writes'
  BY <1>12, Shape DEF Commits, Resolve
<1>13. ASSUME CommitFails PROVE Writes'
  BY <1>13, Shape DEF CommitFails, Resolve
<1>14. ASSUME Close PROVE Writes'
  BY <1>14, Shape DEF Close, Asked, CutOff
<1>15. ASSUME OwnerEnds PROVE Writes'
  BY <1>15, Shape DEF OwnerEnds
<1>16. ASSUME NEW t \in DOMAIN tx, TimesOut(t) PROVE Writes'
  BY <1>16, Shape DEF TimesOut
<1>17. ASSUME NEW t \in DOMAIN tx, RollsBack(t) PROVE Writes'
  BY <1>17, Shape DEF RollsBack, Asked, Resolve
<1>18. ASSUME NEW h \in DOMAIN hook, HasEffect(h) PROVE Writes'
  BY <1>18, Shape DEF HasEffect, Registered
<1>19. ASSUME NEW h \in DOMAIN hook, RollbackHook(h) PROVE Writes'
  BY <1>19, Shape DEF RollbackHook, RolledBack
<1>20. CASE UNCHANGED vars
  BY <1>20, Shape DEF vars
<1> QED BY <1>1, <1>2, <1>3, <1>4, <1>5, <1>6, <1>7, <1>8, <1>9, <1>10, <1>11,
      <1>12, <1>13, <1>14, <1>15, <1>16, <1>17, <1>18, <1>19, <1>20 DEF Next,
      Flow

\* The functions of a hook are called all at once, or as they are registered
\* with a hook that is rolled back already: once each.
LEMMA CountsStep ==
  ASSUME TypeOK, Counts, [Next]_vars
  PROVE  Counts'
<1>1. ASSUME PrepareFails PROVE Counts'
  <2>1. hook' = Asked({ReqHooks, Here})
    BY <1>1 DEF PrepareFails
  <2> QED BY <2>1, AskedDoes DEF Counts
<1>2. ASSUME Begin PROVE Counts'
  <2>1. hook' = hook \/ \E G : hook' = Asked(G)
    BY <1>2 DEF Begin, Enter
  <2> QED BY <2>1, AskedDoes DEF Counts
<1>3. ASSUME Close PROVE Counts'
  <2>1. hook' = Asked({ReqHooks})
    BY <1>3 DEF Close
  <2> QED BY <2>1, AskedDoes DEF Counts
<1>4. ASSUME NEW t \in DOMAIN tx, RollsBack(t) PROVE Counts'
  <2>1. hook' = Asked(listening[t])
    BY <1>4 DEF RollsBack
  <2> QED BY <2>1, AskedDoes DEF Counts
<1>5. ASSUME NEW h \in DOMAIN hook, HasEffect(h) PROVE Counts'
  <2>1. hook' = [hook EXCEPT ![h] = Registered(hook[h])]
    BY <1>5 DEF HasEffect
  <2>2. hook[h] \in HookStates
    BY DEF TypeOK
  <2>3. hook[h].made \in Nat /\ hook[h].undone \in Nat /\ hook[h].fns \in Nat
    BY <2>2 DEF HookStates
  <2> QED BY <2>1, <2>2, <2>3, RegisteredDoes DEF Counts
<1>6. ASSUME NEW h \in DOMAIN hook, RollbackHook(h) PROVE Counts'
  <2>1. hook' = [hook EXCEPT ![h] = RolledBack(hook[h])]
    BY <1>6 DEF RollbackHook
  <2>2. hook[h] \in HookStates
    BY DEF TypeOK
  <2>3. hook[h].made \in Nat /\ hook[h].undone \in Nat /\ hook[h].fns \in Nat
    BY <2>2 DEF HookStates
  <2>4. RolledBack(hook[h]).undone = hook[h].made
    <3>1. CASE hook[h].rolledBack
      BY <2>2, <3>1, RolledBackDoes DEF Counts
    <3>2. CASE ~hook[h].rolledBack
      <4>1. hook[h].undone = 0 /\ hook[h].fns = hook[h].made
        BY <3>2 DEF Counts
      <4>2. RolledBack(hook[h]).undone = hook[h].undone + hook[h].fns
        BY <2>2, <3>2, RolledBackDoes
      <4> QED BY <2>3, <4>1, <4>2
    <3> QED BY <3>1, <3>2
  <2> QED BY <2>1, <2>2, <2>4, RolledBackDoes DEF Counts
<1> USE RequestAssumption DEF TypeOK, Counts, HookStates, Parts, Kind, Subs,
      Hooks, Here, ReqHooks, txVars, hookVars, restVars, flowVars
<1>7. ASSUME PreParsed PROVE Counts'
  BY <1>7, Shape DEF PreParsed, MayStray
<1>8. ASSUME Parse PROVE Counts'
  BY <1>8, Shape DEF Parse
<1>9. ASSUME ParseFails PROVE Counts'
  BY <1>9, Shape DEF ParseFails, Resolve
<1>10. ASSUME Prepare PROVE Counts'
  BY <1>10, Shape DEF Prepare, Last
<1>11. ASSUME BeginFails PROVE Counts'
  BY <1>11, Shape DEF BeginFails, Resolve
<1>12. ASSUME Query PROVE Counts'
  BY <1>12, Shape DEF Query
<1>13. ASSUME Respond PROVE Counts'
  BY <1>13, Shape DEF Respond, Last
<1>14. ASSUME RunFails PROVE Counts'
  BY <1>14, Shape DEF RunFails, Unwind, Resolve, MayStray
<1>15. ASSUME End PROVE Counts'
  BY <1>15, Shape DEF End, Resolve
<1>16. ASSUME Commits PROVE Counts'
  BY <1>16, Shape DEF Commits, Resolve
<1>17. ASSUME CommitFails PROVE Counts'
  BY <1>17, Shape DEF CommitFails, Resolve
<1>18. ASSUME OwnerEnds PROVE Counts'
  BY <1>18, Shape DEF OwnerEnds
<1>19. ASSUME NEW t \in DOMAIN tx, TimesOut(t) PROVE Counts'
  BY <1>19, Shape DEF TimesOut
<1>20. CASE UNCHANGED vars
  BY <1>20, Shape DEF vars
<1> HIDE DEF TypeOK, Counts
<1> QED BY <1>1, <1>2, <1>3, <1>4, <1>5, <1>6, <1>7, <1>8, <1>9, <1>10, <1>11,
      <1>12, <1>13, <1>14, <1>15, <1>16, <1>17, <1>18, <1>19, <1>20 DEF Next,
      Flow

-----------------------------------------------------------------------------
\* What stays so.
Lasting ==
  /\ request' = request
  /\ \A p \in Parts : outcome[p] = "error" => outcome'[p] = "error"
  /\ \A t \in DOMAIN tx : tx[t] = "rolledBack" => tx'[t] = "rolledBack"
  /\ reqTx # NoTx => reqTx' # NoTx /\ \A p \in Parts : tx[p] = "none" => tx'[p] = "none"

\* For whom a step asks to roll hooks back, or will.
BlamesRightly ==
  \A p \in Parts : \A h \in Hooks(p) :
    hook'[h].asked \/ hook'[h].rolledBack =>
      \/ hook[h].asked \/ hook[h].rolledBack
      \/ outcome'[p] = "error" \/ tx'[Of(p)] = "rolledBack" \/ Without(p)

ListensRightly ==
  \A t \in DOMAIN tx : \A p \in Parts : \A h \in Hooks(p) :
    h \in listening'[t] => h \in listening[t] \/ t = Of(p) \/ Without(p)

\* A failure and a rollback are final; and once req.tx is set, by an action, no
\* part begins a transaction of its own.
LEMMA Lasts ==
  ASSUME TypeOK, Ahead, Theirs, Settled, [Next]_vars
  PROVE  Lasting
<1> USE RequestAssumption DEF Lasting, TypeOK, Ahead, Theirs, Settled, Runs,
      TxStages, Parts, Kind, Subs, Hooks, Here, ReqHooks, txVars, hookVars,
      restVars, flowVars
<1>1. ASSUME PreParsed PROVE Lasting
  BY <1>1, Shape DEF PreParsed, MayStray
<1>2. ASSUME Parse PROVE Lasting
  BY <1>2, Shape DEF Parse
<1>3. ASSUME ParseFails PROVE Lasting
  BY <1>3, Shape DEF ParseFails, Resolve
<1>4. ASSUME Prepare PROVE Lasting
  BY <1>4, Shape DEF Prepare, Last
<1>5. ASSUME PrepareFails PROVE Lasting
  BY <1>5, Shape DEF PrepareFails, Resolve, MayStray, Asked
<1>6. ASSUME Begin PROVE Lasting
  BY <1>6, Shape DEF Begin, Enter, Asked
<1>7. ASSUME BeginFails PROVE Lasting
  BY <1>7, Shape DEF BeginFails, Resolve
<1>8. ASSUME Query PROVE Lasting
  BY <1>8, Shape DEF Query
<1>9. ASSUME Respond PROVE Lasting
  BY <1>9, Shape DEF Respond, Last
<1>10. ASSUME RunFails PROVE Lasting
  BY <1>10, Shape DEF RunFails, Unwind, Resolve, MayStray
<1>11. ASSUME End PROVE Lasting
  BY <1>11, Shape DEF End, Resolve
<1>12. ASSUME Commits PROVE Lasting
  BY <1>12, Shape DEF Commits, Resolve
<1>13. ASSUME CommitFails PROVE Lasting
  BY <1>13, Shape DEF CommitFails, Resolve
<1>14. ASSUME Close PROVE Lasting
  BY <1>14, Shape DEF Close, Asked, CutOff
<1>15. ASSUME OwnerEnds PROVE Lasting
  BY <1>15, Shape DEF OwnerEnds
<1>16. ASSUME NEW t \in DOMAIN tx, TimesOut(t) PROVE Lasting
  BY <1>16, Shape DEF TimesOut
<1>17. ASSUME NEW t \in DOMAIN tx, RollsBack(t) PROVE Lasting
  BY <1>17, Shape DEF RollsBack, Asked, Resolve
<1>18. ASSUME NEW h \in DOMAIN hook, HasEffect(h) PROVE Lasting
  BY <1>18, Shape DEF HasEffect, Registered
<1>19. ASSUME NEW h \in DOMAIN hook, RollbackHook(h) PROVE Lasting
  BY <1>19, Shape DEF RollbackHook, RolledBack
<1>20. CASE UNCHANGED vars
  BY <1>20, Shape DEF vars
<1> QED BY <1>1, <1>2, <1>3, <1>4, <1>5, <1>6, <1>7, <1>8, <1>9, <1>10, <1>11,
      <1>12, <1>13, <1>14, <1>15, <1>16, <1>17, <1>18, <1>19, <1>20 DEF Next,
      Flow

\* Asking for the rollback of G blames nobody wrongly, if it is right for each
\* hook in G.
LEMMA AskedBlames ==
  ASSUME TypeOK, NEW G, hook' = Asked(G),
         \A p \in Parts : \A h \in Hooks(p) : h \in G =>
           outcome'[p] = "error" \/ tx'[Of(p)] = "rolledBack" \/ Without(p)
  PROVE  BlamesRightly
<1> SUFFICES ASSUME NEW p \in Parts, NEW h \in Hooks(p),
                    hook'[h].asked \/ hook'[h].rolledBack
             PROVE  \/ hook[h].asked \/ hook[h].rolledBack
                    \/ outcome'[p] = "error" \/ tx'[Of(p)] = "rolledBack" \/ Without(p)
  BY DEF BlamesRightly
<1>1. h \in DOMAIN hook
  BY HooksOfParts
<1>2. /\ hook'[h].asked = (h \in G \/ hook[h].asked)
      /\ hook'[h].rolledBack = hook[h].rolledBack
  BY <1>1, AskedDoes
<1> QED BY <1>2

\* No hook belongs to two parts.
LEMMA OthersHooks ==
  ASSUME TypeOK
  PROVE  \A p \in Parts : \A h \in Hooks(p) : h # ReqHooks /\ h[1] = p
<1> SUFFICES ASSUME NEW p \in Parts, NEW h \in Hooks(p) PROVE h # ReqHooks /\ h[1] = p
  OBVIOUS
<1>1. PICK n \in Subs(p) : h = <<p, n>>
  BY DEF Hooks
<1> QED BY <1>1, Shape DEF ReqHooks

\* The hooks of a part are to be rolled back only by a step that fails it or
\* answers its ROLLBACK, or when it runs in the transaction of an action that
\* is over.
LEMMA Blame ==
  ASSUME TypeOK, Ahead, Theirs, Blames, [Next]_vars
  PROVE  BlamesRightly
<1>1. ASSUME PrepareFails PROVE BlamesRightly
  <2>1. hook' = Asked({ReqHooks, Here}) /\ Resolve("error") /\ Here = <<part, sub>>
    BY <1>1 DEF PrepareFails, Here
  <2>2. outcome'[part] = "error"
    BY <2>1, ResolveDoes DEF TypeOK
  <2>3. \A p \in Parts : \A h \in Hooks(p) : h \in {ReqHooks, Here} => p = part
    BY <2>1, OthersHooks
  <2> QED BY <2>1, <2>2, <2>3, AskedBlames
<1>2. ASSUME Begin PROVE BlamesRightly
  <2>1. CASE hook' = hook
    BY <2>1 DEF BlamesRightly
  <2>2. CASE /\ reqTx # NoTx /\ tx[reqTx] = "rolledBack" /\ tx' = tx
             /\ hook' = Asked(Hooks(part) \cup {ReqHooks})
    <3>1. request.caller = "tx" => tx'[Of(part)] = "rolledBack"
      BY <2>2 DEF Theirs, Of
    <3>2. request.caller # "tx" => Without(part)
      BY <1>2, <2>2 DEF Begin, Without, Ahead
    <3>3. \A p \in Parts : \A h \in Hooks(p) : h \in Hooks(part) \cup {ReqHooks} => p = part
      BY OthersHooks, Shape DEF TypeOK
    <3>4. tx'[Of(part)] = "rolledBack" \/ Without(part)
      BY <3>1, <3>2
    <3>5. \A p \in Parts : \A h \in Hooks(p) : h \in Hooks(part) \cup {ReqHooks} =>
            outcome'[p] = "error" \/ tx'[Of(p)] = "rolledBack" \/ Without(p)
      BY <3>3, <3>4
    <3> QED BY <2>2, <3>5, AskedBlames
  <2>3. CASE reqTx = NoTx /\ Enter(part)
    <3>1. tx[part] = "none"
      BY <1>2 DEF Begin, Ahead
    <3> QED BY <2>1, <2>3, <3>1 DEF Enter
  <2>4. CASE reqTx # NoTx /\ Enter(reqTx) /\ tx' = tx
    BY <2>1, <2>2, <2>4 DEF Enter
  <2> QED BY <1>2, <2>1, <2>3, <2>4 DEF Begin
<1>3. ASSUME Close PROVE BlamesRightly
  <2>1. hook' = Asked({ReqHooks})
    BY <1>3 DEF Close
  <2>2. \A p \in Parts : \A h \in Hooks(p) : h \notin {ReqHooks}
    BY OthersHooks
  <2> QED BY <2>1, <2>2, AskedBlames
<1>4. ASSUME NEW t \in DOMAIN tx, RollsBack(t) PROVE BlamesRightly
  <2>1. hook' = Asked(listening[t]) /\ tx' = [tx EXCEPT ![t] = "rolledBack"]
    BY <1>4 DEF RollsBack
  <2>2. tx'[t] = "rolledBack"
    BY <2>1
  <2>3. \A p \in Parts : \A h \in Hooks(p) : h \in listening[t] => t = Of(p) \/ Without(p)
    BY DEF Blames
  <2>4. \A p \in Parts : \A h \in Hooks(p) :
          h \in listening[t] => tx'[Of(p)] = "rolledBack" \/ Without(p)
    BY <2>2, <2>3
  <2> QED BY <2>1, <2>4, AskedBlames
<1>5. ASSUME NEW h \in DOMAIN hook, HasEffect(h) PROVE BlamesRightly
  <2>0. \A p \in Parts : Hooks(p) \subseteq DOMAIN hook
    BY HooksOfParts
  <2>1. hook' = [hook EXCEPT ![h] = Registered(hook[h])] /\ hook[h] \in HookStates
    BY <1>5 DEF HasEffect, TypeOK
  <2> QED BY <2>0, <2>1, RegisteredDoes DEF BlamesRightly
<1>6. ASSUME NEW h \in DOMAIN hook, RollbackHook(h) PROVE BlamesRightly
  <2>0. \A p \in Parts : Hooks(p) \subseteq DOMAIN hook
    BY HooksOfParts
  <2>1. hook' = [hook EXCEPT ![h] = RolledBack(hook[h])] /\ hook[h].asked
    BY <1>6 DEF RollbackHook
  <2> QED BY <2>0, <2>1 DEF BlamesRightly
<1> USE RequestAssumption DEF TypeOK, Ahead, Theirs, Blames, Runs, TxStages,
      BlamesRightly, Without, Of, HookIds, Parts, Kind, Subs, Hooks, Here,
      ReqHooks, txVars, hookVars, restVars, flowVars
<1>7. ASSUME PreParsed PROVE BlamesRightly
  BY <1>7, Shape DEF PreParsed, MayStray
<1>8. ASSUME Parse PROVE BlamesRightly
  BY <1>8, Shape DEF Parse
<1>9. ASSUME ParseFails PROVE BlamesRightly
  BY <1>9, Shape DEF ParseFails, Resolve
<1>10. ASSUME Prepare PROVE BlamesRightly
  BY <1>10, Shape DEF Prepare, Last
<1>11. ASSUME BeginFails PROVE BlamesRightly
  BY <1>11, Shape DEF BeginFails, Resolve
<1>12. ASSUME Query PROVE BlamesRightly
  BY <1>12, Shape DEF Query
<1>13. ASSUME Respond PROVE BlamesRightly
  BY <1>13, Shape DEF Respond, Last
<1>14. ASSUME RunFails PROVE BlamesRightly
  BY <1>14, Shape DEF RunFails, Unwind, Resolve, MayStray
<1>15. ASSUME End PROVE BlamesRightly
  BY <1>15, Shape DEF End, Resolve
<1>16. ASSUME Commits PROVE BlamesRightly
  BY <1>16, Shape DEF Commits, Resolve
<1>17. ASSUME CommitFails PROVE BlamesRightly
  BY <1>17, Shape DEF CommitFails, Resolve
<1>18. ASSUME OwnerEnds PROVE BlamesRightly
  BY <1>18, Shape DEF OwnerEnds
<1>19. ASSUME NEW t \in DOMAIN tx, TimesOut(t) PROVE BlamesRightly
  BY <1>19, Shape DEF TimesOut
<1>20. CASE UNCHANGED vars
  BY <1>20, Shape DEF vars
<1> HIDE DEF TypeOK, Ahead, Theirs, Blames, BlamesRightly
<1> QED BY <1>1, <1>2, <1>3, <1>4, <1>5, <1>6, <1>7, <1>8, <1>9, <1>10, <1>11,
      <1>12, <1>13, <1>14, <1>15, <1>16, <1>17, <1>18, <1>19, <1>20 DEF Next,
      Flow

\* The 'rollback' of a transaction rolls back only the hooks of the part it
\* belongs to, or of one that has none.
LEMMA Listen ==
  ASSUME TypeOK, Ahead, Theirs, [Next]_vars
  PROVE  ListensRightly
<1>1. ASSUME Begin PROVE ListensRightly
  <2> DEFINE t == IF reqTx = NoTx THEN part ELSE reqTx
  <2>1. \/ listening' = listening
        \/ listening' = [listening EXCEPT ![t] = listening[t] \cup (Hooks(part) \cup {ReqHooks})]
    <3>1. CASE UNCHANGED listening
      BY <3>1
    <3>2. CASE Enter(t)
      BY <3>2 DEF Enter
    <3>3. CASE Kind(part) = "action"
      BY <1>1, <3>1, <3>3 DEF Begin
    <3>4. CASE Kind(part) # "action"
      <4>1. Enter(IF reqTx = NoTx THEN part ELSE reqTx)
        BY <1>1, <3>4 DEF Begin
      <4> QED BY <3>2, <4>1
    <3> QED BY <3>3, <3>4
  <2>2. t = Of(part) \/ Without(part)
    <3>1. tx[part] = "none"
      BY <1>1 DEF Begin, Ahead
    <3>2. CASE reqTx = NoTx
      BY <3>2, Shape DEF Theirs, Of
    <3>3. CASE reqTx # NoTx
      BY <3>1, <3>3 DEF Theirs, Of, Without
    <3> QED BY <3>2, <3>3
  <2> HIDE DEF t
  <2>3. \A p \in Parts : \A h \in Hooks(p) : h \in Hooks(part) \cup {ReqHooks} => p = part
    <3>1. part \in Parts
      BY DEF TypeOK
    <3> QED BY <3>1, OthersHooks
  <2>4. \A u \in DOMAIN tx : listening'[u] = listening[u] \/
          (u = t /\ listening'[u] = listening[u] \cup (Hooks(part) \cup {ReqHooks}))
    BY <2>1 DEF TypeOK
  <2> QED BY <2>2, <2>3, <2>4 DEF ListensRightly
<1> USE RequestAssumption DEF TypeOK, Ahead, Theirs, ListensRightly, Without,
      Of, Parts, Kind, Subs, Hooks, Here, ReqHooks, txVars, hookVars, restVars,
      flowVars
<1>2. ASSUME PreParsed PROVE ListensRightly
  BY <1>2, Shape DEF PreParsed, MayStray
<1>3. ASSUME Parse PROVE ListensRightly
  BY <1>3, Shape DEF Parse
<1>4. ASSUME ParseFails PROVE ListensRightly
  BY <1>4, Shape DEF ParseFails, Resolve
<1>5. ASSUME Prepare PROVE ListensRightly
  BY <1>5, Shape DEF Prepare, Last
<1>6. ASSUME PrepareFails PROVE ListensRightly
  BY <1>6, Shape DEF PrepareFails, Resolve, MayStray, Asked
<1>7. ASSUME BeginFails PROVE ListensRightly
  BY <1>7, Shape DEF BeginFails, Resolve
<1>8. ASSUME Query PROVE ListensRightly
  BY <1>8, Shape DEF Query
<1>9. ASSUME Respond PROVE ListensRightly
  BY <1>9, Shape DEF Respond, Last
<1>10. ASSUME RunFails PROVE ListensRightly
  BY <1>10, Shape DEF RunFails, Unwind, Resolve, MayStray
<1>11. ASSUME End PROVE ListensRightly
  BY <1>11, Shape DEF End, Resolve
<1>12. ASSUME Commits PROVE ListensRightly
  BY <1>12, Shape DEF Commits, Resolve
<1>13. ASSUME CommitFails PROVE ListensRightly
  BY <1>13, Shape DEF CommitFails, Resolve
<1>14. ASSUME Close PROVE ListensRightly
  BY <1>14, Shape DEF Close, Asked, CutOff
<1>15. ASSUME OwnerEnds PROVE ListensRightly
  BY <1>15, Shape DEF OwnerEnds
<1>16. ASSUME NEW t \in DOMAIN tx, TimesOut(t) PROVE ListensRightly
  BY <1>16, Shape DEF TimesOut
<1>17. ASSUME NEW t \in DOMAIN tx, RollsBack(t) PROVE ListensRightly
  BY <1>17, Shape DEF RollsBack, Asked, Resolve
<1>18. ASSUME NEW h \in DOMAIN hook, HasEffect(h) PROVE ListensRightly
  BY <1>18, Shape DEF HasEffect, Registered
<1>19. ASSUME NEW h \in DOMAIN hook, RollbackHook(h) PROVE ListensRightly
  BY <1>19, Shape DEF RollbackHook, RolledBack
<1>20. CASE UNCHANGED vars
  BY <1>20, Shape DEF vars
<1> QED BY <1>1, <1>2, <1>3, <1>4, <1>5, <1>6, <1>7, <1>8, <1>9, <1>10, <1>11,
      <1>12, <1>13, <1>14, <1>15, <1>16, <1>17, <1>18, <1>19, <1>20 DEF Next,
      Flow

-----------------------------------------------------------------------------
\* The type invariant in three: where the request is, its transactions and its
\* hooks.
FlowType ==
  /\ request \in Requests
  /\ at \in {"preparse", "parse", "prepare", "begin", "prerun", "postrun", "action",
            "end", "commit", "rollback", "done"}
  /\ part \in Parts /\ sub \in Subs(part)
  /\ {current, reqTx} \subseteq 0..Len(request.kinds) \cup {NoTx}
  /\ outcome \in [Parts -> {"none", "ok", "error"}]
  /\ closes \in 0..2 /\ faults \in 0..MaxFaults

TxType ==
  /\ tx \in [0..Len(request.kinds) -> TxStages]
  /\ transactions \subseteq DOMAIN tx /\ cutOff \subseteq Parts
  /\ listening \in [DOMAIN tx -> SUBSET HookIds(request)]
  /\ written \subseteq HookIds(request)

HookType ==
  /\ DOMAIN hook = HookIds(request) /\ \A h \in DOMAIN hook : hook[h] \in HookStates
  /\ stray \subseteq HookIds(request)

\* The names of hooks.
LEMMA HookNames ==
  ASSUME TypeOK
  PROVE  /\ \A p \in Parts : Hooks(p) \subseteq HookIds(request)
         /\ ReqHooks \in HookIds(request) /\ <<part, sub>> \in HookIds(request)
         /\ Here \in HookIds(request)
<1>1. ReqHooks \in HookIds(request)
  BY Shape DEF ReqHooks, HookIds
<1>2. <<part, sub>> \in Hooks(part) /\ part \in Parts
  BY DEF TypeOK, Hooks
<1>3. \A p \in Parts : Hooks(p) \subseteq HookIds(request)
  BY HooksOfParts DEF TypeOK
<1> QED BY <1>1, <1>2, <1>3 DEF Here

\* Asking for the rollback of hooks leaves them well typed.
LEMMA AskedTyped ==
  ASSUME TypeOK, NEW G, hook' = Asked(G), request' = request, stray' \subseteq HookIds(request)
  PROVE  HookType'
<1>1. DOMAIN hook' = HookIds(request')
  BY AskedDoes DEF TypeOK
<1>2. \A h \in DOMAIN hook : hook'[h] \in HookStates
  BY AskedDoes
<1> QED BY <1>1, <1>2, AskedDoes DEF HookType, TypeOK

\* The place in the request stays within its parts.
LEMMA FlowTyped ==
  ASSUME TypeOK, Ahead, Theirs, [Next]_vars
  PROVE  FlowType'
<1>1. ASSUME Begin PROVE FlowType'
  <2>1. CASE reqTx = NoTx
    BY <1>1, <2>1, Shape DEF Begin, TypeOK, FlowType, Parts, Kind, Subs, Hooks,
         Here, ReqHooks, txVars, hookVars, restVars, flowVars
  <2>2. CASE reqTx # NoTx
    BY <1>1, <2>2, Shape DEF Begin, TypeOK, FlowType, Parts, Kind, Subs, Hooks,
         Here, ReqHooks, txVars, hookVars, restVars, flowVars
  <2> QED BY <2>1, <2>2
<1>2. ASSUME Respond PROVE FlowType'
  <2>1. CASE Last
    BY <1>2, <2>1 DEF Respond, TypeOK, FlowType, Parts, Kind, Subs, Hooks, Here,
         ReqHooks, txVars, hookVars, restVars, flowVars
  <2>2. CASE ~Last
    <3>1. PICK n \in Subs(part) : ~(n <= sub)
      BY <2>2 DEF Last
    <3>2. sub + 1 \in Subs(part)
      BY <3>1 DEF Subs, TypeOK
    <3> QED BY <1>2, <2>2, <3>2 DEF Respond, TypeOK, FlowType, Parts, Kind,
         Subs, Hooks, Here, ReqHooks, txVars, hookVars, restVars, flowVars
  <2> QED BY <2>1, <2>2
<1>3. ASSUME RunFails PROVE FlowType'
  <2>1. CASE /\ current = part /\ tx[part] = "open" /\ at' = "rollback"
             /\ tx' = [tx EXCEPT ![part] = "rollingBack"]
             /\ UNCHANGED <<request, part, sub, current, outcome>>
    BY <1>3, <2>1, Shape DEF RunFails, TypeOK, FlowType, Theirs, Ahead, Parts,
         Kind, Subs, Hooks, Here, ReqHooks, txVars, hookVars, restVars, flowVars
  <2>2. CASE Resolve("error") /\ tx' = tx /\ tx[part] # "open"
    BY <1>3, <2>2, Shape, ResolveDoes DEF RunFails, TypeOK, FlowType, Theirs,
         Ahead, Parts, Kind, Subs, Hooks, Here, ReqHooks, txVars, hookVars,
         restVars, flowVars
  <2>3. at \in Runs
    BY <1>3 DEF RunFails, Runs
  <2> QED BY <1>3, <2>1, <2>2, <2>3, UnwindDoes DEF RunFails
<1> USE RequestAssumption DEF TypeOK, Ahead, Theirs, Runs, FlowType, Parts,
      Kind, Subs, Hooks, Here, ReqHooks, txVars, hookVars, restVars, flowVars
<1>4. ASSUME PreParsed PROVE FlowType'
  BY <1>4, Shape DEF PreParsed, MayStray
<1>5. ASSUME Parse PROVE FlowType'
  BY <1>5, Shape DEF Parse
<1>6. ASSUME ParseFails PROVE FlowType'
  BY <1>6, Shape DEF ParseFails, Resolve
<1>7. ASSUME Prepare PROVE FlowType'
  BY <1>7, Shape DEF Prepare, Last
<1>8. ASSUME PrepareFails PROVE FlowType'
  BY <1>8, Shape DEF PrepareFails, Resolve, MayStray, Asked
<1>9. ASSUME BeginFails PROVE FlowType'
  BY <1>9, Shape DEF BeginFails, Resolve
<1>10. ASSUME Query PROVE FlowType'
  BY <1>10, Shape DEF Query
<1>11. ASSUME End PROVE FlowType'
  BY <1>11, Shape DEF End, Resolve
<1>12. ASSUME Commits PROVE FlowType'
  BY <1>12, Shape DEF Commits, Resolve
<1>13. ASSUME CommitFails PROVE FlowType'
  BY <1>13, Shape DEF CommitFails, Resolve
<1>14. ASSUME Close PROVE FlowType'
  BY <1>14, Shape DEF Close, Asked, CutOff
<1>15. ASSUME OwnerEnds PROVE FlowType'
  BY <1>15, Shape DEF OwnerEnds
<1>16. ASSUME NEW t \in DOMAIN tx, TimesOut(t) PROVE FlowType'
  BY <1>16, Shape DEF TimesOut
<1>17. ASSUME NEW t \in DOMAIN tx, RollsBack(t) PROVE FlowType'
  BY <1>17, Shape DEF RollsBack, Asked, Resolve
<1>18. ASSUME NEW h \in DOMAIN hook, HasEffect(h) PROVE FlowType'
  BY <1>18, Shape DEF HasEffect, Registered
<1>19. ASSUME NEW h \in DOMAIN hook, RollbackHook(h) PROVE FlowType'
  BY <1>19, Shape DEF RollbackHook, RolledBack
<1>20. CASE UNCHANGED vars
  BY <1>20, Shape DEF vars
<1> QED BY <1>1, <1>2, <1>3, <1>4, <1>5, <1>6, <1>7, <1>8, <1>9, <1>10, <1>11,
      <1>12, <1>13, <1>14, <1>15, <1>16, <1>17, <1>18, <1>19, <1>20 DEF Next,
      Flow

\* The transactions, and who listens to them.
LEMMA TxTyped ==
  ASSUME TypeOK, Ahead, Theirs, [Next]_vars
  PROVE  TxType'
<1>1. ASSUME Begin PROVE TxType'
  <2> DEFINE t == IF reqTx = NoTx THEN part ELSE reqTx
  <2>0. t \in DOMAIN tx /\ request' = request /\ cutOff' = cutOff /\ written' = written
    BY <1>1, Shape DEF Begin, TypeOK, Parts, restVars
  <2>1. transactions' \subseteq DOMAIN tx /\ listening' \in [DOMAIN tx -> SUBSET HookIds(request)]
    <3>1. CASE UNCHANGED <<transactions, listening>>
      BY <3>1 DEF TypeOK
    <3>2. CASE Enter(t)
      <4>1. Hooks(part) \cup {ReqHooks} \subseteq HookIds(request)
        BY HookNames DEF TypeOK
      <4>2. listening' = listening \/
              listening' = [listening EXCEPT ![t] = listening[t] \cup (Hooks(part) \cup {ReqHooks})]
        BY <3>2 DEF Enter
      <4>3. transactions' = transactions \cup {t}
        BY <3>2 DEF Enter
      <4> HIDE DEF t
      <4> QED BY <2>0, <4>1, <4>2, <4>3 DEF TypeOK
    <3>3. CASE Kind(part) = "action"
      BY <1>1, <3>1, <3>3 DEF Begin
    <3>4. CASE Kind(part) # "action"
      <4>1. Enter(IF reqTx = NoTx THEN part ELSE reqTx)
        BY <1>1, <3>4 DEF Begin
      <4> QED BY <3>2, <4>1
    <3> QED BY <3>3, <3>4
  <2>2. tx' \in [0..Len(request.kinds) -> TxStages]
    BY <1>1, Shape DEF Begin, TypeOK, TxStages
  <2>3. DOMAIN tx' = DOMAIN tx /\ Parts' = Parts
    BY <2>0, <2>2 DEF TypeOK, Parts
  <2> QED BY <2>0, <2>1, <2>2, <2>3 DEF TxType, TypeOK
<1>2. ASSUME RunFails PROVE TxType'
  <2>1. tx' \in [0..Len(request.kinds) -> TxStages] /\ request' = request
    BY <1>2 DEF RunFails, Unwind, Resolve, TypeOK, TxStages
  <2> QED BY <1>2, <2>1 DEF RunFails, TxType, TypeOK, Parts
<1> USE RequestAssumption DEF TypeOK, TxType, TxStages, Parts, Kind, Subs,
      Hooks, Here, ReqHooks, txVars, hookVars, restVars, flowVars
<1>3. ASSUME PreParsed PROVE TxType'
  BY <1>3, Shape, HookNames DEF PreParsed, MayStray
<1>4. ASSUME Parse PROVE TxType'
  BY <1>4, Shape, HookNames DEF Parse
<1>5. ASSUME ParseFails PROVE TxType'
  BY <1>5, Shape, HookNames DEF ParseFails, Resolve
<1>6. ASSUME Prepare PROVE TxType'
  BY <1>6, Shape, HookNames DEF Prepare, Last
<1>7. ASSUME PrepareFails PROVE TxType'
  BY <1>7, Shape, HookNames DEF PrepareFails, Resolve, MayStray, Asked
<1>8. ASSUME BeginFails PROVE TxType'
  BY <1>8, Shape, HookNames DEF BeginFails, Resolve
<1>9. ASSUME Query PROVE TxType'
  BY <1>9, Shape, HookNames DEF Query
<1>10. ASSUME Respond PROVE TxType'
  BY <1>10, Shape, HookNames DEF Respond, Last
<1>11. ASSUME End PROVE TxType'
  BY <1>11, Shape, HookNames DEF End, Resolve
<1>12. ASSUME Commits PROVE TxType'
  BY <1>12, Shape, HookNames DEF Commits, Resolve
<1>13. ASSUME CommitFails PROVE TxType'
  BY <1>13, Shape, HookNames DEF CommitFails, Resolve
<1>14. ASSUME Close PROVE TxType'
  BY <1>14, Shape, HookNames DEF Close, Asked, CutOff
<1>15. ASSUME OwnerEnds PROVE TxType'
  BY <1>15, Shape, HookNames DEF OwnerEnds
<1>16. ASSUME NEW t \in DOMAIN tx, TimesOut(t) PROVE TxType'
  BY <1>16, Shape, HookNames DEF TimesOut
<1>17. ASSUME NEW t \in DOMAIN tx, RollsBack(t) PROVE TxType'
  BY <1>17, Shape, HookNames DEF RollsBack, Asked, Resolve
<1>18. ASSUME NEW h \in DOMAIN hook, HasEffect(h) PROVE TxType'
  BY <1>18, Shape, HookNames DEF HasEffect, Registered
<1>19. ASSUME NEW h \in DOMAIN hook, RollbackHook(h) PROVE TxType'
  BY <1>19, Shape, HookNames DEF RollbackHook, RolledBack
<1>20. CASE UNCHANGED vars
  BY <1>20, Shape, HookNames DEF vars
<1> QED BY <1>1, <1>2, <1>3, <1>4, <1>5, <1>6, <1>7, <1>8, <1>9, <1>10, <1>11,
      <1>12, <1>13, <1>14, <1>15, <1>16, <1>17, <1>18, <1>19, <1>20 DEF Next,
      Flow

\* The hooks keep their shape.
LEMMA HookTyped ==
  ASSUME TypeOK, [Next]_vars
  PROVE  HookType'
<1>1. ASSUME PrepareFails PROVE HookType'
  <2>1. hook' = Asked({ReqHooks, Here})
    BY <1>1 DEF PrepareFails
  <2>2. request' = request
    BY <1>1, ResolveDoes DEF PrepareFails, flowVars
  <2>3. stray' \subseteq HookIds(request)
    BY <1>1, HookNames DEF PrepareFails, MayStray, TypeOK
  <2> QED BY <2>1, <2>2, <2>3, AskedTyped
<1>2. ASSUME Begin PROVE HookType'
  <2>1. request' = request /\ stray' \subseteq HookIds(request)
    BY <1>2 DEF Begin, TypeOK
  <2>2. hook' = hook \/ \E G : hook' = Asked(G)
    BY <1>2 DEF Begin, Enter
  <2> QED BY <2>1, <2>2, AskedTyped DEF HookType, TypeOK
<1>3. ASSUME RunFails PROVE HookType'
  <2>1. UNCHANGED <<request, hook>>
    BY <1>3, ResolveDoes DEF RunFails, Unwind
  <2> QED BY <1>3, <2>1, HookNames DEF RunFails, MayStray, HookType, TypeOK
<1>4. ASSUME Close PROVE HookType'
  <2>1. hook' = Asked({ReqHooks})
    BY <1>4 DEF Close
  <2>2. request' = request
    BY <1>4 DEF Close, flowVars
  <2>3. stray' \subseteq HookIds(request)
    BY <1>4, HookNames DEF Close, TypeOK
  <2> QED BY <2>1, <2>2, <2>3, AskedTyped
<1>5. ASSUME NEW t \in DOMAIN tx, RollsBack(t) PROVE HookType'
  <2>1. hook' = Asked(listening[t])
    BY <1>5 DEF RollsBack
  <2>2. request' = request
    BY <1>5, ResolveDoes DEF RollsBack, flowVars
  <2>3. stray' \subseteq HookIds(request)
    BY <1>5, HookNames DEF RollsBack, MayStray, TypeOK
  <2> QED BY <2>1, <2>2, <2>3, AskedTyped
<1>6. ASSUME NEW h \in DOMAIN hook, HasEffect(h) PROVE HookType'
  <2>1. hook' = [hook EXCEPT ![h] = Registered(hook[h])] /\ hook[h] \in HookStates
    BY <1>6 DEF HasEffect, TypeOK
  <2>2. Registered(hook[h]) \in HookStates
    BY <2>1, RegisteredDoes
  <2> QED BY <1>6, <2>1, <2>2 DEF HasEffect, HookType, TypeOK, flowVars
<1>7. ASSUME NEW h \in DOMAIN hook, RollbackHook(h) PROVE HookType'
  <2>1. hook' = [hook EXCEPT ![h] = RolledBack(hook[h])] /\ hook[h] \in HookStates
    BY <1>7 DEF RollbackHook, TypeOK
  <2>2. RolledBack(hook[h]) \in HookStates
    BY <2>1, RolledBackDoes
  <2> QED BY <1>7, <2>1, <2>2 DEF RollbackHook, HookType, TypeOK, flowVars
<1> USE RequestAssumption DEF TypeOK, HookType, HookIds, Parts, Kind, Subs,
      Hooks, Here, ReqHooks, txVars, hookVars, restVars, flowVars
<1>8. ASSUME PreParsed PROVE HookType'
  BY <1>8, Shape, HookNames DEF PreParsed, MayStray
<1>9. ASSUME Parse PROVE HookType'
  BY <1>9, Shape, HookNames DEF Parse
<1>10. ASSUME ParseFails PROVE HookType'
  BY <1>10, Shape, HookNames DEF ParseFails, Resolve
<1>11. ASSUME Prepare PROVE HookType'
  BY <1>11, Shape, HookNames DEF Prepare, Last
<1>12. ASSUME BeginFails PROVE HookType'
  BY <1>12, Shape, HookNames DEF BeginFails, Resolve
<1>13. ASSUME Query PROVE HookType'
  BY <1>13, Shape, HookNames DEF Query
<1>14. ASSUME Respond PROVE HookType'
  BY <1>14, Shape, HookNames DEF Respond, Last
<1>15. ASSUME End PROVE HookType'
  BY <1>15, Shape, HookNames DEF End, Resolve
<1>16. ASSUME Commits PROVE HookType'
  BY <1>16, Shape, HookNames DEF Commits, Resolve
<1>17. ASSUME CommitFails PROVE HookType'
  BY <1>17, Shape, HookNames DEF CommitFails, Resolve
<1>18. ASSUME OwnerEnds PROVE HookType'
  BY <1>18, Shape, HookNames DEF OwnerEnds
<1>19. ASSUME NEW t \in DOMAIN tx, TimesOut(t) PROVE HookType'
  BY <1>19, Shape, HookNames DEF TimesOut
<1>20. CASE UNCHANGED vars
  BY <1>20, Shape, HookNames DEF vars
<1> QED BY <1>1, <1>2, <1>3, <1>4, <1>5, <1>6, <1>7, <1>8, <1>9, <1>10, <1>11,
      <1>12, <1>13, <1>14, <1>15, <1>16, <1>17, <1>18, <1>19, <1>20 DEF Next,
      Flow

\* The type invariant is inductive given where the parts run.
LEMMA TypeStep ==
  ASSUME TypeOK, Ahead, Theirs, [Next]_vars
  PROVE  TypeOK'
<1>1. FlowType' /\ TxType' /\ HookType'
  BY FlowTyped, TxTyped, HookTyped
<1>2. DOMAIN tx' = 0..Len(request'.kinds)
  BY <1>1 DEF TxType
<1> QED BY <1>1, <1>2 DEF TypeOK, FlowType, TxType, HookType

\* No hook of a part that succeeds in a transaction of its own is ever asked to
\* roll back.
LEMMA BlamesStep ==
  ASSUME TypeOK, Ahead, Theirs, Settled, Blames, [Next]_vars
  PROVE  Blames'
<1>1. Lasting /\ BlamesRightly /\ ListensRightly
  BY Lasts, Blame, Listen
<1>2. /\ Parts' = Parts /\ DOMAIN tx' = DOMAIN tx
      /\ \A p \in Parts : Hooks(p)' = Hooks(p) /\ Of(p)' = Of(p)
  BY <1>1, TypeStep, Shape DEF Lasting, Parts, TypeOK, Hooks, Subs, Kind, Of
<1>3. \A p \in Parts : Without(p) => Without(p)'
  BY <1>1 DEF Lasting, Without
<1>4. \A p \in Parts : Of(p) \in DOMAIN tx
  BY Shape DEF Of, Parts
<1>5. ASSUME NEW p \in Parts, NEW h \in Hooks(p), hook'[h].asked \/ hook'[h].rolledBack
      PROVE  outcome'[p] = "error" \/ tx'[Of(p)] = "rolledBack" \/ Without(p)'
  <2>1. CASE hook[h].asked \/ hook[h].rolledBack
    <3>1. outcome[p] = "error" \/ tx[Of(p)] = "rolledBack" \/ Without(p)
      BY <2>1 DEF Blames
    <3> QED BY <1>1, <1>3, <1>4, <3>1 DEF Lasting
  <2> QED BY <1>1, <1>3, <1>5, <2>1 DEF BlamesRightly
<1>6. ASSUME NEW t \in DOMAIN tx, NEW p \in Parts, NEW h \in Hooks(p), h \in listening'[t]
      PROVE  t = Of(p) \/ Without(p)'
  BY <1>1, <1>3, <1>6 DEF Blames, ListensRightly
<1> QED BY <1>2, <1>5, <1>6 DEF Blames

-----------------------------------------------------------------------------
\* A request that has just arrived.
LEMMA Init_IInv == Init => IInv
<1> SUFFICES ASSUME Init PROVE IInv
  OBVIOUS
<1>1. /\ request.kinds \in Seq(Kinds) /\ request.kinds # <<>>
      /\ request.caller \in Callers /\ request \in Requests
      /\ Len(request.kinds) \in Nat /\ Len(request.kinds) >= 1 /\ NoTx \notin Nat
  BY RequestAssumption DEF Init
<1>2. 1 \in Parts /\ 1 \in Subs(1) /\ reqTx \in {0, NoTx}
      /\ DOMAIN tx = 0..Len(request.kinds) /\ ReqHooks \in HookIds(request)
  BY <1>1 DEF Init, Parts, Subs, ReqHooks, HookIds
<1>3. /\ \A h \in DOMAIN hook : hook[h] = NewHook
      /\ DOMAIN hook = HookIds(request) /\ NewHook \in HookStates
  BY DEF Init, NewHook, HookStates
<1>4. /\ tx \in [0..Len(request.kinds) -> {"none", "open"}]
      /\ \A p \in Parts : tx[p] = "none"
  BY <1>1, <1>2 DEF Init, Parts
<1>5. TypeOK
  BY <1>1, <1>2, <1>3, <1>4, RequestAssumption DEF Init, TypeOK, TxStages
<1>6. Ahead /\ Theirs /\ Settled
  BY <1>1, <1>2, <1>4 DEF Init, Ahead, Theirs, Settled, Runs, Parts
<1>7. Writes
  BY <1>4 DEF Init, Writes, PartIsAtomic
<1>8. Counts
  BY <1>3 DEF Counts, NewHook
<1>9. Blames
  <2>1. \A p \in Parts : \A h \in Hooks(p) : ~hook[h].asked /\ ~hook[h].rolledBack
    BY <1>3, <1>5, HooksOfParts DEF NewHook
  <2>2. \A t \in DOMAIN tx : listening[t] \subseteq {ReqHooks}
    BY DEF Init
  <2>3. \A p \in Parts : ReqHooks \notin Hooks(p)
    BY <1>5, OthersHooks
  <2> QED BY <2>1, <2>2, <2>3 DEF Blames
<1> QED BY <1>5, <1>6, <1>7, <1>8, <1>9 DEF IInv

\* The inductive invariant holds throughout.
LEMMA Invariant == Spec => []IInv
<1>1. IInv /\ [Next]_vars => IInv'
  BY TypeStep, AheadStep, TheirsStep, SettledStep, WritesStep, BlamesStep,
       CountsStep DEF IInv
<1> QED BY <1>1, Init_IInv, PTL DEF Spec

\* The type invariant of Request, for any batch.
THEOREM RequestTypeCorrect == Spec => []TypeOK
<1>1. IInv => TypeOK
  BY DEF IInv
<1> QED BY <1>1, Invariant, PTL

\* However many closes, timeouts, failures and hooks there are: no rollback
\* function is called twice (SideEffectHook.rollback, registerRollback), and
\* none of a part that succeeded and was committed.
THEOREM RightlyUndone == Spec => []UndoneRightly
<1>1. ASSUME IInv PROVE UndoneRightly
  <2>1. ASSUME NEW h \in DOMAIN hook PROVE hook[h].undone <= hook[h].made
    BY <1>1 DEF IInv, Counts, TypeOK, HookStates
  <2>2. ASSUME NEW p \in Parts, NEW h \in Hooks(p),
               outcome[p] = "ok", tx[Of(p)] = "committed"
        PROVE  ~hook[h].asked /\ hook[h].undone = 0
    <3>1. ~Without(p)
      BY <2>2 DEF Without, Of
    <3>2. ~hook[h].asked /\ ~hook[h].rolledBack
      BY <1>1, <2>2, <3>1 DEF IInv, Blames
    <3> QED BY <1>1, <3>2, HooksOfParts DEF IInv, Counts
  <2> QED BY <2>1, <2>2 DEF UndoneRightly
<1> QED BY <1>1, Invariant, PTL

\* A change set of runChangeSet is committed as a whole or not at all, whatever
\* fails, and whenever.
THEOREM PartsAtomic == Spec => []PartIsAtomic
<1>1. IInv => PartIsAtomic
  BY DEF IInv, Writes
<1> QED BY <1>1, Invariant, PTL

\* What is answered of a part in a transaction of its own is true: a success
\* only once its COMMIT has succeeded, and an error only when the transaction is
\* over and has not committed, or its COMMIT had no answer (runTransaction).
THEOREM AnswersTrue == Spec => []AnswerIsTrue
<1>1. ASSUME IInv PROVE AnswerIsTrue
  <2> SUFFICES ASSUME NEW p \in Parts, Of(p) = p
               PROVE  /\ outcome[p] = "ok" => tx[p] = "committed"
                      /\ outcome[p] = "error" => tx[p] \notin {"open", "committing", "committed"}
    BY DEF AnswerIsTrue
  <2>1. request.caller # "tx"
    BY <1>1, Shape DEF Of, IInv
  <2>2. outcome[p] = "error" => tx[p] # "committing"
    BY <1>1 DEF IInv, Settled, Ahead
  <2> QED BY <1>1, <2>1, <2>2 DEF IInv, Settled
<1> QED BY <1>1, Invariant, PTL
=============================================================================
