---------------------------- MODULE WebResource ----------------------------
(***************************************************************************)
(* The files that rows refer to (src/webresource-handler/index.ts): the    *)
(* middleware that uploads them before a request runs, the hooks that read *)
(* which files a request replaces, and the listeners on its transaction    *)
(* that have files deleted, by a task that is retried until it succeeds.   *)
(*                                                                         *)
(* A file is named by the request that uploads it and its field; those of  *)
(* the rows that exist at first are named by the row.                      *)
(***************************************************************************)
EXTENDS Naturals, FiniteSets

CONSTANTS
  Posts, Patches, Deletes,  \* the requests, by their method
  OldRows,     \* the rows that exist
  Fields,      \* WebResource fields of the resource
  Target,      \* the row that each PATCH or DELETE is for
  Touches,     \* the fields that each request sets
  Json,        \* PATCHes that are not multipart: they set fields to null
  Filtered,    \* requests with a $filter or permissions: whether the row is one
               \* of theirs changes with what others write, also elsewhere
  Late,        \* requests whose uploads may fail after the form has ended
  MaxFaults,   \* bound: lost answers to COMMIT, tasks that are not created
  Gone, Null, None

Requests == Posts \cup Patches \cup Deletes
Multipart == (Posts \cup Patches) \ Json
Rows == OldRows \cup Posts
Files == (OldRows \cup Multipart) \X Fields
RowOf(r) == IF r \in Posts THEN r ELSE Target[r]

ASSUME WebResourceAssumption ==
  /\ OldRows \cap Requests = {} /\ None \notin Requests
  /\ Posts \cap Patches = {} /\ Deletes \cap (Posts \cup Patches) = {}
  /\ Json \subseteq Patches /\ Filtered \subseteq Patches \cup Deletes
  /\ Target \in [Patches \cup Deletes -> Rows]
  /\ Touches \in [Requests -> SUBSET Fields]
  /\ \A r \in Deletes : Touches[r] = Fields
  /\ MaxFaults \in Nat

VARIABLES
  at,        \* where each request is
  upload,    \* its uploads
  formOver,  \* requests whose form busboy has parsed to the end
  aborted,   \* requests whose client was told that an upload failed
  body,      \* req.body, its WebResource fields only
  row,       \* the rows, as committed
  lock,      \* the request whose transaction has written the row
  found,     \* requests whose PRERUN hook found the row (affectedIds)
  wrote,     \* PATCHes and DELETEs that wrote it (rowsAffected)
  ends,      \* files that the 'end' listener of a request deletes
  cleans,    \* requests with a 'rollback' listener that deletes their files
  ended,     \* how the transaction of each request has ended
  file,      \* the files at the provider
  faults

uploadVars == <<upload, formOver, aborted, body>>
txVars == <<row, lock, ended, wrote>>
hookVars == <<found, ends, cleans>>
vars == <<at, uploadVars, txVars, hookVars, file, faults>>
-----------------------------------------------------------------------------
SetFields(r) == IF r \in Deletes THEN Fields ELSE DOMAIN body[r]
FilesIn(r) == {body[r][f] : f \in DOMAIN body[r]} \ {Null}
Sending(r) == {f \in Fields : upload[r][f] = "sending"}
Sent(r) == {<<r, f>> : f \in {g \in Fields : upload[r][g] = "sent"}}

Init ==
  /\ upload = [r \in Requests |-> [f \in Fields |->
       IF r \in Multipart /\ f \in Touches[r] THEN "sending" ELSE "none"]]
  /\ at = [r \in Requests |-> IF r \in Multipart THEN "upload" ELSE "request"]
  /\ formOver = {} /\ aborted = {}
  /\ body = [r \in Requests |-> [f \in IF r \in Json THEN Touches[r] ELSE {} |-> Null]]
  /\ row = [x \in Rows |-> IF x \in OldRows THEN [f \in Fields |-> <<x, f>>] ELSE Gone]
  /\ lock = [x \in Rows |-> None]
  /\ found = {} /\ wrote = {}
  /\ ends = [r \in Requests |-> {}]
  /\ cleans = {}
  /\ ended = [r \in Requests |-> "no"]
  /\ file = [f \in Files |-> IF f[1] \in OldRows THEN "stored" ELSE "none"]
  /\ faults = 0

To(r, place) == at' = [at EXCEPT ![r] = place]

Condemned(F) == [f \in Files |-> IF f \in F /\ file[f] # "deleted" THEN "condemned" ELSE file[f]]

\* deleteFiles: a task for each file; its POST may fail, which nobody awaits.
Delete(F) ==
  \/ file' = Condemned(F) /\ UNCHANGED faults
  \/ /\ F # {} /\ faults < MaxFaults
     /\ faults' = faults + 1
     /\ UNCHANGED file
-----------------------------------------------------------------------------
(* getUploaderMiddlware *)

\* handleFile resolves, whether or not another upload has failed meanwhile.
Uploaded(r, f) ==
  /\ upload[r][f] = "sending"
  /\ upload' = [upload EXCEPT ![r][f] = "sent"]
  /\ body' = [body EXCEPT ![r] = [g \in DOMAIN @ \cup {f} |->
                                    IF g = f THEN <<r, f>> ELSE @[g]]]
  /\ file' = [file EXCEPT ![<<r, f>>] = "stored"]
  /\ UNCHANGED <<at, formOver, aborted, txVars, hookVars, faults>>

\* clearFiles, best effort: what is uploaded by now, and no more.
ClearFiles(r) == \E F \in SUBSET Sent(r) : file' = Condemned(F)

\* handleFile rejects: the 'error' listener answers.  A second error finds no
\* listener, and throws.
UploadFails(r, f) ==
  /\ upload[r][f] = "sending"
  /\ r \in formOver => r \in Late
  /\ IF r \in aborted
     THEN /\ upload' = [upload EXCEPT ![r][f] = "thrown"]
          /\ UNCHANGED <<at, aborted, file>>
     ELSE /\ upload' = [upload EXCEPT ![r][f] = "failed"]
          /\ aborted' = aborted \cup {r}
          /\ ClearFiles(r)
          /\ IF r \in formOver THEN UNCHANGED at ELSE To(r, "done")
  /\ UNCHANGED <<formOver, body, txVars, hookVars, faults>>

FormEnds(r) ==
  /\ at[r] = "upload" /\ r \notin formOver
  /\ formOver' = formOver \cup {r}
  /\ UNCHANGED <<at, upload, aborted, body, txVars, hookVars, file, faults>>

\* The 'finish' listener: every upload has settled.  One that failed has been
\* caught, and the request goes on.
GoesOn(r) ==
  /\ at[r] = "upload" /\ r \in formOver
  /\ Sending(r) = {}
  /\ IF \E f \in Fields : upload[r][f] = "thrown"
     THEN To(r, "done") /\ ClearFiles(r)
     ELSE To(r, "request") /\ UNCHANGED file
  /\ UNCHANGED <<uploadVars, txVars, hookVars, faults>>
-----------------------------------------------------------------------------
(* The request in its transaction *)

Refused(r) ==
  /\ at[r] = "request"
  /\ To(r, "done")
  /\ UNCHANGED <<uploadVars, txVars, hookVars, file, faults>>

\* The PRERUN hook of PATCH and DELETE listens for the rollback first of all.
Begin(r) ==
  /\ at[r] = "request"
  /\ To(r, "prerun")
  /\ cleans' = IF r \in Posts THEN cleans ELSE cleans \cup {r}
  /\ UNCHANGED <<uploadVars, txVars, found, ends, file, faults>>

\* The WHERE of a request, its $filter and permissions, finds its row, or not.
MayFind(r) == row[RowOf(r)] # Gone
MayMiss(r) == row[RowOf(r)] = Gone \/ r \in Filtered

\* getAffectedIds.  When there are none the new files are deleted at once.
Prerun(r) ==
  /\ at[r] = "prerun"
  /\ \/ /\ r \in Posts \/ SetFields(r) = {}
        /\ To(r, "run")
        /\ UNCHANGED <<found, file, faults>>
     \/ /\ r \notin Posts /\ SetFields(r) # {} /\ MayMiss(r)
        /\ To(r, "run") /\ Delete(FilesIn(r))
        /\ UNCHANGED found
     \/ /\ r \notin Posts /\ SetFields(r) # {} /\ MayFind(r)
        /\ To(r, "read") /\ found' = found \cup {r}
        /\ UNCHANGED <<file, faults>>
  /\ UNCHANGED <<uploadVars, txVars, ends, cleans>>

Hrefs(r) == IF row[RowOf(r)] = Gone THEN {}
            ELSE {row[RowOf(r)][f] : f \in SetFields(r)} \ {Null}

\* Fault: the files are deleted without waiting for the transaction.
DeletesAtOnce(r) ==
  /\ at[r] = "read"
  /\ Delete(Hrefs(r))
  /\ To(r, "run")
  /\ UNCHANGED <<uploadVars, txVars, hookVars>>

\* Fault: a field that is set to null counts as one that is not set.
ReadsNewFilesOnly(r) ==
  /\ at[r] = "read"
  /\ ends' = [ends EXCEPT ![r] = IF r \in Json THEN {} ELSE Hrefs(r)]
  /\ To(r, "run")
  /\ UNCHANGED <<uploadVars, txVars, found, cleans, file, faults>>

\* The hrefs that are to be replaced, deleted when the transaction ends.
Read(r) ==
  /\ at[r] = "read"
  /\ ends' = [ends EXCEPT ![r] = Hrefs(r)]
  /\ To(r, "run")
  /\ UNCHANGED <<uploadVars, txVars, found, cleans, file, faults>>

\* The statement looks for the row anew, with the WHERE of the request and not
\* by the ids that the hook found; it waits for the row, and writes it if it is
\* still one of its rows then.  The request goes on, whether it is or not.
Write(r) ==
  /\ at[r] = "run"
  /\ \/ /\ r \in Posts \/ MayFind(r)
        /\ lock[RowOf(r)] = None
        /\ lock' = [lock EXCEPT ![RowOf(r)] = r]
        /\ wrote' = wrote \cup ({r} \ Posts)
     \/ r \notin Posts /\ MayMiss(r) /\ UNCHANGED <<lock, wrote>>
  /\ To(r, "postrun")
  /\ UNCHANGED <<uploadVars, row, ended, hookVars, file, faults>>

\* A hook or the statement fails, or the client goes away.  POST listens in
\* its POSTRUN-ERROR hook, which does not see errors of PRERESPOND hooks.
Fails(r) ==
  /\ at[r] \in {"prerun", "read", "run", "postrun"}
  /\ cleans' \in IF r \in Posts /\ at[r] = "postrun"
                 THEN {cleans, cleans \cup {r}}
                 ELSE {IF r \in Posts THEN cleans \cup {r} ELSE cleans}
  /\ To(r, "rollback")
  /\ UNCHANGED <<uploadVars, txVars, found, ends, file, faults>>

Unlocked(r) == [x \in Rows |-> IF lock[x] = r THEN None ELSE lock[x]]

RollsBack(r) ==
  /\ at[r] = "rollback"
  /\ ended' = [ended EXCEPT ![r] = "rolledBack"]
  /\ lock' = Unlocked(r) /\ wrote' = wrote \ {r}
  /\ Delete(IF r \in cleans THEN FilesIn(r) ELSE {})
  /\ To(r, "done")
  /\ UNCHANGED <<uploadVars, row, hookVars>>

Old(x) == IF row[x] = Gone THEN [f \in Fields |-> Null] ELSE row[x]
Written(r) ==
  [x \in Rows |->
    IF lock[x] # r THEN row[x]
    ELSE IF r \in Deletes THEN Gone
    ELSE [f \in Fields |-> IF f \in DOMAIN body[r] THEN body[r][f] ELSE Old(x)[f]]]

Commits(r) ==
  /\ at[r] = "postrun"
  /\ ended' = [ended EXCEPT ![r] = "committed"]
  /\ row' = Written(r) /\ lock' = Unlocked(r)
  /\ Delete(ends[r])
  /\ To(r, "done")
  /\ UNCHANGED <<uploadVars, wrote, hookVars>>

\* COMMIT fails, or its answer is lost: no listener runs.
CommitFails(r) ==
  /\ at[r] = "postrun"
  /\ faults < MaxFaults
  /\ faults' = faults + 1
  /\ ended' = [ended EXCEPT ![r] = "lost"]
  /\ row' \in {row, Written(r)} /\ lock' = Unlocked(r)
  /\ To(r, "done")
  /\ UNCHANGED <<uploadVars, wrote, hookVars, file>>

\* The delete task has succeeded.
Remove(f) ==
  /\ file[f] = "condemned"
  /\ file' = [file EXCEPT ![f] = "deleted"]
  /\ UNCHANGED <<at, uploadVars, txVars, hookVars, faults>>
-----------------------------------------------------------------------------
Runs(r) == \/ FormEnds(r) \/ GoesOn(r)
           \/ Refused(r) \/ Begin(r) \/ Prerun(r) \/ Read(r) \/ Write(r) \/ Fails(r)
           \/ RollsBack(r) \/ Commits(r) \/ CommitFails(r)

Next ==
  \/ \E r \in Requests : Runs(r) \/ \E f \in Fields : Uploaded(r, f) \/ UploadFails(r, f)
  \/ \E f \in Files : Remove(f)

Spec == Init /\ [][Next]_vars

\* Uploads, hooks and statements settle, and delete tasks are retried.
FairSpec ==
  /\ Spec
  /\ WF_vars(\E r \in Requests : Runs(r) \/ \E f \in Fields : Uploaded(r, f) \/ UploadFails(r, f))
  /\ WF_vars(\E f \in Files : Remove(f))
-----------------------------------------------------------------------------
TypeOK ==
  /\ at \in [Requests -> {"upload", "request", "prerun", "read", "run", "postrun",
                          "rollback", "done"}]
  /\ upload \in [Requests -> [Fields -> {"none", "sending", "sent", "failed", "thrown"}]]
  /\ \A r \in Requests : at[r] \notin {"upload", "done"} => Sending(r) = {}
  /\ formOver \subseteq Multipart /\ aborted \subseteq Multipart
  /\ \A r \in Requests : /\ DOMAIN body[r] \subseteq Touches[r]
                         /\ FilesIn(r) \subseteq Files
  /\ \A x \in Rows : row[x] = Gone \/ row[x] \in [Fields -> Files \cup {Null}]
  /\ lock \in [Rows -> Requests \cup {None}]
  /\ ends \in [Requests -> SUBSET Files] /\ cleans \subseteq Requests
  /\ found \subseteq Requests /\ wrote \subseteq Requests
  /\ ended \in [Requests -> {"no", "committed", "rolledBack", "lost"}]
  /\ file \in [Files -> {"none", "stored", "condemned", "deleted"}]
  /\ faults \in 0..MaxFaults

\* A row refers to a file that is deleted, or about to be, only where the hook
\* and the statement of a request, which look for its row one after the other,
\* did not both find it: the hook did, and the files it read there were deleted
\* once the request that wrote nothing was committed; or the statement did, and
\* the files it wrote were deleted by the hook.  Requests whose hook and
\* statement agree delete only what they have replaced, or have not written.
DeletedUnreplaced(r) == IF r \in found \ wrote /\ ended[r] = "committed" THEN ends[r] ELSE {}
DeletedUnwritten(r) == IF r \in wrote \ found THEN FilesIn(r) ELSE {}
Torn(x, h) == \E r \in Requests :
                /\ RowOf(r) = x
                /\ h \in DeletedUnreplaced(r) \cup DeletedUnwritten(r)
NoDangling ==
  \A x \in Rows : row[x] # Gone =>
    \A f \in Fields : row[x][f] # Null =>
      file[row[x][f]] = "stored" \/ Torn(x, row[x][f])

Referenced == UNION {{row[x][f] : f \in Fields} : x \in {y \in Rows : row[y] # Gone}}

\* What a PATCH uploaded is deleted when its transaction is rolled back, however
\* far the request had come; and so is a file that rows no longer refer to, even
\* when the requests that replace it or delete its row race, unless one of those
\* wrote a row that its hook had not found.  (The file of a PATCH that another
\* one overwrites, or that finds its row no more, is left behind.)
FilesAreCleared ==
  /\ []<>(\A r \in Patches :
            ended[r] = "rolledBack" /\ faults = 0 => \A f \in FilesIn(r) : file[f] = "deleted")
  /\ []<>(faults = 0 /\ wrote \subseteq found =>
            \A f \in OldRows \X Fields : f \in Referenced \/ file[f] = "deleted")
=============================================================================
