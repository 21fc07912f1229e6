-------------------------- MODULE WebResourceProofs --------------------------
(***************************************************************************)
(* Proofs about WebResource, for any number of requests, rows and files.   *)
(* A file is shown by its own row only, once the request that uploaded it  *)
(* is over, and until then nobody but that request has it deleted.         *)
(***************************************************************************)
EXTENDS WebResource, TLAPS

\* Whose files the row x may refer to.
Mine(x, q) == \/ q = x /\ x \in OldRows
              \/ q \in Multipart /\ RowOf(q) = x /\ at[q] = "done"

ShowsItsOwn ==
  \A x \in Rows : row[x] # Gone =>
    \A f \in Fields : row[x][f] # Null =>
      row[x][f] \in Files /\ row[x][f][2] = f /\ Mine(x, row[x][f][1])

\* A request only replaces files of its row, in the fields that it sets.
ReplacesItsOwn ==
  \A r \in Requests : \A h \in ends[r] :
    /\ r \notin Posts /\ r \in found /\ h \in Files
    /\ h[2] \in SetFields(r) /\ Mine(RowOf(r), h[1])

Bodies ==
  /\ DOMAIN body = Requests
  /\ \A r \in Requests :
       /\ r \notin Multipart \cup Json => DOMAIN body[r] = {}
       /\ \A f \in DOMAIN body[r] :
            f \in Fields /\ body[r][f] = IF r \in Multipart THEN <<r, f>> ELSE Null

Uploads ==
  \A r \in Requests :
    /\ at[r] = "upload" => r \in Multipart
    /\ r \in aborted => at[r] = "done"
    /\ \A f \in Fields : upload[r][f] = "sending" =>
         /\ r \in Multipart /\ f \in Touches[r]
         /\ at[r] = "upload" \/ r \in aborted
    /\ \A f \in Fields : upload[r][f] = "thrown" => r \in aborted

\* What a request has uploaded stays, unless its hook has found no row for it.
Stays ==
  \A r \in Multipart : at[r] # "done" =>
    \/ \A f \in DOMAIN body[r] : file[<<r, f>>] = "stored"
    \/ r \notin Posts \cup found /\ at[r] \in {"run", "postrun", "rollback"}

\* Who has written a row has it locked until the transaction ends.
Locks ==
  /\ \A x \in Rows : \A r \in Requests : lock[x] = r =>
       /\ RowOf(r) = x /\ at[r] \in {"postrun", "rollback"}
       /\ r \in Posts \/ (row[x] # Gone /\ r \in wrote)
  /\ \A r \in wrote : at[r] = "postrun" => lock[RowOf(r)] = r

\* When a request has looked for its row, written it, and ended.
Looks ==
  \A r \in Requests :
    /\ r \in found => at[r] \in {"read", "run", "postrun", "rollback", "done"}
    /\ at[r] = "read" => r \in found \ Posts
    /\ r \in wrote => at[r] \in {"postrun", "rollback", "done"}
    /\ ended[r] # "no" => at[r] = "done"

IInv ==
  /\ TypeOK /\ NoDangling /\ ShowsItsOwn /\ ReplacesItsOwn /\ Bodies /\ Uploads
  /\ Stays /\ Locks /\ Looks

\* What NoDangling asks of an application and its clients: no upload fails once
\* its form is over.
Prudent == Late = {}
-----------------------------------------------------------------------------
LEMMA Init_IInv == Init => IInv
<1> SUFFICES ASSUME Init PROVE IInv
  OBVIOUS
<1> USE WebResourceAssumption DEF Init, Requests, Rows, Files, Multipart
<1>1. TypeOK
  <2>1. row \in [Rows -> {Gone} \cup [Fields -> Files \cup {Null}]]
    OBVIOUS
  <2>2. \A r \in Requests : DOMAIN body[r] \subseteq Touches[r] /\ FilesIn(r) = {}
    BY DEF FilesIn
  <2>3. at \in [Requests -> {"upload", "request"}]
    OBVIOUS
  <2>4. \A r \in Requests : at[r] # "upload" => Sending(r) = {}
    BY DEF Sending
  <2>5. /\ upload \in [Requests -> [Fields -> {"none", "sending"}]]
        /\ file \in [Files -> {"none", "stored"}]
        /\ lock \in [Rows -> {None}] /\ ends \in [Requests -> SUBSET Files]
        /\ ended \in [Requests -> {"no"}]
        /\ formOver = {} /\ aborted = {} /\ cleans = {} /\ faults \in 0..MaxFaults
        /\ found = {} /\ wrote = {}
    OBVIOUS
  <2> HIDE DEF Init, Requests, Rows, Files, Multipart
  <2> QED BY <2>1, <2>2, <2>3, <2>4, <2>5 DEF TypeOK
<1>2. NoDangling /\ ShowsItsOwn
  BY DEF NoDangling, ShowsItsOwn, Mine
<1>3. ReplacesItsOwn /\ Bodies /\ Uploads
  BY DEF ReplacesItsOwn, Bodies, Uploads
<1>4. Stays /\ Locks /\ Looks
  BY DEF Stays, Locks, Looks
<1> QED BY <1>1, <1>2, <1>3, <1>4 DEF IInv

-----------------------------------------------------------------------------
(* What the actions come to, in a state of the invariant. *)

LEMMA FilesOfBody ==
  ASSUME Bodies, NEW r \in Requests, NEW h \in FilesIn(r)
  PROVE  r \in Multipart /\ h \in Files /\ h[1] = r
  BY DEF Bodies, FilesIn, Files

LEMMA Deletes_ ==
  ASSUME TypeOK, NEW F, Delete(F)
  PROVE  /\ file' \in [Files -> {"none", "stored", "condemned", "deleted"}]
         /\ faults' \in 0..MaxFaults
         /\ \A h \in Files : h \notin F => file'[h] = file[h]
  BY WebResourceAssumption DEF TypeOK, Delete, Condemned

LEMMA Clears ==
  ASSUME TypeOK, NEW r \in Requests, ClearFiles(r)
  PROVE  /\ file' \in [Files -> {"none", "stored", "condemned", "deleted"}]
         /\ \A h \in Files : h[1] # r => file'[h] = file[h]
<1>1. \A h \in Sent(r) : h[1] = r
  BY DEF Sent
<1>2. PICK F \in SUBSET Sent(r) : file' = Condemned(F)
  BY DEF ClearFiles
<1> QED BY <1>1, <1>2 DEF TypeOK, Condemned

LEMMA UploadFailsDoes ==
  ASSUME TypeOK, Uploads, Prudent, NEW r \in Requests, NEW f \in Fields,
         UploadFails(r, f)
  PROVE  /\ r \in Multipart /\ at[r] \in {"upload", "done"}
         /\ at' = [at EXCEPT ![r] = "done"] /\ aborted' = aborted \cup {r}
         /\ \E st \in {"failed", "thrown"} : upload' = [upload EXCEPT ![r][f] = st]
         /\ file' \in [Files -> {"none", "stored", "condemned", "deleted"}]
         /\ \A h \in Files : at[h[1]] = "done" \/ h[1] # r => file'[h] = file[h]
         /\ UNCHANGED <<formOver, body, row, lock, ended, wrote, found, ends, cleans, faults>>
<1>1. /\ r \in Multipart /\ r \notin formOver
      /\ at[r] = "upload" \/ r \in aborted
      /\ UNCHANGED <<formOver, body, row, lock, ended, wrote, found, ends, cleans, faults>>
  BY DEF UploadFails, Uploads, Prudent, txVars, hookVars
<1>2. CASE r \in aborted
  <2>1. at[r] = "done" /\ at' = at /\ file' = file /\ aborted' = aborted
    BY <1>2 DEF UploadFails, Uploads
  <2> QED BY <1>1, <1>2, <2>1 DEF UploadFails, TypeOK
<1>3. CASE r \notin aborted
  <2>1. at[r] = "upload" /\ at' = [at EXCEPT ![r] = "done"] /\ ClearFiles(r)
    BY <1>1, <1>3 DEF UploadFails, To
  <2> QED BY <1>1, <1>3, <2>1, Clears DEF UploadFails, TypeOK
<1> QED BY <1>2, <1>3

LEMMA GoesOnDoes ==
  ASSUME Uploads, NEW r \in Requests, GoesOn(r)
  PROVE  at' = [at EXCEPT ![r] = "request"] /\ file' = file
  BY DEF Uploads, GoesOn, To

LEMMA PrerunDoes ==
  ASSUME TypeOK, Bodies, NEW r \in Requests, Prerun(r)
  PROVE  /\ \/ at' = [at EXCEPT ![r] = "run"] /\ found' = found
            \/ at' = [at EXCEPT ![r] = "read"] /\ found' = found \cup {r} /\ r \notin Posts
         /\ file' \in [Files -> {"none", "stored", "condemned", "deleted"}]
         /\ faults' \in 0..MaxFaults
         /\ \A h \in Files :
              \/ file'[h] = file[h]
              \/ h[1] = r /\ r \notin Posts /\ found' = found /\ at'[r] = "run"
         /\ UNCHANGED <<upload, formOver, aborted, body, row, lock, ended, wrote, ends, cleans>>
<1>0. UNCHANGED <<upload, formOver, aborted, body, row, lock, ended, wrote, ends, cleans>>
  BY DEF Prerun, uploadVars, txVars
<1>1. CASE UNCHANGED <<file, faults>>
  BY <1>0, <1>1 DEF Prerun, To, TypeOK
<1>2. CASE r \notin Posts /\ found' = found /\ Delete(FilesIn(r)) /\ To(r, "run")
  <2>1. at' = [at EXCEPT ![r] = "run"] /\ at'[r] = "run"
    BY <1>2 DEF To, TypeOK
  <2> QED BY <1>0, <1>2, <2>1, Deletes_, FilesOfBody
<1> QED BY <1>1, <1>2 DEF Prerun

LEMMA RollsBackDoes ==
  ASSUME TypeOK, Bodies, NEW r \in Requests, RollsBack(r)
  PROVE  /\ file' \in [Files -> {"none", "stored", "condemned", "deleted"}]
         /\ faults' \in 0..MaxFaults
         /\ \A h \in Files : h[1] # r => file'[h] = file[h]
<1>1. Delete(IF r \in cleans THEN FilesIn(r) ELSE {})
  BY DEF RollsBack
<1> QED BY <1>1, Deletes_, FilesOfBody

LEMMA CommitsDoes ==
  ASSUME TypeOK, NEW r \in Requests, Commits(r)
  PROVE  /\ file' \in [Files -> {"none", "stored", "condemned", "deleted"}]
         /\ faults' \in 0..MaxFaults
         /\ \A h \in Files : h \notin ends[r] => file'[h] = file[h]
  BY Deletes_ DEF Commits

LEMMA WrittenRow ==
  ASSUME Locks, NEW r \in Requests, NEW x \in Rows
  PROVE  /\ x # RowOf(r) => Written(r)[x] = row[x]
         /\ \/ Written(r)[x] = row[x] /\ lock[x] # r
            \/ Written(r)[x] = Gone /\ lock[x] = r
            \/ /\ lock[x] = r /\ r \notin Deletes
               /\ Written(r)[x] \in [Fields -> {Written(r)[x][f] : f \in Fields}]
               /\ \A f \in Fields :
                    Written(r)[x][f] = IF f \in DOMAIN body[r] THEN body[r][f]
                                       ELSE IF row[x] = Gone THEN Null ELSE row[x][f]
<1>1. CASE lock[x] # r
  BY <1>1 DEF Written
<1>2. CASE lock[x] = r /\ r \in Deletes
  BY <1>2 DEF Written, Locks
<1>3. CASE lock[x] = r /\ r \notin Deletes
  <2>1. Written(r)[x] = [f \in Fields |-> IF f \in DOMAIN body[r] THEN body[r][f]
                                        ELSE Old(x)[f]]
    BY <1>3 DEF Written
  <2>2. \A f \in Fields : Old(x)[f] = IF row[x] = Gone THEN Null ELSE row[x][f]
    BY DEF Old
  <2>3. x = RowOf(r)
    BY <1>3 DEF Locks
  <2> HIDE DEF Written
  <2> QED BY <1>3, <2>1, <2>2, <2>3
<1> QED BY <1>1, <1>2, <1>3

LEMMA RowsOfRequests ==
  ASSUME NEW r \in Requests PROVE RowOf(r) \in Rows
  BY WebResourceAssumption DEF RowOf, Rows, Requests

LEMMA SetsFields ==
  ASSUME Bodies, NEW r \in Requests PROVE SetFields(r) \subseteq Fields
  BY DEF Bodies, SetFields

LEMMA WrittenType ==
  ASSUME TypeOK, ShowsItsOwn, Bodies, NEW r \in Requests, NEW x \in Rows
  PROVE  Written(r)[x] = Gone \/ Written(r)[x] \in [Fields -> Files \cup {Null}]
<1>1. \A f \in Fields : Old(x)[f] \in Files \cup {Null}
  BY DEF Old, ShowsItsOwn
<1>2. \A f \in DOMAIN body[r] : body[r][f] \in Files \cup {Null}
  BY DEF Bodies, Files
<1> QED BY <1>1, <1>2 DEF Written, TypeOK

\* What is known of a request that is over stays as it is.
LEMMA OverStays ==
  ASSUME IInv, Prudent, [Next]_vars, NEW r \in Requests, at[r] = "done"
  PROVE  /\ at'[r] = "done" /\ ended'[r] = ended[r] /\ ends'[r] = ends[r]
         /\ (r \in found') = (r \in found) /\ (r \in wrote') = (r \in wrote)
         /\ FilesIn(r) \subseteq FilesIn(r)'
<1>1. ASSUME NEW q \in Requests, NEW f \in Fields, Uploaded(q, f)
      PROVE  FilesIn(r) \subseteq FilesIn(r)'
  <2>1. body' = [body EXCEPT ![q] = [g \in DOMAIN @ \cup {f} |->
                                       IF g = f THEN <<q, f>> ELSE @[g]]]
    BY <1>1 DEF Uploaded
  <2>2. q \in Multipart
    BY <1>1 DEF Uploaded, IInv, Uploads
  <2>3. CASE r # q
    BY <2>1, <2>3 DEF FilesIn, IInv, Bodies
  <2>4. CASE r = q
    <3>1. body'[r] = [g \in DOMAIN body[r] \cup {f} |-> IF g = f THEN <<r, f>> ELSE body[r][g]]
      BY <2>1, <2>4 DEF IInv, Bodies
    <3>2. \A g \in DOMAIN body[r] : body'[r][g] = body[r][g]
      BY <2>2, <2>4, <3>1 DEF IInv, Bodies
    <3> QED BY <3>1, <3>2 DEF FilesIn
  <2> QED BY <2>3, <2>4
<1>2. body' = body => FilesIn(r) \subseteq FilesIn(r)'
  BY DEF FilesIn
<1>3. ASSUME NEW q \in Requests, NEW f \in Fields, Uploaded(q, f) \/ UploadFails(q, f)
      PROVE  /\ at'[r] = "done" /\ UNCHANGED <<ended, ends, found, wrote>>
             /\ FilesIn(r) \subseteq FilesIn(r)'
  <2>1. CASE Uploaded(q, f)
    BY <1>1, <2>1 DEF Uploaded, txVars, hookVars
  <2>2. CASE UploadFails(q, f)
    BY <1>2, <2>2, UploadFailsDoes DEF IInv, TypeOK
  <2> QED BY <1>3, <2>1, <2>2
<1>4. ASSUME NEW q \in Requests, Runs(q)
      PROVE  /\ at'[r] = "done" /\ body' = body
             /\ ended'[r] = ended[r] /\ ends'[r] = ends[r]
             /\ (r \in found') = (r \in found) /\ (r \in wrote') = (r \in wrote)
  <2>1. q # r /\ body' = body
    BY <1>4 DEF Runs, FormEnds, GoesOn, Refused, Begin, Prerun, Read, Write, Fails,
         RollsBack, Commits, CommitFails, uploadVars
  <2>2. at'[r] = "done"
    BY <1>4, <2>1 DEF IInv, TypeOK, Runs, FormEnds, GoesOn, Refused, Begin, Prerun,
         Read, Write, Fails, RollsBack, Commits, CommitFails, To
  <2>3. ended'[r] = ended[r] /\ ends'[r] = ends[r]
    BY <1>4, <2>1 DEF IInv, TypeOK, Runs, FormEnds, GoesOn, Refused, Begin, Prerun,
         Read, Write, Fails, RollsBack, Commits, CommitFails, txVars, hookVars
  <2>4. (r \in found') = (r \in found) /\ (r \in wrote') = (r \in wrote)
    BY <1>4, <2>1 DEF Runs, FormEnds, GoesOn, Refused, Begin, Prerun,
         Read, Write, Fails, RollsBack, Commits, CommitFails, txVars, hookVars
  <2> QED BY <2>1, <2>2, <2>3, <2>4
<1>5. ASSUME UNCHANGED vars \/ \E f \in Files : Remove(f)
      PROVE  UNCHANGED <<at, ended, ends, found, wrote, body>>
  BY <1>5 DEF vars, Remove, uploadVars, txVars, hookVars
<1> QED BY <1>2, <1>3, <1>4, <1>5 DEF Next

LEMMA TornStays ==
  ASSUME IInv, Prudent, [Next]_vars, NEW x \in Rows, NEW h, Torn(x, h), Mine(x, h[1])
  PROVE  Torn(x, h)'
<1>1. PICK r \in Requests : /\ RowOf(r) = x
                            /\ h \in DeletedUnreplaced(r) \cup DeletedUnwritten(r)
  BY DEF Torn
<1>2. at[r] = "done"
  <2>1. CASE h \in DeletedUnreplaced(r)
    BY <2>1 DEF DeletedUnreplaced, IInv, Looks
  <2>2. CASE h \in DeletedUnwritten(r)
    <3>1. h[1] = r
      BY <2>2, FilesOfBody DEF DeletedUnwritten, IInv
    <3> QED BY <3>1, WebResourceAssumption DEF Mine
  <2> QED BY <1>1, <2>1, <2>2
<1>3. h \in DeletedUnreplaced(r)' \cup DeletedUnwritten(r)'
  BY <1>1, <1>2, OverStays DEF DeletedUnreplaced, DeletedUnwritten
<1> QED BY <1>1, <1>3 DEF Torn, RowOf

\* The row that r writes refers to files of r, stored so far unless its hook had
\* found no row for them, and keeps others.
LEMMA WritesStored ==
  ASSUME IInv, Prudent, NEW r \in Requests, at[r] = "postrun",
         NEW x \in Rows, Written(r)[x] # Gone, NEW f \in Fields,
         Written(r)[x][f] # Null
  PROVE  LET h == Written(r)[x][f]
         IN  /\ h \in Files /\ h[2] = f
             /\ \/ Mine(x, h[1]) /\ (file[h] = "stored" \/ Torn(x, h))
                \/ /\ h[1] = r /\ r \in Multipart /\ RowOf(r) = x
                   /\ file[h] = "stored" \/ h \in DeletedUnwritten(r)
<1> DEFINE h == Written(r)[x][f]
<1>1. CASE lock[x] # r
  <2>1. Written(r)[x] = row[x]
    BY <1>1 DEF Written
  <2> QED BY <2>1 DEF IInv, NoDangling, ShowsItsOwn
<1>2. CASE lock[x] = r
  <2>1. /\ RowOf(r) = x
        /\ r \in Posts \/ (row[x] # Gone /\ r \in wrote)
        /\ h = IF f \in DOMAIN body[r] THEN body[r][f]
               ELSE IF row[x] = Gone THEN Null ELSE row[x][f]
    BY <1>2, WrittenRow DEF IInv, Locks
  <2>2. CASE f \in DOMAIN body[r]
    <3>1. r \in Multipart /\ h = <<r, f>>
      BY <2>1, <2>2 DEF IInv, Bodies
    <3>2. file[<<r, f>>] = "stored" \/ r \in wrote \ found
      BY <2>1, <2>2, <3>1 DEF IInv, Stays
    <3>3. h \in FilesIn(r)
      BY <2>1, <2>2 DEF FilesIn
    <3> QED BY <2>1, <3>1, <3>2, <3>3 DEF Files, DeletedUnwritten
  <2>3. CASE f \notin DOMAIN body[r]
    <3>1. row[x] # Gone /\ h = row[x][f]
      BY <2>1, <2>3
    <3> QED BY <3>1 DEF IInv, NoDangling, ShowsItsOwn
  <2> QED BY <2>2, <2>3
<1> QED BY <1>1, <1>2

\* None of them is a file that r replaces, if it has written the row.
LEMMA WritesUnreplaced ==
  ASSUME IInv, Prudent, NEW r \in Requests, at[r] = "postrun",
         NEW x \in Rows, Written(r)[x] # Gone, NEW f \in Fields,
         Written(r)[x][f] # Null, Written(r)[x][f] \in ends[r]
  PROVE  RowOf(r) = x /\ r \in found \ wrote
<1> DEFINE h == Written(r)[x][f]
<1>1. /\ r \notin Posts /\ r \in found /\ h \in Files /\ h[2] \in SetFields(r)
      /\ Mine(RowOf(r), h[1])
  BY DEF IInv, ReplacesItsOwn
<1>2. h[2] = f /\ (Mine(x, h[1]) \/ h[1] = r)
  BY WritesStored
<1>3. h[1] # r
  BY <1>1, WebResourceAssumption DEF Mine
<1>4. x = RowOf(r)
  BY <1>1, <1>2, <1>3, WebResourceAssumption DEF Mine, Multipart, Requests
<1> SUFFICES ASSUME r \in wrote PROVE FALSE
  BY <1>1, <1>4
<1>5. lock[x] = r
  BY <1>4 DEF IInv, Locks
<1>6. r \notin Deletes /\ f \in DOMAIN body[r]
  BY <1>1, <1>2, <1>5, WrittenRow DEF IInv, SetFields, Written
<1>7. h = body[r][f]
  BY <1>5, <1>6, WrittenRow DEF IInv
<1>8. h = <<r, f>> \/ h = Null
  BY <1>6, <1>7 DEF IInv, Bodies
<1> QED BY <1>3, <1>8

LEMMA WritesItsOwn ==
  ASSUME IInv, Prudent, NEW r \in Requests, at[r] = "postrun",
         at' = [at EXCEPT ![r] = "done"], row' \in {row, Written(r)}
  PROVE  ShowsItsOwn'
<1>1. \A q \in Requests : at[q] = "done" => at'[q] = "done"
  BY DEF IInv, TypeOK
<1>2. at'[r] = "done"
  BY DEF IInv, TypeOK
<1>3. \A x \in Rows : \A q : Mine(x, q) => Mine(x, q)'
  BY <1>1 DEF Mine, Multipart, Requests
<1>4. \A x \in Rows : r \in Multipart /\ RowOf(r) = x => Mine(x, r)'
  BY <1>2 DEF Mine
<1>5. ASSUME row' = row PROVE ShowsItsOwn'
  BY <1>3, <1>5 DEF IInv, ShowsItsOwn
<1>6. ASSUME row' = Written(r) PROVE ShowsItsOwn'
  <2> SUFFICES ASSUME NEW x \in Rows, row'[x] # Gone, NEW f \in Fields,
                      NEW h, h = row'[x][f], h # Null
               PROVE  h \in Files /\ h[2] = f /\ Mine(x, h[1])'
    BY DEF ShowsItsOwn
  <2>1. /\ h \in Files /\ h[2] = f
        /\ \/ Mine(x, h[1])
           \/ h[1] = r /\ r \in Multipart /\ RowOf(r) = x
    BY <1>6, WritesStored
  <2> QED BY <1>3, <1>4, <2>1
<1> QED BY <1>5, <1>6

\* What is uploaded to a field becomes its value, and no other value is set.
LEMMA BodiesStep ==
  ASSUME TypeOK, Bodies, Uploads, [Next]_vars
  PROVE  Bodies'
<1>1. ASSUME NEW r \in Requests, NEW f \in Fields, Uploaded(r, f) PROVE Bodies'
  <2>1. /\ r \in Multipart
        /\ body' = [body EXCEPT ![r] = [g \in DOMAIN @ \cup {f} |->
                                          IF g = f THEN <<r, f>> ELSE @[g]]]
    BY <1>1 DEF Uploaded, Uploads
  <2>2. \A q \in Requests \ {r} : body'[q] = body[q]
    BY <2>1 DEF Bodies
  <2>3. body'[r] = [g \in DOMAIN body[r] \cup {f} |-> IF g = f THEN <<r, f>> ELSE body[r][g]]
    BY <2>1 DEF Bodies
  <2>4. DOMAIN body' = Requests
    BY <2>1 DEF Bodies
  <2> QED BY <2>1, <2>2, <2>3, <2>4 DEF Bodies
<1> USE WebResourceAssumption DEF TypeOK, Bodies, Uploads, Requests, Rows,
      Files, Multipart, To, uploadVars, txVars, hookVars
<1>2. ASSUME NEW r \in Requests, NEW f \in Fields, UploadFails(r, f) PROVE
       Bodies'
  BY <1>2 DEF UploadFails
<1>3. ASSUME NEW r \in Requests, FormEnds(r) PROVE Bodies'
  BY <1>3 DEF FormEnds
<1>4. ASSUME NEW r \in Requests, GoesOn(r) PROVE Bodies'
  BY <1>4 DEF GoesOn
<1>5. ASSUME NEW r \in Requests, Refused(r) PROVE Bodies'
  BY <1>5 DEF Refused
<1>6. ASSUME NEW r \in Requests, Begin(r) PROVE Bodies'
  BY <1>6 DEF Begin
<1>7. ASSUME NEW r \in Requests, Prerun(r) PROVE Bodies'
  BY <1>7 DEF Prerun
<1>8. ASSUME NEW r \in Requests, Read(r) PROVE Bodies'
  BY <1>8 DEF Read
<1>9. ASSUME NEW r \in Requests, Write(r) PROVE Bodies'
  BY <1>9 DEF Write
<1>10. ASSUME NEW r \in Requests, Fails(r) PROVE Bodies'
  BY <1>10 DEF Fails
<1>11. ASSUME NEW r \in Requests, RollsBack(r) PROVE Bodies'
  BY <1>11 DEF RollsBack
<1>12. ASSUME NEW r \in Requests, Commits(r) PROVE Bodies'
  BY <1>12 DEF Commits
<1>13. ASSUME NEW r \in Requests, CommitFails(r) PROVE Bodies'
  BY <1>13 DEF CommitFails
<1>14. ASSUME NEW h \in Files, Remove(h) PROVE Bodies'
  BY <1>14 DEF Remove
<1>15. CASE UNCHANGED vars
  BY <1>15 DEF vars
<1> HIDE DEF TypeOK, Bodies, Uploads, To
<1> QED BY <1>1, <1>2, <1>3, <1>4, <1>5, <1>6, <1>7, <1>8, <1>9, <1>10, <1>11,
      <1>12, <1>13, <1>14, <1>15 DEF Next, Runs

\* Uploads go on when the middleware is left by an error, and otherwise are
\* over.
LEMMA UploadsStep ==
  ASSUME TypeOK, Uploads, Prudent, [Next]_vars
  PROVE  Uploads'
<1>1. ASSUME NEW r \in Requests, NEW f \in Fields, UploadFails(r, f) PROVE
       Uploads'
  <2>1. /\ r \in Multipart /\ at[r] \in {"upload", "done"}
        /\ at' = [at EXCEPT ![r] = "done"] /\ aborted' = aborted \cup {r}
        /\ \E st \in {"failed", "thrown"} : upload' = [upload EXCEPT ![r][f] = st]
        /\ file' \in [Files -> {"none", "stored", "condemned", "deleted"}]
        /\ \A h \in Files : at[h[1]] = "done" \/ h[1] # r => file'[h] = file[h]
        /\ UNCHANGED <<formOver, body, row, lock, ended, wrote, found, ends, cleans, faults>>
    BY <1>1, UploadFailsDoes DEF IInv
  <2> QED BY <2>1 DEF Uploads, TypeOK, Multipart, Requests
<1> USE WebResourceAssumption DEF TypeOK, Uploads, Sending, Requests, Rows,
      Files, Multipart, To, uploadVars, txVars, hookVars
<1>2. ASSUME NEW r \in Requests, NEW f \in Fields, Uploaded(r, f) PROVE Uploads'
  BY <1>2 DEF Uploaded
<1>3. ASSUME NEW r \in Requests, FormEnds(r) PROVE Uploads'
  BY <1>3 DEF FormEnds
<1>4. ASSUME NEW r \in Requests, GoesOn(r) PROVE Uploads'
  BY <1>4 DEF GoesOn
<1>5. ASSUME NEW r \in Requests, Refused(r) PROVE Uploads'
  BY <1>5 DEF Refused
<1>6. ASSUME NEW r \in Requests, Begin(r) PROVE Uploads'
  BY <1>6 DEF Begin
<1>7. ASSUME NEW r \in Requests, Prerun(r) PROVE Uploads'
  BY <1>7 DEF Prerun
<1>8. ASSUME NEW r \in Requests, Read(r) PROVE Uploads'
  BY <1>8 DEF Read
<1>9. ASSUME NEW r \in Requests, Write(r) PROVE Uploads'
  BY <1>9 DEF Write
<1>10. ASSUME NEW r \in Requests, Fails(r) PROVE Uploads'
  BY <1>10 DEF Fails
<1>11. ASSUME NEW r \in Requests, RollsBack(r) PROVE Uploads'
  BY <1>11 DEF RollsBack
<1>12. ASSUME NEW r \in Requests, Commits(r) PROVE Uploads'
  BY <1>12 DEF Commits
<1>13. ASSUME NEW r \in Requests, CommitFails(r) PROVE Uploads'
  BY <1>13 DEF CommitFails
<1>14. ASSUME NEW h \in Files, Remove(h) PROVE Uploads'
  BY <1>14 DEF Remove
<1>15. CASE UNCHANGED vars
  BY <1>15 DEF vars
<1> HIDE DEF TypeOK, Uploads, To
<1> QED BY <1>1, <1>2, <1>3, <1>4, <1>5, <1>6, <1>7, <1>8, <1>9, <1>10, <1>11,
      <1>12, <1>13, <1>14, <1>15 DEF Next, Runs

\* A row is written by the holder of its lock alone.
LEMMA LocksStep ==
  ASSUME TypeOK, Bodies, Uploads, Locks, Looks, Prudent, [Next]_vars
  PROVE  Locks'
<1>1. ASSUME NEW r \in Requests, NEW f \in Fields, UploadFails(r, f) PROVE
       Locks'
  <2>1. /\ r \in Multipart /\ at[r] \in {"upload", "done"}
        /\ at' = [at EXCEPT ![r] = "done"] /\ aborted' = aborted \cup {r}
        /\ \E st \in {"failed", "thrown"} : upload' = [upload EXCEPT ![r][f] = st]
        /\ file' \in [Files -> {"none", "stored", "condemned", "deleted"}]
        /\ \A h \in Files : at[h[1]] = "done" \/ h[1] # r => file'[h] = file[h]
        /\ UNCHANGED <<formOver, body, row, lock, ended, wrote, found, ends, cleans, faults>>
    BY <1>1, UploadFailsDoes DEF IInv
  <2> QED BY <2>1 DEF Locks, TypeOK, Looks
<1>2. ASSUME NEW r \in Requests, Write(r) PROVE Locks'
  <2>1. /\ at[r] = "run" /\ at' = [at EXCEPT ![r] = "postrun"] /\ row' = row
        /\ RowOf(r) \in Rows /\ r \notin wrote
    BY <1>2, RowsOfRequests DEF Write, To, Looks
  <2>2. /\ \A q \in Requests : q # r => at'[q] = at[q]
        /\ at'[r] = "postrun"
    BY <2>1 DEF TypeOK
  <2>3. CASE lock' = lock /\ wrote' = wrote
    BY <2>1, <2>2, <2>3 DEF Locks, TypeOK, RowOf
  <2>4. CASE /\ lock[RowOf(r)] = None /\ lock' = [lock EXCEPT ![RowOf(r)] = r]
             /\ wrote' = wrote \cup ({r} \ Posts)
             /\ r \in Posts \/ row[RowOf(r)] # Gone
    <3>1. /\ \A q \in Requests : lock[RowOf(r)] # q
          /\ lock'[RowOf(r)] = r
          /\ \A x \in Rows \ {RowOf(r)} : lock'[x] = lock[x]
      BY <2>1, <2>4, WebResourceAssumption DEF TypeOK
    <3>2. \A q \in wrote' : at'[q] = "postrun" => lock'[RowOf(q)] = q
      <4> SUFFICES ASSUME NEW q \in wrote', at'[q] = "postrun" PROVE lock'[RowOf(q)] = q
        OBVIOUS
      <4>1. CASE q = r
        BY <3>1, <4>1
      <4>2. CASE q # r
        <5>1. q \in wrote /\ q \in Requests /\ at[q] = "postrun" /\ RowOf(q) \in Rows
          BY <2>2, <2>4, <4>2, RowsOfRequests DEF TypeOK
        <5> QED BY <3>1, <5>1 DEF Locks
      <4> QED BY <4>1, <4>2
    <3>3. ASSUME NEW x \in Rows, NEW q \in Requests, lock'[x] = q
          PROVE  /\ RowOf(q) = x /\ at'[q] \in {"postrun", "rollback"}
                 /\ q \in Posts \/ (row'[x] # Gone /\ q \in wrote')
      <4>1. CASE x = RowOf(r)
        BY <2>1, <2>2, <2>4, <3>1, <3>3, <4>1
      <4>2. CASE x # RowOf(r)
        <5>1. lock[x] = q
          BY <3>1, <3>3, <4>2
        <5> QED BY <2>1, <2>2, <2>4, <5>1 DEF Locks
      <4> QED BY <4>1, <4>2
    <3> QED BY <3>2, <3>3 DEF Locks, RowOf
  <2> QED BY <1>2, <2>3, <2>4 DEF Write, MayFind
<1>3. ASSUME NEW r \in Requests, RollsBack(r) \/ Commits(r) \/ CommitFails(r) PROVE Locks'
  <2>1. /\ at' = [at EXCEPT ![r] = "done"] /\ lock' = Unlocked(r)
        /\ row' = row \/ row' = Written(r)
        /\ wrote' = wrote \/ wrote' = wrote \ {r}
    BY <1>3 DEF RollsBack, Commits, CommitFails, To
  <2>2. \A x \in Rows : \A q \in Requests : lock'[x] = q =>
          q # r /\ lock[x] = q /\ row'[x] = row[x]
    BY <2>1, WebResourceAssumption DEF Written, Unlocked
  <2>3. \A q \in Requests : q # r => at'[q] = at[q]
    BY <2>1 DEF TypeOK
  <2>4. ASSUME NEW q \in wrote', at'[q] = "postrun" PROVE lock'[RowOf(q)] = q
    <3>1. q # r /\ q \in wrote /\ q \in Requests /\ at[q] = "postrun"
      BY <2>1, <2>4 DEF TypeOK
    <3> QED BY <2>1, <3>1, RowsOfRequests DEF Locks, Unlocked
  <2> QED BY <2>1, <2>2, <2>3, <2>4 DEF Locks, RowOf
<1>4. ASSUME NEW r \in Requests, Prerun(r) PROVE Locks'
  BY <1>4, PrerunDoes DEF Locks, TypeOK, RowOf, Prerun, Looks
<1> USE WebResourceAssumption DEF TypeOK, Locks, Looks, Prudent, RowOf, Written,
      Unlocked, Old, Requests, Rows, Files, Multipart, To, uploadVars, txVars,
      hookVars
<1>5. ASSUME NEW r \in Requests, NEW f \in Fields, Uploaded(r, f) PROVE Locks'
  BY <1>5 DEF Uploaded
<1>6. ASSUME NEW r \in Requests, FormEnds(r) PROVE Locks'
  BY <1>6 DEF FormEnds
<1>7. ASSUME NEW r \in Requests, GoesOn(r) PROVE Locks'
  BY <1>7 DEF GoesOn
<1>8. ASSUME NEW r \in Requests, Refused(r) PROVE Locks'
  BY <1>8 DEF Refused
<1>9. ASSUME NEW r \in Requests, Begin(r) PROVE Locks'
  BY <1>9 DEF Begin
<1>10. ASSUME NEW r \in Requests, Read(r) PROVE Locks'
  BY <1>10 DEF Read
<1>11. ASSUME NEW r \in Requests, Fails(r) PROVE Locks'
  BY <1>11 DEF Fails
<1>12. ASSUME NEW h \in Files, Remove(h) PROVE Locks'
  BY <1>12 DEF Remove
<1>13. CASE UNCHANGED vars
  BY <1>13 DEF vars
<1> HIDE DEF TypeOK, Locks, Looks, Prudent, To
<1> QED BY <1>1, <1>2, <1>3, <1>4, <1>5, <1>6, <1>7, <1>8, <1>9, <1>10, <1>11,
      <1>12, <1>13 DEF Next, Runs

\* A request looks for its row, writes it and ends, in this order.
LEMMA LooksStep ==
  ASSUME TypeOK, Bodies, Uploads, Looks, Prudent, [Next]_vars
  PROVE  Looks'
<1>1. ASSUME NEW r \in Requests, NEW f \in Fields, UploadFails(r, f) PROVE
       Looks'
  <2>1. /\ r \in Multipart /\ at[r] \in {"upload", "done"}
        /\ at' = [at EXCEPT ![r] = "done"] /\ aborted' = aborted \cup {r}
        /\ \E st \in {"failed", "thrown"} : upload' = [upload EXCEPT ![r][f] = st]
        /\ file' \in [Files -> {"none", "stored", "condemned", "deleted"}]
        /\ \A h \in Files : at[h[1]] = "done" \/ h[1] # r => file'[h] = file[h]
        /\ UNCHANGED <<formOver, body, row, lock, ended, wrote, found, ends, cleans, faults>>
    BY <1>1, UploadFailsDoes DEF IInv
  <2> QED BY <2>1 DEF Looks, TypeOK
<1>2. ASSUME NEW r \in Requests, Prerun(r) PROVE Looks'
  <2>1. /\ at[r] = "prerun" /\ UNCHANGED <<wrote, ended>>
        /\ \/ at' = [at EXCEPT ![r] = "run"] /\ found' = found
           \/ at' = [at EXCEPT ![r] = "read"] /\ found' = found \cup {r} /\ r \notin Posts
    BY <1>2, PrerunDoes DEF Prerun
  <2> QED BY <2>1 DEF Looks, TypeOK
<1> USE WebResourceAssumption DEF TypeOK, Looks, Uploads, Requests, Rows, Files,
      Multipart, To, uploadVars, txVars, hookVars
<1>3. ASSUME NEW r \in Requests, NEW f \in Fields, Uploaded(r, f) PROVE Looks'
  BY <1>3 DEF Uploaded
<1>4. ASSUME NEW r \in Requests, FormEnds(r) PROVE Looks'
  BY <1>4 DEF FormEnds
<1>5. ASSUME NEW r \in Requests, GoesOn(r) PROVE Looks'
  BY <1>5 DEF GoesOn
<1>6. ASSUME NEW r \in Requests, Refused(r) PROVE Looks'
  BY <1>6 DEF Refused
<1>7. ASSUME NEW r \in Requests, Begin(r) PROVE Looks'
  BY <1>7 DEF Begin
<1>8. ASSUME NEW r \in Requests, Read(r) PROVE Looks'
  BY <1>8 DEF Read
<1>9. ASSUME NEW r \in Requests, Write(r) PROVE Looks'
  BY <1>9 DEF Write
<1>10. ASSUME NEW r \in Requests, Fails(r) PROVE Looks'
  BY <1>10 DEF Fails
<1>11. ASSUME NEW r \in Requests, RollsBack(r) PROVE Looks'
  BY <1>11 DEF RollsBack
<1>12. ASSUME NEW r \in Requests, Commits(r) PROVE Looks'
  BY <1>12 DEF Commits
<1>13. ASSUME NEW r \in Requests, CommitFails(r) PROVE Looks'
  BY <1>13 DEF CommitFails
<1>14. ASSUME NEW h \in Files, Remove(h) PROVE Looks'
  BY <1>14 DEF Remove
<1>15. CASE UNCHANGED vars
  BY <1>15 DEF vars
<1> HIDE DEF TypeOK, Looks, Uploads, To
<1> QED BY <1>1, <1>2, <1>3, <1>4, <1>5, <1>6, <1>7, <1>8, <1>9, <1>10, <1>11,
      <1>12, <1>13, <1>14, <1>15 DEF Next, Runs

\* Only its own request, or who comes after, has an uploaded file deleted.
LEMMA StaysStep ==
  ASSUME IInv, Prudent, [Next]_vars
  PROVE  Stays'
<1>1. ASSUME NEW r \in Requests, NEW f \in Fields, UploadFails(r, f) PROVE
       Stays'
  <2>1. /\ r \in Multipart /\ at[r] \in {"upload", "done"}
        /\ at' = [at EXCEPT ![r] = "done"] /\ aborted' = aborted \cup {r}
        /\ \E st \in {"failed", "thrown"} : upload' = [upload EXCEPT ![r][f] = st]
        /\ file' \in [Files -> {"none", "stored", "condemned", "deleted"}]
        /\ \A h \in Files : at[h[1]] = "done" \/ h[1] # r => file'[h] = file[h]
        /\ UNCHANGED <<formOver, body, row, lock, ended, wrote, found, ends, cleans, faults>>
    BY <1>1, UploadFailsDoes DEF IInv
  <2> SUFFICES ASSUME NEW q \in Multipart, at'[q] # "done",
                      ~(q \notin Posts \cup found' /\ at'[q] \in {"run", "postrun", "rollback"})
               PROVE  \A g \in DOMAIN body'[q] : file'[<<q, g>>] = "stored"
    BY DEF Stays
  <2>2. /\ q \in Requests /\ \A g \in DOMAIN body[q] : <<q, g>> \in Files /\ <<q, g>>[1] = q
    BY DEF IInv, Bodies, Files, Multipart, Requests
  <2>3. q # r /\ at'[q] = at[q] /\ body' = body /\ found' = found
    BY <2>1, <2>2 DEF IInv, TypeOK
  <2> QED BY <2>1, <2>2, <2>3 DEF IInv, Stays
<1>2. ASSUME NEW r \in Requests, GoesOn(r) PROVE Stays'
  <2> SUFFICES ASSUME NEW q \in Multipart, at'[q] # "done",
                      ~(q \notin Posts \cup found' /\ at'[q] \in {"run", "postrun", "rollback"})
               PROVE  \A f \in DOMAIN body'[q] : file'[<<q, f>>] = "stored"
    BY DEF Stays
  <2>1. /\ q \in Requests /\ \A f \in DOMAIN body[q] : <<q, f>> \in Files /\ <<q, f>>[1] = q
        /\ \A f \in DOMAIN body[q] : body[q][f] = <<q, f>>
    BY DEF IInv, Bodies, Files, Multipart, Requests
  <2>2. file' = file /\ at[r] = "upload" /\ body' = body /\ found' = found
    BY <1>2, GoesOnDoes DEF GoesOn, IInv, uploadVars, hookVars
  <2>3. at' = [at EXCEPT ![r] = "request"]
    BY <1>2, GoesOnDoes DEF IInv
  <2>4. at[q] # "done" /\ (q = r \/ at'[q] = at[q])
    BY <2>1, <2>2, <2>3 DEF IInv, TypeOK
  <2> QED BY <2>1, <2>2, <2>4 DEF IInv, Stays
<1>3. ASSUME NEW r \in Requests, Prerun(r) PROVE Stays'
  <2> SUFFICES ASSUME NEW q \in Multipart, at'[q] # "done",
                      ~(q \notin Posts \cup found' /\ at'[q] \in {"run", "postrun", "rollback"})
               PROVE  \A f \in DOMAIN body'[q] : file'[<<q, f>>] = "stored"
    BY DEF Stays
  <2>1. /\ q \in Requests /\ \A f \in DOMAIN body[q] : <<q, f>> \in Files /\ <<q, f>>[1] = q
        /\ \A f \in DOMAIN body[q] : body[q][f] = <<q, f>>
    BY DEF IInv, Bodies, Files, Multipart, Requests
  <2>2. /\ \A h \in Files : \/ file'[h] = file[h]
                            \/ /\ h[1] = r /\ r \notin Posts
                               /\ found' = found /\ at'[r] = "run"
        /\ at[r] = "prerun" /\ body' = body
        /\ \E place \in {"read", "run"} : at' = [at EXCEPT ![r] = place]
        /\ found' = found \/ found' = found \cup {r}
    BY <1>3, PrerunDoes DEF Prerun, IInv
  <2>3. at[q] # "done" /\ (q # r => at'[q] = at[q] /\ (q \in found') = (q \in found))
    BY <2>1, <2>2 DEF IInv, TypeOK
  <2>4. CASE q = r
    <3>1. r \notin found
      BY <2>2 DEF IInv, Looks
    <3>2. \A f \in DOMAIN body[q] : file[<<q, f>>] = "stored"
      BY <2>2, <2>3, <2>4 DEF IInv, Stays
    <3> QED BY <2>1, <2>2, <2>4, <3>1, <3>2
  <2>5. CASE q # r
    <3>1. \A f \in DOMAIN body[q] : file[<<q, f>>] = "stored"
      BY <2>3, <2>5 DEF IInv, Stays
    <3> QED BY <2>1, <2>2, <2>5, <3>1
  <2> QED BY <2>4, <2>5
<1>4. ASSUME NEW r \in Requests, RollsBack(r) PROVE Stays'
  <2> SUFFICES ASSUME NEW q \in Multipart, at'[q] # "done",
                      ~(q \notin Posts \cup found' /\ at'[q] \in {"run", "postrun", "rollback"})
               PROVE  \A f \in DOMAIN body'[q] : file'[<<q, f>>] = "stored"
    BY DEF Stays
  <2>1. /\ q \in Requests /\ \A f \in DOMAIN body[q] : <<q, f>> \in Files /\ <<q, f>>[1] = q
        /\ \A f \in DOMAIN body[q] : body[q][f] = <<q, f>>
    BY DEF IInv, Bodies, Files, Multipart, Requests
  <2>2. /\ \A h \in Files : h[1] # r => file'[h] = file[h]
        /\ at' = [at EXCEPT ![r] = "done"] /\ body' = body /\ found' = found
    BY <1>4, RollsBackDoes DEF RollsBack, To, IInv, uploadVars, hookVars
  <2>3. q # r /\ at'[q] = at[q] /\ at[q] # "done"
    BY <2>1, <2>2 DEF IInv, TypeOK
  <2> QED BY <2>1, <2>2, <2>3 DEF IInv, Stays
<1>5. ASSUME NEW r \in Requests, Commits(r) PROVE Stays'
  <2> SUFFICES ASSUME NEW q \in Multipart, at'[q] # "done",
                      ~(q \notin Posts \cup found' /\ at'[q] \in {"run", "postrun", "rollback"})
               PROVE  \A f \in DOMAIN body'[q] : file'[<<q, f>>] = "stored"
    BY DEF Stays
  <2>1. /\ q \in Requests /\ \A f \in DOMAIN body[q] : <<q, f>> \in Files /\ <<q, f>>[1] = q
        /\ \A f \in DOMAIN body[q] : body[q][f] = <<q, f>>
    BY DEF IInv, Bodies, Files, Multipart, Requests
  <2>2. /\ \A h \in Files : h \notin ends[r] => file'[h] = file[h]
        /\ at' = [at EXCEPT ![r] = "done"] /\ body' = body /\ row' = Written(r)
    BY <1>5, CommitsDoes DEF Commits, To, IInv, uploadVars
  <2>3. q # r /\ at[q] # "done"
    BY <2>1, <2>2 DEF IInv, TypeOK
  <2>4. \A f \in DOMAIN body[q] : <<q, f>> \notin ends[r]
    BY <2>1, <2>3, WebResourceAssumption DEF IInv, ReplacesItsOwn, Mine, Multipart, Requests
  <2> QED BY <1>5, <2>1, <2>2, <2>3, <2>4 DEF Commits, hookVars, IInv, TypeOK, Stays
<1>6. ASSUME NEW r \in Requests, CommitFails(r) PROVE Stays'
  <2> SUFFICES ASSUME NEW q \in Multipart, at'[q] # "done",
                      ~(q \notin Posts \cup found' /\ at'[q] \in {"run", "postrun", "rollback"})
               PROVE  \A f \in DOMAIN body'[q] : file'[<<q, f>>] = "stored"
    BY DEF Stays
  <2>1. /\ q \in Requests /\ \A f \in DOMAIN body[q] : <<q, f>> \in Files /\ <<q, f>>[1] = q
        /\ \A f \in DOMAIN body[q] : body[q][f] = <<q, f>>
    BY DEF IInv, Bodies, Files, Multipart, Requests
  <2>2. /\ file' = file /\ row' \in {row, Written(r)}
        /\ at' = [at EXCEPT ![r] = "done"] /\ body' = body
    BY <1>6 DEF CommitFails, To, uploadVars
  <2>3. q # r /\ at[q] # "done"
    BY <2>1, <2>2 DEF IInv, TypeOK
  <2> QED BY <1>6, <2>1, <2>2, <2>3 DEF CommitFails, hookVars, IInv, TypeOK, Stays
<1>7. ASSUME NEW h \in Files, Remove(h) PROVE Stays'
  <2> SUFFICES ASSUME NEW q \in Multipart, at'[q] # "done",
                      ~(q \notin Posts \cup found' /\ at'[q] \in {"run", "postrun", "rollback"})
               PROVE  \A f \in DOMAIN body'[q] : file'[<<q, f>>] = "stored"
    BY DEF Stays
  <2>1. /\ q \in Requests /\ \A f \in DOMAIN body[q] : <<q, f>> \in Files /\ <<q, f>>[1] = q
        /\ \A f \in DOMAIN body[q] : body[q][f] = <<q, f>>
    BY DEF IInv, Bodies, Files, Multipart, Requests
  <2>2. at' = at /\ body' = body /\ found' = found
    BY <1>7 DEF Remove, uploadVars, hookVars
  <2>3. \A f \in DOMAIN body[q] : file[<<q, f>>] = "stored"
    BY <2>2 DEF IInv, Stays
  <2> QED BY <1>7, <2>1, <2>2, <2>3 DEF Remove, IInv, TypeOK
<1> USE WebResourceAssumption DEF IInv, TypeOK, ReplacesItsOwn, Bodies, Uploads,
      Stays, Locks, Prudent, Mine, RowOf, Requests, Rows, Files, Multipart, To,
      uploadVars, txVars, hookVars
<1>8. ASSUME NEW r \in Requests, NEW f \in Fields, Uploaded(r, f) PROVE Stays'
  BY <1>8 DEF Uploaded
<1>9. ASSUME NEW r \in Requests, FormEnds(r) PROVE Stays'
  BY <1>9 DEF FormEnds
<1>10. ASSUME NEW r \in Requests, Refused(r) PROVE Stays'
  BY <1>10 DEF Refused
<1>11. ASSUME NEW r \in Requests, Begin(r) PROVE Stays'
  BY <1>11 DEF Begin
<1>12. ASSUME NEW r \in Requests, Read(r) PROVE Stays'
  BY <1>12 DEF Read
<1>13. ASSUME NEW r \in Requests, Write(r) PROVE Stays'
  BY <1>13 DEF Write
<1>14. ASSUME NEW r \in Requests, Fails(r) PROVE Stays'
  BY <1>14 DEF Fails
<1>15. CASE UNCHANGED vars
  BY <1>15 DEF vars
<1> HIDE DEF IInv, TypeOK, ReplacesItsOwn, Bodies, Uploads, Stays, Locks,
      Prudent, To
<1> QED BY <1>1, <1>2, <1>3, <1>4, <1>5, <1>6, <1>7, <1>8, <1>9, <1>10, <1>11,
      <1>12, <1>13, <1>14, <1>15 DEF Next, Runs

\* A row only comes to refer to the files of the request that writes it.
LEMMA ShowsStep ==
  ASSUME IInv, Prudent, [Next]_vars
  PROVE  ShowsItsOwn'
<1>1. ASSUME NEW r \in Requests, NEW f \in Fields, UploadFails(r, f) PROVE
       ShowsItsOwn'
  <2>1. /\ r \in Multipart /\ at[r] \in {"upload", "done"}
        /\ at' = [at EXCEPT ![r] = "done"] /\ aborted' = aborted \cup {r}
        /\ \E st \in {"failed", "thrown"} : upload' = [upload EXCEPT ![r][f] = st]
        /\ file' \in [Files -> {"none", "stored", "condemned", "deleted"}]
        /\ \A h \in Files : at[h[1]] = "done" \/ h[1] # r => file'[h] = file[h]
        /\ UNCHANGED <<formOver, body, row, lock, ended, wrote, found, ends, cleans, faults>>
    BY <1>1, UploadFailsDoes DEF IInv
  <2>2. \A q \in Requests : at[q] = "done" => at'[q] = "done"
    BY <2>1 DEF IInv, TypeOK
  <2>3. \A x \in Rows : \A q : Mine(x, q) => Mine(x, q)'
    BY <2>2 DEF Mine, Multipart, Requests
  <2> QED BY <2>1, <2>3 DEF IInv, ShowsItsOwn
<1>2. ASSUME NEW r \in Requests, Commits(r) PROVE ShowsItsOwn'
  <2>1. at[r] = "postrun" /\ at' = [at EXCEPT ![r] = "done"] /\ row' = Written(r)
    BY <1>2 DEF Commits, To
  <2> QED BY <2>1, WritesItsOwn
<1>3. ASSUME NEW r \in Requests, CommitFails(r) PROVE ShowsItsOwn'
  <2>1. /\ at[r] = "postrun" /\ at' = [at EXCEPT ![r] = "done"]
        /\ row' \in {row, Written(r)}
    BY <1>3 DEF CommitFails, To
  <2> QED BY <2>1, WritesItsOwn
<1> USE WebResourceAssumption DEF IInv, TypeOK, ShowsItsOwn, Bodies, Uploads,
      Locks, Prudent, Mine, RowOf, Requests, Rows, Files, Multipart, To,
      uploadVars, txVars, hookVars
<1>4. ASSUME NEW r \in Requests, NEW f \in Fields, Uploaded(r, f) PROVE
       ShowsItsOwn'
  BY <1>4 DEF Uploaded
<1>5. ASSUME NEW r \in Requests, FormEnds(r) PROVE ShowsItsOwn'
  BY <1>5 DEF FormEnds
<1>6. ASSUME NEW r \in Requests, GoesOn(r) PROVE ShowsItsOwn'
  BY <1>6 DEF GoesOn
<1>7. ASSUME NEW r \in Requests, Refused(r) PROVE ShowsItsOwn'
  BY <1>7 DEF Refused
<1>8. ASSUME NEW r \in Requests, Begin(r) PROVE ShowsItsOwn'
  BY <1>8 DEF Begin
<1>9. ASSUME NEW r \in Requests, Prerun(r) PROVE ShowsItsOwn'
  BY <1>9 DEF Prerun
<1>10. ASSUME NEW r \in Requests, Read(r) PROVE ShowsItsOwn'
  BY <1>10 DEF Read
<1>11. ASSUME NEW r \in Requests, Write(r) PROVE ShowsItsOwn'
  BY <1>11 DEF Write
<1>12. ASSUME NEW r \in Requests, Fails(r) PROVE ShowsItsOwn'
  BY <1>12 DEF Fails
<1>13. ASSUME NEW r \in Requests, RollsBack(r) PROVE ShowsItsOwn'
  BY <1>13 DEF RollsBack
<1>14. ASSUME NEW h \in Files, Remove(h) PROVE ShowsItsOwn'
  BY <1>14 DEF Remove
<1>15. CASE UNCHANGED vars
  BY <1>15 DEF vars
<1> HIDE DEF IInv, TypeOK, ShowsItsOwn, Bodies, Uploads, Locks, Prudent, To
<1> QED BY <1>1, <1>2, <1>3, <1>4, <1>5, <1>6, <1>7, <1>8, <1>9, <1>10, <1>11,
      <1>12, <1>13, <1>14, <1>15 DEF Next, Runs

\* The files to be replaced are read from the row.
LEMMA ReplacesStep ==
  ASSUME IInv, Prudent, [Next]_vars
  PROVE  ReplacesItsOwn'
<1>1. ASSUME NEW r \in Requests, Prerun(r) PROVE ReplacesItsOwn'
  <2>1. /\ \E place \in {"read", "run"} : at' = [at EXCEPT ![r] = place]
        /\ at[r] = "prerun" /\ ends' = ends /\ body' = body /\ found \subseteq found'
    BY <1>1, PrerunDoes DEF Prerun, IInv, uploadVars
  <2>2. \A q \in Requests : at[q] = "done" => at'[q] = "done"
    BY <2>1 DEF IInv, TypeOK
  <2>3. \A x \in Rows : \A q : Mine(x, q) => Mine(x, q)'
    BY <2>2 DEF Mine, Multipart, Requests
  <2>4. \A q \in Requests : RowOf(q) \in Rows
    BY RowsOfRequests
  <2> QED BY <2>1, <2>3, <2>4 DEF IInv, ReplacesItsOwn, SetFields
<1> USE WebResourceAssumption DEF IInv, TypeOK, ShowsItsOwn, ReplacesItsOwn,
      Bodies, Uploads, Looks, Prudent, Mine, RowOf, SetFields, Hrefs, Requests,
      Rows, Files, Multipart, To, uploadVars, txVars, hookVars
<1>2. ASSUME NEW r \in Requests, NEW f \in Fields, Uploaded(r, f) PROVE
       ReplacesItsOwn'
  BY <1>2 DEF Uploaded
<1>3. ASSUME NEW r \in Requests, NEW f \in Fields, UploadFails(r, f) PROVE
       ReplacesItsOwn'
  BY <1>3 DEF UploadFails
<1>4. ASSUME NEW r \in Requests, FormEnds(r) PROVE ReplacesItsOwn'
  BY <1>4 DEF FormEnds
<1>5. ASSUME NEW r \in Requests, GoesOn(r) PROVE ReplacesItsOwn'
  BY <1>5 DEF GoesOn
<1>6. ASSUME NEW r \in Requests, Refused(r) PROVE ReplacesItsOwn'
  BY <1>6 DEF Refused
<1>7. ASSUME NEW r \in Requests, Begin(r) PROVE ReplacesItsOwn'
  BY <1>7 DEF Begin
<1>8. ASSUME NEW r \in Requests, Read(r) PROVE ReplacesItsOwn'
  BY <1>8 DEF Read
<1>9. ASSUME NEW r \in Requests, Write(r) PROVE ReplacesItsOwn'
  BY <1>9 DEF Write
<1>10. ASSUME NEW r \in Requests, Fails(r) PROVE ReplacesItsOwn'
  BY <1>10 DEF Fails
<1>11. ASSUME NEW r \in Requests, RollsBack(r) PROVE ReplacesItsOwn'
  BY <1>11 DEF RollsBack
<1>12. ASSUME NEW r \in Requests, Commits(r) PROVE ReplacesItsOwn'
  BY <1>12 DEF Commits
<1>13. ASSUME NEW r \in Requests, CommitFails(r) PROVE ReplacesItsOwn'
  BY <1>13 DEF CommitFails
<1>14. ASSUME NEW h \in Files, Remove(h) PROVE ReplacesItsOwn'
  BY <1>14 DEF Remove
<1>15. CASE UNCHANGED vars
  BY <1>15 DEF vars
<1> HIDE DEF IInv, TypeOK, ShowsItsOwn, ReplacesItsOwn, Bodies, Uploads, Looks,
      Prudent, To
<1> QED BY <1>1, <1>2, <1>3, <1>4, <1>5, <1>6, <1>7, <1>8, <1>9, <1>10, <1>11,
      <1>12, <1>13, <1>14, <1>15 DEF Next, Runs

\* What a row refers to stays, unless a step deletes files or writes the row.
LEMMA StillShown ==
  ASSUME IInv, Prudent, [Next]_vars, NEW x \in Rows, row[x] # Gone,
         NEW f \in Fields, NEW h, h = row[x][f], h # Null,
         file'[h] = file[h] \/ file'[h] = "stored"
  PROVE  file'[h] = "stored" \/ Torn(x, h)'
<1>1. file[h] = "stored" \/ Torn(x, h)
  BY DEF IInv, NoDangling
<1>2. Mine(x, h[1])
  BY DEF IInv, ShowsItsOwn
<1> QED BY <1>1, <1>2, TornStays

\* Files are deleted before they are shown, or after they are replaced.
LEMMA DanglingStep ==
  ASSUME IInv, Prudent, [Next]_vars
  PROVE  NoDangling'
<1> SUFFICES ASSUME NEW x \in Rows, row'[x] # Gone, NEW f \in Fields,
                    NEW h, h = row'[x][f], h # Null
             PROVE  file'[h] = "stored" \/ Torn(x, h)'
  BY DEF NoDangling
<1> DEFINE Safe == file'[h] = "stored" \/ Torn(x, h)'
<1>0. ASSUME row' = row PROVE h \in Files /\ Mine(x, h[1])
  BY <1>0 DEF IInv, ShowsItsOwn
<1>1. ASSUME row' = row, file'[h] = file[h] \/ file'[h] = "stored" PROVE Safe
  BY <1>1, StillShown
<1>2. ASSUME NEW r \in Requests, NEW g \in Fields, UploadFails(r, g) PROVE Safe
  <2>1. /\ row' = row
        /\ \A k \in Files : at[k[1]] = "done" \/ k[1] # r => file'[k] = file[k]
    BY <1>2, UploadFailsDoes DEF IInv
  <2>2. at[h[1]] = "done" \/ h[1] # r
    BY <1>0, <2>1, WebResourceAssumption DEF Mine
  <2> QED BY <1>0, <1>1, <2>1, <2>2
<1>3. ASSUME NEW r \in Requests, GoesOn(r) PROVE Safe
  BY <1>1, <1>3, GoesOnDoes DEF GoesOn, IInv, txVars
<1>4. ASSUME NEW r \in Requests, Prerun(r) PROVE Safe
  <2>1. /\ \A k \in Files : file'[k] = file[k] \/ k[1] = r
        /\ at[r] = "prerun" /\ row' = row
    BY <1>4, PrerunDoes DEF Prerun, IInv, txVars
  <2>2. h[1] # r
    BY <1>0, <2>1, WebResourceAssumption DEF Mine
  <2> QED BY <1>0, <1>1, <2>1, <2>2
<1>5. ASSUME NEW r \in Requests, RollsBack(r) PROVE Safe
  <2>1. /\ \A k \in Files : k[1] # r => file'[k] = file[k]
        /\ at[r] = "rollback" /\ row' = row
    BY <1>5, RollsBackDoes DEF RollsBack, IInv
  <2>2. h[1] # r
    BY <1>0, <2>1, WebResourceAssumption DEF Mine
  <2> QED BY <1>0, <1>1, <2>1, <2>2
<1>6. ASSUME NEW r \in Requests, Commits(r) \/ CommitFails(r), row' = Written(r),
             file'[h] = file[h]
      PROVE  Safe
  <2>1. at[r] = "postrun" /\ UNCHANGED <<found, wrote, body>>
    BY <1>6 DEF Commits, CommitFails, hookVars, uploadVars
  <2>2. \/ Mine(x, h[1]) /\ (file[h] = "stored" \/ Torn(x, h))
        \/ /\ RowOf(r) = x
           /\ file[h] = "stored" \/ h \in DeletedUnwritten(r)
    BY <1>6, <2>1, WritesStored
  <2>3. CASE file[h] = "stored"
    BY <1>6, <2>3
  <2>4. CASE Mine(x, h[1]) /\ Torn(x, h)
    BY <2>4, TornStays
  <2>5. CASE RowOf(r) = x /\ h \in DeletedUnwritten(r)
    <3>1. h \in DeletedUnwritten(r)'
      BY <2>1, <2>5 DEF DeletedUnwritten, FilesIn
    <3> QED BY <2>5, <3>1 DEF Torn, RowOf
  <2> QED BY <2>2, <2>3, <2>4, <2>5
<1>7. ASSUME NEW r \in Requests, Commits(r) PROVE Safe
  <2>1. /\ row' = Written(r) /\ at[r] = "postrun" /\ UNCHANGED <<found, wrote, ends>>
        /\ ended' = [ended EXCEPT ![r] = "committed"]
        /\ \A k \in Files : k \notin ends[r] => file'[k] = file[k]
    BY <1>7, CommitsDoes DEF Commits, IInv, hookVars
  <2>2. h \in Files
    BY <2>1, WritesStored
  <2>3. CASE h \notin ends[r]
    BY <1>6, <1>7, <2>1, <2>2, <2>3
  <2>4. CASE h \in ends[r]
    <3>1. RowOf(r) = x /\ r \in found \ wrote
      BY <2>1, <2>4, WritesUnreplaced
    <3>2. ended'[r] = "committed"
      BY <2>1 DEF IInv, TypeOK
    <3>3. h \in DeletedUnreplaced(r)'
      BY <2>1, <2>4, <3>1, <3>2 DEF DeletedUnreplaced
    <3> QED BY <3>1, <3>3 DEF Torn, RowOf
  <2> QED BY <2>3, <2>4
<1>8. ASSUME NEW r \in Requests, CommitFails(r) PROVE Safe
  <2>1. file' = file /\ (row' = row \/ row' = Written(r))
    BY <1>8 DEF CommitFails
  <2> QED BY <1>1, <1>6, <1>8, <2>1
<1>9. ASSUME NEW k \in Files, Remove(k) PROVE Safe
  <2>1. row' = row /\ file[k] = "condemned" /\ file' = [file EXCEPT ![k] = "deleted"]
    BY <1>9 DEF Remove, txVars
  <2>2. h \in Files /\ Mine(x, h[1]) /\ (file[h] = "stored" \/ Torn(x, h))
    BY <1>0, <2>1 DEF IInv, NoDangling
  <2>3. CASE file[h] = "stored"
    BY <2>1, <2>2, <2>3 DEF IInv, TypeOK
  <2>4. CASE Torn(x, h)
    BY <2>2, <2>4, TornStays
  <2> QED BY <2>2, <2>3, <2>4
<1>10. ASSUME NEW r \in Requests, NEW g \in Fields, Uploaded(r, g) PROVE Safe
  <2>1. row' = row /\ file' = [file EXCEPT ![<<r, g>>] = "stored"]
    BY <1>10 DEF Uploaded, txVars
  <2> QED BY <1>0, <1>1, <2>1 DEF IInv, TypeOK
<1>11. ASSUME NEW r \in Requests,
              FormEnds(r) \/ Refused(r) \/ Begin(r) \/ Read(r) \/ Write(r) \/ Fails(r)
       PROVE  Safe
  <2>1. row' = row /\ file' = file
    BY <1>11 DEF FormEnds, Refused, Begin, Read, Write, Fails, txVars
  <2> QED BY <1>1, <2>1
<1>12. CASE UNCHANGED vars
  BY <1>1, <1>12 DEF vars, txVars
<1>13. ASSUME NEW r \in Requests, Runs(r) PROVE Safe
  BY <1>3, <1>4, <1>5, <1>7, <1>8, <1>11, <1>13 DEF Runs
<1> QED BY <1>2, <1>9, <1>10, <1>12, <1>13 DEF Next

\* Every variable stays in its set.
LEMMA TypeStep ==
  ASSUME IInv, Prudent, [Next]_vars
  PROVE  TypeOK'
<1>1. ASSUME NEW r \in Requests, NEW f \in Fields, Uploaded(r, f) PROVE TypeOK'
  <2>1. /\ r \in Multipart /\ f \in Touches[r] /\ (at[r] = "upload" \/ r \in aborted)
        /\ upload' = [upload EXCEPT ![r][f] = "sent"]
        /\ file' = [file EXCEPT ![<<r, f>>] = "stored"]
        /\ body' = [body EXCEPT ![r] = [g \in DOMAIN @ \cup {f} |->
                                          IF g = f THEN <<r, f>> ELSE @[g]]]
        /\ UNCHANGED <<at, formOver, aborted, row, lock, ended, wrote, found, ends, cleans, faults>>
    BY <1>1 DEF Uploaded, IInv, Uploads, txVars, hookVars
  <2>2. <<r, f>> \in Files
    BY <2>1 DEF Files
  <2>3. \A q \in Requests : DOMAIN body'[q] \subseteq Touches[q] /\ FilesIn(q)' \subseteq Files
    <3>1. \A q \in Requests \ {r} : body'[q] = body[q]
      BY <2>1 DEF IInv, Bodies
    <3>2. body'[r] = [g \in DOMAIN body[r] \cup {f} |-> IF g = f THEN <<r, f>> ELSE body[r][g]]
      BY <2>1 DEF IInv, Bodies
    <3>3. FilesIn(r)' \subseteq FilesIn(r) \cup {<<r, f>>}
      BY <3>2 DEF FilesIn
    <3>4. \A q \in Requests \ {r} : FilesIn(q)' = FilesIn(q)
      BY <3>1 DEF FilesIn
    <3>5. /\ DOMAIN body'[r] \subseteq Touches[r]
          /\ \A q \in Requests : DOMAIN body[q] \subseteq Touches[q] /\ FilesIn(q) \subseteq Files
      BY <2>1, <3>2 DEF IInv, TypeOK
    <3> QED BY <2>2, <3>1, <3>3, <3>4, <3>5
  <2>4. \A q \in Requests : at[q] \notin {"upload", "done"} => Sending(q)' = {}
    <3>1. \A q \in Requests : Sending(q)' \subseteq Sending(q)
      BY <2>1 DEF Sending, IInv, TypeOK
    <3> QED BY <3>1 DEF IInv, TypeOK
  <2> QED BY <2>1, <2>2, <2>3, <2>4 DEF IInv, TypeOK
<1>2. ASSUME NEW r \in Requests, NEW f \in Fields, UploadFails(r, f) PROVE
       TypeOK'
  <2>1. /\ r \in Multipart /\ at[r] \in {"upload", "done"}
        /\ at' = [at EXCEPT ![r] = "done"] /\ aborted' = aborted \cup {r}
        /\ \E st \in {"failed", "thrown"} : upload' = [upload EXCEPT ![r][f] = st]
        /\ file' \in [Files -> {"none", "stored", "condemned", "deleted"}]
        /\ \A h \in Files : at[h[1]] = "done" \/ h[1] # r => file'[h] = file[h]
        /\ UNCHANGED <<formOver, body, row, lock, ended, wrote, found, ends, cleans, faults>>
    BY <1>2, UploadFailsDoes DEF IInv
  <2>2. \A q \in Requests : at'[q] \notin {"upload", "done"} => Sending(q)' = {}
    <3>1. \A q \in Requests : Sending(q)' \subseteq Sending(q)
      BY <2>1 DEF Sending, IInv, TypeOK
    <3> QED BY <2>1, <3>1 DEF IInv, TypeOK
  <2>3. \A q \in Requests : FilesIn(q)' = FilesIn(q)
    BY <2>1 DEF FilesIn
  <2> QED BY <2>1, <2>2, <2>3 DEF IInv, TypeOK
<1>3. ASSUME NEW r \in Requests, FormEnds(r) PROVE TypeOK'
  <2>1. r \in Multipart /\ at[r] = "upload" /\ formOver' = formOver \cup {r}
    BY <1>3 DEF FormEnds, IInv, Uploads
  <2>2. \A q \in Requests : FilesIn(q)' = FilesIn(q) /\ Sending(q)' = Sending(q)
    BY <1>3 DEF FormEnds, FilesIn, Sending, uploadVars
  <2> QED BY <1>3, <2>1, <2>2 DEF FormEnds, IInv, TypeOK, txVars, hookVars
<1>4. ASSUME NEW r \in Requests, GoesOn(r) PROVE TypeOK'
  <2>1. \A q \in Requests : FilesIn(q)' = FilesIn(q) /\ Sending(q)' = Sending(q)
    BY <1>4 DEF GoesOn, FilesIn, Sending, uploadVars
  <2>2. at' = [at EXCEPT ![r] = "request"] /\ file' = file
    BY <1>4, GoesOnDoes DEF IInv
  <2>3. Sending(r) = {}
    BY <1>4 DEF GoesOn
  <2> QED BY <1>4, <2>1, <2>2, <2>3 DEF GoesOn, IInv, TypeOK, To, uploadVars, txVars, hookVars
<1>5. ASSUME NEW r \in Requests, Refused(r) PROVE TypeOK'
  <2>1. \A q \in Requests : FilesIn(q)' = FilesIn(q) /\ Sending(q)' = Sending(q)
    BY <1>5 DEF Refused, FilesIn, Sending, uploadVars
  <2> QED BY <1>5, <2>1 DEF Refused, IInv, TypeOK, To, uploadVars, txVars, hookVars
<1>6. ASSUME NEW r \in Requests, Begin(r) PROVE TypeOK'
  <2>1. \A q \in Requests : FilesIn(q)' = FilesIn(q) /\ Sending(q)' = Sending(q)
    BY <1>6 DEF Begin, FilesIn, Sending, uploadVars
  <2>2. cleans' \subseteq Requests
    BY <1>6 DEF Begin, IInv, TypeOK
  <2> QED BY <1>6, <2>1, <2>2 DEF Begin, IInv, TypeOK, To, uploadVars, txVars, hookVars
<1>7. ASSUME NEW r \in Requests, Prerun(r) PROVE TypeOK'
  <2>1. \A q \in Requests : FilesIn(q)' = FilesIn(q) /\ Sending(q)' = Sending(q)
    BY <1>7 DEF Prerun, FilesIn, Sending, uploadVars
  <2>2. /\ \E place \in {"read", "run"} : at' = [at EXCEPT ![r] = place]
        /\ at[r] = "prerun"
        /\ file' \in [Files -> {"none", "stored", "condemned", "deleted"}]
        /\ faults' \in 0..MaxFaults
    BY <1>7, PrerunDoes DEF Prerun, IInv
  <2>3. found' \subseteq Requests
    BY <1>7, PrerunDoes DEF IInv, TypeOK
  <2> QED BY <1>7, <2>1, <2>2, <2>3 DEF Prerun, IInv, TypeOK, To, uploadVars, txVars, hookVars
<1>8. ASSUME NEW r \in Requests, Read(r) PROVE TypeOK'
  <2>1. \A q \in Requests : FilesIn(q)' = FilesIn(q) /\ Sending(q)' = Sending(q)
    BY <1>8 DEF Read, FilesIn, Sending, uploadVars
  <2>2. Hrefs(r) \subseteq Files
    BY <1>8, RowsOfRequests, SetsFields DEF IInv, ShowsItsOwn, Hrefs
  <2> QED BY <1>8, <2>1, <2>2 DEF Read, IInv, TypeOK, To, uploadVars, txVars, hookVars
<1>9. ASSUME NEW r \in Requests, Write(r) PROVE TypeOK'
  <2>1. \A q \in Requests : FilesIn(q)' = FilesIn(q) /\ Sending(q)' = Sending(q)
    BY <1>9 DEF Write, FilesIn, Sending, uploadVars
  <2>2. lock' \in [Rows -> Requests \cup {None}] /\ wrote' \subseteq Requests
    BY <1>9 DEF Write, IInv, TypeOK
  <2> QED BY <1>9, <2>1, <2>2 DEF Write, IInv, TypeOK, To, uploadVars, txVars, hookVars
<1>10. ASSUME NEW r \in Requests, Fails(r) PROVE TypeOK'
  <2>1. \A q \in Requests : FilesIn(q)' = FilesIn(q) /\ Sending(q)' = Sending(q)
    BY <1>10 DEF Fails, FilesIn, Sending, uploadVars
  <2>2. cleans' \subseteq Requests
    BY <1>10 DEF Fails, IInv, TypeOK
  <2> QED BY <1>10, <2>1, <2>2 DEF Fails, IInv, TypeOK, To, uploadVars, txVars, hookVars
<1>11. ASSUME NEW r \in Requests, RollsBack(r) PROVE TypeOK'
  <2>1. \A q \in Requests : FilesIn(q)' = FilesIn(q) /\ Sending(q)' = Sending(q)
    BY <1>11 DEF RollsBack, FilesIn, Sending, uploadVars
  <2>2. /\ file' \in [Files -> {"none", "stored", "condemned", "deleted"}]
        /\ faults' \in 0..MaxFaults
    BY <1>11, RollsBackDoes DEF IInv
  <2>3. lock' \in [Rows -> Requests \cup {None}] /\ wrote' \subseteq Requests
    BY <1>11 DEF RollsBack, Unlocked, IInv, TypeOK
  <2> QED BY <1>11, <2>1, <2>2, <2>3 DEF RollsBack, IInv, TypeOK, To, uploadVars, txVars, hookVars
<1>12. ASSUME NEW r \in Requests, Commits(r) PROVE TypeOK'
  <2>1. \A q \in Requests : FilesIn(q)' = FilesIn(q) /\ Sending(q)' = Sending(q)
    BY <1>12 DEF Commits, FilesIn, Sending, uploadVars
  <2>2. /\ file' \in [Files -> {"none", "stored", "condemned", "deleted"}]
        /\ faults' \in 0..MaxFaults
    BY <1>12, CommitsDoes DEF IInv
  <2>3. /\ lock' \in [Rows -> Requests \cup {None}]
        /\ \A x \in Rows : row'[x] = Gone \/ row'[x] \in [Fields -> Files \cup {Null}]
    BY <1>12, WrittenType DEF Commits, Unlocked, IInv, TypeOK
  <2> QED BY <1>12, <2>1, <2>2, <2>3 DEF Commits, IInv, TypeOK, To, uploadVars, txVars, hookVars
<1>13. ASSUME NEW r \in Requests, CommitFails(r) PROVE TypeOK'
  <2>1. \A q \in Requests : FilesIn(q)' = FilesIn(q) /\ Sending(q)' = Sending(q)
    BY <1>13 DEF CommitFails, FilesIn, Sending, uploadVars
  <2>2. /\ at' = [at EXCEPT ![r] = "done"] /\ ended' = [ended EXCEPT ![r] = "lost"]
        /\ UNCHANGED <<upload, formOver, aborted, body, wrote, found, ends, cleans, file>>
    BY <1>13 DEF CommitFails, To, uploadVars, hookVars
  <2>3. faults' \in 0..MaxFaults
    BY <1>13, WebResourceAssumption DEF CommitFails, IInv, TypeOK
  <2>4. /\ lock' \in [Rows -> Requests \cup {None}]
        /\ \A x \in Rows : row'[x] = Gone \/ row'[x] \in [Fields -> Files \cup {Null}]
    BY <1>13, WrittenType DEF CommitFails, Unlocked, IInv, TypeOK
  <2> QED BY <2>1, <2>2, <2>3, <2>4 DEF IInv, TypeOK
<1>14. ASSUME NEW h \in Files, Remove(h) PROVE TypeOK'
  <2>1. \A q \in Requests : FilesIn(q)' = FilesIn(q) /\ Sending(q)' = Sending(q)
    BY <1>14 DEF Remove, FilesIn, Sending, uploadVars
  <2> QED BY <1>14, <2>1 DEF Remove, IInv, TypeOK, uploadVars, txVars, hookVars
<1> USE WebResourceAssumption DEF IInv, TypeOK, FilesIn, Sending, uploadVars,
      txVars, hookVars
<1>15. CASE UNCHANGED vars
  BY <1>15 DEF vars
<1> HIDE DEF IInv, TypeOK, To
<1> QED BY <1>1, <1>2, <1>3, <1>4, <1>5, <1>6, <1>7, <1>8, <1>9, <1>10, <1>11,
      <1>12, <1>13, <1>14, <1>15 DEF Next, Runs
-----------------------------------------------------------------------------
LEMMA Invariant == ASSUME Prudent PROVE Spec => []IInv
<1>1. ASSUME IInv, [Next]_vars PROVE IInv'
  BY <1>1, BodiesStep, UploadsStep, LocksStep, LooksStep, StaysStep, ShowsStep,
     ReplacesStep, DanglingStep, TypeStep DEF IInv
<1>2. IInv /\ [Next]_vars => IInv'
  BY <1>1
<1> QED BY Init_IInv, <1>2, PTL DEF Spec

\* Every variable stays in its set, where no upload fails once its form is over
\* (getUploaderMiddlware, setupUploadHooks).
THEOREM WebTypeCorrect == ASSUME Prudent PROVE Spec => []TypeOK
<1>1. IInv => TypeOK
  BY DEF IInv
<1> QED BY Invariant, <1>1, PTL

\* Where no upload fails once its form is over, the listeners of setupUploadHooks
\* never have a file deleted that a row refers to, however many requests race for
\* the row, as long as the hook and the statement of each of them find the same
\* row; and if they do not, only the files of that one request are missing: those
\* its hook read in the row it did not write, or those it wrote to a row its hook
\* had missed.
THEOREM FilesStay == ASSUME Prudent PROVE Spec => []NoDangling
<1>1. IInv => NoDangling
  BY DEF IInv
<1> QED BY Invariant, <1>1, PTL
=============================================================================
