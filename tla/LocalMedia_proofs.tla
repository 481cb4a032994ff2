-------------------------- MODULE LocalMedia_proofs --------------------------
(***************************************************************************)
(* Proofs about LocalMedia for every number of media IDs, users, contents  *)
(* and requests, and every set of failures; and, after them, about         *)
(* MediaPaths for every media ID, server name and file name.               *)
(***************************************************************************)
EXTENDS LocalMediaInv, MediaPaths, SequenceTheorems, TLAPS

\* A download past its arrival names a media ID; a read of the row needs it.
ReadsNamed == \A r \in Readers : rd[r].pc # "idle" => rd[r].id \in MediaIDs

\* What the updates of a download's record keep.
LEMMA ReadType ==
  ASSUME NEW f \in [Readers -> Reads], NEW r \in Readers, NEW step \in ReadSteps,
         NEW code \in ReadReplies, NEW c \in Contents \cup {None}
  PROVE  /\ [f EXCEPT ![r].pc = step] \in [Readers -> Reads]
         /\ [f EXCEPT ![r].pc = step, ![r].reply = code] \in [Readers -> Reads]
         /\ [f EXCEPT ![r].pc = step, ![r].snap = c] \in [Readers -> Reads]
         /\ [f EXCEPT ![r].pc = step, ![r].reply = code, ![r].bytes = c]
              \in [Readers -> Reads]
  BY DEF Reads

LEMMA TypeInit == Init => TypeOK /\ ReadsNamed
  BY DEF Init, TypeOK, NoRow, NewRow, Rows, NoRequest, Request, Requests, Kinds,
         NewRead, Reads, ReadSteps, ReadReplies, UploadSteps, Replies, ReadsNamed

LEMMA TypeStep == ASSUME TypeOK, ReadsNamed, [Next]_vars PROVE TypeOK'
<1> USE DEF TypeOK, db, disk, uploads, downloads, Goto, Answer, UploadSteps, ActiveSteps, Replies
<1>1. ASSUME NEW u \in Uploads, Begin(u) PROVE TypeOK'
  <2> USE DEF Arrive, Request, Requests, Kinds
  <2>1. CASE BeginUpload(u) BY <2>1 DEF BeginUpload, FreshIDs
  <2>2. CASE BeginCreate(u) BY <2>2 DEF BeginCreate
  <2>3. CASE BeginAsync(u) BY <2>3 DEF BeginAsync
  <2> QED BY <1>1, <2>1, <2>2, <2>3 DEF Begin
<1>2. ASSUME NEW u \in Uploads, CountPending(u) \/ ReserveID(u) \/ LookupMedia(u)
      PROVE TypeOK'
  <2>1. CASE CountPending(u) BY <2>1 DEF CountPending
  <2>2. CASE ReserveID(u)
    <3> DEFINE q == req[u]
    <3>1. q \in Requests /\ q.user \in Users \cup {None}
      BY DEF TypeOK, Requests
    <3>2. PICK m \in MediaIDs : /\ req' = [req EXCEPT ![u].id = m]
                               /\ \/ row' = [row EXCEPT ![m] = NewRow(req[u].user, None, "null")]
                                  \/ UNCHANGED row
      BY <2>2 DEF ReserveID, FreshIDs
    <3>3. req' \in [Uploads -> Requests]
      BY <3>2 DEF Requests
    <3>4. row' \in [MediaIDs -> Rows]
      <4> HIDE DEF q
      <4> SUFFICES NewRow(q.user, None, "null") \in Rows BY <3>2 DEF q
      <4> QED BY <3>1 DEF NewRow, Rows
    <3> QED BY <2>2, <3>3, <3>4 DEF ReserveID
  <2>3. CASE LookupMedia(u) BY <2>3 DEF LookupMedia, UploadVerdict
  <2> QED BY <1>2, <2>1, <2>2, <2>3
<1>3. ASSUME NEW u \in Uploads,
             AcquireSlot(u) \/ CancelWait(u) \/ StoreBody(u) \/ StoreFails(u)
      PROVE TypeOK'
  <2>1. CASE AcquireSlot(u) BY <2>1 DEF AcquireSlot
  <2>2. CASE CancelWait(u) BY <2>2 DEF CancelWait
  <2>3. CASE StoreBody(u) BY <2>3 DEF StoreBody
  <2>4. CASE StoreFails(u) BY <2>4 DEF StoreFails, RemoveTemp
  <2> QED BY <1>3, <2>1, <2>2, <2>3, <2>4
<1>4. ASSUME NEW u \in Uploads, CheckQuarantine(u) \/ CheckLimits(u)
      PROVE TypeOK'
  <2>1. CASE CheckQuarantine(u) BY <2>1 DEF CheckQuarantine, Discard, RemoveTemp
  <2>2. CASE CheckLimits(u) BY <2>2 DEF CheckLimits, Discard, RemoveTemp
  <2> QED BY <1>4, <2>1, <2>2
<1>5. ASSUME NEW u \in Uploads,
             \/ Install(u) \/ StoreLocalMedia(u) \/ UnlinkFile(u)
             \/ CompleteLocalMedia(u) \/ RespondUploaded(u)
      PROVE TypeOK'
  <2> DEFINE q == req[u]
  <2>0. q.id \in MediaIDs \cup {None} /\ q.user \in Users \cup {None}
        /\ q.body \in Contents \cup {None}
    BY DEF Requests
  <2> HIDE DEF q
  <2>1. CASE Install(u)
    <3>1. CASE Discard(u, "notInstalled") BY <3>1 DEF Discard, RemoveTemp
    <3>2. CASE Rename(u)
      <4>1. file' = [file EXCEPT ![q.id] = q.body] BY <3>2 DEF Rename, q
      <4>2. file' \in [MediaIDs -> Contents \cup {None}] BY <2>0, <4>1
      <4> QED BY <2>1, <3>2, <4>2 DEF Install, Rename, RemoveTemp, Discard
    <3> QED BY <2>1, <3>1, <3>2 DEF Install
  <2>2. CASE StoreLocalMedia(u)
    <3>1. row' = row \/ row' = [row EXCEPT ![q.id] =
                                 NewRow(q.user, q.body, IF u \in matched THEN "system" ELSE "null")]
      BY <2>2 DEF StoreLocalMedia, InsertRow, q
    <3>2. row' \in [MediaIDs -> Rows] BY <2>0, <3>1 DEF NewRow, Rows
    <3> QED BY <2>2, <3>2 DEF StoreLocalMedia
  <2>3. CASE UnlinkFile(u) BY <2>3 DEF UnlinkFile
  <2>4. CASE CompleteLocalMedia(u)
    <3>1. row' = row \/ row' = [row EXCEPT ![q.id].content = q.body,
                               ![q.id].by = IF u \in matched THEN "system" ELSE @]
      BY <2>4 DEF CompleteLocalMedia, CompleteRow, Discard, q
    <3>2. row' \in [MediaIDs -> Rows] BY <2>0, <3>1 DEF Rows
    <3> QED BY <2>4, <3>2 DEF CompleteLocalMedia, RemoveTemp, Discard
  <2>5. CASE RespondUploaded(u) BY <2>5 DEF RespondUploaded
  <2> QED BY <1>5, <2>1, <2>2, <2>3, <2>4, <2>5
<1>6. ASSUME NEW r \in Readers, BeginRead(r) \/ ReadStep(r)
      PROVE TypeOK'
  <2>0. "await" \in ReadSteps /\ "open" \in ReadSteps /\ "done" \in ReadSteps
        /\ {"served", "notFound", "failed", "notYet"} \subseteq ReadReplies
    BY DEF ReadSteps, ReadReplies
  <2>1. CASE BeginRead(r)
    BY <2>1 DEF BeginRead, NewRead, Reads, ReadSteps, ReadReplies
  <2>2. CASE ResolveLocalMedia(r) \/ AwaitUpload(r)
    <3> DEFINE snap == row[rd[r].id].content
    <3>1. snap \in Contents \cup {None}
      BY <2>2 DEF ReadsNamed, ResolveLocalMedia, AwaitUpload, Rows
    <3>2. ASSUME OpenWith(r, rd[r].id) PROVE rd' \in [Readers -> Reads]
      <4>1. rd' = [rd EXCEPT ![r].pc = "open", ![r].snap = snap]
        BY <3>2 DEF OpenWith
      <4> HIDE DEF snap
      <4> QED BY <2>0, <3>1, <4>1, ReadType
    <3>3. ASSUME rd' = [rd EXCEPT ![r].pc = "await"] PROVE rd' \in [Readers -> Reads]
      BY <2>0, <3>3, ReadType
    <3>4. ASSUME NEW code \in ReadReplies, Finish(r, code)
          PROVE rd' \in [Readers -> Reads]
      BY <2>0, <3>4, ReadType DEF Finish
    <3>5. rd' \in [Readers -> Reads]
      BY <2>0, <2>2, <3>2, <3>3, <3>4 DEF ResolveLocalMedia, AwaitUpload
    <3> QED BY <2>2, <3>5 DEF ResolveLocalMedia, AwaitUpload
  <2>3. CASE AwaitGivesUp(r)
    BY <2>0, <2>3, ReadType DEF AwaitGivesUp, Finish
  <2>4. CASE ServeFile(r)
    <3> DEFINE bytes == file[rd[r].id]
    <3>1. bytes \in Contents \cup {None}
      BY <2>4 DEF ReadsNamed, ServeFile
    <3>2. ASSUME Finish(r, "notFound") PROVE rd' \in [Readers -> Reads]
      BY <2>0, <3>2, ReadType DEF Finish
    <3>3. ASSUME rd' = [rd EXCEPT ![r].pc = "done", ![r].reply = "served",
                                  ![r].bytes = bytes]
          PROVE  rd' \in [Readers -> Reads]
      <4> HIDE DEF bytes
      <4> QED BY <2>0, <3>1, <3>3, ReadType
    <3>4. rd' \in [Readers -> Reads]
      BY <2>4, <3>2, <3>3 DEF ServeFile
    <3> QED BY <2>4, <3>4 DEF ServeFile
  <2> QED BY <1>6, <2>1, <2>2, <2>3, <2>4 DEF ReadStep
<1>7. CASE Process
  <2>1. CASE Crash BY <2>1 DEF Crash, Reads, ReadSteps
  <2>2. CASE Restart BY <2>2 DEF Restart
  <2>3. CASE SweepStaleTempFiles BY <2>3 DEF SweepStaleTempFiles
  <2> QED BY <1>7, <2>1, <2>2, <2>3 DEF Process
<1>8. CASE Environment
  <2>1. CASE HourPasses BY <2>1 DEF HourPasses
  <2>2. ASSUME NEW m \in MediaIDs, Expire(m) PROVE TypeOK' BY <2>2 DEF Expire
  <2>3. ASSUME NEW m \in MediaIDs, QuarantineLocal(m) PROVE TypeOK'
    BY <2>3 DEF QuarantineLocal, Flag, Rows
  <2>4. ASSUME NEW c \in Contents, QuarantineRemote(c) PROVE TypeOK'
    BY <2>4 DEF QuarantineRemote, Flag, Rows
  <2> QED BY <1>8, <2>1, <2>2, <2>3, <2>4 DEF Environment
<1>9. CASE UNCHANGED vars BY <1>9 DEF vars
<1> QED
  BY <1>1, <1>2, <1>3, <1>4, <1>5, <1>6, <1>7, <1>8, <1>9 DEF Next, UploadStep

\* Steps of uploads and of the environment leave the downloads alone.
LEMMA NextFrame ==
  ASSUME [Next]_vars
  PROVE  \/ UNCHANGED <<rd, warned>>
         \/ \E r \in Readers : BeginRead(r) \/ ReadStep(r)
         \/ Crash
<1> USE DEF downloads, Discard, Arrive
<1>1. ASSUME NEW u \in Uploads, Begin(u) PROVE UNCHANGED <<rd, warned>>
  BY <1>1 DEF Begin, BeginUpload, BeginCreate, BeginAsync
<1>2. ASSUME NEW u \in Uploads, UploadStep(u) \/ CancelWait(u) PROVE UNCHANGED <<rd, warned>>
  BY <1>2 DEF UploadStep, CountPending, ReserveID, LookupMedia, AcquireSlot, StoreBody,
              StoreFails, CancelWait, CheckQuarantine, CheckLimits, Install,
              StoreLocalMedia, UnlinkFile, CompleteLocalMedia, RespondUploaded
<1>3. Environment => UNCHANGED <<rd, warned>>
  BY DEF Environment, HourPasses, Expire, QuarantineLocal, QuarantineRemote
<1>4. Restart \/ SweepStaleTempFiles => UNCHANGED <<rd, warned>>
  BY DEF Restart, SweepStaleTempFiles
<1>5. UNCHANGED vars => UNCHANGED <<rd, warned>>
  BY DEF vars
<1> QED
  BY <1>1, <1>2, <1>3, <1>4, <1>5 DEF Next, Process

LEMMA ReadsNamedStep == ASSUME TypeOK, ReadsNamed, [Next]_vars PROVE ReadsNamed'
<1> USE DEF TypeOK, ReadsNamed
<1>1. CASE UNCHANGED <<rd, warned>>
  BY <1>1
<1>2. ASSUME NEW r \in Readers, BeginRead(r) \/ ReadStep(r) PROVE ReadsNamed'
  <2>1. CASE BeginRead(r) BY <2>1 DEF BeginRead, NewRead
  <2>2. CASE ReadStep(r)
    BY <2>2 DEF ReadStep, ResolveLocalMedia, AwaitUpload, AwaitGivesUp, ServeFile,
                Finish, OpenWith, Reads
  <2> QED BY <1>2, <2>1, <2>2
<1>3. CASE Crash
  BY <1>3 DEF Crash, Reads
<1> QED
  BY <1>1, <1>2, <1>3, NextFrame

\* Every variable keeps its type, whatever the failures.
THEOREM TypeCorrect == Spec => []TypeOK
<1>1. TypeOK /\ ReadsNamed /\ [Next]_vars => (TypeOK /\ ReadsNamed)'
  BY TypeStep, ReadsNamedStep
<1> QED BY TypeInit, <1>1, PTL DEF Spec

------------------------------------------------------------------------------
\* The inductive invariant.  Most steps of a handler only move it on, without
\* touching a row, a final path or a request: QuietMove collects them.

QuietMove(u) ==
  /\ UNCHANGED <<row, file, req>>
  /\ \/ /\ reply' = reply
        /\ \/ pc[u] = "count" /\ pc' = [pc EXCEPT ![u] = "reserve"]
           \/ pc[u] = "lookup" /\ Pending(req[u].id) /\ pc' = [pc EXCEPT ![u] = "slot"]
           \/ pc[u] \in StoreSteps /\ \E s \in StoreSteps : pc' = [pc EXCEPT ![u] = s]
           \/ pc[u] = "limits" /\ req[u].kind = "sync" /\ pc' = [pc EXCEPT ![u] = "install"]
           \/ pc[u] = "limits" /\ req[u].kind = "async" /\ pc' = [pc EXCEPT ![u] = "complete"]
     \/ /\ pc' = [pc EXCEPT ![u] = "done"]
        /\ \/ /\ pc[u] \in {"count", "lookup", "complete"} \cup StoreSteps
              /\ \E code \in {"refused", "conflict", "limited", "failed"} :
                   reply' = [reply EXCEPT ![u] = code]
           \/ pc[u] = "install" /\ reply' = [reply EXCEPT ![u] = "notInstalled"]
           \/ pc[u] = "answer" /\ reply' = [reply EXCEPT ![u] = "ok"]

LEMMA QuietMovePreserves ==
  ASSUME IInv, NEW u \in Uploads, QuietMove(u), TypeOK'
  PROVE  IInv'
<1> USE DEF IInv, QuietMove, StoreSteps
<1>0. pc \in [Uploads -> UploadSteps] /\ reply \in [Uploads -> Replies]
  BY DEF TypeOK
<1>1. \A v \in Uploads : v # u => pc'[v] = pc[v] /\ reply'[v] = reply[v]
  BY <1>0
<1>2. Generated' = Generated /\ \A v \in Uploads : Generates(v)' = Generates(v)
  BY DEF Generated, Generates
<1>3. \A m \in MediaIDs : /\ Exists(m)' = Exists(m) /\ Completed(m)' = Completed(m)
                          /\ Pending(m)' = Pending(m)
  BY DEF Exists, Completed, Pending
<1>4. ASSUME NEW v \in Uploads PROVE RequestShape(v)'
  BY <1>0, <1>1 DEF RequestShape
<1>5. ASSUME NEW v \in Uploads PROVE SyncState(v)'
  BY <1>0, <1>1 DEF SyncState, Exists, RequestShape
<1>6. ASSUME NEW v \in Uploads PROVE AsyncState(v)'
  BY <1>0, <1>1 DEF AsyncState, RequestShape
<1>7. ASSUME NEW v \in Uploads PROVE InstalledState(v)'
  BY <1>0, <1>1 DEF InstalledState, Acked, RequestShape
<1>8. GeneratedOnce' /\ OnlyGenerated' /\ SyncNeverPending' /\ FileMatchesRow'
  BY <1>2, <1>3 DEF GeneratedOnce, OnlyGenerated, SyncNeverPending, FileMatchesRow, Pending, Exists, Completed
<1>9. AsyncOnReserved'
  <2>1. ASSUME NEW v \in Uploads, PastLookup(v)' PROVE PastLookup(v) \/ Pending(req[v].id)
    BY <1>0, <1>1, <2>1 DEF PastLookup, RequestShape
  <2>2. ASSUME NEW v \in Uploads, PastLookup(v)', Pending(req[v].id)
        PROVE  /\ req[v].id \in Generated
               /\ \A w \in Uploads : req[w].kind = "sync" => req[w].id # req[v].id
    BY <2>2 DEF PastLookup, OnlyGenerated, SyncNeverPending, RequestShape, Pending
  <2> QED
    BY <1>2, <2>1, <2>2 DEF AsyncOnReserved
<1>10. \A v \in Uploads : Recorded(v)' => Recorded(v)
  <2> SUFFICES ASSUME NEW v \in Uploads, Recorded(v)' PROVE Recorded(v)
    OBVIOUS
  <2>1. CASE v # u
    BY <1>1, <2>1 DEF Recorded, Acked
  <2>2. CASE v = u
    BY <1>0, <2>2 DEF Recorded, Acked, RequestShape
  <2> QED BY <2>1, <2>2
<1>11. RecordedOnce' /\ RecordedCompleted'
  BY <1>10 DEF RecordedOnce, RecordedCompleted, Completed
<1> QED
  BY <1>4, <1>5, <1>6, <1>7, <1>8, <1>9, <1>11

\* An upload that recorded something is of one of the two uploading kinds.
LEMMA RecordedShape ==
  ASSUME NEW u \in Uploads, RequestShape(u), TypeOK, Recorded(u)
  PROVE  /\ req[u].kind \in {"sync", "async"}
         /\ req[u].id \in MediaIDs /\ req[u].body \in Contents
<1> req[u].kind \in Kinds BY DEF TypeOK, Requests
<1> QED BY DEF Recorded, Acked, RequestShape, Kinds, StoreSteps

\* The handler steps that are quiet moves.
LEMMA QuietSteps ==
  ASSUME IInv, NEW u \in Uploads,
         \/ CountPending(u) \/ LookupMedia(u) \/ AcquireSlot(u) \/ CancelWait(u)
         \/ StoreBody(u) \/ StoreFails(u) \/ CheckQuarantine(u) \/ CheckLimits(u)
         \/ RespondUploaded(u)
         \/ pc[u] = "install" /\ Discard(u, "notInstalled")
         \/ pc[u] = "complete" /\ (Discard(u, "conflict") \/ Discard(u, "failed"))
  PROVE  QuietMove(u)
<1> USE DEF QuietMove, Goto, Answer, db, disk, StoreSteps
<1>1. CASE CountPending(u) BY <1>1 DEF CountPending
<1>2. CASE LookupMedia(u)
  BY <1>2 DEF LookupMedia, UploadVerdict, Pending
<1>3. CASE AcquireSlot(u) BY <1>3 DEF AcquireSlot
<1>4. CASE CancelWait(u) BY <1>4 DEF CancelWait
<1>5. CASE StoreBody(u) BY <1>5 DEF StoreBody
<1>6. CASE StoreFails(u) BY <1>6 DEF StoreFails, RemoveTemp
<1>7. CASE CheckQuarantine(u) BY <1>7 DEF CheckQuarantine, Discard
<1>8. CASE CheckLimits(u)
  <2>1. req[u].kind \in {"sync", "async"}
    BY <1>8 DEF CheckLimits, IInv, RequestShape
  <2> QED BY <1>8, <2>1 DEF CheckLimits, Discard
<1>9. CASE RespondUploaded(u) BY <1>9 DEF RespondUploaded
<1>10. CASE pc[u] = "install" /\ Discard(u, "notInstalled") BY <1>10 DEF Discard
<1>11. CASE pc[u] = "complete" /\ (Discard(u, "conflict") \/ Discard(u, "failed"))
  BY <1>11 DEF Discard
<1> QED BY <1>1, <1>2, <1>3, <1>4, <1>5, <1>6, <1>7, <1>8, <1>9, <1>10, <1>11

\* A request arrives.  A synchronous upload's ID is fresh: nothing is there.
LEMMA BeginPreserves ==
  ASSUME IInv, NEW u \in Uploads, Begin(u), TypeOK'
  PROVE  IInv'
<1> USE DEF IInv
<1>1. PICK request \in Requests, step \in {"slot", "count", "lookup"} :
        /\ UNCHANGED <<row, file, reply>>
        /\ pc[u] = "idle"
        /\ req' = [req EXCEPT ![u] = request]
        /\ pc' = [pc EXCEPT ![u] = step]
        /\ \/ /\ step = "slot" /\ request.kind = "sync"
              /\ request.user \in Users /\ request.body \in Contents
              /\ request.id \in FreshIDs
           \/ /\ step = "count" /\ request.kind = "create"
              /\ request.user \in Users /\ request.id = None
           \/ /\ step = "lookup" /\ request.kind = "async"
              /\ request.user \in Users /\ request.body \in Contents
              /\ request.id \in MediaIDs
  <2>1. CASE BeginUpload(u)
    <3>1. PICK user \in Users, c \in Contents, m \in FreshIDs :
            Arrive(u, Request("sync", user, m, c), "slot")
      BY <2>1 DEF BeginUpload
    <3>2. Request("sync", user, m, c) \in Requests
      BY DEF Request, Requests, Kinds, FreshIDs
    <3> QED BY <3>1, <3>2 DEF Arrive, Goto, db, disk, Request
  <2>2. CASE BeginCreate(u)
    <3>1. PICK user \in Users : Arrive(u, Request("create", user, None, None), "count")
      BY <2>2 DEF BeginCreate
    <3>2. Request("create", user, None, None) \in Requests
      BY DEF Request, Requests, Kinds
    <3> QED BY <3>1, <3>2 DEF Arrive, Goto, db, disk, Request
  <2>3. CASE BeginAsync(u)
    <3>1. PICK user \in Users, c \in Contents, m \in MediaIDs :
            Arrive(u, Request("async", user, m, c), "lookup")
      BY <2>3 DEF BeginAsync
    <3>2. Request("async", user, m, c) \in Requests
      BY DEF Request, Requests, Kinds
    <3> QED BY <3>1, <3>2 DEF Arrive, Goto, db, disk, Request
  <2> QED BY <2>1, <2>2, <2>3 DEF Begin
<1>2. req \in [Uploads -> Requests] /\ pc \in [Uploads -> UploadSteps]
  BY DEF TypeOK
<1>3. \A v \in Uploads : v # u => req'[v] = req[v] /\ pc'[v] = pc[v]
  BY <1>1, <1>2
<1>4. req'[u] = request /\ pc'[u] = step /\ reply[u] = "none" /\ req[u].kind = "none"
  BY <1>1, <1>2 DEF RequestShape
<1>5. /\ Generated \subseteq Generated'
      /\ \A v \in Uploads : Generates(v) => Generates(v)' /\ req'[v].id = req[v].id
  BY <1>3, <1>4 DEF Generated, Generates
<1>6. request.kind = "sync" \/ request.kind = "create" =>
        request.id = None \/ request.id \in FreshIDs
  BY <1>1
<1>7. Generated' = IF Generates(u)' THEN Generated \cup {request.id} ELSE Generated
  BY <1>3, <1>4 DEF Generated, Generates
<1>8. request.id \in FreshIDs =>
        /\ request.id \in MediaIDs
        /\ ~Exists(request.id) /\ ~Pending(request.id) /\ file[request.id] = None
        /\ \A v \in Uploads : Generates(v) => req[v].id # request.id
  BY DEF FreshIDs, OnlyGenerated, Generated, Pending
<1>9. ASSUME NEW v \in Uploads PROVE RequestShape(v)'
  BY <1>1, <1>3, <1>4, <1>8 DEF RequestShape, StoreSteps
<1>10. ASSUME NEW v \in Uploads PROVE SyncState(v)'
  BY <1>1, <1>3, <1>4, <1>8 DEF SyncState, Exists, StoreSteps
<1>11. ASSUME NEW v \in Uploads PROVE AsyncState(v)' /\ InstalledState(v)'
  BY <1>1, <1>3, <1>4 DEF AsyncState, InstalledState, Acked
<1>12. GeneratedOnce'
  BY <1>1, <1>3, <1>4, <1>6, <1>8 DEF GeneratedOnce, Generates, FreshIDs
<1>13. OnlyGenerated' /\ FileMatchesRow'
  BY <1>1, <1>5 DEF OnlyGenerated, FileMatchesRow, Exists, Completed, Pending
<1>14. AsyncOnReserved'
  <2> SUFFICES ASSUME NEW v \in Uploads, PastLookup(v)'
               PROVE  /\ req'[v].id \in Generated'
                      /\ \A w \in Uploads : req'[w].kind = "sync" => req'[w].id # req'[v].id
    BY DEF AsyncOnReserved
  <2>1. v # u /\ PastLookup(v)
    BY <1>1, <1>3, <1>4 DEF PastLookup, StoreSteps
  <2>2. req[v].id \in Generated /\ req'[v].id = req[v].id
    BY <1>3, <2>1 DEF AsyncOnReserved
  <2>3. req'[u].kind = "sync" => req'[u].id \notin Generated
    BY <1>1, <1>4 DEF FreshIDs
  <2>4. \A w \in Uploads \ {u} : req'[w].kind = "sync" => req'[w].id # req'[v].id
    BY <1>3, <2>1, <2>2 DEF AsyncOnReserved
  <2> QED BY <1>5, <2>2, <2>3, <2>4
<1>15. SyncNeverPending'
  BY <1>1, <1>3, <1>4, <1>8 DEF SyncNeverPending, Pending, Exists, Completed
<1>16. \A v \in Uploads : Recorded(v)' => Recorded(v) /\ req'[v].id = req[v].id
  BY <1>1, <1>3, <1>4 DEF Recorded, Acked
<1>17. RecordedOnce' /\ RecordedCompleted'
  BY <1>1, <1>16 DEF RecordedOnce, RecordedCompleted, Completed
<1> QED
  BY <1>9, <1>10, <1>11, <1>12, <1>13, <1>14, <1>15, <1>17

\* /create takes a fresh ID and, unless the insert failed, makes it pending.
LEMMA ReserveIDPreserves ==
  ASSUME IInv, NEW u \in Uploads, ReserveID(u), TypeOK'
  PROVE  IInv'
<1> USE DEF IInv
<1>0. /\ req \in [Uploads -> Requests] /\ pc \in [Uploads -> UploadSteps]
      /\ reply \in [Uploads -> Replies] /\ row \in [MediaIDs -> Rows]
  BY DEF TypeOK
<1>1. req[u].kind = "create" /\ req[u].id = None /\ req[u].user \in Users
  BY DEF ReserveID, RequestShape
<1>2. PICK m \in FreshIDs, code \in {"ok", "failed"} :
        /\ req' = [req EXCEPT ![u].id = m]
        /\ pc' = [pc EXCEPT ![u] = "done"]
        /\ reply' = [reply EXCEPT ![u] = code]
        /\ row' = row \/ row' = [row EXCEPT ![m] = NewRow(req[u].user, None, "null")]
        /\ UNCHANGED file
  BY DEF ReserveID, Answer, disk
<1>3. \A v \in Uploads : v # u => /\ req'[v] = req[v] /\ pc'[v] = pc[v]
                                 /\ reply'[v] = reply[v]
  BY <1>0, <1>2
<1>4. /\ req'[u].id = m /\ req'[u].kind = "create" /\ req'[u].user = req[u].user
      /\ pc'[u] = "done" /\ reply'[u] = code
  BY <1>0, <1>1, <1>2 DEF Requests
<1>5. /\ m \in MediaIDs /\ m \notin Generated /\ m # None
      /\ ~Exists(m) /\ ~Completed(m) /\ file[m] = None
      /\ \A v \in Uploads : Generates(v) => req[v].id # m
  BY ConstantsAssumption DEF FreshIDs, OnlyGenerated, Generated
<1>6. \A i \in MediaIDs : /\ row'[i].content = row[i].content
                          /\ i # m => row'[i] = row[i]
  BY <1>0, <1>2, <1>5 DEF NewRow, Completed
<1>7. Generated' = Generated \cup {m} \/ Generated' = (Generated \ {None}) \cup {m}
  BY <1>1, <1>3, <1>4 DEF Generated, Generates
<1>8. \A i \in MediaIDs : i \in Generated => i \in Generated'
  BY <1>7, ConstantsAssumption
<1>9. m \in Generated'
  BY <1>7
<1>10. ASSUME NEW v \in Uploads PROVE RequestShape(v)'
  BY <1>1, <1>2, <1>3, <1>4 DEF RequestShape, StoreSteps
<1>11. ASSUME NEW v \in Uploads PROVE SyncState(v)'
  <2> SUFFICES ASSUME req[v].kind = "sync", v # u PROVE SyncState(v)'
    BY <1>3, <1>4 DEF SyncState
  <2>1. req[v].id \in MediaIDs /\ req[v].id # m
    BY <1>5 DEF RequestShape, Generates
  <2> QED BY <1>2, <1>3, <1>6, <2>1 DEF SyncState, Exists
<1>12. ASSUME NEW v \in Uploads PROVE AsyncState(v)' /\ InstalledState(v)'
  <2>1. CASE v = u
    BY <1>4, <2>1 DEF AsyncState, InstalledState, Acked
  <2>2. CASE v # u
    <3>1. (pc[v] = "install" \/ pc[v] = "answer" \/ Acked(v)) => req[v].id \in MediaIDs
      BY RecordedShape DEF Recorded, RequestShape
    <3> QED BY <1>2, <1>3, <1>6, <2>2, <3>1 DEF AsyncState, InstalledState, Acked
  <2> QED BY <2>1, <2>2
<1>13. GeneratedOnce'
  BY <1>3, <1>4, <1>5 DEF GeneratedOnce, Generates
<1>14. OnlyGenerated' /\ FileMatchesRow'
  BY <1>2, <1>5, <1>6, <1>8, <1>9 DEF OnlyGenerated, FileMatchesRow, Exists, Completed, Pending
<1>15. AsyncOnReserved'
  <2> SUFFICES ASSUME NEW v \in Uploads, PastLookup(v)'
               PROVE  /\ req'[v].id \in Generated'
                      /\ \A w \in Uploads : req'[w].kind = "sync" => req'[w].id # req'[v].id
    BY DEF AsyncOnReserved
  <2>1. v # u /\ PastLookup(v) /\ req'[v].id = req[v].id
    BY <1>3, <1>4 DEF PastLookup
  <2>2. req[v].id \in Generated /\ req[v].id \in MediaIDs
    BY <2>1 DEF AsyncOnReserved, RequestShape, PastLookup
  <2> QED BY <1>3, <1>4, <1>8, <2>1, <2>2 DEF AsyncOnReserved
<1>16. SyncNeverPending'
  <2>1. ASSUME NEW v \in Uploads, req'[v].kind = "sync" PROVE ~Pending(req[v].id)'
    <3>1. v # u /\ req'[v] = req[v]
      BY <1>3, <1>4, <2>1
    <3>2. req[v].id \in MediaIDs /\ req[v].id # m
      BY <1>5, <2>1, <3>1 DEF RequestShape, Generates
    <3>3. row'[req[v].id] = row[req[v].id]
      BY <1>6, <3>2
    <3> QED BY <2>1, <3>1, <3>3 DEF SyncNeverPending, Pending, Exists, Completed
  <2> QED BY <2>1 DEF SyncNeverPending
<1>17. ASSUME NEW v \in Uploads, Recorded(v)'
       PROVE  Recorded(v) /\ req'[v] = req[v] /\ req[v].id \in MediaIDs
  BY <1>3, <1>4, <1>17, RecordedShape DEF Recorded, Acked
<1>18. RecordedOnce' /\ RecordedCompleted'
  BY <1>6, <1>17 DEF RecordedOnce, RecordedCompleted, Completed
<1> QED
  BY <1>10, <1>11, <1>12, <1>13, <1>14, <1>15, <1>16, <1>18

\* No two uploads hold one media ID: the heart of the argument.
Holds(u) == req[u].kind = "sync" \/ Recorded(u)

LEMMA HoldsAlone ==
  ASSUME IInv, NEW u \in Uploads, NEW v \in Uploads, Holds(u), Holds(v),
         req[u].id = req[v].id
  PROVE  u = v
<1> USE DEF IInv
<1>1. /\ req[u].kind \in {"sync", "async"} /\ req[v].kind \in {"sync", "async"}
      /\ req[u].id \in MediaIDs
  BY RecordedShape DEF Holds, RequestShape
<1>2. CASE req[u].kind = "sync" /\ req[v].kind = "sync"
  BY <1>1, <1>2, ConstantsAssumption DEF GeneratedOnce, Generates
<1>3. ASSUME NEW w \in Uploads, req[w].kind = "async", Recorded(w) PROVE PastLookup(w)
  BY <1>3 DEF PastLookup, Recorded, Acked
<1>4. CASE req[u].kind = "async" /\ req[v].kind = "sync"
  BY <1>3, <1>4 DEF Holds, AsyncOnReserved
<1>5. CASE req[u].kind = "sync" /\ req[v].kind = "async"
  BY <1>3, <1>5 DEF Holds, AsyncOnReserved
<1>6. CASE req[u].kind = "async" /\ req[v].kind = "async"
  BY <1>6 DEF Holds, RecordedOnce
<1> QED BY <1>1, <1>2, <1>4, <1>5, <1>6

\* The rename: what lands is the row's content, or lands where there is no row.
LEMMA InstallPreserves ==
  ASSUME IInv, NEW u \in Uploads, pc[u] = "install", Rename(u),
         Goto(u, IF req[u].kind = "sync" THEN "insert" ELSE "answer"),
         UNCHANGED <<row, req>>, TypeOK'
  PROVE  IInv'
<1> USE DEF IInv
<1>0. /\ pc \in [Uploads -> UploadSteps] /\ reply' = reply
      /\ file \in [MediaIDs -> Contents \cup {None}]
  BY DEF TypeOK, Goto
<1>1. /\ req[u].kind \in {"sync", "async"}
      /\ req[u].id \in MediaIDs /\ req[u].body \in Contents /\ req[u].user \in Users
      /\ reply[u] = "none"
  BY DEF RequestShape
<1>2. /\ pc'[u] = IF req[u].kind = "sync" THEN "insert" ELSE "answer"
      /\ \A v \in Uploads : v # u => pc'[v] = pc[v]
  BY <1>0 DEF Goto
<1>3. /\ file'[req[u].id] = req[u].body
      /\ \A m \in MediaIDs : m # req[u].id => file'[m] = file[m]
  BY <1>0, <1>1 DEF Rename
<1>4. /\ Generated' = Generated
      /\ \A v \in Uploads : Generates(v)' = Generates(v)
      /\ \A m \in MediaIDs : /\ Exists(m)' = Exists(m) /\ Completed(m)' = Completed(m)
                             /\ Pending(m)' = Pending(m)
  BY DEF Generated, Generates, Exists, Completed, Pending
<1>5. /\ req[u].kind = "sync" => ~Exists(req[u].id) /\ ~Completed(req[u].id)
      /\ req[u].kind = "async" => row[req[u].id].content = req[u].body
  BY <1>1 DEF SyncState, AsyncState, OnlyGenerated
<1>6. Holds(u)
  BY <1>1 DEF Holds, Recorded
<1>7. ASSUME NEW v \in Uploads, v # u, Holds(v)
      PROVE  req[v].id \in MediaIDs /\ req[v].id # req[u].id /\ file'[req[v].id] = file[req[v].id]
  <2>1. req[v].id \in MediaIDs
    BY <1>7, RecordedShape DEF Holds, RequestShape
  <2> QED BY <1>3, <1>6, <1>7, <2>1, HoldsAlone
<1>8. ASSUME NEW v \in Uploads PROVE RequestShape(v)'
  BY <1>0, <1>1, <1>2 DEF RequestShape, StoreSteps
<1>9. ASSUME NEW v \in Uploads PROVE SyncState(v)'
  <2>1. CASE v = u
    BY <1>1, <1>2, <1>3, <1>5, <2>1 DEF SyncState, Exists, StoreSteps
  <2>2. CASE v # u
    BY <1>2, <1>7, <2>2 DEF SyncState, Exists, StoreSteps, Holds
  <2> QED BY <2>1, <2>2
<1>10. ASSUME NEW v \in Uploads PROVE AsyncState(v)' /\ InstalledState(v)'
  <2>1. CASE v = u
    BY <1>0, <1>1, <1>2, <1>3, <1>5, <2>1 DEF AsyncState, InstalledState, Acked
  <2>2. CASE v # u
    BY <1>0, <1>2, <1>7, <2>2 DEF AsyncState, InstalledState, Acked, Holds, Recorded
  <2> QED BY <2>1, <2>2
<1>11. GeneratedOnce' /\ SyncNeverPending'
  BY <1>4 DEF GeneratedOnce, SyncNeverPending, Pending, Exists, Completed
<1>12. req[u].id \in Generated
  BY <1>1 DEF AsyncOnReserved, PastLookup, Generated, Generates
<1>13. ~Pending(req[u].id)
  BY <1>1, <1>5, ConstantsAssumption DEF Pending, Completed
<1>14. OnlyGenerated'
  BY <1>3, <1>4, <1>12, <1>13 DEF OnlyGenerated
<1>15. FileMatchesRow'
  BY <1>1, <1>3, <1>4, <1>5 DEF FileMatchesRow
<1>16. AsyncOnReserved'
  BY <1>0, <1>1, <1>2, <1>4 DEF AsyncOnReserved, PastLookup
<1>17. \A v \in Uploads : Recorded(v)' => Recorded(v)
  BY <1>0, <1>1, <1>2 DEF Recorded, Acked
<1>18. RecordedOnce' /\ RecordedCompleted'
  BY <1>17 DEF RecordedOnce, RecordedCompleted, Completed
<1> QED
  BY <1>8, <1>9, <1>10, <1>11, <1>14, <1>15, <1>16, <1>18

\* The insert: it meets no row, and what it writes is what the rename installed.
LEMMA StorePreserves ==
  ASSUME IInv, NEW u \in Uploads, StoreLocalMedia(u), TypeOK'
  PROVE  IInv'
<1> USE DEF IInv
<1>0. /\ pc \in [Uploads -> UploadSteps] /\ row \in [MediaIDs -> Rows]
      /\ pc[u] = "insert"
  BY DEF TypeOK, StoreLocalMedia
<1>1. /\ req[u].kind = "sync" /\ reply[u] = "none"
      /\ req[u].id \in MediaIDs /\ req[u].body \in Contents /\ req[u].user \in Users
      /\ req[u].body # None /\ req[u].user # None
  BY <1>0, ConstantsAssumption DEF RequestShape
<1>2. /\ ~Exists(req[u].id) /\ ~Completed(req[u].id)
      /\ file[req[u].id] = req[u].body
  BY <1>0, <1>1 DEF SyncState, OnlyGenerated
<1>3. /\ UNCHANGED <<file, req, reply>>
      /\ pc' = [pc EXCEPT ![u] = "answer"] \/ pc' = [pc EXCEPT ![u] = "unlink"]
      /\ \A v \in Uploads : v # u => pc'[v] = pc[v]
      /\ pc'[u] = "answer" => row'[req[u].id].content = req[u].body
      /\ pc'[u] = "unlink" /\ Exists(req[u].id)' => "lostReply" \in Faults
  BY <1>0, <1>1, <1>2 DEF StoreLocalMedia, InsertRow, NewRow, Goto, disk, Exists
<1>4. /\ row' = row \/ (Exists(req[u].id)' /\ row'[req[u].id].content = req[u].body)
      /\ \A m \in MediaIDs : m # req[u].id => row'[m] = row[m]
  BY <1>0, <1>1 DEF StoreLocalMedia, InsertRow, NewRow, Exists
<1>5. pc'[u] \in {"answer", "unlink"}
  BY <1>0, <1>3
<1>6. Generated' = Generated /\ \A v \in Uploads : Generates(v)' = Generates(v)
  BY <1>3 DEF Generated, Generates
<1>7. ASSUME NEW v \in Uploads, v # u, Holds(v)
      PROVE  /\ req[v].id \in MediaIDs /\ req[v].id # req[u].id
             /\ row'[req[v].id] = row[req[v].id]
  <2>1. req[v].id \in MediaIDs
    BY <1>7, RecordedShape DEF Holds, RequestShape
  <2>2. Holds(u)
    BY <1>1 DEF Holds
  <2> QED BY <1>4, <1>7, <2>1, <2>2, HoldsAlone
<1>8. ASSUME NEW v \in Uploads PROVE RequestShape(v)'
  BY <1>0, <1>1, <1>3, <1>5 DEF RequestShape, StoreSteps
<1>9. ASSUME NEW v \in Uploads PROVE SyncState(v)'
  <2>1. CASE v = u
    BY <1>2, <1>3, <1>5, <2>1 DEF SyncState, StoreSteps
  <2>2. CASE v # u
    BY <1>3, <1>7, <2>2 DEF SyncState, Exists, Holds
  <2> QED BY <2>1, <2>2
<1>10. ASSUME NEW v \in Uploads PROVE AsyncState(v)' /\ InstalledState(v)'
  <2>1. CASE v = u
    BY <1>1, <1>2, <1>3, <1>5, <2>1 DEF AsyncState, InstalledState, Acked
  <2>2. CASE v # u
    BY <1>3, <1>7, <2>2 DEF AsyncState, InstalledState, Acked, Holds, Recorded
  <2> QED BY <2>1, <2>2
<1>11. req[u].id \in Generated
  BY <1>1 DEF Generated, Generates
<1>12. \A m \in MediaIDs : Pending(m)' => Pending(m)
  BY <1>1, <1>2, <1>4 DEF Pending, Exists, Completed
<1>13. OnlyGenerated' /\ FileMatchesRow'
  BY <1>1, <1>2, <1>3, <1>4, <1>6, <1>11, <1>12
     DEF OnlyGenerated, FileMatchesRow, Exists, Completed, Pending
<1>14. GeneratedOnce' /\ AsyncOnReserved'
  BY <1>1, <1>3, <1>6 DEF GeneratedOnce, AsyncOnReserved, PastLookup
<1>15. SyncNeverPending'
  <2>1. ASSUME NEW v \in Uploads, req[v].kind = "sync" PROVE ~Pending(req[v].id)'
    BY <1>3, <1>12, <2>1 DEF SyncNeverPending, RequestShape
  <2> QED BY <1>3, <2>1 DEF SyncNeverPending, Pending, Exists, Completed
<1>16. ASSUME NEW v \in Uploads, Recorded(v)', v # u PROVE Recorded(v)
  BY <1>3, <1>16 DEF Recorded, Acked
<1>17. ASSUME Recorded(u)' PROVE Completed(req[u].id)'
  BY <1>1, <1>3, <1>5, <1>17 DEF Recorded, Acked, Completed
<1>18. RecordedOnce'
  <2>1. ASSUME NEW v \in Uploads, NEW w \in Uploads, Recorded(v)', Recorded(w)',
               req[v].id = req[w].id
        PROVE  v = w
    <3>1. Holds(v) /\ Holds(w)
      BY <1>1, <1>16, <2>1 DEF Holds
    <3> QED BY <2>1, <3>1, HoldsAlone
  <2> QED BY <1>3, <2>1 DEF RecordedOnce
<1>19. RecordedCompleted'
  <2>1. ASSUME NEW v \in Uploads, Recorded(v)', v # u PROVE Completed(req[v].id)'
    <3>1. Recorded(v) /\ Completed(req[v].id)
      BY <1>16, <2>1 DEF RecordedCompleted
    <3> QED BY <1>3, <1>7, <2>1, <3>1 DEF Holds, Completed
  <2> QED BY <1>3, <1>17, <2>1 DEF RecordedCompleted, Completed
<1> QED
  BY <1>8, <1>9, <1>10, <1>13, <1>14, <1>15, <1>18, <1>19

\* After a failed insert the file goes: nobody else recorded this ID.
LEMMA UnlinkPreserves ==
  ASSUME IInv, NEW u \in Uploads, UnlinkFile(u), TypeOK'
  PROVE  IInv'
<1> USE DEF IInv
<1>0. /\ pc \in [Uploads -> UploadSteps] /\ reply \in [Uploads -> Replies]
      /\ file \in [MediaIDs -> Contents \cup {None}]
      /\ pc[u] = "unlink"
  BY DEF TypeOK, UnlinkFile
<1>1. /\ req[u].kind = "sync" /\ reply[u] = "none" /\ req[u].id \in MediaIDs
  BY <1>0 DEF RequestShape
<1>2. /\ UNCHANGED <<row, req>>
      /\ file' = [file EXCEPT ![req[u].id] = None]
      /\ pc' = [pc EXCEPT ![u] = "done"] /\ reply' = [reply EXCEPT ![u] = "failed"]
  BY DEF UnlinkFile, Answer, db
<1>3. /\ \A v \in Uploads : v # u => pc'[v] = pc[v] /\ reply'[v] = reply[v]
      /\ pc'[u] = "done" /\ reply'[u] = "failed"
      /\ file'[req[u].id] = None
      /\ \A m \in MediaIDs : m # req[u].id => file'[m] = file[m]
  BY <1>0, <1>1, <1>2
<1>4. /\ Generated' = Generated
      /\ \A v \in Uploads : Generates(v)' = Generates(v)
      /\ \A m \in MediaIDs : /\ Exists(m)' = Exists(m) /\ Completed(m)' = Completed(m)
                             /\ Pending(m)' = Pending(m)
  BY <1>2 DEF Generated, Generates, Exists, Completed, Pending
<1>5. ASSUME NEW v \in Uploads, v # u, Holds(v)
      PROVE  req[v].id \in MediaIDs /\ file'[req[v].id] = file[req[v].id]
  <2>1. req[v].id \in MediaIDs
    BY <1>5, RecordedShape DEF Holds, RequestShape
  <2>2. Holds(u)
    BY <1>1 DEF Holds
  <2> QED BY <1>3, <1>5, <2>1, <2>2, HoldsAlone
<1>6. ASSUME NEW v \in Uploads PROVE RequestShape(v)'
  BY <1>1, <1>2, <1>3 DEF RequestShape, StoreSteps
<1>7. ASSUME NEW v \in Uploads PROVE SyncState(v)'
  <2>1. CASE v = u
    BY <1>3, <2>1 DEF SyncState, StoreSteps
  <2>2. CASE v # u
    BY <1>2, <1>3, <1>5, <2>2 DEF SyncState, Exists, Holds
  <2> QED BY <2>1, <2>2
<1>8. ASSUME NEW v \in Uploads PROVE AsyncState(v)' /\ InstalledState(v)'
  <2>1. CASE v = u
    BY <1>3, <2>1 DEF AsyncState, InstalledState, Acked
  <2>2. CASE v # u
    BY <1>2, <1>3, <1>5, <2>2 DEF AsyncState, InstalledState, Acked, Holds, Recorded
  <2> QED BY <2>1, <2>2
<1>9. GeneratedOnce' /\ OnlyGenerated' /\ SyncNeverPending' /\ FileMatchesRow'
  BY <1>1, <1>2, <1>3, <1>4
     DEF GeneratedOnce, OnlyGenerated, SyncNeverPending, FileMatchesRow, Pending, Exists, Completed
<1>10. AsyncOnReserved'
  BY <1>1, <1>2, <1>3, <1>4 DEF AsyncOnReserved, PastLookup
<1>11. \A v \in Uploads : Recorded(v)' => Recorded(v)
  BY <1>1, <1>2, <1>3 DEF Recorded, Acked
<1>12. RecordedOnce' /\ RecordedCompleted'
  BY <1>2, <1>11 DEF RecordedOnce, RecordedCompleted, Completed
<1> QED
  BY <1>6, <1>7, <1>8, <1>9, <1>10, <1>12

\* The completion that wins its row: nobody had recorded or installed this ID.
LEMMA WinPreserves ==
  ASSUME IInv, NEW u \in Uploads, TypeOK',
         pc[u] = "complete", Pending(req[u].id), CompleteRow(u),
         UNCHANGED <<file, req>>,
         Goto(u, "install") \/ Answer(u, "failed")
  PROVE  IInv'
<1> USE DEF IInv
<1>0. /\ pc \in [Uploads -> UploadSteps] /\ reply \in [Uploads -> Replies]
      /\ row \in [MediaIDs -> Rows]
  BY DEF TypeOK
<1>1. /\ req[u].kind = "async" /\ reply[u] = "none"
      /\ req[u].id \in MediaIDs /\ req[u].body \in Contents /\ req[u].body # None
  BY ConstantsAssumption DEF RequestShape
<1>2. /\ \A v \in Uploads : v # u => pc'[v] = pc[v] /\ reply'[v] = reply[v]
      /\ \/ pc'[u] = "install" /\ reply'[u] = "none"
         \/ pc'[u] = "done" /\ reply'[u] = "failed"
  BY <1>0, <1>1 DEF Goto, Answer
<1>3. /\ row'[req[u].id].content = req[u].body
      /\ row'[req[u].id].owner = row[req[u].id].owner
      /\ \A m \in MediaIDs : m # req[u].id => row'[m] = row[m]
  BY <1>0, <1>1 DEF CompleteRow, Rows
<1>4. /\ Generated' = Generated /\ \A v \in Uploads : Generates(v)' = Generates(v)
  BY DEF Generated, Generates
<1>5. /\ Exists(req[u].id) /\ ~Completed(req[u].id) /\ file[req[u].id] = None
  BY <1>1 DEF OnlyGenerated, Pending
<1>6. ASSUME NEW v \in Uploads, Holds(v)
      PROVE  /\ req[v].id \in MediaIDs /\ req[v].id # req[u].id
             /\ row'[req[v].id] = row[req[v].id]
  <2>1. req[v].id \in MediaIDs
    BY <1>6, RecordedShape DEF Holds, RequestShape
  <2>2. req[v].id # req[u].id
    BY <1>5, <1>6 DEF Holds, SyncNeverPending, RecordedCompleted
  <2> QED BY <1>3, <2>1, <2>2
<1>7. ASSUME NEW v \in Uploads PROVE RequestShape(v)'
  BY <1>1, <1>2 DEF RequestShape, StoreSteps
<1>8. ASSUME NEW v \in Uploads PROVE SyncState(v)'
  <2> SUFFICES ASSUME req[v].kind = "sync" PROVE SyncState(v)'
    BY DEF SyncState
  <2>1. v # u /\ row'[req[v].id] = row[req[v].id]
    BY <1>1, <1>6 DEF Holds
  <2> QED BY <1>2, <2>1 DEF SyncState, Exists
<1>9. ASSUME NEW v \in Uploads PROVE AsyncState(v)' /\ InstalledState(v)'
  <2>1. CASE v = u
    BY <1>1, <1>2, <1>3, <1>5, <2>1 DEF AsyncState, InstalledState, Acked
  <2>2. CASE v # u
    BY <1>2, <1>6, <2>2 DEF AsyncState, InstalledState, Acked, Holds, Recorded
  <2> QED BY <2>1, <2>2
<1>10. \A m \in MediaIDs : /\ Exists(m)' = Exists(m)
                           /\ Completed(m)' => Completed(m) \/ m = req[u].id
                           /\ Pending(m)' => Pending(m)
  BY <1>1, <1>3 DEF Pending, Exists, Completed
<1>11. OnlyGenerated' /\ FileMatchesRow'
  BY <1>1, <1>3, <1>4, <1>5, <1>10 DEF OnlyGenerated, FileMatchesRow, Completed
<1>12. GeneratedOnce'
  BY <1>4 DEF GeneratedOnce
<1>13. AsyncOnReserved'
  <2>1. ASSUME NEW v \in Uploads, PastLookup(v)' PROVE PastLookup(v)
    BY <1>1, <1>2, <2>1 DEF PastLookup
  <2> QED BY <1>4, <2>1 DEF AsyncOnReserved
<1>14. SyncNeverPending'
  <2>1. ASSUME NEW v \in Uploads, req[v].kind = "sync" PROVE ~Pending(req[v].id)'
    <3>1. row'[req[v].id] = row[req[v].id]
      BY <1>6, <2>1 DEF Holds
    <3> QED BY <2>1, <3>1 DEF SyncNeverPending, Pending, Exists, Completed
  <2> QED BY <2>1 DEF SyncNeverPending, Pending, Exists, Completed
<1>15. ASSUME NEW v \in Uploads, Recorded(v)', v # u PROVE Recorded(v)
  BY <1>2, <1>15 DEF Recorded, Acked
<1>16. RecordedOnce'
  <2>1. ASSUME NEW v \in Uploads, NEW w \in Uploads, Recorded(v)', Recorded(w)',
               req[v].id = req[w].id, v # u, w # u
        PROVE  v = w
    BY <1>15, <2>1 DEF RecordedOnce
  <2>2. ASSUME NEW v \in Uploads, Recorded(v)', v # u PROVE req[v].id # req[u].id
    BY <1>6, <1>15, <2>2 DEF Holds
  <2> QED BY <2>1, <2>2 DEF RecordedOnce
<1>17. RecordedCompleted'
  <2>1. ASSUME NEW v \in Uploads, Recorded(v)', v # u PROVE Completed(req[v].id)'
    BY <1>6, <1>15, <2>1 DEF Holds, RecordedCompleted, Completed
  <2>2. Completed(req[u].id)'
    BY <1>1, <1>3 DEF Completed
  <2> QED BY <2>1, <2>2 DEF RecordedCompleted, Completed
<1> QED
  BY <1>7, <1>8, <1>9, <1>11, <1>12, <1>13, <1>14, <1>16, <1>17

\* A crash: what was installed or recorded stays so, and requests only vanish.
LEMMA CrashPreserves ==
  ASSUME IInv, Crash, TypeOK'
  PROVE  IInv'
<1> USE DEF IInv
<1>1. /\ UNCHANGED <<row, file, req, reply>>
      /\ \A v \in Uploads : pc'[v] = IF Active(v) THEN "lost" ELSE pc[v]
  BY DEF Crash, db, disk
<1>2. Generated' = Generated /\ \A v \in Uploads : Generates(v)' = Generates(v)
  BY <1>1 DEF Generated, Generates
<1>3. ASSUME NEW v \in Uploads PROVE RequestShape(v)'
  BY <1>1 DEF RequestShape, StoreSteps, Active, ActiveSteps
<1>4. ASSUME NEW v \in Uploads
      PROVE  /\ SyncState(v)' /\ AsyncState(v)' /\ InstalledState(v)'
             /\ PastLookup(v)' => PastLookup(v)
             /\ Recorded(v)' => Recorded(v)
  BY <1>1 DEF SyncState, AsyncState, InstalledState, PastLookup, Recorded, Acked, Exists,
              StoreSteps, Active, ActiveSteps
<1>5. GeneratedOnce' /\ OnlyGenerated' /\ SyncNeverPending' /\ FileMatchesRow'
  BY <1>1, <1>2
     DEF GeneratedOnce, OnlyGenerated, SyncNeverPending, FileMatchesRow, Pending, Exists, Completed
<1>6. AsyncOnReserved' /\ RecordedOnce' /\ RecordedCompleted'
  BY <1>1, <1>2, <1>4 DEF AsyncOnReserved, RecordedOnce, RecordedCompleted, Completed
<1> QED
  BY <1>3, <1>4, <1>5, <1>6

\* A quarantine changes quarantined_by and nothing the invariant reads.
LEMMA FlagPreserves ==
  ASSUME IInv, UNCHANGED <<file, req, pc, reply>>, TypeOK',
         \A m \in MediaIDs : /\ row'[m].owner = row[m].owner
                             /\ row'[m].content = row[m].content
  PROVE  IInv'
<1> USE DEF IInv
<1>1. \A m \in MediaIDs : /\ Exists(m)' = Exists(m) /\ Completed(m)' = Completed(m)
                          /\ Pending(m)' = Pending(m)
  BY DEF Exists, Completed, Pending
<1>2. Generated' = Generated /\ \A v \in Uploads : Generates(v)' = Generates(v)
  BY DEF Generated, Generates
<1>3. ASSUME NEW v \in Uploads PROVE RequestShape(v)'
  BY DEF RequestShape
<1>4. ASSUME NEW v \in Uploads PROVE Recorded(v)' = Recorded(v) /\ PastLookup(v)' = PastLookup(v)
  BY DEF Recorded, PastLookup, Acked
<1>5. ASSUME NEW v \in Uploads, Holds(v) PROVE req[v].id \in MediaIDs
  BY <1>5, RecordedShape DEF Holds, RequestShape
<1>6. ASSUME NEW v \in Uploads PROVE SyncState(v)' /\ AsyncState(v)' /\ InstalledState(v)'
  BY <1>5 DEF SyncState, AsyncState, InstalledState, Exists, Acked, Holds, Recorded
<1>7. SyncNeverPending'
  <2>1. ASSUME NEW v \in Uploads, req[v].kind = "sync" PROVE ~Pending(req[v].id)'
    BY <1>5, <2>1 DEF SyncNeverPending, Pending, Exists, Completed, Holds
  <2> QED BY <2>1 DEF SyncNeverPending, Pending, Exists, Completed
<1>8. GeneratedOnce' /\ OnlyGenerated' /\ FileMatchesRow' /\ AsyncOnReserved'
  BY <1>1, <1>2, <1>4 DEF GeneratedOnce, OnlyGenerated, FileMatchesRow, AsyncOnReserved
<1>9. RecordedOnce' /\ RecordedCompleted'
  BY <1>4, <1>5 DEF RecordedOnce, RecordedCompleted, Completed, Holds
<1> QED
  BY <1>3, <1>6, <1>7, <1>8, <1>9

LEMMA IInvInit == Init => IInv
<1> SUFFICES ASSUME Init PROVE IInv
  OBVIOUS
<1>1. /\ TypeOK
      /\ \A u \in Uploads : req[u].kind = "none" /\ pc[u] = "idle" /\ reply[u] = "none"
      /\ \A m \in MediaIDs : ~Exists(m) /\ ~Completed(m) /\ file[m] = None
  BY TypeInit DEF Init, NoRequest, Request, NoRow, NewRow, Exists, Completed
<1>2. \A u \in Uploads : ~Recorded(u) /\ ~PastLookup(u) /\ ~Acked(u) /\ ~Generates(u)
  BY <1>1 DEF Recorded, PastLookup, Acked, Generates, StoreSteps
<1> QED
  BY <1>1, <1>2 DEF IInv, RequestShape, SyncState, AsyncState, InstalledState, GeneratedOnce,
     OnlyGenerated, AsyncOnReserved, SyncNeverPending, RecordedOnce, RecordedCompleted,
     FileMatchesRow, Pending, StoreSteps

LEMMA IInvStep == ASSUME IInv, ReadsNamed, [Next]_vars PROVE IInv'
<1>0. TypeOK'
  BY TypeStep DEF IInv
<1> DEFINE Still == /\ UNCHANGED <<file, req, pc, reply>>
                    /\ \A m \in MediaIDs : /\ row'[m].owner = row[m].owner
                                           /\ row'[m].content = row[m].content
<1>1. Still => IInv'
  BY <1>0, FlagPreserves
<1>2. ASSUME NEW u \in Uploads, Begin(u) \/ UploadStep(u) \/ CancelWait(u) PROVE IInv'
  <2>1. CASE Begin(u) BY <1>0, <2>1, BeginPreserves
  <2>2. CASE \/ CountPending(u) \/ LookupMedia(u) \/ AcquireSlot(u) \/ CancelWait(u)
             \/ StoreBody(u) \/ StoreFails(u) \/ CheckQuarantine(u) \/ CheckLimits(u)
             \/ RespondUploaded(u)
    BY <1>0, <2>2, QuietSteps, QuietMovePreserves
  <2>3. CASE ReserveID(u) BY <1>0, <2>3, ReserveIDPreserves
  <2>4. CASE Install(u)
    <3>1. CASE Discard(u, "notInstalled")
      BY <1>0, <2>4, <3>1, QuietSteps, QuietMovePreserves DEF Install
    <3>2. CASE ~Discard(u, "notInstalled")
      BY <1>0, <2>4, <3>2, InstallPreserves DEF Install, db
    <3> QED BY <3>1, <3>2
  <2>5. CASE StoreLocalMedia(u) BY <1>0, <2>5, StorePreserves
  <2>6. CASE UnlinkFile(u) BY <1>0, <2>6, UnlinkPreserves
  <2>7. CASE CompleteLocalMedia(u)
    <3>1. CASE Discard(u, "conflict") \/ Discard(u, "failed")
      BY <1>0, <2>7, <3>1, QuietSteps, QuietMovePreserves DEF CompleteLocalMedia
    <3>2. CASE ~(Discard(u, "conflict") \/ Discard(u, "failed"))
      BY <1>0, <2>7, <3>2, WinPreserves DEF CompleteLocalMedia
    <3> QED BY <3>1, <3>2
  <2> QED BY <1>2, <2>1, <2>2, <2>3, <2>4, <2>5, <2>6, <2>7 DEF UploadStep
<1>3. ASSUME NEW r \in Readers, BeginRead(r) \/ ReadStep(r) PROVE IInv'
  BY <1>1, <1>3 DEF BeginRead, ReadStep, ResolveLocalMedia, AwaitUpload, AwaitGivesUp,
                    ServeFile, db, disk, uploads
<1>4. CASE Process
  <2>1. CASE Crash BY <1>0, <2>1, CrashPreserves
  <2>2. CASE Restart \/ SweepStaleTempFiles
    BY <1>1, <2>2 DEF Restart, SweepStaleTempFiles, db, disk, uploads
  <2> QED BY <1>4, <2>1, <2>2 DEF Process
<1>5. CASE Environment
  <2>1. ASSUME NEW ids, Flag(ids)
        PROVE  \A m \in MediaIDs : row'[m].owner = row[m].owner /\ row'[m].content = row[m].content
    BY <2>1 DEF Flag, IInv, TypeOK, Rows
  <2>2. HourPasses => Still
    BY DEF HourPasses, db, uploads
  <2>3. \A m \in MediaIDs : Expire(m) => Still
    BY DEF Expire, disk, uploads
  <2>4. \A m \in MediaIDs : QuarantineLocal(m) => Still
    BY <2>1 DEF QuarantineLocal, disk, uploads
  <2>5. \A c \in Contents : QuarantineRemote(c) => Still
    BY <2>1 DEF QuarantineRemote, disk, uploads
  <2> QED BY <1>1, <1>5, <2>2, <2>3, <2>4, <2>5 DEF Environment
<1>6. CASE UNCHANGED vars
  BY <1>1, <1>6 DEF vars, db, disk, uploads
<1> QED
  BY <1>2, <1>3, <1>4, <1>5, <1>6 DEF Next

\* The inductive invariant holds in every reachable state.
THEOREM Invariant == Spec => []IInv
<1>1. IInv /\ ReadsNamed /\ [Next]_vars => (IInv /\ ReadsNamed)'
  BY IInvStep, ReadsNamedStep DEF IInv
<1>2. Init => IInv /\ ReadsNamed
  BY IInvInit, TypeInit
<1> QED BY <1>1, <1>2, PTL DEF Spec

\* The bytes at a final path are always those its completed row describes.
THEOREM FilesMatchRows == Spec => []FileMatchesRow
<1>1. IInv => FileMatchesRow
  BY DEF IInv
<1> QED BY <1>1, Invariant, PTL

\* A 200 is never taken back and never given twice for one media ID.
THEOREM AckedStaysServable == Spec => []AckedIsServable
<1>1. IInv => AckedIsServable
  BY DEF IInv, AckedIsServable, InstalledState, RecordedOnce, Recorded
<1> QED BY <1>1, Invariant, PTL

------------------------------------------------------------------------------
\* Rows and files together.  A witness of NoOrphanFile or of DanglingRowHasOwner
\* stays one until it does what it is there to do.

LEMMA StoreInvInit == Init => StoreInv
  BY DEF Init, StoreInv, AbsentRowClean, NoOrphanFile, DanglingExplained, DanglingRowHasOwner,
         NoRow, NewRow, Exists, Completed, Quarantined

\* Steps that leave contents, owners and files alone and end no witness.
LEMMA StoresUntouched ==
  ASSUME StoreInv, TypeOK, UNCHANGED file,
         \A m \in MediaIDs : /\ row'[m].owner = row[m].owner
                             /\ row'[m].content = row[m].content
                             /\ Quarantined(m)' => Quarantined(m) \/ Exists(m),
         \A u \in Uploads : req[u].kind \in {"sync", "async"} => req'[u] = req[u],
         \A u \in Uploads : /\ pc[u] \in {"insert", "unlink", "lost"} =>
                                 pc'[u] = pc[u] \/ pc'[u] = "lost"
                            /\ pc[u] = "install" =>
                                 pc'[u] \in {"install", "lost"} \/ reply'[u] = "notInstalled"
                            /\ reply[u] = "notInstalled" => reply'[u] = "notInstalled"
  PROVE  StoreInv'
<1> USE DEF StoreInv
<1>1. AbsentRowClean'
  BY DEF AbsentRowClean, Exists, Quarantined
<1>2. NoOrphanFile'
  <2> SUFFICES ASSUME NEW m \in MediaIDs, file[m] # None, ~Completed(m)
               PROVE  \E u \in Uploads : /\ req'[u].kind = "sync" /\ req'[u].id = m
                                         /\ pc'[u] \in {"insert", "unlink", "lost"}
    BY DEF NoOrphanFile, Completed
  <2>1. PICK u \in Uploads : /\ req[u].kind = "sync" /\ req[u].id = m
                             /\ pc[u] \in {"insert", "unlink", "lost"}
    BY DEF NoOrphanFile
  <2> QED BY <2>1
<1>3. DanglingExplained'
  <2> SUFFICES ASSUME "lostReply" \notin Faults,
                      NEW m \in MediaIDs, Completed(m), file[m] = None
               PROVE  \E u \in Uploads : /\ req'[u].kind = "async" /\ req'[u].id = m
                                         /\ req'[u].body = row[m].content
                                         /\ \/ pc'[u] \in {"install", "lost"}
                                            \/ reply'[u] = "notInstalled"
    BY DEF DanglingExplained, DanglingRowHasOwner, Completed
  <2>1. PICK u \in Uploads : /\ req[u].kind = "async" /\ req[u].id = m
                             /\ req[u].body = row[m].content
                             /\ \/ pc[u] \in {"install", "lost"}
                                \/ reply[u] = "notInstalled"
    BY DEF DanglingExplained, DanglingRowHasOwner
  <2> QED BY <2>1
<1> QED BY <1>1, <1>2, <1>3

LEMMA QuietKeepsStores ==
  ASSUME IInv, StoreInv, NEW u \in Uploads, QuietMove(u)
  PROVE  StoreInv'
<1>1. pc \in [Uploads -> UploadSteps] /\ reply \in [Uploads -> Replies]
  BY DEF IInv, TypeOK
<1>2. reply[u] # "none" => pc[u] = "done"
  BY DEF IInv, RequestShape
<1>3. UNCHANGED <<row, file, req>>
  BY DEF QuietMove
<1>4. \A v \in Uploads : v # u => pc'[v] = pc[v] /\ reply'[v] = reply[v]
  BY <1>1 DEF QuietMove
<1>5. pc[u] \notin {"insert", "unlink", "lost", "done"}
  BY DEF QuietMove, StoreSteps
<1>6. pc[u] = "install" => reply'[u] = "notInstalled"
  BY <1>1 DEF QuietMove, StoreSteps
<1>7. /\ \A v \in Uploads : pc[v] \in {"insert", "unlink", "lost"} => pc'[v] = pc[v]
      /\ \A v \in Uploads : pc[v] = "install" =>
           pc'[v] = "install" \/ reply'[v] = "notInstalled"
      /\ \A v \in Uploads : reply[v] = "notInstalled" => reply'[v] = "notInstalled"
  BY <1>2, <1>4, <1>5, <1>6
<1>8. \A m \in MediaIDs : Quarantined(m)' => Quarantined(m)
  BY <1>3 DEF Quarantined
<1> QED
  BY <1>3, <1>7, <1>8, StoresUntouched DEF IInv
LEMMA BeginKeepsStores ==
  ASSUME IInv, StoreInv, NEW u \in Uploads, Begin(u)
  PROVE  StoreInv'
<1>1. /\ UNCHANGED <<row, file, reply>> /\ pc[u] = "idle"
      /\ \A v \in Uploads : v # u => req'[v] = req[v] /\ pc'[v] = pc[v]
  BY DEF Begin, BeginUpload, BeginCreate, BeginAsync, Arrive, Goto, db, disk, IInv, TypeOK
<1>2. req[u].kind = "none" /\ reply[u] = "none"
  BY <1>1 DEF IInv, RequestShape
<1>3. \A m \in MediaIDs : Quarantined(m)' => Quarantined(m)
  BY <1>1 DEF Quarantined
<1>4. /\ \A v \in Uploads : req[v].kind \in {"sync", "async"} => req'[v] = req[v]
      /\ \A v \in Uploads : pc[v] \in {"insert", "unlink", "lost", "install"} => pc'[v] = pc[v]
  BY <1>1, <1>2
<1> QED
  BY <1>1, <1>3, <1>4, StoresUntouched DEF IInv

\* A reserved ID gets a row without content where there was neither row nor file.
LEMMA ReserveIDKeepsStores ==
  ASSUME IInv, StoreInv, NEW u \in Uploads, ReserveID(u)
  PROVE  StoreInv'
<1>1. /\ pc[u] = "reserve" /\ UNCHANGED file
      /\ \A v \in Uploads : v # u => /\ req'[v] = req[v] /\ pc'[v] = pc[v]
                                     /\ reply'[v] = reply[v]
  BY DEF ReserveID, Answer, disk, IInv, TypeOK
<1>2. req[u].kind = "create" /\ req[u].user \in Users /\ reply[u] = "none"
  BY <1>1 DEF IInv, RequestShape
<1>3. PICK m \in FreshIDs :
        UNCHANGED row \/ row' = [row EXCEPT ![m] = NewRow(req[u].user, None, "null")]
  BY DEF ReserveID
<1>4. m \in MediaIDs /\ ~Completed(m) /\ file[m] = None
  BY DEF FreshIDs, IInv, OnlyGenerated
<1>5. /\ \A v \in Uploads : req[v].kind \in {"sync", "async"} => req'[v] = req[v]
      /\ \A v \in Uploads : pc[v] \in {"insert", "unlink", "lost", "install"} => pc'[v] = pc[v]
      /\ \A v \in Uploads : reply[v] = "notInstalled" => reply'[v] = "notInstalled"
  BY <1>1, <1>2
<1>6. row \in [MediaIDs -> Rows]
  BY DEF IInv, TypeOK
<1>7. \A i \in MediaIDs : row'[i] = row[i] \/ (i = m /\ row'[i].content = row[i].content
                                                /\ row'[i].by = "null" /\ row'[i].owner # None)
  BY <1>2, <1>3, <1>4, <1>6, ConstantsAssumption DEF NewRow, Completed
<1>8. AbsentRowClean'
  BY <1>7 DEF StoreInv, AbsentRowClean, Exists, Quarantined
<1>9. NoOrphanFile'
  <2> SUFFICES ASSUME NEW i \in MediaIDs, file[i] # None, ~Completed(i)
               PROVE  \E v \in Uploads : /\ req'[v].kind = "sync" /\ req'[v].id = i
                                         /\ pc'[v] \in {"insert", "unlink", "lost"}
    BY <1>1, <1>7 DEF NoOrphanFile, Completed
  <2>1. PICK v \in Uploads : /\ req[v].kind = "sync" /\ req[v].id = i
                             /\ pc[v] \in {"insert", "unlink", "lost"}
    BY DEF NoOrphanFile, StoreInv
  <2> QED BY <1>5, <2>1
<1>10. DanglingExplained'
  <2> SUFFICES ASSUME "lostReply" \notin Faults,
                      NEW i \in MediaIDs, Completed(i), file[i] = None
               PROVE  \E v \in Uploads : /\ req'[v].kind = "async" /\ req'[v].id = i
                                         /\ req'[v].body = row'[i].content
                                         /\ \/ pc'[v] \in {"install", "lost"}
                                            \/ reply'[v] = "notInstalled"
    BY <1>1, <1>7 DEF DanglingExplained, DanglingRowHasOwner, Completed
  <2>1. PICK v \in Uploads : /\ req[v].kind = "async" /\ req[v].id = i
                             /\ req[v].body = row[i].content
                             /\ \/ pc[v] \in {"install", "lost"}
                                \/ reply[v] = "notInstalled"
    BY DEF DanglingExplained, DanglingRowHasOwner, StoreInv
  <2> QED BY <1>5, <1>7, <2>1
<1> QED BY <1>8, <1>9, <1>10 DEF StoreInv

\* Steps of an upload that holds its ID touch the row and the file of that ID only,
\* so the witnesses of other IDs are as they were.
LEMMA OthersKeepStores ==
  ASSUME IInv, StoreInv, NEW u \in Uploads, NEW m \in MediaIDs, req[u].id = m,
         UNCHANGED req,
         \A v \in Uploads : v # u => pc'[v] = pc[v] /\ reply'[v] = reply[v],
         \A i \in MediaIDs : i # m => row'[i] = row[i] /\ file'[i] = file[i],
         ~Exists(m)' => ~Quarantined(m)',
         file'[m] # None /\ ~Completed(m)' => 
           req[u].kind = "sync" /\ pc'[u] \in {"insert", "unlink", "lost"},
         "lostReply" \notin Faults /\ Completed(m)' /\ file'[m] = None =>
           /\ req[u].kind = "async" /\ req[u].body = row'[m].content
           /\ pc'[u] \in {"install", "lost"} \/ reply'[u] = "notInstalled"
  PROVE  StoreInv'
<1> USE DEF StoreInv
<1>1. AbsentRowClean'
  BY DEF AbsentRowClean, Exists, Quarantined
<1>2. NoOrphanFile'
  <2> SUFFICES ASSUME NEW i \in MediaIDs, i # m, file[i] # None, ~Completed(i)
               PROVE  \E v \in Uploads : /\ req[v].kind = "sync" /\ req[v].id = i
                                         /\ pc'[v] \in {"insert", "unlink", "lost"}
    BY DEF NoOrphanFile, Completed
  <2>1. PICK v \in Uploads : /\ req[v].kind = "sync" /\ req[v].id = i
                             /\ pc[v] \in {"insert", "unlink", "lost"}
    BY DEF NoOrphanFile
  <2> QED BY <2>1
<1>3. DanglingExplained'
  <2> SUFFICES ASSUME "lostReply" \notin Faults,
                      NEW i \in MediaIDs, i # m, Completed(i), file[i] = None
               PROVE  \E v \in Uploads : /\ req[v].kind = "async" /\ req[v].id = i
                                         /\ req[v].body = row[i].content
                                         /\ \/ pc'[v] \in {"install", "lost"}
                                            \/ reply'[v] = "notInstalled"
    BY DEF DanglingExplained, DanglingRowHasOwner, Completed
  <2>1. PICK v \in Uploads : /\ req[v].kind = "async" /\ req[v].id = i
                             /\ req[v].body = row[i].content
                             /\ \/ pc[v] \in {"install", "lost"}
                                \/ reply[v] = "notInstalled"
    BY DEF DanglingExplained, DanglingRowHasOwner
  <2> QED BY <2>1
<1> QED BY <1>1, <1>2, <1>3

LEMMA InstallKeepsStores ==
  ASSUME IInv, StoreInv, NEW u \in Uploads, pc[u] = "install", Rename(u),
         Goto(u, IF req[u].kind = "sync" THEN "insert" ELSE "answer"),
         UNCHANGED <<row, req>>
  PROVE  StoreInv'
<1>1. req[u].id \in MediaIDs /\ req[u].body \in Contents /\ req[u].body # None
      /\ req[u].kind \in {"sync", "async"}
  BY ConstantsAssumption DEF IInv, RequestShape
<1>2. /\ \A v \in Uploads : v # u => pc'[v] = pc[v] /\ reply'[v] = reply[v]
      /\ pc'[u] = IF req[u].kind = "sync" THEN "insert" ELSE "answer"
  BY DEF Goto, IInv, TypeOK
<1>3. /\ file'[req[u].id] = req[u].body
      /\ \A i \in MediaIDs : i # req[u].id => row'[i] = row[i] /\ file'[i] = file[i]
  BY <1>1 DEF Rename, IInv, TypeOK
<1>4. req[u].kind = "async" => Completed(req[u].id)
  BY <1>1 DEF IInv, AsyncState, Completed
<1>5. /\ file'[req[u].id] # None
      /\ ~Completed(req[u].id)' => req[u].kind = "sync" /\ pc'[u] = "insert"
  BY <1>1, <1>2, <1>3, <1>4 DEF Completed
<1>6. ~Exists(req[u].id)' => ~Quarantined(req[u].id)'
  BY <1>1 DEF StoreInv, AbsentRowClean, Exists, Quarantined
<1> QED
  BY <1>1, <1>2, <1>3, <1>5, <1>6, OthersKeepStores

LEMMA InsertKeepsStores ==
  ASSUME IInv, StoreInv, NEW u \in Uploads, StoreLocalMedia(u)
  PROVE  StoreInv'
<1>1. /\ pc[u] = "insert" /\ UNCHANGED <<file, req, reply>>
      /\ UNCHANGED row \/ InsertRow(u)
      /\ \/ pc' = [pc EXCEPT ![u] = "answer"] /\ InsertRow(u)
         \/ pc' = [pc EXCEPT ![u] = "unlink"]
  BY DEF StoreLocalMedia, Goto, disk
<1>2. /\ req[u].id \in MediaIDs /\ req[u].body \in Contents /\ req[u].body # None
      /\ req[u].user \in Users /\ req[u].user # None /\ req[u].kind = "sync"
  BY <1>1, ConstantsAssumption DEF IInv, RequestShape
<1>3. /\ file[req[u].id] = req[u].body /\ ~Exists(req[u].id)
  BY <1>1, <1>2 DEF IInv, SyncState
<1>4. /\ \A v \in Uploads : v # u => pc'[v] = pc[v] /\ reply'[v] = reply[v]
      /\ pc'[u] = "unlink" \/ (pc'[u] = "answer" /\ InsertRow(u))
  BY <1>1 DEF IInv, TypeOK
<1>5. /\ \A i \in MediaIDs : i # req[u].id => row'[i] = row[i]
      /\ InsertRow(u) => /\ row'[req[u].id].content = req[u].body
                         /\ row'[req[u].id].owner = req[u].user
  BY <1>1, <1>2 DEF InsertRow, NewRow, IInv, TypeOK
<1>6. /\ file'[req[u].id] # None
      /\ ~Completed(req[u].id)' => pc'[u] = "unlink"
      /\ \A i \in MediaIDs : file'[i] = file[i]
  BY <1>1, <1>2, <1>3, <1>4, <1>5 DEF Completed
<1>7. ~Exists(req[u].id)' => ~Quarantined(req[u].id)'
  BY <1>1, <1>2, <1>5 DEF StoreInv, AbsentRowClean, Exists, Quarantined
<1> QED
  BY <1>1, <1>2, <1>4, <1>5, <1>6, <1>7, OthersKeepStores

\* The file goes with no row there, unless the insert was applied after all.
LEMMA UnlinkKeepsStores ==
  ASSUME IInv, StoreInv, NEW u \in Uploads, UnlinkFile(u)
  PROVE  StoreInv'
<1>1. /\ pc[u] = "unlink" /\ UNCHANGED <<row, req>>
      /\ file' = [file EXCEPT ![req[u].id] = None]
      /\ \A v \in Uploads : v # u => pc'[v] = pc[v] /\ reply'[v] = reply[v]
  BY DEF UnlinkFile, Answer, db, IInv, TypeOK
<1>2. req[u].id \in MediaIDs /\ req[u].kind = "sync"
  BY <1>1 DEF IInv, RequestShape
<1>3. /\ file'[req[u].id] = None
      /\ \A i \in MediaIDs : i # req[u].id => file'[i] = file[i]
  BY <1>1, <1>2 DEF IInv, TypeOK
<1>4. "lostReply" \notin Faults => ~Completed(req[u].id)
  BY <1>1, <1>2 DEF IInv, SyncState, OnlyGenerated
<1>5. /\ "lostReply" \notin Faults => ~Completed(req[u].id)'
      /\ ~Exists(req[u].id)' => ~Quarantined(req[u].id)'
  BY <1>1, <1>2, <1>4 DEF StoreInv, AbsentRowClean, Exists, Quarantined, Completed
<1> QED
  BY <1>1, <1>2, <1>3, <1>5, OthersKeepStores

LEMMA WinKeepsStores ==
  ASSUME IInv, StoreInv, NEW u \in Uploads, pc[u] = "complete", Pending(req[u].id),
         CompleteRow(u), UNCHANGED <<file, req>>,
         Goto(u, "install") \/ ("lostReply" \in Faults /\ Answer(u, "failed"))
  PROVE  StoreInv'
<1>1. /\ req[u].id \in MediaIDs /\ req[u].body \in Contents /\ req[u].body # None
      /\ req[u].kind = "async"
  BY ConstantsAssumption DEF IInv, RequestShape
<1>2. /\ \A v \in Uploads : v # u => pc'[v] = pc[v] /\ reply'[v] = reply[v]
      /\ pc'[u] = "install" \/ "lostReply" \in Faults
  BY DEF Goto, Answer, IInv, TypeOK
<1>3. /\ \A i \in MediaIDs : i # req[u].id => row'[i] = row[i]
      /\ row'[req[u].id].content = req[u].body
      /\ row'[req[u].id].owner = row[req[u].id].owner
  BY <1>1 DEF CompleteRow, IInv, TypeOK, Rows
<1>4. Exists(req[u].id)' /\ Completed(req[u].id)'
  BY <1>1, <1>3 DEF Pending, Exists, Completed
<1> QED
  BY <1>1, <1>2, <1>3, <1>4, OthersKeepStores

LEMMA StoreInvStep == ASSUME IInv, StoreInv, [Next]_vars PROVE StoreInv'
<1>1. ASSUME NEW u \in Uploads, Begin(u) \/ UploadStep(u) \/ CancelWait(u) PROVE StoreInv'
  <2>1. CASE Begin(u) BY <2>1, BeginKeepsStores
  <2>2. CASE \/ CountPending(u) \/ LookupMedia(u) \/ AcquireSlot(u) \/ CancelWait(u)
             \/ StoreBody(u) \/ StoreFails(u) \/ CheckQuarantine(u) \/ CheckLimits(u)
             \/ RespondUploaded(u)
    BY <2>2, QuietSteps, QuietKeepsStores
  <2>3. CASE ReserveID(u) BY <2>3, ReserveIDKeepsStores
  <2>4. CASE Install(u)
    <3>1. CASE Discard(u, "notInstalled")
      BY <2>4, <3>1, QuietSteps, QuietKeepsStores DEF Install
    <3>2. CASE ~Discard(u, "notInstalled")
      BY <2>4, <3>2, InstallKeepsStores DEF Install, db
    <3> QED BY <3>1, <3>2
  <2>5. CASE StoreLocalMedia(u) BY <2>5, InsertKeepsStores
  <2>6. CASE UnlinkFile(u) BY <2>6, UnlinkKeepsStores
  <2>7. CASE CompleteLocalMedia(u)
    <3>1. CASE Discard(u, "conflict") \/ Discard(u, "failed")
      BY <2>7, <3>1, QuietSteps, QuietKeepsStores DEF CompleteLocalMedia
    <3>2. CASE ~(Discard(u, "conflict") \/ Discard(u, "failed"))
      BY <2>7, <3>2, WinKeepsStores DEF CompleteLocalMedia
    <3> QED BY <3>1, <3>2
  <2> QED BY <1>1, <2>1, <2>2, <2>3, <2>4, <2>5, <2>6, <2>7 DEF UploadStep
<1> DEFINE Aside == /\ UNCHANGED <<file, req, reply>>
                    /\ \A u \in Uploads : pc'[u] = pc[u] \/ pc'[u] = "lost"
<1>2. ASSUME Aside, UNCHANGED row PROVE StoreInv'
  <2>1. \A m \in MediaIDs : Quarantined(m)' => Quarantined(m)
    BY <1>2 DEF Quarantined
  <2>2. /\ \A u \in Uploads : pc[u] \in {"insert", "unlink", "lost"} =>
                                pc'[u] = pc[u] \/ pc'[u] = "lost"
        /\ \A u \in Uploads : pc[u] = "install" =>
                                pc'[u] \in {"install", "lost"} \/ reply'[u] = "notInstalled"
    BY <1>2
  <2> HIDE DEF Aside
  <2> QED BY <1>2, <2>1, <2>2, StoresUntouched DEF IInv, Aside
<1>3. ASSUME Aside, NEW ids, Flag(ids), \A m \in MediaIDs : m \in ids => Exists(m)
      PROVE  StoreInv'
  <2>1. \A m \in MediaIDs : /\ row'[m].owner = row[m].owner
                            /\ row'[m].content = row[m].content
                            /\ Quarantined(m)' => Quarantined(m) \/ Exists(m)
    BY <1>3 DEF Flag, IInv, TypeOK, Rows, Quarantined
  <2>2. /\ \A u \in Uploads : pc[u] \in {"insert", "unlink", "lost"} =>
                                pc'[u] = pc[u] \/ pc'[u] = "lost"
        /\ \A u \in Uploads : pc[u] = "install" =>
                                pc'[u] \in {"install", "lost"} \/ reply'[u] = "notInstalled"
    BY <1>3
  <2> HIDE DEF Aside
  <2> QED BY <1>3, <2>1, <2>2, StoresUntouched DEF IInv, Aside
<1>4. ASSUME NEW r \in Readers, BeginRead(r) \/ ReadStep(r) PROVE StoreInv'
  BY <1>2, <1>4 DEF BeginRead, ReadStep, ResolveLocalMedia, AwaitUpload, AwaitGivesUp,
                    ServeFile, db, disk, uploads
<1>5. CASE Process
  <2>1. CASE Crash
    <3>1. Aside /\ UNCHANGED row BY <2>1 DEF Crash, db, disk
    <3> QED BY <1>2, <3>1
  <2>2. CASE Restart \/ SweepStaleTempFiles
    BY <1>2, <2>2 DEF Restart, SweepStaleTempFiles, db, disk, uploads
  <2> QED BY <1>5, <2>1, <2>2 DEF Process
<1>6. CASE Environment
  <2>1. HourPasses => StoreInv'
    BY <1>2 DEF HourPasses, db, uploads
  <2>2. \A m \in MediaIDs : Expire(m) => StoreInv'
    BY <1>2 DEF Expire, disk, uploads
  <2>3. ASSUME NEW m \in MediaIDs, QuarantineLocal(m) PROVE StoreInv'
    <3> DEFINE ids == {m} \cup {i \in MediaIDs : Completed(m) /\ row[i].content = row[m].content}
    <3>1. \A i \in MediaIDs : i \in ids => Exists(i)
      BY <2>3 DEF QuarantineLocal, Completed, IInv, OnlyGenerated
    <3>2. Aside /\ Flag(ids)
      BY <2>3 DEF QuarantineLocal, disk, uploads
    <3> QED BY <1>3, <3>1, <3>2
  <2>4. ASSUME NEW c \in Contents, QuarantineRemote(c) PROVE StoreInv'
    <3> DEFINE ids == {m \in MediaIDs : row[m].content = c}
    <3>1. \A i \in MediaIDs : i \in ids => Exists(i)
      BY ConstantsAssumption DEF Completed, IInv, OnlyGenerated
    <3>2. Aside /\ Flag(ids)
      BY <2>4 DEF QuarantineRemote, disk, uploads
    <3> QED BY <1>3, <3>1, <3>2
  <2> QED BY <1>6, <2>1, <2>2, <2>3, <2>4 DEF Environment
<1>7. CASE UNCHANGED vars
  BY <1>2, <1>7 DEF vars, db, disk, uploads
<1> QED
  BY <1>1, <1>4, <1>5, <1>6, <1>7 DEF Next

LEMMA StoreInvariant == Spec => []StoreInv
<1>1. StoreInv /\ IInv /\ [Next]_vars => StoreInv'
  BY StoreInvStep
<1> QED BY <1>1, Invariant, StoreInvInit, PTL DEF Spec

\* No failure but a crash leaves a file that no row describes.
THEOREM OrphansExplained == Spec => []NoOrphanFile
<1>1. StoreInv => NoOrphanFile
  BY DEF StoreInv
<1> QED BY <1>1, StoreInvariant, PTL

\* While no reply of the database is lost, a completed row is without its file only
\* for the upload that completed it: a loser never removes what a winner installed.
THEOREM DanglingRowsOwned ==
  ASSUME "lostReply" \notin Faults PROVE Spec => []DanglingRowHasOwner
<1>1. StoreInv => DanglingRowHasOwner
  BY DEF StoreInv, DanglingExplained
<1> QED BY <1>1, StoreInvariant, PTL

------------------------------------------------------------------------------
\* What no step takes back: the content of a completed row, and a quarantine.

\* What one step may do to the rows.
RowStep ==
  \/ UNCHANGED row
  \/ \E u \in Uploads :
       \/ pc[u] = "reserve" /\ \E m \in FreshIDs :
            row' = [row EXCEPT ![m] = NewRow(req[u].user, None, "null")]
       \/ pc[u] = "insert" /\ InsertRow(u)
       \/ pc[u] = "complete" /\ Pending(req[u].id) /\ CompleteRow(u)
  \/ \E ids : Flag(ids)

LEMMA NextRowStep == ASSUME [Next]_vars PROVE RowStep
<1> USE DEF RowStep
<1>1. ASSUME NEW u \in Uploads, Begin(u) PROVE UNCHANGED row
  BY <1>1 DEF Begin, BeginUpload, BeginCreate, BeginAsync, Arrive, db
<1>2. ASSUME NEW u \in Uploads, CancelWait(u) PROVE UNCHANGED row
  BY <1>2 DEF CancelWait, db
<1>3. ASSUME NEW u \in Uploads, UploadStep(u) PROVE RowStep
  <2>1. CASE ReserveID(u) BY <2>1 DEF ReserveID
  <2>2. CASE StoreLocalMedia(u) BY <2>2 DEF StoreLocalMedia
  <2>3. CASE CompleteLocalMedia(u) BY <2>3 DEF CompleteLocalMedia, Discard, db
  <2>4. CASE \/ CountPending(u) \/ LookupMedia(u) \/ AcquireSlot(u) \/ StoreBody(u)
             \/ StoreFails(u) \/ CheckQuarantine(u) \/ CheckLimits(u) \/ Install(u)
             \/ UnlinkFile(u) \/ RespondUploaded(u)
    BY <2>4 DEF CountPending, LookupMedia, AcquireSlot, StoreBody, StoreFails, CheckQuarantine,
                CheckLimits, Install, UnlinkFile, RespondUploaded, Discard, db
  <2> QED BY <1>3, <2>1, <2>2, <2>3, <2>4 DEF UploadStep
<1>4. ASSUME NEW r \in Readers, BeginRead(r) \/ ReadStep(r) PROVE UNCHANGED row
  BY <1>4 DEF BeginRead, ReadStep, ResolveLocalMedia, AwaitUpload, AwaitGivesUp, ServeFile, db
<1>5. Process => UNCHANGED row
  BY DEF Process, Crash, Restart, SweepStaleTempFiles, db
<1>6. Environment => RowStep
  <2>1. ASSUME NEW m \in MediaIDs, QuarantineLocal(m) PROVE RowStep
    BY <2>1 DEF QuarantineLocal
  <2>2. ASSUME NEW c \in Contents, QuarantineRemote(c) PROVE RowStep
    BY <2>2 DEF QuarantineRemote
  <2>3. HourPasses \/ (\E m \in MediaIDs : Expire(m)) => UNCHANGED row
    BY DEF HourPasses, Expire, db
  <2> QED BY <2>1, <2>2, <2>3 DEF Environment
<1>7. UNCHANGED vars => UNCHANGED row
  BY DEF vars, db
<1> QED BY <1>1, <1>2, <1>3, <1>4, <1>5, <1>6, <1>7 DEF Next

\* A row that is quarantined stays quarantined, and a completed one keeps its content.
LEMMA RowsOnlyGrow ==
  ASSUME IInv, AbsentRowClean, [Next]_vars, NEW m \in MediaIDs
  PROVE  /\ Quarantined(m) => Quarantined(m)'
         /\ Completed(m) => row'[m].content = row[m].content
<1> USE DEF Quarantined, Completed
<1>0. row \in [MediaIDs -> Rows] /\ \A u \in Uploads : RequestShape(u) /\ SyncState(u)
  BY DEF IInv, TypeOK
<1>1. CASE UNCHANGED row
  BY <1>1
<1>2. ASSUME NEW u \in Uploads, NEW i \in FreshIDs,
             row' = [row EXCEPT ![i] = NewRow(req[u].user, None, "null")]
      PROVE  row'[m] = row[m] \/ (~Exists(m) /\ ~Completed(m))
  BY <1>0, <1>2 DEF FreshIDs, IInv, OnlyGenerated
<1>3. ASSUME NEW u \in Uploads, pc[u] = "insert", InsertRow(u)
      PROVE  row'[m] = row[m] \/ (~Exists(m) /\ ~Completed(m))
  BY <1>0, <1>3 DEF InsertRow, RequestShape, SyncState, IInv, OnlyGenerated
<1>4. ASSUME NEW u \in Uploads, Pending(req[u].id), CompleteRow(u)
      PROVE  row'[m] = row[m] \/ (~Completed(m) /\ (Quarantined(m) => Quarantined(m)'))
  BY <1>0, <1>4 DEF CompleteRow, Pending, Rows
<1>5. ASSUME NEW ids, Flag(ids)
      PROVE  row'[m].content = row[m].content /\ (Quarantined(m) => Quarantined(m)')
  BY <1>0, <1>5 DEF Flag, Rows
<1> QED
  BY <1>1, <1>2, <1>3, <1>4, <1>5, NextRowStep DEF RowStep, AbsentRowClean

\* A quarantine is for good: no step of the worker clears it.
THEOREM QuarantineIsForGood == Spec => QuarantineSticks
<1>1. IInv /\ StoreInv /\ [Next]_vars =>
        [\A m \in MediaIDs : Quarantined(m) => Quarantined(m)']_vars
  BY RowsOnlyGrow DEF StoreInv
<1> QED
  BY <1>1, Invariant, StoreInvariant, PTL DEF Spec, QuarantineSticks

------------------------------------------------------------------------------
\* Downloads: a step of the stores cannot take away what a download relies on.

LEMMA ReadInvInit == Init => ReadInv
  BY DEF Init, ReadInv, ReadState, NewRead

LEMMA ReadInvStep ==
  ASSUME IInv, ReadsNamed, StoreInv, ReadInv, [Next]_vars
  PROVE  ReadInv'
<1>0. /\ rd \in [Readers -> Reads] /\ row \in [MediaIDs -> Rows]
      /\ \A m \in MediaIDs : Completed(m) => Completed(m)'
  BY RowsOnlyGrow DEF IInv, TypeOK, StoreInv, Completed
<1>1. ASSUME NEW r \in Readers, UNCHANGED rd, r \in warned' => r \in warned
      PROVE  ReadState(r)'
  BY <1>0, <1>1, RowsOnlyGrow DEF ReadInv, ReadState, ReadsNamed, StoreInv
<1>2. ASSUME NEW r \in Readers, BeginRead(r) PROVE ReadInv'
  <2>1. /\ UNCHANGED row
        /\ \A q \in Readers : q # r => rd'[q] = rd[q] /\ (q \in warned' => q \in warned)
    BY <1>2 DEF BeginRead, db, IInv, TypeOK
  <2>2. /\ rd'[r].reply = "none" /\ rd'[r].pc = "resolve"
        /\ r \notin warned => (r \in warned' => Quarantined(rd'[r].id))
    BY <1>0, <1>2 DEF BeginRead, NewRead
  <2>3. r \notin warned
    BY <1>2 DEF BeginRead, ReadInv, ReadState
  <2> QED BY <2>1, <2>2, <2>3 DEF ReadInv, ReadState, Completed, Quarantined
<1>3. ASSUME NEW r \in Readers, ReadStep(r) PROVE ReadInv'
  <2>0. /\ UNCHANGED <<row, warned>> /\ rd[r].id \in MediaIDs
        /\ \A q \in Readers : q # r => rd'[q] = rd[q]
    BY <1>3 DEF ReadStep, ResolveLocalMedia, AwaitUpload, AwaitGivesUp, ServeFile, Finish,
                OpenWith, db, ReadsNamed, IInv, TypeOK
  <2>1. SUFFICES ReadState(r)'
    BY <2>0 DEF ReadInv, ReadState, Completed, Quarantined
  <2> USE DEF ReadInv, ReadState
  <2>2. ASSUME NEW code \in ReadReplies \ {"served"}, Finish(r, code) PROVE ReadState(r)'
    BY <1>0, <2>0, <2>2 DEF Finish, Reads
  <2>3. ASSUME OpenWith(r, rd[r].id), Completed(rd[r].id), r \notin warned, rd[r].pc # "done"
        PROVE  ReadState(r)'
    BY <1>0, <2>0, <2>3 DEF OpenWith, Reads, Completed
  <2>4. CASE ResolveLocalMedia(r)
    <3>1. ASSUME rd' = [rd EXCEPT ![r].pc = "await"], ~Quarantined(rd[r].id), rd[r].pc = "resolve"
          PROVE  ReadState(r)'
      BY <1>0, <2>0, <3>1 DEF Reads
    <3> QED
      BY <2>2, <2>3, <2>4, <3>1 DEF ResolveLocalMedia, ReadReplies
  <2>5. CASE AwaitUpload(r)
    BY <2>3, <2>5 DEF AwaitUpload
  <2>6. CASE AwaitGivesUp(r)
    BY <2>2, <2>6 DEF AwaitGivesUp, ReadReplies
  <2>7. CASE ServeFile(r)
    <3>1. file[rd[r].id] # None => file[rd[r].id] = rd[r].snap
      BY <2>0, <2>7 DEF ServeFile, IInv, FileMatchesRow
    <3>2. CASE Finish(r, "notFound")
      BY <2>2, <3>2 DEF ReadReplies
    <3>3. CASE file[rd[r].id] # None /\ rd' = [rd EXCEPT ![r].pc = "done",
                  ![r].reply = "served", ![r].bytes = file[rd[r].id]]
      BY <1>0, <2>0, <2>7, <3>1, <3>3 DEF ServeFile, Reads
    <3> QED BY <2>7, <3>2, <3>3 DEF ServeFile
  <2> QED BY <1>3, <2>4, <2>5, <2>6, <2>7 DEF ReadStep
<1>4. CASE Crash
  <2>1. /\ UNCHANGED <<row, warned>>
        /\ \A r \in Readers : /\ rd'[r].reply = rd[r].reply /\ rd'[r].id = rd[r].id
                              /\ rd'[r].snap = rd[r].snap /\ rd'[r].bytes = rd[r].bytes
                              /\ \/ rd'[r].pc = rd[r].pc
                                 \/ rd'[r].pc = "lost" /\ rd[r].pc # "done"
    BY <1>0, <1>4 DEF Crash, db, Reads
  <2> QED BY <2>1 DEF ReadInv, ReadState, Completed, Quarantined
<1>5. CASE UNCHANGED <<rd, warned>>
  BY <1>1, <1>5 DEF ReadInv
<1> QED
  BY <1>2, <1>3, <1>4, <1>5, NextFrame

LEMMA ReadInvariant == Spec => []ReadInv
<1>1. ReadsNamed /\ [Next]_vars /\ IInv => ReadsNamed'
  BY ReadsNamedStep DEF IInv
<1>2. ReadInv /\ ReadsNamed /\ IInv /\ StoreInv /\ [Next]_vars => ReadInv'
  BY ReadInvStep
<1> QED
  BY <1>1, <1>2, TypeInit, ReadInvInit, Invariant, StoreInvariant, PTL DEF Spec

\* A quarantine closes a row to every download that comes after it.
THEOREM QuarantineCloses == Spec => []QuarantinedIsRefused
<1>1. ReadInv => QuarantinedIsRefused
  BY DEF ReadInv, ReadState, QuarantinedIsRefused
<1> QED BY <1>1, ReadInvariant, PTL

\* What is served is what the row that was read described, whatever came between.
THEOREM ServedAsDescribed == Spec => []ServedMatchesRow
<1>1. ReadInv => ServedMatchesRow
  BY DEF ReadInv, ReadState, ServedMatchesRow
<1> QED BY <1>1, ReadInvariant, PTL

------------------------------------------------------------------------------
\* Temporary files.

LEMMA TempInvInit == Init => TempInv
  BY DEF Init, TempInv, TempFollowsRequest, OldIsAbandoned

\* A step of one request, and what it may do with its temporary file.
LEMMA OneRequestKeepsTemp ==
  ASSUME TypeOK, TempInv, NEW u \in Uploads, NEW step \in UploadSteps, phase # "down",
         UNCHANGED phase, pc' = [pc EXCEPT ![u] = step],
         \/ /\ UNCHANGED <<temp, old>>
            /\ \/ /\ pc[u] \notin {"write", "quarantine", "limits", "complete", "install"}
                  /\ pc[u] # "lost"
                  /\ step \notin {"write", "quarantine", "limits", "complete", "install"}
               \/ /\ pc[u] \in {"quarantine", "limits", "complete", "install"}
                  /\ step \in {"quarantine", "limits", "complete", "install"}
         \/ /\ temp' = [temp EXCEPT ![u] = "none"] /\ old' = old \ {u}
            /\ step \in {"insert", "answer", "done"}
         \/ /\ temp' = [temp EXCEPT ![u] = "partial"] /\ UNCHANGED old
            /\ pc[u] = "slot" /\ step = "write"
         \/ /\ temp' = [temp EXCEPT ![u] = "complete"] /\ old' = old \ {u}
            /\ pc[u] = "write" /\ step = "quarantine"
  PROVE  TempInv'
<1> USE DEF TempInv, TypeOK
<1>1. /\ pc'[u] = step
      /\ \A v \in Uploads : v # u => pc'[v] = pc[v] /\ temp'[v] = temp[v]
      /\ old' \subseteq old
  OBVIOUS
<1>2. TempFollowsRequest'
  BY <1>1 DEF TempFollowsRequest
<1>3. OldIsAbandoned'
  <2>1. u \in old => temp[u] # "none" /\ pc[u] # "slot"
    BY DEF OldIsAbandoned, TempFollowsRequest
  <2>2. \A v \in Uploads : v # u => Active(v)' = Active(v)
    BY <1>1 DEF Active
  <2>3. phase = "starting" /\ u \in old' => ~Active(u)'
    BY <1>1, <2>1 DEF OldIsAbandoned, TempFollowsRequest, Active, ActiveSteps
  <2> QED BY <1>1, <2>1, <2>2, <2>3 DEF OldIsAbandoned
<1> QED BY <1>2, <1>3

LEMMA TempInvStep == ASSUME TypeOK, IInv, TempInv, [Next]_vars PROVE TempInv'
<1>1. ASSUME NEW u \in Uploads, Begin(u) PROVE TempInv'
  <2>1. PICK step \in {"slot", "count", "lookup"} :
          /\ phase # "down" /\ pc[u] = "idle"
          /\ UNCHANGED <<temp, old, phase>> /\ pc' = [pc EXCEPT ![u] = step]
    BY <1>1 DEF Begin, BeginUpload, BeginCreate, BeginAsync, Arrive, Goto, disk
  <2> QED BY <2>1, OneRequestKeepsTemp DEF UploadSteps, ActiveSteps
<1>2. ASSUME NEW u \in Uploads, UploadStep(u) \/ CancelWait(u) PROVE TempInv'
  <2> USE DEF Goto, Answer, Discard, RemoveTemp, UploadSteps, ActiveSteps
  <2>0. phase # "down" /\ UNCHANGED phase
    <3>1. Active(u)
      BY <1>2 DEF UploadStep, CountPending, ReserveID, LookupMedia, AcquireSlot, StoreBody,
                  StoreFails, CheckQuarantine, CheckLimits, Install, StoreLocalMedia,
                  UnlinkFile, CompleteLocalMedia, RespondUploaded, CancelWait, Active
    <3>2. UNCHANGED phase
      BY <1>2 DEF UploadStep, CountPending, ReserveID, LookupMedia, AcquireSlot, StoreBody,
                  StoreFails, CheckQuarantine, CheckLimits, Install, StoreLocalMedia,
                  UnlinkFile, CompleteLocalMedia, RespondUploaded, CancelWait
    <3> QED BY <3>1, <3>2 DEF TempInv, OldIsAbandoned
  <2>1. CASE CountPending(u)
    BY <2>0, <2>1, OneRequestKeepsTemp DEF CountPending, disk
  <2>2. CASE ReserveID(u)
    BY <2>0, <2>2, OneRequestKeepsTemp DEF ReserveID, disk
  <2>3. CASE LookupMedia(u)
    BY <2>0, <2>3, OneRequestKeepsTemp DEF LookupMedia, disk
  <2>4. CASE AcquireSlot(u)
    BY <2>0, <2>4, OneRequestKeepsTemp DEF AcquireSlot
  <2>5. CASE StoreBody(u)
    BY <2>0, <2>5, OneRequestKeepsTemp DEF StoreBody
  <2>6. CASE StoreFails(u)
    BY <2>0, <2>6, OneRequestKeepsTemp DEF StoreFails
  <2>7. CASE CheckQuarantine(u)
    BY <2>0, <2>7, OneRequestKeepsTemp DEF CheckQuarantine, disk
  <2>8. CASE CheckLimits(u)
    BY <2>0, <2>8, OneRequestKeepsTemp DEF CheckLimits, disk
  <2>9. CASE Install(u)
    BY <2>0, <2>9, OneRequestKeepsTemp DEF Install, Rename
  <2>10. CASE StoreLocalMedia(u)
    BY <2>0, <2>10, OneRequestKeepsTemp DEF StoreLocalMedia, disk
  <2>11. CASE UnlinkFile(u)
    BY <2>0, <2>11, OneRequestKeepsTemp DEF UnlinkFile
  <2>12. CASE CompleteLocalMedia(u)
    BY <2>0, <2>12, OneRequestKeepsTemp DEF CompleteLocalMedia
  <2>13. CASE RespondUploaded(u)
    BY <2>0, <2>13, OneRequestKeepsTemp DEF RespondUploaded, disk
  <2>14. CASE CancelWait(u)
    BY <2>0, <2>14, OneRequestKeepsTemp DEF CancelWait, disk
  <2> QED
    BY <1>2, <2>1, <2>2, <2>3, <2>4, <2>5, <2>6, <2>7, <2>8, <2>9, <2>10, <2>11, <2>12,
       <2>13, <2>14 DEF UploadStep
<1>3. CASE UNCHANGED <<temp, old, pc, phase>>
  BY <1>3 DEF TempInv, TempFollowsRequest, OldIsAbandoned, Active
<1>4. ASSUME NEW r \in Readers, BeginRead(r) \/ ReadStep(r) PROVE TempInv'
  BY <1>3, <1>4 DEF BeginRead, ReadStep, ResolveLocalMedia, AwaitUpload, AwaitGivesUp,
                    ServeFile, disk, uploads
<1>5. CASE Crash
  <2>1. /\ UNCHANGED <<temp, old>> /\ phase' = "down"
        /\ \A u \in Uploads : pc'[u] = IF Active(u) THEN "lost" ELSE pc[u]
    BY <1>5 DEF Crash, disk
  <2> QED BY <2>1 DEF TempInv, TempFollowsRequest, OldIsAbandoned, Active, ActiveSteps
<1>6. CASE Restart
  BY <1>6 DEF Restart, disk, uploads, TempInv, TempFollowsRequest, OldIsAbandoned, Active,
              TypeOK
<1>7. CASE SweepStaleTempFiles
  <2>1. /\ UNCHANGED pc /\ phase' = "serving" /\ old' = {}
        /\ \A u \in Uploads : /\ temp'[u] = temp[u] \/ temp'[u] = "none"
                              /\ Active(u) => temp'[u] = temp[u]
    BY <1>7 DEF SweepStaleTempFiles, uploads, TempInv, OldIsAbandoned
  <2> QED BY <2>1 DEF TempInv, TempFollowsRequest, OldIsAbandoned, Active, ActiveSteps
<1>8. CASE HourPasses
  BY <1>8 DEF HourPasses, uploads, TempInv, TempFollowsRequest, OldIsAbandoned, Active
<1>9. CASE Environment /\ ~HourPasses
  BY <1>3, <1>9 DEF Environment, Expire, QuarantineLocal, QuarantineRemote, disk, uploads
<1>10. CASE UNCHANGED vars
  BY <1>3, <1>10 DEF vars, disk, uploads
<1> QED
  BY <1>1, <1>2, <1>4, <1>5, <1>6, <1>7, <1>8, <1>9, <1>10 DEF Next, Process

\* Every failure path but a crash removes its temporary file, and the sweep never
\* takes the file of a request in progress.
THEOREM TempFilesFollow == Spec => []TempFollowsRequest
<1>1. TempInv /\ IInv /\ [Next]_vars => TempInv'
  BY TempInvStep DEF IInv
<1>2. TempInv => TempFollowsRequest
  BY DEF TempInv
<1> QED BY <1>1, <1>2, TempInvInit, Invariant, PTL DEF Spec

------------------------------------------------------------------------------
\* The refinement.  A media ID's register is written by the step that makes its row
\* and its file meet, the rename of an asynchronous upload or the insert of a
\* synchronous one; the answer 200 acknowledges it, and every other step stutters.

AbstractNext == [Register!Next]_<<Servable, AckedMedia>>

SameServable == \A m \in MediaIDs : Servable'[m] = Servable[m]
SameAnswers  == \A u \in Uploads : /\ Acked(u)' <=> Acked(u)
                                   /\ Acked(u) => req'[u] = req[u]

\* A step that leaves what both stores say of each ID, and every acknowledgement.
LEMMA StutterStep ==
  ASSUME IInv, IInv',
         SameServable, SameAnswers
  PROVE  AbstractNext
<1>1. Servable' = Servable
  BY DEF Servable, SameServable
<1>2. AckedMedia' = AckedMedia
  BY DEF AckedMedia, SameAnswers
<1> QED BY <1>1, <1>2 DEF AbstractNext

LEMMA PublishStep ==
  ASSUME IInv, IInv', NEW m \in MediaIDs, NEW c \in Contents,
         Servable[m] = None, Servable'[m] = c,
         \A i \in MediaIDs : i # m => Servable'[i] = Servable[i],
         UNCHANGED req, \A u \in Uploads : Acked(u)' <=> Acked(u)
  PROVE  AbstractNext
<1>1. AckedMedia' = AckedMedia
  BY DEF AckedMedia
<1>2. Servable' = [Servable EXCEPT ![m] = c]
  BY DEF Servable
<1>3. Register!Publish(m, c)
  BY <1>1, <1>2 DEF Register!Publish
<1> QED BY <1>3 DEF AbstractNext, Register!Next

\* The acknowledgement of an upload whose bytes are in place.
LEMMA RespondAcknowledges ==
  ASSUME IInv, NEW u \in Uploads, RespondUploaded(u)
  PROVE  AbstractNext
<1>1. /\ UNCHANGED <<row, file, req>> /\ pc[u] = "answer"
      /\ reply' = [reply EXCEPT ![u] = "ok"] /\ reply \in [Uploads -> Replies]
  BY DEF RespondUploaded, Answer, db, disk, IInv, TypeOK
<1>2. /\ req[u].kind \in {"sync", "async"} /\ req[u].id \in MediaIDs
      /\ req[u].body \in Contents /\ req[u].body # None
  BY <1>1, ConstantsAssumption DEF IInv, RequestShape
<1>3. Servable[req[u].id] = req[u].body
  BY <1>1, <1>2 DEF IInv, InstalledState, Servable
<1>4. UNCHANGED Servable
  BY <1>1 DEF Servable
<1>5. \A v \in Uploads : Acked(v)' <=> Acked(v) \/ v = u
  BY <1>1, <1>2 DEF Acked
<1>6. AckedMedia' = AckedMedia \cup {<<req[u].id, req[u].body>>}
  BY <1>1, <1>5 DEF AckedMedia
<1>7. Register!Acknowledge(req[u].id, req[u].body)
  BY <1>3, <1>4, <1>6 DEF Register!Acknowledge
<1> QED BY <1>2, <1>7 DEF AbstractNext, Register!Next

\* The step that makes row and file of a media ID meet.
LEMMA InstallPublishes ==
  ASSUME IInv, IInv', NEW u \in Uploads, pc[u] = "install", Rename(u),
         UNCHANGED <<row, req, reply>>
  PROVE  AbstractNext
<1>1. /\ req[u].id \in MediaIDs /\ req[u].body \in Contents /\ req[u].body # None
      /\ req[u].kind \in {"sync", "async"}
  BY ConstantsAssumption DEF IInv, RequestShape
<1>2. /\ file'[req[u].id] = req[u].body
      /\ \A i \in MediaIDs : i # req[u].id => file'[i] = file[i]
  BY <1>1 DEF Rename, IInv, TypeOK
<1>3. \A v \in Uploads : Acked(v)' <=> Acked(v)
  BY DEF Acked
<1>4. \A i \in MediaIDs : i # req[u].id => Servable'[i] = Servable[i]
  BY <1>2 DEF Servable
<1>5. CASE req[u].kind = "async"
  <2>1. row[req[u].id].content = req[u].body /\ file[req[u].id] = None
    BY <1>5 DEF IInv, AsyncState
  <2>2. Servable[req[u].id] = None /\ Servable'[req[u].id] = req[u].body
    BY <1>1, <1>2, <2>1 DEF Servable
  <2> QED BY <1>1, <1>3, <1>4, <2>2, PublishStep
<1>6. CASE req[u].kind = "sync"
  <2>1. row[req[u].id].content = None
    BY <1>1, <1>6 DEF IInv, SyncState, OnlyGenerated, Completed
  <2>2. Servable'[req[u].id] = Servable[req[u].id]
    BY <1>1, <2>1 DEF Servable
  <2>3. SameServable /\ SameAnswers
    BY <1>3, <1>4, <2>2 DEF SameServable, SameAnswers
  <2> QED BY <2>3, StutterStep
<1> QED BY <1>1, <1>5, <1>6

LEMMA InsertPublishes ==
  ASSUME IInv, IInv', NEW u \in Uploads, StoreLocalMedia(u)
  PROVE  AbstractNext
<1>1. /\ pc[u] = "insert" /\ UNCHANGED <<file, req, reply>>
      /\ UNCHANGED row \/ InsertRow(u)
  BY DEF StoreLocalMedia, Goto, disk
<1>2. /\ req[u].id \in MediaIDs /\ req[u].body \in Contents /\ req[u].body # None
      /\ req[u].kind = "sync"
  BY <1>1, ConstantsAssumption DEF IInv, RequestShape
<1>3. /\ file[req[u].id] = req[u].body /\ row[req[u].id].content = None
  BY <1>1, <1>2 DEF IInv, SyncState, OnlyGenerated, Completed
<1>4. \A v \in Uploads : Acked(v)' <=> Acked(v)
  BY <1>1 DEF Acked
<1>5. CASE UNCHANGED row
  <2>1. UNCHANGED Servable
    BY <1>1, <1>5 DEF Servable
  <2>2. SameServable /\ SameAnswers
    BY <1>1, <1>4, <2>1 DEF SameServable, SameAnswers
  <2> QED BY <2>2, StutterStep
<1>6. CASE InsertRow(u)
  <2>1. /\ row'[req[u].id].content = req[u].body
        /\ \A i \in MediaIDs : i # req[u].id => row'[i] = row[i]
    BY <1>2, <1>6 DEF InsertRow, NewRow, IInv, TypeOK
  <2>2. /\ Servable[req[u].id] = None /\ Servable'[req[u].id] = req[u].body
        /\ \A i \in MediaIDs : i # req[u].id => Servable'[i] = Servable[i]
    BY <1>1, <1>2, <1>3, <2>1 DEF Servable
  <2> QED BY <1>1, <1>2, <1>4, <2>2, PublishStep
<1> QED BY <1>1, <1>5, <1>6

LEMMA AbstractStep ==
  ASSUME "lostReply" \notin Faults, IInv, IInv', [Next]_vars
  PROVE  AbstractNext
<1>0. /\ reply \in [Uploads -> Replies] /\ pc \in [Uploads -> UploadSteps]
      /\ \A u \in Uploads : reply[u] # "none" => pc[u] = "done"
      /\ \A u \in Uploads : pc[u] = "idle" => req[u].kind = "none"
  BY DEF IInv, TypeOK, RequestShape
<1>1. ASSUME UNCHANGED <<row, file, req, reply>> PROVE AbstractNext
  <2>1. SameServable
    BY <1>1 DEF Servable, SameServable
  <2>2. SameAnswers
    BY <1>1 DEF Acked, SameAnswers
  <2> QED BY <2>1, <2>2, StutterStep
<1>2. ASSUME NEW u \in Uploads, Begin(u) PROVE AbstractNext
  <2>1. /\ UNCHANGED <<row, file, reply>> /\ pc[u] = "idle"
        /\ \A v \in Uploads : v # u => req'[v] = req[v]
    BY <1>2 DEF Begin, BeginUpload, BeginCreate, BeginAsync, Arrive, Goto, db, disk, IInv, TypeOK
  <2>2. reply[u] = "none"
    BY <1>0, <2>1
  <2>3. SameServable
    BY <2>1 DEF Servable, SameServable
  <2>4. SameAnswers
    BY <2>1, <2>2 DEF Acked, SameAnswers
  <2> QED BY <2>3, <2>4, StutterStep
<1>3. ASSUME NEW u \in Uploads, UNCHANGED <<row, file, req>>, pc[u] # "done",
             NEW code \in Replies \ {"ok"}, reply' = [reply EXCEPT ![u] = code]
      PROVE  AbstractNext
  <2>1. SameServable
    BY <1>3 DEF Servable, SameServable
  <2>2. SameAnswers
    BY <1>0, <1>3 DEF Acked, SameAnswers
  <2> QED BY <2>1, <2>2, StutterStep
<1>4. ASSUME NEW u \in Uploads, QuietMove(u), ~RespondUploaded(u), pc[u] # "answer"
      PROVE  AbstractNext
  <2>1. pc[u] # "done" /\ UNCHANGED <<row, file, req>>
    BY <1>4 DEF QuietMove, StoreSteps
  <2>2. \/ UNCHANGED reply
        \/ \E code \in Replies \ {"ok"} : reply' = [reply EXCEPT ![u] = code]
    BY <1>4 DEF QuietMove, Replies
  <2> QED BY <1>1, <1>3, <2>1, <2>2
<1>5. ASSUME NEW u \in Uploads, UploadStep(u) \/ CancelWait(u) PROVE AbstractNext
  <2>1. CASE \/ CountPending(u) \/ LookupMedia(u) \/ AcquireSlot(u) \/ CancelWait(u)
             \/ StoreBody(u) \/ StoreFails(u) \/ CheckQuarantine(u) \/ CheckLimits(u)
    <3>1. pc[u] # "answer"
      BY <2>1 DEF CountPending, LookupMedia, AcquireSlot, CancelWait, StoreBody, StoreFails,
                  CheckQuarantine, CheckLimits
    <3> QED BY <1>4, <2>1, <3>1, QuietSteps DEF RespondUploaded
  <2>2. CASE RespondUploaded(u)
    BY <2>2, RespondAcknowledges
  <2>3. CASE ReserveID(u)
    <3>1. PICK m \in FreshIDs, code \in {"ok", "failed"} :
            /\ req' = [req EXCEPT ![u].id = m] /\ reply' = [reply EXCEPT ![u] = code]
            /\ UNCHANGED row \/ row' = [row EXCEPT ![m] = NewRow(req[u].user, None, "null")]
            /\ UNCHANGED file
      BY <2>3 DEF ReserveID, Answer, disk
    <3>2. m \in MediaIDs /\ row[m].content = None
      BY DEF FreshIDs, IInv, OnlyGenerated, Completed
    <3>3. req[u].kind = "create" /\ req \in [Uploads -> Requests]
      BY <2>3 DEF ReserveID, IInv, TypeOK, RequestShape
    <3>4. \A i \in MediaIDs : row'[i].content = row[i].content
      BY <3>1, <3>2 DEF NewRow, IInv, TypeOK
    <3>5. \A i \in MediaIDs : Servable'[i] = Servable[i]
      BY <3>1, <3>4 DEF Servable
    <3>6. req'[u].kind = "create" /\ \A v \in Uploads : v # u => req'[v] = req[v]
      BY <3>1, <3>3 DEF Requests
    <3>7. SameAnswers
      BY <1>0, <3>1, <3>3, <3>6 DEF Acked, SameAnswers
    <3>8. SameServable
      BY <3>5 DEF SameServable
    <3> QED BY <3>7, <3>8, StutterStep
  <2>4. CASE Install(u)
    <3>1. CASE Discard(u, "notInstalled")
      BY <1>3, <2>4, <3>1 DEF Install, Discard, Answer, db, Replies
    <3>2. CASE ~Discard(u, "notInstalled")
      BY <2>4, <3>2, InstallPublishes DEF Install, Goto, db
    <3> QED BY <3>1, <3>2
  <2>5. CASE StoreLocalMedia(u)
    BY <2>5, InsertPublishes
  <2>6. CASE UnlinkFile(u)
    <3>1. /\ pc[u] = "unlink" /\ UNCHANGED <<row, req>>
          /\ file' = [file EXCEPT ![req[u].id] = None]
          /\ reply' = [reply EXCEPT ![u] = "failed"]
      BY <2>6 DEF UnlinkFile, Answer, db
    <3>2. row[req[u].id].content = None /\ req[u].id \in MediaIDs
      BY <3>1 DEF IInv, RequestShape, SyncState, OnlyGenerated, Completed
    <3>3. \A i \in MediaIDs : Servable'[i] = Servable[i]
      BY <3>1, <3>2 DEF Servable, IInv, TypeOK
    <3>4. \A v \in Uploads : Acked(v)' <=> Acked(v)
      BY <1>0, <3>1 DEF Acked
    <3>5. SameServable /\ SameAnswers
      BY <3>3, <3>1, <3>4 DEF SameServable, SameAnswers
    <3> QED BY <3>5, StutterStep
  <2>7. CASE CompleteLocalMedia(u)
    <3>1. CASE Discard(u, "conflict") \/ Discard(u, "failed")
      BY <1>3, <2>7, <3>1 DEF CompleteLocalMedia, Discard, Answer, db, Replies
    <3>2. CASE ~(Discard(u, "conflict") \/ Discard(u, "failed"))
      <4>1. /\ pc[u] = "complete" /\ Pending(req[u].id) /\ CompleteRow(u)
            /\ UNCHANGED <<file, req, reply>>
        BY <2>7, <3>2 DEF CompleteLocalMedia, Goto
      <4>2. req[u].id \in MediaIDs /\ file[req[u].id] = None
        BY <4>1 DEF IInv, RequestShape, OnlyGenerated
      <4>3. \A i \in MediaIDs : i # req[u].id => row'[i] = row[i]
        BY <4>1, <4>2 DEF CompleteRow, IInv, TypeOK
      <4>4. \A i \in MediaIDs : Servable'[i] = Servable[i]
        BY <4>1, <4>2, <4>3 DEF Servable
      <4>5. \A v \in Uploads : Acked(v)' <=> Acked(v)
        BY <4>1 DEF Acked
      <4>6. SameServable /\ SameAnswers
        BY <4>4, <4>1, <4>5 DEF SameServable, SameAnswers
      <4> QED BY <4>6, StutterStep
    <3> QED BY <3>1, <3>2
  <2> QED BY <1>5, <2>1, <2>2, <2>3, <2>4, <2>5, <2>6, <2>7 DEF UploadStep
<1>6. ASSUME NEW r \in Readers, BeginRead(r) \/ ReadStep(r) PROVE AbstractNext
  BY <1>1, <1>6 DEF BeginRead, ReadStep, ResolveLocalMedia, AwaitUpload, AwaitGivesUp,
                    ServeFile, db, disk, uploads
<1>7. CASE Process
  BY <1>1, <1>7 DEF Process, Crash, Restart, SweepStaleTempFiles, db, disk, uploads
<1>8. CASE Environment
  <2>1. ASSUME NEW ids, Flag(ids), UNCHANGED <<file, req, reply>> PROVE AbstractNext
    <3>1. \A m \in MediaIDs : row'[m].content = row[m].content
      BY <2>1 DEF Flag, IInv, TypeOK, Rows
    <3>2. SameServable
      BY <2>1, <3>1 DEF Servable, SameServable
    <3>3. SameAnswers
      BY <2>1 DEF Acked, SameAnswers
    <3> QED BY <3>2, <3>3, StutterStep
  <2>2. HourPasses \/ (\E m \in MediaIDs : Expire(m)) => UNCHANGED <<row, file, req, reply>>
    BY DEF HourPasses, Expire, db, disk, uploads
  <2>3. \A m \in MediaIDs : QuarantineLocal(m) => AbstractNext
    BY <2>1 DEF QuarantineLocal, disk, uploads
  <2>4. \A c \in Contents : QuarantineRemote(c) => AbstractNext
    BY <2>1 DEF QuarantineRemote, disk, uploads
  <2> QED BY <1>1, <1>8, <2>2, <2>3, <2>4 DEF Environment
<1>9. CASE UNCHANGED vars
  BY <1>1, <1>9 DEF vars, db, disk, uploads
<1> QED
  BY <1>2, <1>5, <1>6, <1>7, <1>8, <1>9 DEF Next

\* The two upload paths implement a write-once register for each media ID, whatever
\* fails and crashes, as long as the database's replies arrive.
THEOREM UploadsImplementRegister ==
  ASSUME "lostReply" \notin Faults PROVE Spec => ImplementsRegister
<1>1. Init => Register!Init
  <2> SUFFICES ASSUME Init PROVE Register!Init
    OBVIOUS
  <2>1. Servable = [m \in MediaIDs |-> None]
    BY DEF Init, Servable
  <2>2. AckedMedia = {}
    BY DEF Init, AckedMedia, Acked
  <2> QED BY <2>1, <2>2 DEF Register!Init
<1>2. IInv /\ IInv' /\ [Next]_vars => [Register!Next]_<<Servable, AckedMedia>>
  BY AbstractStep DEF AbstractNext
<1> QED
  BY <1>1, <1>2, Invariant, PTL DEF Spec, ImplementsRegister, Register!Spec
------------------------------------------------------------------------------

(***************************************************************************)
(* IDs and what they are split into.                                       *)
(***************************************************************************)

\* A part of a string is a string.
LEMMA Part ==
  ASSUME NEW id \in Strings, NEW m \in 1 .. Len(id), NEW n \in Int, n <= Len(id), m <= n + 1
  PROVE  /\ SubSeq(id, m, n) \in Strings
         /\ Len(SubSeq(id, m, n)) = n - m + 1
         /\ \A j \in m .. n : SubSeq(id, m, n)[j - m + 1] = id[j]
<1>1. Len(id) \in Nat /\ \A j \in 1 .. Len(id) : id[j] \in Int
  BY DEF Strings
<1>2. \A j \in m .. n : id[j] \in Int
  BY <1>1
<1>3. /\ SubSeq(id, m, n) \in Seq(Int)
      /\ Len(SubSeq(id, m, n)) = IF m <= n THEN n - m + 1 ELSE 0
      /\ \A j \in 1 .. n - m + 1 : SubSeq(id, m, n)[j] = id[m + j - 1]
  BY <1>1, <1>2, SubSeqProperties
<1>4. ASSUME NEW j \in m .. n  PROVE SubSeq(id, m, n)[j - m + 1] = id[j]
  <2>1. j - m + 1 \in 1 .. n - m + 1 /\ m + (j - m + 1) - 1 = j
    BY <1>1
  <2> QED
    BY <1>3, <2>1
<1> QED
  BY <1>1, <1>3, <1>4 DEF Strings

\* Strings with the same characters are the same string.
LEMMA SameString ==
  ASSUME NEW x \in Strings, NEW y \in Strings, Len(x) = Len(y),
         \A j \in 1 .. Len(x) : x[j] = y[j]
  PROVE  x = y
  BY SeqEqual DEF Strings

\* The directories of an ID determine it.  paths.go:75-84.
LEMMA ShardInjective ==
  ASSUME NEW x \in Strings, Len(x) >= 5, NEW y \in Strings, Len(y) >= 5,
         SubSeq(x, 1, 2) = SubSeq(y, 1, 2), SubSeq(x, 3, 4) = SubSeq(y, 3, 4),
         SubSeq(x, 5, Len(x)) = SubSeq(y, 5, Len(y))
  PROVE  x = y
<1>1. Len(x) \in Nat /\ Len(y) \in Nat
  BY DEF Strings
<1>2. Len(SubSeq(x, 5, Len(x))) = Len(x) - 5 + 1 /\ Len(SubSeq(y, 5, Len(y))) = Len(y) - 5 + 1
  <2>1. 5 \in 1 .. Len(x) /\ 5 \in 1 .. Len(y) /\ Len(x) \in Int /\ Len(y) \in Int
        /\ Len(x) <= Len(x) /\ Len(y) <= Len(y) /\ 5 <= Len(x) + 1 /\ 5 <= Len(y) + 1
    BY <1>1
  <2>2. Len(SubSeq(x, 5, Len(x))) = Len(x) - 5 + 1
    BY <2>1, Part, Zenon
  <2>3. Len(SubSeq(y, 5, Len(y))) = Len(y) - 5 + 1
    BY <2>1, Part, Zenon
  <2> QED
    BY <2>2, <2>3
<1>3. Len(x) = Len(y)
  BY <1>1, <1>2
<1>4. ASSUME NEW j \in 1 .. Len(x)  PROVE x[j] = y[j]
  <2>1. CASE j \in 1 .. 2
    <3>1. SubSeq(x, 1, 2)[j - 1 + 1] = x[j]
      BY <1>1, <2>1, Part
    <3>2. SubSeq(y, 1, 2)[j - 1 + 1] = y[j]
      BY <1>1, <2>1, Part
    <3> QED
      BY <3>1, <3>2
  <2>2. CASE j \in 3 .. 4
    <3>1. SubSeq(x, 3, 4)[j - 3 + 1] = x[j]
      BY <1>1, <2>2, Part
    <3>2. SubSeq(y, 3, 4)[j - 3 + 1] = y[j]
      BY <1>1, <2>2, Part
    <3> QED
      BY <3>1, <3>2
  <2>3. CASE j \in 5 .. Len(x)
    <3>1. SubSeq(x, 5, Len(x))[j - 5 + 1] = x[j]
      BY <1>1, <2>3, Part
    <3>2. SubSeq(y, 5, Len(y))[j - 5 + 1] = y[j]
      BY <1>1, <1>3, <2>3, Part
    <3> QED
      BY <3>1, <3>2
  <2> QED
    BY <1>1, <2>1, <2>2, <2>3
<1> QED
  BY <1>3, <1>4, SameString

\* So do the date and what follows the separator, which is always the same.  paths.go:203-209.
LEMMA DatedInjective ==
  ASSUME NEW x \in DatedIDs, NEW y \in DatedIDs,
         SubSeq(x, 1, 10) = SubSeq(y, 1, 10), SubSeq(x, 12, Len(x)) = SubSeq(y, 12, Len(y))
  PROVE  x = y
<1>1. /\ x \in Strings /\ y \in Strings /\ Len(x) \in Nat /\ Len(y) \in Nat
      /\ Len(x) >= 12 /\ Len(y) >= 12 /\ x[11] = y[11]
  <2>1. x \in Strings /\ y \in Strings /\ Len(x) >= 12 /\ Len(y) >= 12 /\ x[11] = y[11]
    <3>1. x \in Strings /\ Len(x) >= 12 /\ x[11] = Underscore
      BY SMT DEF DatedIDs
    <3>2. y \in Strings /\ Len(y) >= 12 /\ y[11] = Underscore
      BY SMT DEF DatedIDs
    <3> QED
      BY <3>1, <3>2
  <2>2. \A z \in Strings : Len(z) \in Nat
    BY DEF Strings
  <2> QED
    BY <2>1, <2>2
<1>2. Len(SubSeq(x, 12, Len(x))) = Len(x) - 12 + 1 /\ Len(SubSeq(y, 12, Len(y))) = Len(y) - 12 + 1
  <2>1. 12 \in 1 .. Len(x) /\ 12 \in 1 .. Len(y) /\ Len(x) \in Int /\ Len(y) \in Int
        /\ Len(x) <= Len(x) /\ Len(y) <= Len(y) /\ 12 <= Len(x) + 1 /\ 12 <= Len(y) + 1
    BY <1>1
  <2>2. Len(SubSeq(x, 12, Len(x))) = Len(x) - 12 + 1
    BY <1>1, <2>1, Part, Zenon
  <2>3. Len(SubSeq(y, 12, Len(y))) = Len(y) - 12 + 1
    BY <1>1, <2>1, Part, Zenon
  <2> QED
    BY <2>2, <2>3
<1>3. Len(x) = Len(y)
  BY <1>1, <1>2
<1>4. ASSUME NEW j \in 1 .. Len(x)  PROVE x[j] = y[j]
  <2>1. CASE j \in 1 .. 10
    <3>1. SubSeq(x, 1, 10)[j - 1 + 1] = x[j]
      BY <1>1, <2>1, Part
    <3>2. SubSeq(y, 1, 10)[j - 1 + 1] = y[j]
      BY <1>1, <2>1, Part
    <3> QED
      BY <3>1, <3>2
  <2>2. CASE j \in 12 .. Len(x)
    <3>1. SubSeq(x, 12, Len(x))[j - 12 + 1] = x[j]
      BY <1>1, <2>2, Part
    <3>2. SubSeq(y, 12, Len(y))[j - 12 + 1] = y[j]
      BY <1>1, <1>3, <2>2, Part
    <3> QED
      BY <3>1, <3>2
  <2>3. CASE j = 11
    BY <1>1, <2>3
  <2> QED
    BY <1>1, <2>1, <2>2, <2>3
<1> QED
  BY <1>1, <1>3, <1>4, SameString

(***************************************************************************)
(* Two media never share a file.                                           *)
(***************************************************************************)

\* An ID is a string.
LEMMA IDsAreStrings ==
  ASSUME NEW id \in IDs
  PROVE  id \in Strings /\ Len(id) >= 5
<1>1. id \in Seq(Letters) /\ Len(id) >= 5
  BY DEF IDs
<1>2. \A j \in 1 .. Len(id) : id[j] \in Letters
  BY <1>1
<1>3. \A c \in Letters : c \in Int
  BY DEF Letters
<1> QED
  BY <1>1, <1>2, <1>3 DEF Strings

\* The files of two IDs are two files.  paths.go:124-131.
THEOREM LocalFilesDistinct ==
  \A x, y \in IDs : LocalMedia(x) = LocalMedia(y) => x = y
<1> SUFFICES ASSUME NEW x \in IDs, NEW y \in IDs, LocalMedia(x) = LocalMedia(y)
             PROVE  x = y
  OBVIOUS
<1>1. shard(x) = shard(y)
  BY DEF LocalMedia, join
<1>2. /\ SubSeq(x, 1, 2) = SubSeq(y, 1, 2) /\ SubSeq(x, 3, 4) = SubSeq(y, 3, 4)
      /\ SubSeq(x, 5, Len(x)) = SubSeq(y, 5, Len(y))
  BY <1>1 DEF shard
<1> QED
  BY <1>2, IDsAreStrings, ShardInjective

\* The files of two pairs of a server and a filesystem_id are two files.  paths.go:148-157.
THEOREM RemoteFilesDistinct ==
  \A s, t \in ServerNames : \A x, y \in IDs :
    RemoteMedia(s, x) = RemoteMedia(t, y) => s = t /\ x = y
<1> SUFFICES ASSUME NEW s \in ServerNames, NEW t \in ServerNames, NEW x \in IDs, NEW y \in IDs,
                    RemoteMedia(s, x) = RemoteMedia(t, y)
             PROVE  s = t /\ x = y
  OBVIOUS
<1>1. <<s>> \o shard(x) = <<t>> \o shard(y)
  BY DEF RemoteMedia, join
<1>2. /\ s = t
      /\ SubSeq(x, 1, 2) = SubSeq(y, 1, 2) /\ SubSeq(x, 3, 4) = SubSeq(y, 3, 4)
      /\ SubSeq(x, 5, Len(x)) = SubSeq(y, 5, Len(y))
  BY <1>1 DEF shard
<1> QED
  BY <1>2, IDsAreStrings, ShardInjective

\* Two thumbnails of local media share a file only if they have the media ID and the file
\* name in common.  paths.go:134-144.
THEOREM LocalThumbnailsDistinct ==
  \A x, y \in IDs : \A n, m \in Components :
    LocalThumbnail(x, n) = LocalThumbnail(y, m) => x = y /\ n = m
<1> SUFFICES ASSUME NEW x \in IDs, NEW y \in IDs, NEW n \in Components, NEW m \in Components,
                    LocalThumbnail(x, n) = LocalThumbnail(y, m)
             PROVE  x = y /\ n = m
  OBVIOUS
<1>1. shard(x) \o <<n>> = shard(y) \o <<m>>
  BY DEF LocalThumbnail, join
<1>2. /\ n = m
      /\ SubSeq(x, 1, 2) = SubSeq(y, 1, 2) /\ SubSeq(x, 3, 4) = SubSeq(y, 3, 4)
      /\ SubSeq(x, 5, Len(x)) = SubSeq(y, 5, Len(y))
  BY <1>1 DEF shard
<1> QED
  BY <1>2, IDsAreStrings, ShardInjective

\* An ID of letters does not look like one with a date.  paths.go:22-23.
LEMMA NotDated ==
  \A x \in IDs : ~IsDated(x)
<1> SUFFICES ASSUME NEW x \in IDs, IsDated(x)  PROVE FALSE
  OBVIOUS
<1>1. x \in Seq(Letters) /\ Len(x) >= 10 /\ x[1] \in Digits
  BY DEF IDs, IsDated
<1>2. x[1] \in Letters
  BY <1>1
<1>3. \A c \in Letters : c \notin Digits
  BY DEF Letters, Digits
<1> QED
  BY <1>1, <1>2, <1>3

\* The files of two previews are two files, the old IDs and the dated ones together: the
\* date's directory is longer than a shard's.  paths.go:198-215.
THEOREM URLCacheFilesDistinct ==
  \A x, y \in IDs \cup DatedIDs : URLCache(x) = URLCache(y) => x = y
<1>1. \A x \in IDs : ~IsDated(x)
  BY NotDated
<1>2. \A x \in DatedIDs : IsDated(x)
  BY DEF DatedIDs
<1> SUFFICES ASSUME NEW x \in IDs \cup DatedIDs, NEW y \in IDs \cup DatedIDs,
                    URLCache(x) = URLCache(y)
             PROVE  x = y
  OBVIOUS
<1>3. (IF IsDated(x) THEN dated(x) ELSE shard(x)) = (IF IsDated(y) THEN dated(y) ELSE shard(y))
  BY DEF URLCache, join
<1>4. CASE IsDated(x) /\ IsDated(y)
  <2>1. x \in DatedIDs /\ y \in DatedIDs
    BY <1>1, <1>4
  <2>2. SubSeq(x, 1, 10) = SubSeq(y, 1, 10) /\ SubSeq(x, 12, Len(x)) = SubSeq(y, 12, Len(y))
    BY <1>3, <1>4 DEF dated
  <2> QED
    BY <2>1, <2>2, DatedInjective
<1>5. CASE ~IsDated(x) /\ ~IsDated(y)
  <2>1. x \in IDs /\ y \in IDs
    BY <1>2, <1>5
  <2>2. /\ SubSeq(x, 1, 2) = SubSeq(y, 1, 2) /\ SubSeq(x, 3, 4) = SubSeq(y, 3, 4)
        /\ SubSeq(x, 5, Len(x)) = SubSeq(y, 5, Len(y))
    BY <1>3, <1>5 DEF shard
  <2> QED
    BY <2>1, <2>2, IDsAreStrings, ShardInjective
<1>6. CASE IsDated(x) /\ ~IsDated(y)
  BY <1>3, <1>6 DEF dated, shard
<1>7. CASE ~IsDated(x) /\ IsDated(y)
  BY <1>3, <1>7 DEF dated, shard
<1> QED
  BY <1>4, <1>5, <1>6, <1>7

(***************************************************************************)
(* The names on the way to a file.                                         *)
(***************************************************************************)

\* A name that does not begin with a dot is not special.
LEMMA NotSpecial ==
  ASSUME NEW z, Len(z) \in Nat \ {0}, z[1] # Dot
  PROVE  z \notin Special
  BY DEF Special

\* The first part of an ID's path is two characters long, and no part is special.
LEMMA ShardNames ==
  ASSUME NEW id \in IDs
  PROVE  /\ Len(SubSeq(id, 1, 2)) = 2
         /\ SubSeq(id, 1, 2) \notin Special /\ SubSeq(id, 3, 4) \notin Special
         /\ SubSeq(id, 5, Len(id)) \notin Special
<1>1. id \in Strings /\ Len(id) \in Nat /\ Len(id) >= 5
  <2>1. \A z \in Strings : Len(z) \in Nat
    BY DEF Strings
  <2> QED
    BY <2>1, IDsAreStrings
<1>2. \A j \in 1 .. Len(id) : id[j] # Dot
  <2>1. \A j \in 1 .. Len(id) : id[j] \in Letters
    BY DEF IDs
  <2>2. Dot \notin Letters
    BY DEF Dot, Letters
  <2> QED
    BY <2>1, <2>2
<1>3. Len(SubSeq(id, 1, 2)) = 2 - 1 + 1 /\ SubSeq(id, 1, 2)[1 - 1 + 1] = id[1]
  <2>1. 1 \in 1 .. Len(id) /\ 2 \in Int /\ 2 <= Len(id) /\ 1 <= 2 + 1 /\ 1 \in 1 .. 2
    BY <1>1
  <2> QED
    BY <1>1, <2>1, Part, Zenon
<1>4. Len(SubSeq(id, 3, 4)) = 4 - 3 + 1 /\ SubSeq(id, 3, 4)[3 - 3 + 1] = id[3]
  <2>1. 3 \in 1 .. Len(id) /\ 4 \in Int /\ 4 <= Len(id) /\ 3 <= 4 + 1 /\ 3 \in 3 .. 4
    BY <1>1
  <2> QED
    BY <1>1, <2>1, Part, Zenon
<1>5. /\ Len(SubSeq(id, 5, Len(id))) = Len(id) - 5 + 1
      /\ SubSeq(id, 5, Len(id))[5 - 5 + 1] = id[5]
  <2>1. /\ 5 \in 1 .. Len(id) /\ Len(id) \in Int /\ Len(id) <= Len(id) /\ 5 <= Len(id) + 1
        /\ 5 \in 5 .. Len(id)
    BY <1>1
  <2> QED
    BY <1>1, <2>1, Part, Zenon
<1>6. id[1] # Dot /\ id[3] # Dot /\ id[5] # Dot
  BY <1>1, <1>2
<1>7. SubSeq(id, 1, 2) \notin Special
  <2>1. Len(SubSeq(id, 1, 2)) \in Nat \ {0} /\ SubSeq(id, 1, 2)[1] # Dot
    BY <1>3, <1>6
  <2> QED
    BY <2>1, NotSpecial
<1>8. SubSeq(id, 3, 4) \notin Special
  <2>1. Len(SubSeq(id, 3, 4)) \in Nat \ {0} /\ SubSeq(id, 3, 4)[1] # Dot
    BY <1>4, <1>6
  <2> QED
    BY <2>1, NotSpecial
<1>9. SubSeq(id, 5, Len(id)) \notin Special
  <2>1. Len(SubSeq(id, 5, Len(id))) \in Nat \ {0} /\ SubSeq(id, 5, Len(id))[1] # Dot
    BY <1>1, <1>5, <1>6
  <2> QED
    BY <2>1, NotSpecial
<1> QED
  BY <1>3, <1>7, <1>8, <1>9

\* The date is ten characters long, and neither part is special.
LEMMA DatedNames ==
  ASSUME NEW id \in DatedIDs
  PROVE  /\ Len(SubSeq(id, 1, 10)) = 10
         /\ SubSeq(id, 1, 10) \notin Special /\ SubSeq(id, 12, Len(id)) \notin Special
<1>1. id \in Strings /\ Len(id) \in Nat /\ Len(id) >= 12
  <2>1. \A z \in Strings : Len(z) \in Nat
    BY DEF Strings
  <2>2. id \in Strings /\ Len(id) >= 12
    BY SMT DEF DatedIDs
  <2> QED
    BY <2>1, <2>2
<1>2. id[1] # Dot /\ id[12] # Dot
  <2>1. id[1] \in Digits /\ id[12] \in Letters
    BY <1>1 DEF DatedIDs, IsDated
  <2>2. Dot \notin Digits /\ Dot \notin Letters
    BY DEF Dot, Digits, Letters
  <2> QED
    BY <2>1, <2>2
<1>3. Len(SubSeq(id, 1, 10)) = 10 - 1 + 1 /\ SubSeq(id, 1, 10)[1 - 1 + 1] = id[1]
  <2>1. 1 \in 1 .. Len(id) /\ 10 \in Int /\ 10 <= Len(id) /\ 1 <= 10 + 1 /\ 1 \in 1 .. 10
    BY <1>1
  <2> QED
    BY <1>1, <2>1, Part, Zenon
<1>4. /\ Len(SubSeq(id, 12, Len(id))) = Len(id) - 12 + 1
      /\ SubSeq(id, 12, Len(id))[12 - 12 + 1] = id[12]
  <2>1. /\ 12 \in 1 .. Len(id) /\ Len(id) \in Int /\ Len(id) <= Len(id) /\ 12 <= Len(id) + 1
        /\ 12 \in 12 .. Len(id)
    BY <1>1
  <2> QED
    BY <1>1, <2>1, Part, Zenon
<1>5. SubSeq(id, 1, 10) \notin Special
  <2>1. Len(SubSeq(id, 1, 10)) \in Nat \ {0} /\ SubSeq(id, 1, 10)[1] # Dot
    BY <1>2, <1>3
  <2> QED
    BY <2>1, NotSpecial
<1>6. SubSeq(id, 12, Len(id)) \notin Special
  <2>1. Len(SubSeq(id, 12, Len(id))) \in Nat \ {0} /\ SubSeq(id, 12, Len(id))[1] # Dot
    BY <1>1, <1>2, <1>4
  <2> QED
    BY <2>1, NotSpecial
<1> QED
  BY <1>3, <1>5, <1>6

\* A component is not special, and a server's name does not begin as a temporary
\* directory's does.
LEMMA ComponentNames ==
  /\ \A c \in Components : c \notin Special
  /\ \A s \in ServerNames : s \notin Special /\ s # tempDirName
<1>1. \A c \in Components : c \notin Special
  BY DEF Components, validatePathComponent
<1>2. tempDirName[1] = Dot
  BY DEF tempDirName
<1> QED
  BY <1>1, <1>2 DEF ServerNames

\* A path of names that are not special is clean: two or three of them, alone or with a
\* server's name before them, a thumbnail's name after them, or both.
LEMMA CleanNames ==
  ASSUME NEW top, NEW s, NEW a, NEW b, NEW c, NEW n,
         a \notin Special, b \notin Special, c \notin Special, s \notin Special, n \notin Special
  PROVE  /\ IsClean(join(top, <<a, b>>)) /\ IsClean(join(top, <<a, b, c>>))
         /\ IsClean(join(top, <<a, b>> \o <<n>>)) /\ IsClean(join(top, <<a, b, c>> \o <<n>>))
         /\ IsClean(join(top, <<s>> \o <<a, b, c>>))
         /\ IsClean(join(top, <<s>> \o <<a, b, c>> \o <<n>>))
<1>1. IsClean(join(top, <<a, b>>)) /\ IsClean(join(top, <<a, b, c>>))
  BY DEF IsClean, join
<1>2. IsClean(join(top, <<a, b>> \o <<n>>)) /\ IsClean(join(top, <<a, b, c>> \o <<n>>))
  BY DEF IsClean, join
<1>3. IsClean(join(top, <<s>> \o <<a, b, c>>))
  BY DEF IsClean, join
<1>4. IsClean(join(top, <<s>> \o <<a, b, c>> \o <<n>>))
  BY DEF IsClean, join
<1> QED
  BY <1>1, <1>2, <1>3, <1>4

\* What filepath.Clean makes of a path that this code builds is the path itself, so that
\* join's test of the prefix never fails for an ID that this program or Synapse made.
\* paths.go:116-122.
THEOREM NothingToClean ==
  \A f \in MediaFiles : IsClean(f)
<1> SUFFICES ASSUME NEW f \in MediaFiles  PROVE IsClean(f)
  OBVIOUS
<1>1. ASSUME NEW id \in IDs, f = LocalMedia(id)  PROVE IsClean(f)
  <2>1. f = join("local_content", <<SubSeq(id, 1, 2), SubSeq(id, 3, 4), SubSeq(id, 5, Len(id))>>)
    BY <1>1 DEF LocalMedia, shard
  <2> QED
    BY <2>1, ShardNames, CleanNames
<1>2. ASSUME NEW id \in IDs, NEW name \in Components, f = LocalThumbnail(id, name)
      PROVE  IsClean(f)
  <2>1. f = join("local_thumbnails",
                 <<SubSeq(id, 1, 2), SubSeq(id, 3, 4), SubSeq(id, 5, Len(id))>> \o <<name>>)
    BY <1>2 DEF LocalThumbnail, shard
  <2> QED
    BY <2>1, ShardNames, ComponentNames, CleanNames
<1>3. ASSUME NEW s \in ServerNames, NEW id \in IDs, f = RemoteMedia(s, id)
      PROVE  IsClean(f)
  <2>1. f = join("remote_content",
                 <<s>> \o <<SubSeq(id, 1, 2), SubSeq(id, 3, 4), SubSeq(id, 5, Len(id))>>)
    BY <1>3 DEF RemoteMedia, shard
  <2> QED
    BY <2>1, ShardNames, ComponentNames, CleanNames
<1>4. ASSUME NEW s \in ServerNames, NEW id \in IDs, NEW name \in Components,
             f = RemoteThumbnail(s, id, name)
      PROVE  IsClean(f)
  <2>1. f = join("remote_thumbnail",
                 <<s>> \o <<SubSeq(id, 1, 2), SubSeq(id, 3, 4), SubSeq(id, 5, Len(id))>>
                   \o <<name>>)
    BY <1>4 DEF RemoteThumbnail, shard
  <2> QED
    BY <2>1, ShardNames, ComponentNames, CleanNames
<1>5. ASSUME NEW id \in IDs \cup DatedIDs, f = URLCache(id)  PROVE IsClean(f)
  <2>1. CASE id \in IDs
    <3>1. f = join("url_cache", <<SubSeq(id, 1, 2), SubSeq(id, 3, 4), SubSeq(id, 5, Len(id))>>)
      BY <1>5, <2>1, NotDated DEF URLCache, shard
    <3> QED
      BY <2>1, <3>1, ShardNames, CleanNames
  <2>2. CASE id \in DatedIDs
    <3>1. IsDated(id)
      BY <2>2 DEF DatedIDs
    <3>2. f = join("url_cache", <<SubSeq(id, 1, 10), SubSeq(id, 12, Len(id))>>)
      BY <1>5, <3>1 DEF URLCache, dated
    <3> QED
      BY <2>2, <3>2, DatedNames, CleanNames
  <2> QED
    BY <1>5, <2>1, <2>2
<1>6. ASSUME NEW id \in IDs \cup DatedIDs, NEW name \in Components,
             f = URLCacheThumbnail(id, name)
      PROVE  IsClean(f)
  <2>1. CASE id \in IDs
    <3>1. f = join("url_cache_thumbnails",
                   <<SubSeq(id, 1, 2), SubSeq(id, 3, 4), SubSeq(id, 5, Len(id))>> \o <<name>>)
      BY <1>6, <2>1, NotDated DEF URLCacheThumbnail, shard
    <3> QED
      BY <2>1, <3>1, ShardNames, ComponentNames, CleanNames
  <2>2. CASE id \in DatedIDs
    <3>1. IsDated(id)
      BY <2>2 DEF DatedIDs
    <3>2. f = join("url_cache_thumbnails", <<SubSeq(id, 1, 10), SubSeq(id, 12, Len(id))>> \o <<name>>)
      BY <1>6, <3>1 DEF URLCacheThumbnail, dated
    <3> QED
      BY <2>2, <3>2, DatedNames, ComponentNames, CleanNames
  <2> QED
    BY <1>6, <2>1, <2>2
<1> QED
  BY <1>1, <1>2, <1>3, <1>4, <1>5, <1>6 DEF MediaFiles

(***************************************************************************)
(* Temporary files.                                                        *)
(***************************************************************************)

\* A path lies in a temporary directory only if its first name is that directory's.
LEMMA WithinTemp ==
  ASSUME NEW f, NEW top, Within(f, join(top, <<tempDirName>>))
  PROVE  f.names[1] = tempDirName
  BY DEF Within, join

\* No media and no thumbnail lies where temporary files are made: what the sweep deletes
\* there was never a medium.  The first name below a top-level directory is two or ten
\* characters long or the name of a server.  paths.go:292-301.
THEOREM TempIsApart ==
  \A f \in MediaFiles : \A allowed \in BOOLEAN : \A dir \in TempDirs(allowed) : ~Within(f, dir)
<1>1. ASSUME NEW f \in MediaFiles  PROVE f.names[1] # tempDirName
  <2>1. \A id \in IDs : SubSeq(id, 1, 2) # tempDirName
    BY ShardNames DEF tempDirName
  <2>2. \A id \in DatedIDs : SubSeq(id, 1, 10) # tempDirName
    BY DatedNames DEF tempDirName
  <2>3. \A s \in ServerNames : s # tempDirName
    BY ComponentNames
  <2>4. ASSUME NEW id \in IDs, f = LocalMedia(id)  PROVE f.names[1] # tempDirName
    BY <2>1, <2>4 DEF LocalMedia, join, shard
  <2>5. ASSUME NEW id \in IDs, NEW name \in Components, f = LocalThumbnail(id, name)
        PROVE  f.names[1] # tempDirName
    BY <2>1, <2>5 DEF LocalThumbnail, join, shard
  <2>6. ASSUME NEW s \in ServerNames, NEW id \in IDs, f = RemoteMedia(s, id)
        PROVE  f.names[1] # tempDirName
    BY <2>3, <2>6 DEF RemoteMedia, join, shard
  <2>7. ASSUME NEW s \in ServerNames, NEW id \in IDs, NEW name \in Components,
               f = RemoteThumbnail(s, id, name)
        PROVE  f.names[1] # tempDirName
    BY <2>3, <2>7 DEF RemoteThumbnail, join, shard
  <2>8. ASSUME NEW id \in IDs \cup DatedIDs, f = URLCache(id)  PROVE f.names[1] # tempDirName
    <3>1. CASE id \in IDs
      BY <2>1, <2>8, <3>1, NotDated DEF URLCache, join, shard
    <3>2. CASE id \in DatedIDs
      <4>1. IsDated(id)
        BY <3>2 DEF DatedIDs
      <4> QED
        BY <2>2, <2>8, <3>2, <4>1 DEF URLCache, join, dated
    <3> QED
      BY <3>1, <3>2
  <2>9. ASSUME NEW id \in IDs \cup DatedIDs, NEW name \in Components,
               f = URLCacheThumbnail(id, name)
        PROVE  f.names[1] # tempDirName
    <3>1. CASE id \in IDs
      BY <2>1, <2>9, <3>1, NotDated DEF URLCacheThumbnail, join, shard
    <3>2. CASE id \in DatedIDs
      <4>1. IsDated(id)
        BY <3>2 DEF DatedIDs
      <4> QED
        BY <2>2, <2>9, <3>2, <4>1 DEF URLCacheThumbnail, join, dated
    <3> QED
      BY <3>1, <3>2
  <2> QED
    BY <2>4, <2>5, <2>6, <2>7, <2>8, <2>9 DEF MediaFiles
<1> QED
  BY <1>1, WithinTemp DEF TempDirs

\* The sweep at start-up looks in the directory of every temporary file that may be made,
\* and the rename onto the final path never leaves the top-level directory, which may be
\* a mount of its own.  paths.go:292-331, main.go:258-298.
THEOREM TempIsSwept ==
  \A f \in MediaFiles : \A allowed \in BOOLEAN :
    MayCreateTemp(f, allowed) =>
      TempDirFor(f) \in TempDirs(allowed) /\ TempDirFor(f).top = f.top
  BY DEF MayCreateTemp, WritablePath, TempDirFor, TempDirs, join

\* URL previews are never written, whatever is allowed, and media of this server only
\* when uploads are.  paths.go:241-290.
THEOREM OnlyWhatIsAllowed ==
  /\ \A id \in IDs \cup DatedIDs : \A allowed \in BOOLEAN : ~WritablePath(URLCache(id), allowed)
  /\ \A id \in IDs : WritablePath(LocalMedia(id), TRUE) /\ ~WritablePath(LocalMedia(id), FALSE)
  /\ \A s \in ServerNames, id \in IDs : \A allowed \in BOOLEAN :
       WritablePath(RemoteMedia(s, id), allowed)
  BY DEF WritablePath, writablePrefixes, URLCache, LocalMedia, RemoteMedia, join
==============================================================================
