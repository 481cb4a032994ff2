------------------------------ MODULE LocalMedia ------------------------------
(***************************************************************************)
(* Media owned by this homeserver: the three upload endpoints of upload.go *)
(* (synchronous POST /upload, POST /create, PUT of a reserved ID), the     *)
(* local download path of handlers.go with its wait for a pending upload,  *)
(* the start-up sweep of main.go, and the two stores they share with       *)
(* Synapse: the table local_media_repository and the media directory.      *)
(*                                                                         *)
(* Every database call, rename and unlink is a step of its own, so other   *)
(* requests, an administrator, a crash or the clock may come between any   *)
(* two.  A request refused before it reads shared state (bad version, no   *)
(* token, bad Content-Length, an oversized declared length) changes        *)
(* nothing and is not represented.                                         *)
(*                                                                         *)
(* An operator whose name begins with Bug is a plausible slip in the code  *)
(* it stands next to.  No action uses one: each is there to see that a     *)
(* property notices it.                                                    *)
(***************************************************************************)
EXTENDS Integers, FiniteSets, FiniteSetsExt

CONSTANTS
  MediaIDs,     \* media IDs: 24 random letters, so a generated ID is fresh
  Users,
  Contents,     \* file contents; a content stands for its sha256 as well
  Uploads,      \* upload requests, each made once
  Readers,      \* download requests, each made once
  UploadSlots,  \* media.max_concurrent_uploads
  MaxPending,   \* media.max_pending_media_uploads; 0 is "no limit"
  Size,         \* the length of each content
  Quota,        \* max_size of a media_upload_limits entry over all the run
  Faults,       \* which of the failures in AllFaults the environment has
  None          \* SQL NULL, a missing file, an unset field

AllFaults == {"db",         \* a database call fails and has no effect
              "lostReply",  \* a database write is applied, its reply is lost
              "disk",       \* a rename fails
              "crash"}      \* the process is killed, and restarted later

ASSUME ConstantsAssumption ==
  /\ UploadSlots \in Nat \ {0}
  /\ MaxPending \in Nat
  /\ Size \in [Contents -> Nat]
  /\ Quota \in Nat
  /\ Faults \subseteq AllFaults
  /\ None \notin MediaIDs \cup Users \cup Contents

VARIABLES
  row,        \* local_media_repository, by media ID
  remoteBad,  \* contents quarantined in remote_media_cache
  file,       \* the content at each media ID's final path
  temp,       \* each upload's file in local_content/.tmp
  old,        \* the uploads whose temporary file is an hour old
  expired,    \* the reserved IDs older than unused_expiration_time
  req,        \* what each upload request asks for
  pc,         \* the next step of each upload request
  reply,      \* the answer to each upload request
  matched,    \* the uploads whose quarantine check matched their hash
  known,      \* history: the uploads whose hash was quarantined before the check
  rd,         \* the download requests
  warned,     \* history: the downloads that arrived after their row was flagged
  slots,      \* tokens held in Uploader.slots
  phase       \* the process: down, serving while it sweeps, or serving

db == <<row, remoteBad, expired>>
disk == <<file, temp, old>>
uploads == <<req, pc, reply, matched, known>>
downloads == <<rd, warned>>
vars == <<db, disk, uploads, downloads, slots, phase>>

------------------------------------------------------------------------------
\* Rows.  A row with content None has media_length NULL: it is a reserved ID.

Rows == [owner : Users \cup {None}, content : Contents \cup {None},
         by : {"null", "system", "admin"}]        \* quarantined_by

NewRow(owner, content, by) == [owner |-> owner, content |-> content, by |-> by]
NoRow == NewRow(None, None, "null")

Exists(m) == row[m].owner # None
Completed(m) == row[m].content # None
Pending(m) == Exists(m) /\ ~Completed(m)
Quarantined(m) == row[m].by # "null"

\* isHashQuarantinedQuery: either table, by content hash.
IsHashQuarantined(c) ==
  \/ c \in remoteBad
  \/ \E m \in MediaIDs : row[m].content = c /\ Quarantined(m)

\* countPendingMediaQuery: the reserved IDs of a user that have not expired.
PendingOf(user) == {m \in MediaIDs : Pending(m) /\ row[m].owner = user /\ m \notin expired}
CountPendingMedia(user) == Cardinality(PendingOf(user))

\* uploadedSizeForUserQuery: SUM skips the NULL lengths of reserved IDs.
UploadedSizeForUser(user) ==
  MapThenSumSet(LAMBDA m : Size[row[m].content],
                {m \in MediaIDs : row[m].owner = user /\ Completed(m)})

------------------------------------------------------------------------------
\* Requests.

Kinds == {"none", "sync", "create", "async"}
ActiveSteps == {"lookup", "count", "reserve", "slot", "write", "quarantine", "limits",
                "complete", "install", "insert", "unlink", "answer"}
UploadSteps == ActiveSteps \cup {"idle", "done", "lost"}
Replies == {"none", "ok", "refused", "conflict", "limited", "failed", "notInstalled"}

Requests == [kind : Kinds, user : Users \cup {None}, id : MediaIDs \cup {None},
             body : Contents \cup {None}]

Request(kind, user, id, body) == [kind |-> kind, user |-> user, id |-> id, body |-> body]
NoRequest == Request("none", None, None, None)

ReadSteps == {"idle", "resolve", "await", "open", "done", "lost"}
ReadReplies == {"none", "served", "notFound", "failed", "notYet"}

Reads == [id : MediaIDs \cup {None}, pc : ReadSteps, snap : Contents \cup {None},
          reply : ReadReplies, bytes : Contents \cup {None}]

NewRead(id, step) ==
  [id |-> id, pc |-> step, snap |-> None, reply |-> "none", bytes |-> None]

\* The IDs newFilesystemID has already returned.
Generates(u) == req[u].kind \in {"sync", "create"}
Generated == {req[u].id : u \in {v \in Uploads : Generates(v)}}
FreshIDs == MediaIDs \ Generated

Active(u) == pc[u] \in ActiveSteps
Acked(u) == reply[u] = "ok" /\ req[u].kind # "create"

\* The row of the upload's ID is the one this upload wrote.
Recorded(u) ==
  \/ pc[u] = "install" /\ req[u].kind = "async"
  \/ pc[u] = "answer"
  \/ reply[u] = "notInstalled" /\ req[u].kind = "async"
  \/ Acked(u)

TypeOK ==
  /\ row \in [MediaIDs -> Rows]
  /\ remoteBad \subseteq Contents
  /\ expired \subseteq MediaIDs
  /\ file \in [MediaIDs -> Contents \cup {None}]
  /\ temp \in [Uploads -> {"none", "partial", "complete"}]
  /\ old \subseteq Uploads
  /\ req \in [Uploads -> Requests]
  /\ pc \in [Uploads -> UploadSteps]
  /\ reply \in [Uploads -> Replies]
  /\ matched \subseteq Uploads
  /\ known \subseteq Uploads
  /\ rd \in [Readers -> Reads]
  /\ warned \subseteq Readers
  /\ slots \in Int
  /\ phase \in {"down", "starting", "serving"}

Init ==
  /\ row = [m \in MediaIDs |-> NoRow]
  /\ remoteBad = {}
  /\ expired = {}
  /\ file = [m \in MediaIDs |-> None]
  /\ temp = [u \in Uploads |-> "none"]
  /\ old = {}
  /\ req = [u \in Uploads |-> NoRequest]
  /\ pc = [u \in Uploads |-> "idle"]
  /\ reply = [u \in Uploads |-> "none"]
  /\ matched = {}
  /\ known = {}
  /\ rd = [r \in Readers |-> NewRead(None, "idle")]
  /\ warned = {}
  /\ slots = 0
  /\ phase = "starting"

Goto(u, step) ==
  /\ pc' = [pc EXCEPT ![u] = step]
  /\ UNCHANGED reply

Answer(u, code) ==
  /\ pc' = [pc EXCEPT ![u] = "done"]
  /\ reply' = [reply EXCEPT ![u] = code]

\* storedUpload.discard, and the cleanup of every failure inside store.
RemoveTemp(u) ==
  /\ temp' = [temp EXCEPT ![u] = "none"]
  /\ old' = old \ {u}

\* The slip that the comment on storedUpload describes.
BugDiscard(u, code) ==
  /\ Answer(u, code)
  /\ RemoveTemp(u)
  /\ file' = [file EXCEPT ![req[u].id] = None]
  /\ UNCHANGED <<db, req, matched, known, downloads, slots, phase>>

Discard(u, code) ==
  /\ Answer(u, code)
  /\ RemoveTemp(u)
  /\ UNCHANGED <<db, file, req, matched, known, downloads, slots, phase>>

\* storedUpload.commit when the rename succeeds.
Rename(u) ==
  /\ file' = [file EXCEPT ![req[u].id] = req[u].body]
  /\ RemoveTemp(u)

------------------------------------------------------------------------------
\* A request arrives and its token is accepted.

Arrive(u, request, step) ==
  /\ phase # "down" /\ pc[u] = "idle"
  /\ req' = [req EXCEPT ![u] = request]
  /\ Goto(u, step)
  /\ UNCHANGED <<db, disk, matched, known, downloads, slots, phase>>

BeginUpload(u) ==
  \E user \in Users, c \in Contents, m \in FreshIDs :
    Arrive(u, Request("sync", user, m, c), "slot")

BeginCreate(u) ==
  \E user \in Users : Arrive(u, Request("create", user, None, None), "count")

BeginAsync(u) ==
  \E user \in Users, c \in Contents, m \in MediaIDs :
    Arrive(u, Request("async", user, m, c), "lookup")

------------------------------------------------------------------------------
\* POST /create: count, then reserve a fresh ID.

CountPending(u) ==
  /\ pc[u] = "count"
  /\ LET full == MaxPending > 0 /\ CountPendingMedia(req[u].user) >= MaxPending IN
     \/ full /\ Answer(u, "limited")
     \/ ~full /\ Goto(u, "reserve")
     \/ "db" \in Faults /\ Answer(u, "failed")
  /\ UNCHANGED <<db, disk, req, matched, known, downloads, slots, phase>>

\* Answer "ok" hands the ID to the client; "failed" never names it.
ReserveID(u) ==
  /\ pc[u] = "reserve"
  /\ \E m \in FreshIDs :
       /\ req' = [req EXCEPT ![u].id = m]
       /\ \/ /\ row' = [row EXCEPT ![m] = NewRow(req[u].user, None, "null")]
             /\ \/ Answer(u, "ok")
                \/ "lostReply" \in Faults /\ Answer(u, "failed")
          \/ "db" \in Faults /\ Answer(u, "failed") /\ UNCHANGED row
  /\ UNCHANGED <<remoteBad, expired, disk, matched, known, downloads, slots, phase>>

------------------------------------------------------------------------------
\* PUT: the checks of verify_can_upload, in Synapse's order.

UploadVerdict(user, m) ==
  IF ~Exists(m) \/ row[m].owner # user THEN "refused"      \* 404, 403
  ELSE IF Completed(m) THEN "conflict"                      \* 409
  ELSE IF m \in expired THEN "refused"                      \* 404
  ELSE "ok"

LookupMedia(u) ==
  /\ pc[u] = "lookup"
  /\ LET verdict == UploadVerdict(req[u].user, req[u].id) IN
     \/ verdict = "ok" /\ Goto(u, "slot")
     \/ verdict # "ok" /\ Answer(u, verdict)
     \/ "db" \in Faults /\ Answer(u, "failed")
  /\ UNCHANGED <<db, disk, req, matched, known, downloads, slots, phase>>

------------------------------------------------------------------------------
\* Uploader.store: wait for a slot, stream the body into a temporary file.

AcquireSlot(u) ==
  /\ pc[u] = "slot" /\ slots < UploadSlots
  /\ slots' = slots + 1
  /\ temp' = [temp EXCEPT ![u] = "partial"]
  /\ Goto(u, "write")
  /\ UNCHANGED <<db, file, old, req, matched, known, downloads, phase>>

\* The client goes away while the request waits for a slot.
CancelWait(u) ==
  /\ pc[u] = "slot"
  /\ Answer(u, "failed")
  /\ UNCHANGED <<db, disk, req, matched, known, downloads, slots, phase>>

StoreBody(u) ==
  /\ pc[u] = "write"
  /\ temp' = [temp EXCEPT ![u] = "complete"]
  /\ old' = old \ {u}
  /\ slots' = slots - 1
  /\ known' = IF IsHashQuarantined(req[u].body) THEN known \cup {u} ELSE known
  /\ Goto(u, "quarantine")
  /\ UNCHANGED <<db, file, req, matched, downloads, phase>>

BugStoreFailsKeepsSlot(u) ==
  /\ pc[u] = "write"
  /\ RemoveTemp(u)
  /\ Answer(u, "failed")
  /\ UNCHANGED <<db, file, req, matched, known, downloads, slots, phase>>

\* A truncated body, an oversized one, a full disk or a client that went away.
StoreFails(u) ==
  /\ pc[u] = "write"
  /\ RemoveTemp(u)
  /\ slots' = slots - 1
  /\ Answer(u, "failed")
  /\ UNCHANGED <<db, file, req, matched, known, downloads, phase>>

------------------------------------------------------------------------------
\* Both upload paths: the quarantine check, then the user's upload limit.

CheckQuarantine(u) ==
  /\ pc[u] = "quarantine"
  /\ \/ /\ matched' = IF IsHashQuarantined(req[u].body) THEN matched \cup {u} ELSE matched
        /\ Goto(u, "limits")
        /\ UNCHANGED <<db, disk, req, known, downloads, slots, phase>>
     \/ "db" \in Faults /\ Discard(u, "failed")

WithinQuota(u) == UploadedSizeForUser(req[u].user) + Size[req[u].body] <= Quota

CheckLimits(u) ==
  /\ pc[u] = "limits"
  /\ \/ /\ WithinQuota(u)
        /\ Goto(u, IF req[u].kind = "sync" THEN "install" ELSE "complete")
        /\ UNCHANGED <<db, disk, req, matched, known, downloads, slots, phase>>
     \/ ~WithinQuota(u) /\ Discard(u, "limited")
     \/ "db" \in Faults /\ Discard(u, "failed")

------------------------------------------------------------------------------
\* Install and record.  A synchronous upload renames and then inserts its row;
\* an asynchronous one wins the row first and then renames.

Install(u) ==
  /\ pc[u] = "install"
  /\ \/ /\ Rename(u)
        /\ Goto(u, IF req[u].kind = "sync" THEN "insert" ELSE "answer")
        /\ UNCHANGED <<db, req, matched, known, downloads, slots, phase>>
     \/ "disk" \in Faults /\ Discard(u, "notInstalled")

\* The plain INSERT of a row whose ID nobody else can have.
InsertRow(u) ==
  row' = [row EXCEPT ![req[u].id] =
            NewRow(req[u].user, req[u].body, IF u \in matched THEN "system" ELSE "null")]

StoreLocalMedia(u) ==
  /\ pc[u] = "insert"
  /\ \/ /\ InsertRow(u)
        /\ \/ Goto(u, "answer")
           \/ "lostReply" \in Faults /\ Goto(u, "unlink")
     \/ "db" \in Faults /\ Goto(u, "unlink") /\ UNCHANGED row
  /\ UNCHANGED <<remoteBad, expired, disk, req, matched, known, downloads, slots, phase>>

BugUnlinkFile(u) ==                     \* the insert's error path returns at once
  /\ pc[u] = "unlink"
  /\ Answer(u, "failed")
  /\ UNCHANGED <<db, disk, req, matched, known, downloads, slots, phase>>

\* os.Remove(stored.path) after the insert reported an error.
UnlinkFile(u) ==
  /\ pc[u] = "unlink"
  /\ file' = [file EXCEPT ![req[u].id] = None]
  /\ Answer(u, "failed")
  /\ UNCHANGED <<db, temp, old, req, matched, known, downloads, slots, phase>>

BugCompleteRowOverwrites(u) ==          \* no COALESCE
  row' = [row EXCEPT ![req[u].id].content = req[u].body,
                     ![req[u].id].by = IF u \in matched THEN "system" ELSE "null"]

\* completeLocalMediaQuery, with its COALESCE on quarantined_by.
CompleteRow(u) ==
  row' = [row EXCEPT ![req[u].id].content = req[u].body,
                     ![req[u].id].by = IF u \in matched THEN "system" ELSE @]

BugCompleteLocalMedia(u) ==             \* no WHERE media_length IS NULL
  /\ pc[u] = "complete"
  /\ CompleteRow(u)
  /\ Goto(u, "install")
  /\ UNCHANGED <<remoteBad, expired, disk, req, matched, known, downloads, slots, phase>>

\* WHERE media_length IS NULL decides who wins.
CompleteLocalMedia(u) ==
  /\ pc[u] = "complete"
  /\ \/ /\ Pending(req[u].id)
        /\ CompleteRow(u)
        /\ \/ Goto(u, "install") /\ UNCHANGED <<temp, old>>
           \/ "lostReply" \in Faults /\ Answer(u, "failed") /\ RemoveTemp(u)
        /\ UNCHANGED <<remoteBad, expired, file, req, matched, known, downloads, slots, phase>>
     \/ ~Pending(req[u].id) /\ Discard(u, "conflict")
     \/ "db" \in Faults /\ Discard(u, "failed")

RespondUploaded(u) ==
  /\ pc[u] = "answer"
  /\ Answer(u, "ok")
  /\ UNCHANGED <<db, disk, req, matched, known, downloads, slots, phase>>

------------------------------------------------------------------------------
\* Downloads.

BeginRead(r) ==
  /\ phase # "down" /\ rd[r].pc = "idle"
  /\ \E m \in MediaIDs :
       /\ rd' = [rd EXCEPT ![r] = NewRead(m, "resolve")]
       /\ warned' = IF Quarantined(m) THEN warned \cup {r} ELSE warned
  /\ UNCHANGED <<db, disk, uploads, slots, phase>>

Finish(r, code) == rd' = [rd EXCEPT ![r].pc = "done", ![r].reply = code]

\* The handler goes on with the row it has just read.
OpenWith(r, m) == rd' = [rd EXCEPT ![r].pc = "open", ![r].snap = row[m].content]

BugResolveLocalMedia(r) ==              \* quarantined_by is not looked at
  /\ rd[r].pc = "resolve"
  /\ LET m == rd[r].id IN
     \/ ~Exists(m) /\ Finish(r, "notFound")
     \/ Pending(m) /\ rd' = [rd EXCEPT ![r].pc = "await"]
     \/ Completed(m) /\ OpenWith(r, m)
  /\ UNCHANGED <<db, disk, uploads, warned, slots, phase>>

ResolveLocalMedia(r) ==
  /\ rd[r].pc = "resolve"
  /\ LET m == rd[r].id IN
     \/ (~Exists(m) \/ Quarantined(m)) /\ Finish(r, "notFound")
     \/ Pending(m) /\ ~Quarantined(m) /\ rd' = [rd EXCEPT ![r].pc = "await"]
     \/ Completed(m) /\ ~Quarantined(m) /\ OpenWith(r, m)
     \/ "db" \in Faults /\ Finish(r, "failed")
  /\ UNCHANGED <<db, disk, uploads, warned, slots, phase>>

\* awaitUpload's ticker, on the tick that finds the upload complete.
AwaitUpload(r) ==
  /\ rd[r].pc = "await" /\ Completed(rd[r].id)
  /\ OpenWith(r, rd[r].id)
  /\ UNCHANGED <<db, disk, uploads, warned, slots, phase>>

BugAwaitGivesUp(r) ==                   \* no deadline: only a vanished row ends it
  /\ rd[r].pc = "await" /\ ~Exists(rd[r].id)
  /\ Finish(r, "notYet")
  /\ UNCHANGED <<db, disk, uploads, warned, slots, phase>>

\* awaitUpload's other exits: the deadline, a failed read, a client that left.
AwaitGivesUp(r) ==
  /\ rd[r].pc = "await"
  /\ Finish(r, "notYet")
  /\ UNCHANGED <<db, disk, uploads, warned, slots, phase>>

ServeFile(r) ==
  /\ rd[r].pc = "open"
  /\ \/ file[rd[r].id] = None /\ Finish(r, "notFound")
     \/ /\ file[rd[r].id] # None
        /\ rd' = [rd EXCEPT ![r].pc = "done", ![r].reply = "served",
                            ![r].bytes = file[rd[r].id]]
  /\ UNCHANGED <<db, disk, uploads, warned, slots, phase>>

------------------------------------------------------------------------------
\* The process.

\* Every request in progress is lost; its temporary file stays.
Crash ==
  /\ "crash" \in Faults /\ phase # "down"
  /\ phase' = "down"
  /\ slots' = 0
  /\ pc' = [u \in Uploads |-> IF Active(u) THEN "lost" ELSE pc[u]]
  /\ rd' = [r \in Readers |-> IF rd[r].pc \in {"resolve", "await", "open"}
                              THEN [rd[r] EXCEPT !.pc = "lost"] ELSE rd[r]]
  /\ UNCHANGED <<db, disk, req, reply, matched, known, warned>>

Restart ==
  /\ phase = "down"
  /\ phase' = "starting"
  /\ UNCHANGED <<db, disk, uploads, downloads, slots>>

BugSweepStaleTempFiles ==               \* no look at the age
  /\ phase = "starting"
  /\ phase' = "serving"
  /\ temp' = [u \in Uploads |-> "none"]
  /\ old' = {}
  /\ UNCHANGED <<db, file, uploads, downloads, slots>>

\* sweepStaleTempFiles runs once, after the listener accepts requests.
SweepStaleTempFiles ==
  /\ phase = "starting"
  /\ phase' = "serving"
  /\ temp' = [u \in Uploads |-> IF u \in old THEN "none" ELSE temp[u]]
  /\ old' = {}
  /\ UNCHANGED <<db, file, uploads, downloads, slots>>

------------------------------------------------------------------------------
\* The environment.

\* An hour passes.  The sweep lists a few directories: it does not last an hour.
HourPasses ==
  /\ phase # "starting"
  /\ old # {u \in Uploads : temp[u] # "none"}
  /\ old' = {u \in Uploads : temp[u] # "none"}
  /\ UNCHANGED <<db, file, temp, uploads, downloads, slots, phase>>

\* unused_expiration_time passes for a reserved ID.
Expire(m) ==
  /\ Pending(m) /\ m \notin expired
  /\ expired' = expired \cup {m}
  /\ UNCHANGED <<row, remoteBad, disk, uploads, downloads, slots, phase>>

Flag(ids) ==
  row' = [m \in MediaIDs |-> IF m \in ids /\ ~Quarantined(m)
                             THEN [row[m] EXCEPT !.by = "admin"] ELSE row[m]]

\* Synapse's quarantine API: by hash across both tables once there is content.
QuarantineLocal(m) ==
  /\ Exists(m) /\ ~Quarantined(m)
  /\ Flag({m} \cup {i \in MediaIDs : Completed(m) /\ row[i].content = row[m].content})
  /\ UNCHANGED <<remoteBad, expired, disk, uploads, downloads, slots, phase>>

QuarantineRemote(c) ==
  /\ c \notin remoteBad
  /\ remoteBad' = remoteBad \cup {c}
  /\ Flag({m \in MediaIDs : row[m].content = c})
  /\ UNCHANGED <<expired, disk, uploads, downloads, slots, phase>>

------------------------------------------------------------------------------
Begin(u) == BeginUpload(u) \/ BeginCreate(u) \/ BeginAsync(u)

\* The steps of a handler that need nothing but the machine to go on.
UploadStep(u) ==
  \/ CountPending(u) \/ ReserveID(u) \/ LookupMedia(u)
  \/ AcquireSlot(u) \/ StoreBody(u) \/ StoreFails(u)
  \/ CheckQuarantine(u) \/ CheckLimits(u)
  \/ Install(u) \/ StoreLocalMedia(u) \/ UnlinkFile(u) \/ CompleteLocalMedia(u)
  \/ RespondUploaded(u)

ReadStep(r) == ResolveLocalMedia(r) \/ AwaitUpload(r) \/ AwaitGivesUp(r) \/ ServeFile(r)

Process == Crash \/ Restart \/ SweepStaleTempFiles

Environment ==
  \/ HourPasses
  \/ \E m \in MediaIDs : Expire(m) \/ QuarantineLocal(m)
  \/ \E c \in Contents : QuarantineRemote(c)

Next ==
  \/ \E u \in Uploads : Begin(u) \/ UploadStep(u) \/ CancelWait(u)
  \/ \E r \in Readers : BeginRead(r) \/ ReadStep(r)
  \/ Process
  \/ Environment

Spec == Init /\ [][Next]_vars

\* A handler goes on by itself: its database calls return, it queues for a slot
\* in a Go channel, and a body arrives or its connection fails.  awaitUpload has
\* a deadline.  Clients, administrators, crashes and restarts owe nothing.
Fairness ==
  /\ \A u \in Uploads : WF_vars(UploadStep(u))
  /\ \A r \in Readers : WF_vars(ReadStep(r))

FairSpec == Spec /\ Fairness

------------------------------------------------------------------------------
\* Properties.

\* The file at a completed row's final path holds the bytes the row describes
\* (its sha256 and length), whoever raced for the ID.  upload.go:370-382, 265-290.
FileMatchesRow ==
  \A m \in MediaIDs : Completed(m) /\ file[m] # None => file[m] = row[m].content

\* An upload answered 200 has its own bytes recorded and on disk, ever after, and
\* no other upload was answered 200 for that ID.  upload.go:141-142, 297-298.
AckedIsServable ==
  \A u \in Uploads : Acked(u) =>
    /\ row[req[u].id].content = req[u].body
    /\ file[req[u].id] = req[u].body
    /\ \A v \in Uploads \ {u} : Acked(v) => req[v].id # req[u].id

\* A file without a completed row is an upload on its way from the rename to the
\* insert, or on the way back.  Only a crash between the two leaves one behind.
\* README.md:313-315, upload.go:121-139.
NoOrphanFile ==
  \A m \in MediaIDs : file[m] # None /\ ~Completed(m) =>
    \E u \in Uploads : /\ req[u].kind = "sync" /\ req[u].id = m
                       /\ pc[u] \in {"insert", "unlink", "lost"}

\* A completed row without its file belongs to the one asynchronous upload that
\* won it and is about to rename, crashed there, or failed to rename: a loser
\* never takes the winner's file away.  upload.go:265-294.
DanglingRowHasOwner ==
  \A m \in MediaIDs : Completed(m) /\ file[m] = None =>
    \E u \in Uploads : /\ req[u].kind = "async" /\ req[u].id = m
                       /\ req[u].body = row[m].content
                       /\ \/ pc[u] \in {"install", "lost"}
                          \/ reply[u] = "notInstalled"

\* A temporary file is there exactly while its request needs it: no failure path
\* leaves one, only a crash does, and the sweep takes none of a request in
\* progress, so commit finds it.  upload.go:404-479, main.go:589-593.
TempFollowsRequest ==
  \A u \in Uploads :
    /\ temp[u] # "none" =>
         pc[u] \in {"write", "quarantine", "limits", "complete", "install", "lost"}
    /\ pc[u] = "write" => temp[u] = "partial"
    /\ pc[u] \in {"quarantine", "limits", "complete", "install"} => temp[u] = "complete"

\* Slots are held exactly while a body is being written, never beyond the bound,
\* and every exit of store gives its slot back.  upload.go:420-426.
SlotsAccounted ==
  /\ slots = Cardinality({u \in Uploads : pc[u] = "write"})
  /\ slots <= UploadSlots

\* A download that arrived after the row was quarantined is not served.
\* handlers.go:564-592.
QuarantinedIsRefused ==
  \A r \in Readers : rd[r].reply = "served" => r \notin warned

\* What a download was served is what the row it read described.
\* handlers.go:94-140.
ServedMatchesRow ==
  \A r \in Readers : rd[r].reply = "served" => rd[r].bytes = rd[r].snap

\* Once a row is quarantined no step of the worker clears it, the completion of
\* a reserved ID quarantined meanwhile included.  db.go:451-456.
QuarantineSticks ==
  [][\A m \in MediaIDs : Quarantined(m) => Quarantined(m)']_vars

\* Every upload that begins is answered, unless the process dies first.
UploadAnswered ==
  \A u \in Uploads : Active(u) ~> pc[u] \in {"done", "lost"}

\* Every download is answered, a wait for a pending upload included.
ReadAnswered ==
  \A r \in Readers : rd[r].pc = "resolve" ~> rd[r].pc \in {"done", "lost"}

------------------------------------------------------------------------------
\* What the uploads promise together, seen from Synapse and from clients: a
\* write-once register per media ID.  A media ID holds a content once both its
\* row and its file do, and a 200 acknowledges that content.

Servable == [m \in MediaIDs |-> IF file[m] # None THEN row[m].content ELSE None]
AckedMedia == {<<req[u].id, req[u].body>> : u \in {v \in Uploads : Acked(v)}}

Register == INSTANCE WriteOnceRegister WITH
  Keys <- MediaIDs, Values <- Contents, Absent <- None,
  stored <- Servable, acked <- AckedMedia

\* The two upload paths implement the register.  upload.go:89-144, 197-299.
ImplementsRegister == Register!Spec

------------------------------------------------------------------------------
\* What comments and documentation say, and the code does not keep to.

\* README.md:337-339: content that matches something quarantined is stored with
\* quarantined_by = 'system' so it will not be served.
HashQuarantinedNotServed ==
  \A r \in Readers, u \in Uploads :
    rd[r].reply = "served" /\ Recorded(u) /\ u \in matched => req[u].id # rd[r].id

\* README.md:313-315: no failure leaves a file without its row.
NoFailureLeavesFile ==
  \A m \in MediaIDs : file[m] # None /\ ~Completed(m) =>
    \E u \in Uploads : req[u].id = m /\ Active(u)

\* upload.go:156-157: 429 once a user holds too many un-uploaded media IDs.
PendingWithinLimit ==
  MaxPending > 0 => \A user \in Users : CountPendingMedia(user) <= MaxPending

\* README.md:345-348: per-user upload limits are applied to every upload.
QuotaEnforced == \A user \in Users : UploadedSizeForUser(user) <= Quota
==============================================================================
