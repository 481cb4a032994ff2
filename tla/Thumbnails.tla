------------------------------ MODULE Thumbnails ------------------------------
(***************************************************************************)
(* One thumbnail (a size, a method and a type) of one media: the handlers  *)
(* of handlers.go:267-464, the generator of thumbnail.go, the              *)
(* write-through of store.go and the upload-time thumbnails of upload.go,  *)
(* against the rows and files shared with Synapse and other processes.     *)
(*                                                                         *)
(* The media is remote or local.  A remote one has a filesystem_id, new    *)
(* with every fetch, under which its thumbnail lies; it may be purged and  *)
(* fetched again, and a thumbnail of it is written through to the shared   *)
(* store.  A local one keeps its media ID: its thumbnail is written by     *)
(* upload-time jobs only, and the one a request generates goes to the      *)
(* cache directory of its process.                                         *)
(*                                                                         *)
(* A thumbnail's bytes stand for their length: the two encoders write      *)
(* different ones.  An operator named Bug... is a slip next to what it     *)
(* alters, and no action uses one.                                         *)
(***************************************************************************)
EXTENDS Integers, FiniteSets

CONSTANTS
  Workers,       \* processes of this program on one media store
  Requests,      \* thumbnail requests, each made once
  Jobs,          \* generateUploadThumbnails of this media, one per upload
  Kinds,         \* which of {"remote", "local"} the media may be
  MaxFetches,    \* how often the media is fetched at most
  Slots,         \* media.max_concurrent_thumbnails, in each process
  WriteThrough,  \* media.write_through_thumbnails
  Faults,        \* which of AllFaults the environment has
  None

AllFaults == {"db",        \* a database call fails and has no effect
              "lostReply", \* an upsert is applied and reported as failed
              "disk",      \* creating or renaming a file fails
              "image",     \* the source cannot be decoded, or is too large
              "origin",    \* a fetch fails
              "leave",     \* a client hangs up
              "crash",     \* a process is killed
              "purge"}     \* Synapse's purge_media_cache

Ids == 1..MaxFetches       \* filesystem_ids, in the order they are made
Lengths == {"worker", "synapse"}
Actors == Requests \cup Jobs

ASSUME ThumbnailsAssumption ==
  /\ MaxFetches \in Nat \ {0} /\ Slots \in Nat \ {0}
  /\ WriteThrough \in BOOLEAN /\ Kinds \subseteq {"remote", "local"}
  /\ Faults \subseteq AllFaults
  /\ Requests \cap Jobs = {}
  /\ None \notin Workers \cup Actors /\ None \notin Ids /\ None \notin Lengths

VARIABLES
  kind,     \* whose media it is
  media,    \* its row: filesystem_id, or None, and quarantined_by
  fetched,  \* how many filesystem_ids have been made
  source,   \* the IDs whose original is on disk
  row,      \* the thumbnail's row
  file,     \* the thumbnail's file, by filesystem_id
  purging,  \* Synapse has removed the files and not yet the rows
  theirs,   \* the ID under which Synapse has written a file and no row yet
  cache,    \* the processes whose cache directory has the thumbnail
  flight,   \* the leader of the generation in progress, by process
  slots,    \* tokens in Thumbnailer.slots, by process
  at,       \* the process of a request or a job
  leader,   \* the request whose generation it waits for
  snap,     \* the filesystem_id of the media row it goes on with
  found,    \* the filesystem_id of the thumbnail row it found
  size,     \* the length of the thumbnail it has put in place
  pc,       \* its next step
  result,   \* what its generation returns, as a leader or a follower of one
  reply,    \* its answer
  gone,     \* the requests whose client has left
  made      \* history: the requests that generated the thumbnail

store == <<media, fetched, source, row, file, purging, theirs>>
process == <<cache, flight, slots>>
local == <<at, leader, snap, found, size, gone>>
vars == <<kind, store, process, local, made, pc, result, reply>>

------------------------------------------------------------------------------
NoRow == [fs |-> None, len |-> None]
NoMedia == [fs |-> None, bad |-> FALSE]
Exists == media.fs # None

Bytes == {"stored", "cached", "generated"}      \* answers that are a thumbnail
Replies == Bytes \cup {"none", "notFound", "proxied", "error"}
CallSteps == {"recheck", "acquire", "generate", "create", "install", "stat", "upsert",
              "put", "return"}
ActiveSteps == CallSteps \cup {"media", "thumbs", "stored", "cache", "join", "wait", "respond"}
Active(a) == pc[a] \in ActiveSteps
InCall(a) == pc[a] \in CallSteps
CallFails(a) == "db" \in Faults \/ a \in gone

TypeOK ==
  /\ kind \in Kinds
  /\ media \in [fs : Ids \cup {None}, bad : BOOLEAN]
  /\ fetched \in 0..MaxFetches
  /\ source \subseteq Ids
  /\ row \in [fs : Ids \cup {None}, len : Lengths \cup {None}]
  /\ file \in [Ids -> Lengths \cup {None}]
  /\ purging \in BOOLEAN
  /\ theirs \in Ids \cup {None}
  /\ cache \subseteq Workers
  /\ flight \in [Workers -> Requests \cup {None}]
  /\ slots \in [Workers -> Int]
  /\ at \in [Actors -> Workers \cup {None}]
  /\ leader \in [Requests -> Requests \cup {None}]
  /\ snap \in [Actors -> Ids \cup {None}]
  /\ found \in [Requests -> Ids \cup {None}]
  /\ size \in [Actors -> Lengths \cup {None}]
  /\ pc \in [Actors -> ActiveSteps \cup {"idle", "done", "lost"}]
  /\ result \in [Requests -> {"none", "bytes", "error"}]
  /\ reply \in [Requests -> Replies]
  /\ gone \subseteq Requests
  /\ made \subseteq Requests

\* The media is there, as an upload or a fetch has left it, or is yet to be fetched.
Init ==
  /\ kind \in Kinds
  /\ fetched \in IF kind = "local" THEN {1} ELSE {0, 1}
  /\ media = IF fetched = 0 THEN NoMedia ELSE [fs |-> 1, bad |-> FALSE]
  /\ source = 1..fetched
  /\ row = NoRow
  /\ file = [i \in Ids |-> None]
  /\ purging = FALSE
  /\ theirs = None
  /\ cache = {}
  /\ flight = [w \in Workers |-> None]
  /\ slots = [w \in Workers |-> 0]
  /\ at = [a \in Actors |-> None]
  /\ leader = [r \in Requests |-> None]
  /\ snap = [a \in Actors |-> None]
  /\ found = [r \in Requests |-> None]
  /\ size = [a \in Actors |-> None]
  /\ pc = [a \in Actors |-> "idle"]
  /\ result = [r \in Requests |-> "none"]
  /\ reply = [r \in Requests |-> "none"]
  /\ gone = {}
  /\ made = {}

Goto(a, step) == pc' = [pc EXCEPT ![a] = step] /\ UNCHANGED <<result, reply>>

Answer(r, code) ==
  /\ pc' = [pc EXCEPT ![r] = "done"]
  /\ reply' = [reply EXCEPT ![r] = code]
  /\ UNCHANGED result

\* The function given to generating.Do returns.
Return(r, value) ==
  /\ pc' = [pc EXCEPT ![r] = "return"]
  /\ result' = [result EXCEPT ![r] = value]
  /\ UNCHANGED reply

------------------------------------------------------------------------------
\* The handlers, up to the worker's own thumbnails.

Arrive(r) ==
  /\ pc[r] = "idle"
  /\ \E w \in Workers : at' = [at EXCEPT ![r] = w]
  /\ Goto(r, "media")
  /\ UNCHANGED <<kind, made, store, process, leader, snap, found, size, gone>>

\* Quarantined media has no thumbnails; for a row that passes the handler goes on.
Gate(r) ==
  \/ media.bad /\ Answer(r, "notFound") /\ UNCHANGED snap
  \/ ~media.bad /\ snap' = [snap EXCEPT ![r] = media.fs] /\ Goto(r, "thumbs")

NewMedia ==
  /\ fetched < MaxFetches
  /\ fetched' = fetched + 1
  /\ media' = [fs |-> fetched', bad |-> FALSE]
  /\ source' = source \cup {fetched'}

\* GetRemoteMedia or GetLocalMedia.
LookupMedia(r) ==
  /\ pc[r] = "media"
  /\ \/ r \notin gone /\ Exists /\ Gate(r)
     \/ CallFails(r) /\ Answer(r, "error") /\ UNCHANGED snap
  /\ UNCHANGED <<kind, made, store, process, at, leader, found, size, gone>>

\* There is no row: fetchRemote makes one (RemoteMedia has its steps) or answers.
FetchMedia(r) ==
  /\ pc[r] = "media" /\ r \notin gone /\ ~Exists
  /\ \/ NewMedia /\ snap' = [snap EXCEPT ![r] = fetched'] /\ Goto(r, "thumbs")
     \/ /\ "origin" \in Faults \/ fetched = MaxFetches
        /\ Answer(r, "proxied")
        /\ UNCHANGED <<media, fetched, source, snap>>
  /\ UNCHANGED <<kind, made, row, file, purging, theirs, process, at, leader, found, size, gone>>

\* GetRemoteThumbnails or GetLocalThumbnails, and FindExact.
LookupThumbnails(r) ==
  /\ pc[r] = "thumbs"
  /\ \/ /\ r \notin gone
        /\ found' = [found EXCEPT ![r] = row.fs]
        /\ Goto(r, IF row = NoRow THEN "cache" ELSE "stored")
     \/ CallFails(r) /\ Answer(r, "error") /\ UNCHANGED found
  /\ UNCHANGED <<kind, made, store, process, at, leader, snap, size, gone>>

\* A file under the row's filesystem_id, by its current or its legacy name.
OpenStored(r) ==
  /\ pc[r] = "stored"
  /\ \/ file[found[r]] # None /\ Answer(r, "stored")
     \/ file[found[r]] = None /\ Goto(r, "cache")
  /\ found' = [found EXCEPT ![r] = None]
  /\ UNCHANGED <<kind, made, store, process, at, leader, snap, size, gone>>

\* serveGeneratedThumbnail: the worker's cache, then CanGenerate.
OpenCached(r) ==
  /\ pc[r] = "cache"
  /\ \/ at[r] \in cache /\ Answer(r, "cached")
     \/ at[r] \notin cache /\ Goto(r, "join")
     \/ at[r] \notin cache /\ "image" \in Faults /\ Answer(r, "proxied")
  /\ UNCHANGED <<kind, made, store, process, local>>

------------------------------------------------------------------------------
\* Generation, shared by the requests of one process.

\* generating.Do: lead, or wait for the generation in progress.
Join(r) ==
  /\ pc[r] = "join"
  /\ LET current == flight[at[r]] IN
     \/ /\ current = None
        /\ leader' = [leader EXCEPT ![r] = r]
        /\ flight' = [flight EXCEPT ![at[r]] = r]
        /\ Goto(r, "recheck")
     \/ /\ current # None
        /\ leader' = [leader EXCEPT ![r] = current]
        /\ Goto(r, "wait")
        /\ UNCHANGED flight
  /\ UNCHANGED <<kind, made, store, cache, slots, at, snap, found, size, gone>>

BugRecheck(r) ==                          \* no second look at the cache
  /\ pc[r] = "recheck"
  /\ Goto(r, "acquire")
  /\ UNCHANGED <<kind, made, store, process, local>>

\* Another request may have finished generating while this one waited.
Recheck(r) ==
  /\ pc[r] = "recheck"
  /\ \/ at[r] \in cache /\ Return(r, "bytes")
     \/ at[r] \notin cache /\ Goto(r, "acquire")
  /\ UNCHANGED <<kind, made, store, process, local>>

\* What a failure is to the one that meets it: an error to a request, and to a
\* job one thumbnail less.
GiveUp(a) ==
  \/ a \in Requests /\ Return(a, "error")
  \/ a \in Jobs /\ Goto(a, "done")

\* Thumbnailer.acquire.
AcquireSlot(a) ==
  /\ pc[a] = "acquire"
  /\ \/ /\ slots[at[a]] < Slots
        /\ slots' = [slots EXCEPT ![at[a]] = @ + 1]
        /\ Goto(a, "generate")
     \/ a \in gone /\ GiveUp(a) /\ UNCHANGED slots
  /\ UNCHANGED <<kind, made, store, cache, flight, local>>

\* Where a generated thumbnail goes.
WritesThrough(a) == a \in Jobs \/ (kind = "remote" /\ WriteThrough)
Destination(a) == IF WritesThrough(a) THEN "create" ELSE "put"

Generated(a) ==
  /\ snap[a] \in source
  /\ made' = made \cup ({a} \cap Requests)
  /\ Goto(a, Destination(a))

GenerateFails(a) ==
  /\ \/ snap[a] \notin source             \* os.ErrNotExist: Synapse must recover it
     \/ "image" \in Faults                \* it does not decode, or has too many pixels
  /\ GiveUp(a)
  /\ UNCHANGED made

BugGenerate(a) ==                         \* an error keeps its slot
  /\ pc[a] = "generate"
  /\ \/ Generated(a) /\ slots' = [slots EXCEPT ![at[a]] = @ - 1]
     \/ GenerateFails(a) /\ UNCHANGED slots
  /\ UNCHANGED <<kind, store, cache, flight, local>>

\* Reading, decoding, resizing and encoding, with the slot held throughout.
Generate(a) ==
  /\ pc[a] = "generate"
  /\ Generated(a) \/ GenerateFails(a)
  /\ slots' = [slots EXCEPT ![at[a]] = @ - 1]
  /\ UNCHANGED <<kind, store, cache, flight, local>>

------------------------------------------------------------------------------
\* WriteThroughRemoteThumbnail, and the second half of generateUploadThumbnails.

\* A thumbnail that could not be stored goes to the cache, or is let go.
NotStored(a) == Goto(a, IF a \in Requests THEN "put" ELSE "done")
Stored(a) ==
  \/ a \in Requests /\ Return(a, "bytes")
  \/ a \in Jobs /\ Goto(a, "done")

\* The file in .tmp: written, synced, closed and made readable, or removed.
CreateTemp(a) ==
  /\ pc[a] = "create"
  /\ \/ Goto(a, "install")
     \/ "disk" \in Faults /\ NotStored(a)
  /\ UNCHANGED <<kind, made, store, process, local>>

BugInstall(a) ==                          \* the rename's error is dropped
  /\ pc[a] = "install"
  /\ file' = [file EXCEPT ![snap[a]] = "worker"] \/ ("disk" \in Faults /\ UNCHANGED file)
  /\ Goto(a, "stat")
  /\ UNCHANGED <<kind, made, media, fetched, source, row, purging, theirs, process, local>>

Install(a) ==
  /\ pc[a] = "install"
  /\ \/ file' = [file EXCEPT ![snap[a]] = "worker"] /\ Goto(a, "stat")
     \/ "disk" \in Faults /\ NotStored(a) /\ UNCHANGED file
  /\ UNCHANGED <<kind, made, media, fetched, source, row, purging, theirs, process, local>>

\* The length is that of the file there is; a job has its buffer's to go on with.
Stat(a) ==
  /\ pc[a] = "stat"
  /\ \/ /\ file[snap[a]] # None
        /\ size' = [size EXCEPT ![a] = file[snap[a]]]
        /\ Goto(a, "upsert")
     \/ /\ file[snap[a]] = None /\ a \in Jobs
        /\ size' = [size EXCEPT ![a] = "worker"]
        /\ Goto(a, "upsert")
     \/ file[snap[a]] = None /\ a \in Requests /\ NotStored(a) /\ UNCHANGED size
  /\ UNCHANGED <<kind, made, store, process, at, leader, snap, found, gone>>

\* storeRemoteThumbnailQuery: a row that is there changes its length only.
Upsert(fs, len) ==
  row' = IF row = NoRow THEN [fs |-> fs, len |-> len] ELSE [row EXCEPT !.len = len]

StoreThumbnail(a) ==
  /\ pc[a] = "upsert"
  /\ \/ /\ a \notin gone
        /\ Upsert(snap[a], size[a])
        /\ Stored(a) \/ ("lostReply" \in Faults /\ NotStored(a))
     \/ CallFails(a) /\ NotStored(a) /\ UNCHANGED row
  /\ size' = [size EXCEPT ![a] = None]
  /\ UNCHANGED <<kind, made, media, fetched, source, file, purging, theirs, process, at, leader, snap, found, gone>>

BugPut(r) ==                              \* a full disk fails the request
  /\ pc[r] = "put"
  /\ \/ cache' = cache \cup {at[r]} /\ Return(r, "bytes")
     \/ "disk" \in Faults /\ UNCHANGED cache /\ Return(r, "error")
  /\ UNCHANGED <<kind, made, store, flight, slots, local>>

\* ThumbnailCache.Put: being unable to cache is not a reason to fail the request.
Put(r) ==
  /\ pc[r] = "put"
  /\ cache' = cache \cup {at[r]} \/ ("disk" \in Faults /\ UNCHANGED cache)
  /\ Return(r, "bytes")
  /\ UNCHANGED <<kind, made, store, flight, slots, local>>

\* The group forgets the call, and everyone in it has what it returned.
Release(r) ==
  /\ pc[r] = "return"
  /\ flight' = [flight EXCEPT ![at[r]] = None]
  /\ LET told == {q \in Requests : q = r \/ (pc[q] = "wait" /\ leader[q] = r)} IN
     /\ pc' = [a \in Actors |-> IF a \in told THEN "respond" ELSE pc[a]]
     /\ result' = [q \in Requests |-> IF q \in told THEN result[r] ELSE result[q]]
  /\ UNCHANGED <<kind, made, store, cache, slots, local, reply>>

Respond(r) ==
  /\ pc[r] = "respond"
  /\ Answer(r, IF result[r] = "bytes" THEN "generated" ELSE "proxied")
  /\ UNCHANGED <<kind, made, store, process, local>>

\* maybeThumbnail: a job of a process starts once the upload's file is there.
StartJob(j) ==
  /\ pc[j] = "idle" /\ kind = "local"
  /\ \E w \in Workers : at' = [at EXCEPT ![j] = w]
  /\ snap' = [snap EXCEPT ![j] = media.fs]
  /\ Goto(j, "acquire")
  /\ UNCHANGED <<kind, made, store, process, leader, found, size, gone>>

------------------------------------------------------------------------------
\* The environment.

\* A client hangs up; from "wait" or "put" on its context is not looked at any more.
ClientLeaves(r) ==
  /\ "leave" \in Faults /\ Active(r) /\ r \notin gone
  /\ pc[r] \notin {"wait", "put", "return", "respond"}
  /\ gone' = gone \cup {r}
  /\ UNCHANGED <<kind, made, store, process, at, leader, snap, found, size, pc, result, reply>>

\* The process dies and is started again.
Crash(w) ==
  /\ "crash" \in Faults
  /\ \E a \in Actors : at[a] = w /\ Active(a)
  /\ flight' = [flight EXCEPT ![w] = None]
  /\ slots' = [slots EXCEPT ![w] = 0]
  /\ pc' = [a \in Actors |-> IF at[a] = w /\ Active(a) THEN "lost" ELSE pc[a]]
  /\ UNCHANGED <<kind, made, store, cache, local, result, reply>>

\* The janitor takes the thumbnail; ThumbnailCache says when.
Evict(w) ==
  /\ w \in cache
  /\ cache' = cache \ {w}
  /\ UNCHANGED <<kind, made, store, flight, slots, local, pc, result, reply>>

Others == <<kind, made, process, local, pc, result, reply>>

\* Synapse generates the thumbnail too: its file, then its row.
SynapseWrites ==
  /\ theirs = None /\ media.fs \in source
  /\ file' = [file EXCEPT ![media.fs] = "synapse"]
  /\ theirs' = media.fs
  /\ UNCHANGED <<Others, media, fetched, source, row, purging>>

SynapseRecords ==
  /\ theirs # None
  /\ Upsert(theirs, "synapse")
  /\ theirs' = None
  /\ UNCHANGED <<Others, media, fetched, source, file, purging>>

\* Another request of this program, or Synapse, fetches the media again.
Fetch ==
  /\ ~Exists /\ NewMedia
  /\ UNCHANGED <<Others, row, file, purging, theirs>>

Quarantine ==
  /\ Exists /\ ~media.bad
  /\ media' = [media EXCEPT !.bad = TRUE]
  /\ UNCHANGED <<Others, fetched, source, row, file, purging, theirs>>

\* purge_media_cache removes the original and its thumbnails, then their rows.
PurgeFiles ==
  /\ "purge" \in Faults /\ kind = "remote" /\ Exists /\ ~purging
  /\ source' = source \ {media.fs}
  /\ file' = [file EXCEPT ![media.fs] = None]
  /\ purging' = TRUE
  /\ UNCHANGED <<Others, media, fetched, row, theirs>>

PurgeRows ==
  /\ purging
  /\ media' = NoMedia
  /\ row' = NoRow
  /\ purging' = FALSE
  /\ UNCHANGED <<Others, fetched, source, file, theirs>>

------------------------------------------------------------------------------
ActorStep(a) ==
  AcquireSlot(a) \/ Generate(a) \/ CreateTemp(a) \/ Install(a) \/ Stat(a) \/ StoreThumbnail(a)

RequestStep(r) ==
  \/ LookupMedia(r) \/ FetchMedia(r) \/ LookupThumbnails(r) \/ OpenStored(r) \/ OpenCached(r)
  \/ Join(r) \/ Recheck(r) \/ ActorStep(r) \/ Put(r) \/ Release(r) \/ Respond(r)

Environment ==
  \/ \E w \in Workers : Crash(w) \/ Evict(w)
  \/ SynapseWrites \/ SynapseRecords \/ Fetch \/ Quarantine \/ PurgeFiles \/ PurgeRows

Next ==
  \/ \E r \in Requests : Arrive(r) \/ RequestStep(r) \/ ClientLeaves(r)
  \/ \E j \in Jobs : StartJob(j) \/ ActorStep(j)
  \/ Environment

Spec == Init /\ [][Next]_vars

\* Database calls return, an image is decoded in a while, a slot is queued for in
\* a Go channel, and the group wakes its waiters.  Nothing else is owed.
FairSpec ==
  /\ Spec
  /\ \A r \in Requests : WF_vars(RequestStep(r))
  /\ \A j \in Jobs : WF_vars(ActorStep(j))

------------------------------------------------------------------------------
\* Properties.

\* A thumbnail row of the media's current filesystem_id has its file, whoever wrote
\* it and whatever failed: a file lands before its row, and a purge takes both.
\* store.go:227-253.
RowHasFile ==
  row # NoRow /\ row.fs = media.fs /\ ~purging => file[row.fs] # None

\* One process generates a thumbnail for one request at a time, and never one that
\* its cache holds: a latecomer to the call looks again.  handlers.go:396-412.
GeneratesOnce ==
  \A r \in Requests :
    InCall(r) => /\ flight[at[r]] = r
                 /\ pc[r] \in CallSteps \ {"recheck", "return"} => at[r] \notin cache

\* A thumbnail that was made is an answer to all that wait for it, whether or not it
\* could be stored anywhere.  handlers.go:432-438.
MadeIsServed ==
  \A r \in Requests : pc[r] = "done" /\ leader[r] \in made => reply[r] = "generated"

\* Every request is answered and every upload-time job ends, whoever leads the
\* generation and whatever it fails at, unless the process dies.
Answered == \A a \in Actors : Active(a) ~> pc[a] \in {"done", "lost"}

------------------------------------------------------------------------------
\* What documents say, and the code does not keep to.

AtRest == theirs = None /\ ~purging /\ \A a \in Actors : pc[a] \notin {"stat", "upsert"}

\* store.go:232-235: the row describes whatever is actually there.
LengthIsTheFiles ==
  AtRest /\ row # NoRow /\ row.fs = media.fs => row.len = file[row.fs]

\* README.md:295-298: the row's filesystem_id is that of remote_media_cache, where
\* Synapse looks for the file.
RowFollowsMedia == AtRest /\ row # NoRow /\ Exists => row.fs = media.fs
==============================================================================
