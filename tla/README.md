# A verification development of synapse-media-worker

synapse-media-worker is a Go program that answers Matrix media requests in
place of Synapse, on Synapse's own PostgreSQL database and media directory.
Several of its processes may share both with each other and with Synapse; none
of them coordinates with another except through a table row, a file's name and
what SQL and `rename(2)` promise. This directory holds TLA+ specifications of
that program, TLC configurations that check them on small instances, and TLAPS
proofs that hold for every instance.

Every definition is translated from the Go source; `PROJECT.json` gives, for each
one, the file and the lines it stands for. All paths below are under `src/`.

Contents

1. [The system and its parts](#1-the-system-and-its-parts)
2. [The plan](#2-the-plan)
3. [The modules](#3-the-modules)
4. [The runs](#4-the-runs)
5. [Bounds](#5-bounds)
6. [Fairness](#6-fairness)
7. [What is proved](#7-what-is-proved)
8. [Where the code and its documents part](#8-where-the-code-and-its-documents-part)
9. [Assumptions, and what is left out](#9-assumptions-and-what-is-left-out)

## 1. The system and its parts

```
   clients, other homeservers
        |  HTTP (a reverse proxy in front, a unix socket or TCP)
        v
   main.go routes ----------------------------------------------+
     |            |             |            |                   | anything else
   upload.go   handlers.go   thumbnails   authclient.go       proxy.go
     |            |   \          |         (whoami cache)     (upstream pool)
     |            |    \         |            |                   |
     |            |   store.go --+            +--- Synapse <------+
     |            |   fetch.go --- resolver.go --- origin homeservers
     v            v      v       v
   PostgreSQL (db.go)        media_store_path (paths.go)
     ^                           ^
     +------- Synapse and other worker processes (outside)
```

| Part | Source | State it keeps | Operations | Talks to |
|---|---|---|---|---|
| Uploads of local media | `upload.go`, `db.go:409-542` | slots channel; one temporary file per request; rows of `local_media_repository`; files of `local_content` | POST /upload, POST /create, PUT of a reserved ID | database, disk, downloads |
| Downloads of local media | `handlers.go:94-140, 564-617` | none between requests | resolve the row, wait for a pending upload, serve the file | uploads, through row and file |
| Remote media | `store.go`, `fetch.go`, `handlers.go:145-199, 644-695` | singleflight group, slots channel, temporary files; rows of `remote_media_cache`; files of `remote_content` | serve or fetch and store, once per process and media ID | origins, Synapse, other workers |
| Thumbnails | `thumbnail.go`, `handlers.go:256-464`, `store.go:193-254`, `upload.go:664-699` | thumbnail rows and files; a singleflight group; a generation limit | exact match, generation, write-through, thumbnails of an upload | both stores, Synapse as a second generator |
| Thumbnail cache | `thumbcache.go` | a directory, without an index | put, open, sweep | thumbnails |
| Upload limits | `config.go:649-690`, `upload.go:481-560`, `db.go:474-500` | none | sum a user's uploads over a window, compare | uploads, through rows |
| Start and shutdown | `main.go` | listeners; temporary directories | start-up checks, sweep, graceful stop | everything |
| Token verdicts | `authclient.go` | LRU map with a time to live; singleflight group | check a token, forget it | Synapse's whoami |
| Upstream pool | `proxy.go` | in-flight counter per backend | choose, retry, release | Synapse workers |
| Server names | `resolver.go` | cached .well-known answers, host locks | resolve, refresh, dial | origins, DNS |
| Last access | `db.go:243-311` | two maps of marks | mark, flush, flush at close | database |
| Media paths | `paths.go`, `fsid.go` | none | build a path, decide whether it may be written, and where its temporary file goes | disk |
| Configuration | `config.go`, `synapseconfig.go` | none after start | parse, validate, derive from `homeserver.yaml` | — |
| Response layout, codecs, metrics, logs | `serve.go`, `multipart.go`, `exif.go`, `webpanim.go`, `metrics.go`, `reqlog.go`, `useragent.go` | counters | — | — |

### How they interact

*Upload and download* meet in a row and a file. A row with `media_length` NULL is
a reserved ID; a download of it polls the row until it is completed or a
deadline passes (`awaitUpload`). The synchronous path writes file then row, the
asynchronous one row then file: the first because nobody can know its ID, the
second because the `UPDATE ... WHERE media_length IS NULL` is the lock that
elects one of several uploaders.

*Fetches* by several workers and Synapse meet in `INSERT ... ON CONFLICT DO
NOTHING`. The loser removes the file it installed and goes on with the
winner's row. Within a process one singleflight call per media ID runs, with
the request context of the client that came first.

*Quarantine* is written by Synapse at any time. Downloads look at it once;
uploads look up their hash before they write their row.

*Thumbnails* of remote media are written through to the store Synapse uses; those
of local media that a request needs go to a cache directory of the process, and
those made after an upload to the store. A thumbnail's row is one upsert, in
which the last writer's length wins and the first writer's `filesystem_id` stays.

*Marks of last access* are gathered in memory by every request that serves media
and sent in batches, by each worker on its own.

*The sweep* of stale temporary files runs at start in a process that is
already serving, and judges by age.

### What is hard here, and what makes each part correct

| Part | Hard because | Correct when |
|---|---|---|
| Uploads | two uploads of one ID; a crash or failed call between file and row, in both orders; replies of applied writes lost; quarantine meanwhile | the file at a path is the one its row describes; a 200 stays true; no failure leaves a file, a row or a temporary file it should not; quarantine is never lost |
| Downloads | a wait that races a completion and a deadline; a gate evaluated on a row that is read again | every request is answered; what is served is what the row describes; a quarantined row is refused |
| Remote media | several writers of one row and their files; followers that depend on a leader's client; purge and quarantine by another program | a row always has its file; filesystem_id never changes under a reader; one fetch per process; slots and temporary files are given back |
| Thumbnails | two writers of one file and one row; generation shared under one client's context; a purge in between | a row has its file; one generation per process; what was made is served; everyone is answered |
| Thumbnail cache | the janitor removes files that are being written or read, from a listing that is out of date | readers see whole files of their key; a sweep ends within its bound; least recently used goes first |
| Upload limits | rows come and go between the queries; a carried sum | skipped queries change no verdict; no upload passes that was over a limit when its check began |
| Token verdicts | a verdict shared with requests that came later; a leader that leaves | a revoked token stops working within the time to live; errors are not cached; map and list agree |
| Upstream pool | counters released by a body's Close; retry after a refused connection | counters return to zero; a request body is never sent twice |
| Server names | refresh in a grace period, negative answers, several requests for one name | an answer is never used past its expiry; a failed refresh never shortens it |
| Last access | marks made while a flush runs; a failed or late batch; close | every mark reaches its row, is still held, or was dropped with a batch or a process |
| Media paths | IDs of two formats, sharded; temporary directories among shards | two media never share a file; a temporary file is never taken for one, and is always found |

The complete list, each hazard at its line, is in `PROJECT.json` under
`hazards`, with the properties that watch it.


## 2. The plan

In the order of importance for the program's promises to its users.

| Module | Models | State |
|---|---|---|
| `WriteOnceRegister` | what a media store promises about the bytes under a key | done |
| `LocalMedia` | uploads, downloads of local media, the sweep, crashes, Synapse's quarantine | done |
| `LocalMediaInv`, `LocalMedia_proofs` | its inductive invariants and the proofs, all its safety properties and the refinement | done |
| `RemoteMedia`, `RemoteMedia_proofs` | fetch and store with a shared call, several processes, Synapse as a writer, purges | done |
| `TokenCache`, `TokenCache_proofs` | verdicts, shared whoami calls, LRU | done |
| `UpstreamPool`, `UpstreamPool_proofs` | least-connections choice and retry | done |
| `WellKnown`, `ProcessMemory_proofs` | the cached delegation of a host | done |
| `Thumbnails`, `Thumbnails_proofs` | a thumbnail's file and row under two writers, generation shared per key, the jobs after an upload | done |
| `ThumbnailCache`, `ThumbnailCache_proofs` | the cache directory and its janitor | done |
| `ThumbnailSizes`, proved in `Thumbnails_proofs` | `aspect` and `cropBox` against what the comments promise of the result | done |
| `UploadLimits`, `UploadLimits_proofs` | `evaluateUploadLimits` against the plain definition of an exceeded limit | done |
| `LastAccess`, proved in `ProcessMemory_proofs` | marks gathered in a map, flushes, a failed or late batch, `Close` | done |
| `MediaPaths`, proved in `LocalMedia_proofs` | the paths, the write guard, the place of temporary files | done |

`WriteOnceRegister` is the abstract specification of both stores: `LocalMedia` and
`RemoteMedia` instantiate it with a refinement mapping each, check it as a
property, and prove it. A specification of the same kind is possible for the two caches of answers (a
cache never answers what its source has not said within a bound), of which
`VerdictNotOverdue` and `DelegationNotOverdue` are the direct statements.

## 3. The modules

Every module has one action per step that other actors can tell apart: a
database statement, a rename, an unlink, a critical section, a receive from a
channel. Code between two of these is part of the step before or after it. An
operator named `Bug...` is a plausible slip next to the definition it alters; no
action uses one, and `PROJECT.json` names, for each property, one that breaks it.

### LocalMedia

| In the model | In the code |
|---|---|
| `row[m]` | a row of `local_media_repository`; `content = None` is `media_length IS NULL`, `by` is `quarantined_by` |
| `file[m]` | the file at the final path of the media ID |
| `temp[u]`, `old` | the upload's file in `local_content/.tmp`, and whether it is an hour old |
| `expired` | the reserved IDs whose `created_ts` is older than `unused_expiration_time` |
| `slots` | tokens in `Uploader.slots` |
| `phase` | down, serving while the sweep runs, serving |
| `pc[u]`, `req[u]`, `reply[u]`, `matched` | where a handler is, its locals and its answer |
| `rd[r]` | a download: the row it goes on with (`snap`) and the bytes it opened |
| `known`, `warned` | history: what was quarantined before the upload's check, or before the download came |

| Actions | Code |
|---|---|
| `BeginUpload`, `BeginCreate`, `BeginAsync` | the three handlers up to their first read of shared state |
| `CountPending`, `ReserveID` | `handleCreateMedia`'s two statements |
| `LookupMedia` | the row read of `handleAsyncUpload` and its checks in Synapse's order |
| `AcquireSlot`, `CancelWait`, `StoreBody`, `StoreFails` | `store` and all its exits |
| `CheckQuarantine`, `CheckLimits` | `quarantineFor`, `withinUploadLimits` with one limit |
| `Install`, `StoreLocalMedia`, `UnlinkFile` | rename, insert, and the removal when the insert reports an error |
| `CompleteLocalMedia` | the `UPDATE ... WHERE media_length IS NULL` of the asynchronous path, before its `Install` |
| `ResolveLocalMedia`, `AwaitUpload`, `AwaitGivesUp`, `ServeFile` | `resolveLocalMedia`, `awaitUpload`, opening the file |
| `Crash`, `Restart`, `SweepStaleTempFiles` | the process |
| `HourPasses`, `Expire`, `QuarantineLocal`, `QuarantineRemote` | time, and Synapse's administrators |

`CompleteLocalMedia` and `StoreLocalMedia` each have three outcomes: applied, not
applied, and applied with the reply lost. The last is what a broken connection
or a cancelled context makes of a statement the server has executed.

### RemoteMedia

The `filesystem_id` of a fetch is 24 random letters, so the fetch itself stands
for the ID and for its path. `flight` is the singleflight group of each process:
`Join` leads or waits, `Release` ends the call and `Wake` resumes a waiter. The
leader's steps, `Recheck` to `Undo`, are `fetchAndStore` in order. `gone` is the set
of requests whose context is cancelled: from then on every database call of a
call they lead fails, and their fetch too. `SynapseStores`, `Quarantine`, `PurgeFile`
and `PurgeRow` are the other program.

### TokenCache

`items` and `order` are the map and the list of the LRU cache, changed together under
the mutex (`Hit`, `Miss`, `Store`). The request that leads a call goes `join`, `recheck`,
`call`, `heard`, `store`, `return`; `heard` lies between Synapse's decision and the moment
the answer is read, from which the time to live counts. `valid` is what Synapse would
say, and `since` the time for which it has not said otherwise. `overdue` freezes, when a request
arrives, which verdicts are then already too old to be told to it.

### UpstreamPool

`pick` reads the counters one by one (`StartPick`, `ReadLoad`, `EndPick`) and `Dispatch` adds to
the one chosen, so other requests move the counters between the reads and before the
addition. `Refuse` is the error that is retried, `Fail` every other one. `CloseResponse`
is `releasingBody.Close`, which `net/http` may call more than once. `body` follows
what `http.Transport` does to a request's body: it closes it with every error it returns.

### WellKnown

One host, since every map of `FederationTransport` and its lock is keyed by host. `entry`
is `wellKnown[host]`, `had` the rest of `hadValid[host]`, `lock` the owner of
`inflight[host]`. A request goes `cached`, `acquire`, `again`, `request`, and between attempts
`sleep`. `Troubles` are the kinds of answers the code tells apart: a definite "no"
(`absent`: 404, bad JSON, no `m.server`), an empty `m.server`, and three outages (`down`,
`oversized`, `silent`).

### Thumbnails

One thumbnail (a size, a method, a type) of one media that is local or remote. Requests go
`media`, `thumbs`, `stored`, `cache`, as the handlers look for what there is, then `join` the
process's generation; its leader goes `recheck`, `acquire`, `generate`, and stores the result
either through (`create`, `install`, `stat`, `upsert`: `WriteThroughRemoteThumbnail`) or in the
cache (`put`). Jobs are `generateUploadThumbnails`, which take the same steps from `acquire` on, for one
of their sizes. A thumbnail's bytes stand for their length, which is what tells Synapse's from the
worker's. `theirs` is Synapse between its file and its row, `purging` between files and rows.
`snap` is the `filesystem_id` a request goes on with, which a purge and a new fetch may
outdate at any step.

A leader leaves the group with the thumbnail written through, and not cached: a latecomer that missed
the row before the upsert leads a generation of its own, since the second look is at the worker's cache only.
`GeneratesOnce` states what is true: one at a time, and never what the cache holds.

### ThumbnailCache

`dir` maps names to files, and a file is named by the put that writes it, so that the temporary name and the
key's name are two names a file has in turn. `Create`, `WritePart`, `WriteRest`, `Rename`, `Cleanup` are
`Put`; `ReadDir` and `Info` are the steps of `filepath.WalkDir`, whose entries may be gone or another
file by the time of `Evict`. A reader's handle keeps its file when the name is removed.

### LastAccess

`recent` is both maps of a worker, swapped under one lock; `batch` and `now` are the locals of `flushLastAccess`.
`loop` is where `flushLoop` is, `stage` how far `run` has come after a signal. A batch is applied and heard of
(`Commit`), not applied (`CommitFails`), or given up after 30 s while the database may still apply it
(`TimesOut`, `CommitLate`). `access`, `lost` and `unsent` are history.

### UploadLimits

The rows of one user are represented by the sums the query can return for them: `uploaded[t]`, over rows
created after `t`. An upload goes `received`, `evaluate` (with its loop variable `i`, the carried sum `used`, and
whether anything was `measured`), `store`. `Skip` is a query that is not made, `Measure` one that is. A completed
reservation keeps the `created_ts` it was made with, which may lie outside a window by the time it is stored.
`Sorted` is the stable sort of `parseMediaUploadLimits`. `start`, `disturbed` and `overlapped` are history.

### ThumbnailSizes and MediaPaths

Functions without state. In `ThumbnailSizes` the products are assumed to fit an `int`. In `MediaPaths` a string is the
sequence of its characters' codes and a path a top-level directory with the names below it. `IDs` are the 24 (here:
five or more) letters of `random_string`, `DatedIDs` those of `url_cache`. These two modules are not run: all they state
is proved.

## 4. The runs

### Runs that pass

| Run | Setting | Shows | States |
|---|---|---|---|
| `uploads` | three uploads of two users and a download race for one ID; crash, failing renames and database calls, quarantine | `NoOrphanFile`, `DanglingRowHasOwner`: file and row stay paired outside the windows named there; `TempFollowsRequest`: temporary files go with their request and no sooner; `FileMatchesRow`, `AckedIsServable`, `ServedMatchesRow`: a 200 stays true and what is served is what the row says; `QuarantinedIsRefused`, `QuarantineSticks`; `ImplementsRegister`: both upload paths are a write-once register | 1.5 million |
| `upload_liveness` | one slot, two uploads, a waiting download, every fault with lost replies of applied writes | `UploadAnswered`, `ReadAnswered` | 600 000 |
| `remote_store` | two downloads in one process or in two, Synapse as a third writer, every failure except the lost reply | `RowHasFile`, `NoOrphanFile`, `MissingFileWasPurged` | 144 000 |
| `remote_shared` | two downloads of two media in two processes with a slot each, Synapse, no purge | `RequestAnswered` for leaders, followers and those who queue; `ImplementsRegister` | 460 000 |
| `token_cache` | two requests, two tokens that are revoked and accepted at will, room for one verdict; Synapse may never answer, clients leave | `VerdictNotOverdue`: sharing a call and reading the cache never stretch a verdict past its time to live and one call; `NoRedundantCall`, `MapMatchesList`, `CallerAnswered` | 770 000 |
| `upstream_pool` | two requests, three workers that stop and start at will | `InflightAccounted`, `SentToOne`, `PickIsLeastBusy` | 1.3 million |
| `wellknown` | two requests, a host that changes its answer, goes down or falls silent at will | `DelegationNotOverdue`, `OutageNotSeen`, `RequestAnswered` | 107 000 |
| `thumbnails` | two requests and a job in one process with one slot, Synapse generating and purging, every fault except a failed database call | `RowHasFile`: a thumbnail row is never without its file; `GeneratesOnce`, `MadeIsServed`; `Answered` for leaders, followers and jobs | 550 000 |
| `thumbnail_cache` | two puts, a reader, two sweeps, room for one small file, a crash anywhere | `ServedWhole`, `TempFollowsPut`: what is read is whole, what is left is nobody's; `BoundAfterSweep`, `LeastRecentlyUsed`: a sweep does its work although what it listed changes under it | 630 000 |
| `last_access` | two workers, one row, failing, late and lost batches, orderly and disorderly ends | `AccessIsRecorded`, `CloseFlushesAll`, `AccessesReachRows` | 168 000 |
| `upload_limits` | two uploads, every list of at most two limits over two windows and three ceilings, deletions | `VerdictIsReference`: the skipped queries change nothing; `ConcurrentVerdict`: what is true of a verdict among concurrent uploads; `QuotaHeldWhenAlone` | 1.7 million |

Each module also has a type invariant, `TypeOK`. It is part of the inductive invariant of every module whose theorems section 7
lists, except where the invariant says the same of fewer variables: in `TokenCache` and `ThumbnailCache` of those the properties
are about, in `UpstreamPool` without a bound on the counters, which follows from what they count. There it holds in every run that
passes, and may be added to a configuration.

### A run that finds a violation

`flagged_served` checks one sentence of `README.md` that the code does not keep. Section 8 tells
its story, and those of other sentences of the kind, each with a configuration that shows it violated.

## 5. Bounds

* *One media ID and three uploads* (`uploads`). A reservation and two
  competing PUTs, or one synchronous upload with two PUTs that guess wrong. The
  media IDs meet only in the pending count, the quota and quarantine by hash, each of
  which has a run of its own with two IDs or a table of its own (`remoteBad`). Two contents
  are enough to tell a winner's bytes from a loser's. Two users are enough for a
  stranger's PUT.
* *Two downloads* (`remote_store`, `remote_shared`). In one process they are leader and
  follower, or the second comes as the call ends; in two processes they are two writers, and Synapse is
  one more. One slot makes fetches of different media wait for each other (`remote_shared`).
* *Two requests and a job for one thumbnail* (`thumbnails`) are a leader, a follower or latecomer, and a second writer
  in the process; Synapse is a third. Media are fetched once here: a second `filesystem_id` is what
  `ThumbnailsPurged.cfg` needs to show its sentence broken. One process, since processes meet in the store, where
  Synapse stands for them, while what they share per process is per process in the code.
* *Two puts, two keys, a reader, two sweeps* (`thumbnail_cache`): a sweep may see the file of one put and
  the temporary file of another, of the same key or not, and a later sweep what an earlier one left. Sizes 1 and 2
  over a bound of 1 make a sweep remove one file and keep another, or remove both.
* *Two workers and one row* (`last_access`): rows do not meet, except in a batch that fails as a whole. Two times
  are enough for a stamp to be too early.
* *Two uploads and two limits* (`upload_limits`): the sum is carried from a limit to the next, so two limits and one
  other upload are all there is to a step of the loop; the proofs hold for any number.
* *Two requests in the two caches of answers*: a leader with a follower, or with a late comer that finds what it
  stored. Both were also checked with three, by symmetry and without the liveness
  property, with the same outcome. Time counts in ticks: periods of 1 to 5 ticks keep the
  order of the real ones (a call is shorter than a time to live, "down" shorter than
  "invalid" shorter than a valid period), and a period of 5 has a refresh point one tick before its
  end, as 24 h has one a fifth before it.
* *Three workers* let a request be refused by one, choose between two others and
  still find the pool changed; two requests are enough for one to move a counter between any two
  reads of the other.
* *History variables are capped*: `since` stops at `LongAgo`, one more than any bound it is
  compared with. `rr` is kept modulo the number of endpoints: only `offset % n` is used, and the
  one jump when a 64-bit counter wraps only moves an offset.

Symmetry is declared in runs of invariants and of safety properties, over requests and other
interchangeable values; no run of a liveness property uses it.

## 6. Fairness

`FairSpec` of each module (`MarksFairSpec` of `LastAccess`) assumes weak fairness of the steps of a request, request by
request, and nothing of clients, administrators, other programs, crashes or restarts.

* A handler's database call returns: it has the pool's and the server's timeouts.
* A body arrives or its connection fails, so `StoreBody` or `StoreFails` happens. The server of
  `main.go:228-234` sets no `ReadTimeout`: that a stalled client is given up is the doing
  of the reverse proxy in front, and the assumption is needed.
* Waiting for a slot is waiting to send on a Go channel, which queues its senders in order.
  The model has weak fairness only, and the liveness runs have one slot; every request is
  made once, so nobody can take the slot again and again.
* `awaitUpload` has a deadline, a fetch has one, the whoami client has a `Timeout` of 10 s, and a
  request for a `.well-known` runs in a context with a deadline.
* A singleflight group wakes its waiters when the call returns.
* Generating a thumbnail ends: reading, decoding and encoding are bounded by the limits on pixels and file size.
* `flushLoop` selects between a ticker and the closed `stopFlush`; when both are ready Go's `select` takes either at random,
  so a close that stays ready is taken at last (`SF_marksVars(StopFlush(w))`). A batch has 30 s, and so has the drain.
* In `TokenCache` and `WellKnown` time passes (`WF_vars(Tick)`), which is what makes timeouts fire. A
  tick waits for the steps this process can take at once. Synapse and the hosts owe no answer.

## 7. What is proved

Every safety invariant, every action property and both refinements that the passing runs check are theorems of their
specifications, checked by TLAPS: they hold for every number of requests, processes, media, keys and endpoints, every bound and every
set of faults, except the two faults that a theorem names as assumed away. What is left to TLC is liveness, and the sentences that the
code does not keep (section 8).

Each proof has the same shape. The property alone is not inductive; the invariant says who may do the next step that matters, by the
program counters, and each action has a step of the proof. Where a property needs more than another does, the additions are invariants
of their own, proved on top of the first.

Every module assumes its `ConstantsAssumption` (`ThumbnailsAssumption` in `Thumbnails`, `MarksAssumption` in `LastAccess`): bounds and periods
are natural numbers, and `None` is no value. `Thumbnails_proofs` also proves `ThumbnailSizes`, `LocalMedia_proofs` also `MediaPaths`, and
`ProcessMemory_proofs` both `WellKnown` and `LastAccess`, whose common names begin with `Marks` so that one module can extend both.

| Module | Theorem | States |
|---|---|---|
| `LocalMedia_proofs` | `FilesMatchRows`, `AckedStaysServable` | `FileMatchesRow`, `AckedIsServable` |
| | `OrphansExplained`, `DanglingRowsOwned`* | `NoOrphanFile`, `DanglingRowHasOwner` |
| | `TempFilesFollow`, `ServedAsDescribed` | `TempFollowsRequest`, `ServedMatchesRow` |
| | `QuarantineIsForGood`, `QuarantineCloses` | `QuarantineSticks`, `QuarantinedIsRefused` |
| | `UploadsImplementRegister`* | `ImplementsRegister` |
| `RemoteMedia_proofs` | `RowsHaveFiles`*, `OrphansAreRemoved`*, `MissingMeansPurged`* | `RowHasFile`, `NoOrphanFile`, `MissingFileWasPurged` |
| | `FetchesImplementRegister`** | `ImplementsRegister` |
| `TokenCache_proofs` | `VerdictsExpire`, `NoRedundantCalls`, `MapFollowsList` | `VerdictNotOverdue`, `NoRedundantCall`, `MapMatchesList` |
| `UpstreamPool_proofs` | `CountersCount`, `NeverSentTwice`, `PicksLeastBusy` | `InflightAccounted`, `SentToOne`, `PickIsLeastBusy` |
| `ProcessMemory_proofs` | `DelegationsExpire`, `OutagesUnseen` | `DelegationNotOverdue`, `OutageNotSeen` |
| | `NoAccessForgotten`, `CloseLosesNothing` | `AccessIsRecorded`, `CloseFlushesAll` |
| `Thumbnails_proofs` | `ThumbnailRowsHaveFiles`, `OneGeneration`, `GeneratedIsServed` | `RowHasFile`, `GeneratesOnce`, `MadeIsServed` |
| `ThumbnailCache_proofs` | `NeverTruncated`, `NoTempLeft` | `ServedWhole`, `TempFollowsPut` |
| | `EvictionIsLRU`, `SweepKeepsBound` | `LeastRecentlyUsed`, `BoundAfterSweep` |
| `UploadLimits_proofs` | `CarriedSumIsSound`, `VerdictUnderGrowth`, `SerialUploadsHoldQuota` | `VerdictIsReference`, `ConcurrentVerdict`, `QuotaHeldWhenAlone` |

\* assumes `"lostReply" \notin Faults`, ** also `"purge" \notin Faults`. A lost reply is an `INSERT` or `UPDATE` that the server applied and
its caller takes for failed. The caller then removes its file (`UnlinkFile`, `Undo`, or the discarded temporary file of a PUT), as the code does, and
the row is left without it: the statement is false there, and `RemoteMediaLostReply.cfg` shows it. A purge empties the register, which
is what a purge is for. The passing runs leave the same faults out, for the same reason.

### Uploads and downloads of local media

`FileMatchesRow` is not inductive: that a rename does not put bytes under another's row depends
on who may still rename. `IInv` (in `LocalMediaInv`) says who:

* a synchronous upload owns its ID since it generated it (`GeneratedOnce`), nobody else has a row or
  file there before it inserts (`SyncState`), and no PUT that passed its lookup works on it
  (`AsyncOnReserved`), because a lookup passes only for a *pending* row and the row of a
  synchronous upload is never pending (`SyncNeverPending`);
* an asynchronous upload owns its ID once its `UPDATE` won the row, which then names its bytes and
  has no file yet (`AsyncState`), and no other upload ever wins it (`RecordedOnce`);
* a reserved ID has no file (`OnlyGenerated`).

The proof has a lemma per action that writes a row or a file (`ReserveID`, `Install`,
`StoreLocalMedia`, `UnlinkFile`, `CompleteLocalMedia`), one for quarantine and one for a crash.
Steps that only move a request along are one class (`QuietSteps`): for these `QuietMovePreserves`
says what such a step may change and shows that it keeps every part of `IInv`.

What this establishes about the code: the two opposite orders of rename and row are safe, each on its
own path, whatever crashes or fails in between, *lost replies included*: even an `INSERT` that is applied
and reported as failed cannot put one upload's bytes under another's row, nor take back a 200.

Three invariants stand on `IInv`. `StoreInv`: a file without a completed row, or a completed row without its file, has its upload, which is
between the two steps, on the way back, or dead there. `TempInv`: a temporary file follows its upload's step; the sweep's list names
only files of uploads of an earlier process, since a file is in it once it is an hour old and the sweep comes before anything this
process writes can be (`OldIsAbandoned`). `ReadInv`: between its row and its file a download relies on the row's content, which no step
changes once it is complete; a download that comes after a quarantine finds the row quarantined for good.

`UploadsImplementRegister` maps a media ID to the bytes that have both row and file. The step that makes them meet, `Install` on the asynchronous
path and `StoreLocalMedia` on the other, is the register's write; answering 200 is its acknowledgement; every other step is a
stutter, the removals included, since nobody removes a file that has its row.

### Remote media

`Records`: a `filesystem_id` that was ever in a row is of one media ID, and its file is on disk or was purged. `FetchState`: the file of a call is its
leader's alone from the rename until a row names it, so what `Undo` removes no row names. Requests keep to the row they read
(`SnapRecorded`), and a waiter's media ID is its leader's (`RequestShape`, `FlightShape`): that is why a result shared in a singleflight group is an
answer to its own question. The refinement needs no more: an insert that wins writes the register, a download served
acknowledges it.

### Verdicts on tokens

`VerdictNotOverdue` is about a request's answer, which may come from the cache, from its own call or
from a call another request began before it arrived. `IInv` follows a verdict along that way by its age:

* the time a cached verdict has left and the time since it was true add up to at most `Bound`
  (`CacheAge`): a tick takes from one what it adds to the other, and a verdict is stored within
  the call's timeout of being true (`HeardAge`);
* what a call has returned to those that share it has been true within `Bound` (`SharedAge`), while what is
  overdue for a request has not (`OverdueAge`), so neither kind of answer is overdue;
* a request that shares a call has the key of its leader, and the leader of a call in progress is
  the one in the group (`InGroup`, `Leads`), so that no time passes between a call's end and the
  answers of those that wait for it (`WaitingInTick`).

`NoRedundantCall` needs `Leads` only: all that look a key up inside the group, call Synapse for it or
store a verdict on it are the one leader of its call. `MapMatchesList` is proved by `ListInv`: the list is a sequence without repetition
of the keys that are in the map. Its lemmas say what moving an element to the front and taking one out do to such a list (`WithoutKey`),
and a bijection between places and keys gives the count.

### The upstream pool

`InflightAccounted` compares a counter with a number of requests, so `Counted` also says that these are finitely many: a step puts one request
in or takes one out, and a body that is closed again finds itself `released` (`ReleasedOnce`). `SentToOne` holds since what was sent is never
picked for again (`SentOnce`): only `Refuse`, before anything is sent, leads back to `pick`. `PickIsLeastBusy` is about a scan that
nothing disturbed. `Scanning` says what the loop of `pick` has after each read: the first of the least busy endpoints among those it has passed, in the
order of their distance from the offset (`Far`). The lemmas `Distances` and `NextRead` are the arithmetic of `(offset + i) % n`.

### Delegations of hosts

Only the owner of the lock stores an answer (`LockHeld`). The time since the host last said a cached delegation and the time it has left
add up to at most its period (`EntryAge`). What a refresh falls back to was cached when it took the lock, after it had arrived, so its age is
at most the longest period and the time of the request (`PrevAge`), and that is bounded by the request's deadline. And what is cached while the lock
is held is what was cached when it was taken (`PrevIsCached`): a refresh that fails gives back the delegation it found, and
nobody who waits is told otherwise. That there is a longest period is proved from their finiteness (`LongestPeriod`).

### Marks of last access

The invariant says of each row that its stamp is late enough, or its mark is lost, or some
worker holds it in the map, or in a batch not yet stamped, or in a batch stamped late enough: the time is taken
*after* the maps are swapped, so a mark in the batch is never newer than the stamp. For the end it says that no handler marks
anything once all have returned, and that the last swap comes after that.

### Thumbnails and their sizes

`Files`: whoever is about to write a row, the worker at `stat` or `upsert` or Synapse at `theirs`, has put the file in place under the
`filesystem_id` it goes on with (`FilesFirst`), and only a purge takes files away, of which the rows go next. Nobody goes on with an ID that is yet to come
(`IdsMade`), so a later fetch has no row that came before its file. `Calls`: the requests of a call have one leader, which holds the
place of its process in the group (`CallShape`, `LeadersLead`, `Followers`), past the second look only if the cache has nothing
(`NotCached`), and what it made is what the call returns, whatever fails after it (`Delivered`). No fault is assumed away.

`AspectFits`, `NeverStretched` and `CropIsInside` hold for all positive sizes. The arithmetic is that of rounding
down: q = a div b is the one number with q b <= a < (q+1) b.

### The thumbnail cache

A key's name leads only to whole files of that key, since a rename moves a put's own file and only
after it is whole; a temporary name leads to its put's file, while that put is at work or was killed. What a sweep
saw under a name and then found gone does not come back: the put of that file has made its one rename (`SeenInv`). So of the entries that are still where the
sweep saw them none has been passed over, which gives the order of eviction. The bound is `BoundInv`: the total
is at least the sum over the entries not yet passed. A file that vanished is passed with the total left as it was, one that was replaced is
removed with the size of the one that was seen, and in both cases what is taken from the total is no more than what leaves the sum.

The sum is a fold over a set, and what a fold computes takes induction. The induction theorems of the library have an operator as a
parameter, which the provers cannot instantiate; here each induction is the choice of a smallest counterexample (`Smallest`, from the
well-foundedness of inclusion among finite sets). With it `SumsExist` and `SumsUnique` give the recursion its one solution, `BytesRemove` shows that any entry may be the one added
last, and `BytesOfPart` that a part weighs no more than the whole.

### Upload limits

The argument is the comment's of `upload.go:526-529`, made exact:
a shorter window begins later, so what the rows sum to over it is at most what they sum to over a longer one (`NotBefore` is monotone
in the window and in time), and what is carried is a sum over a longer window taken at or after `start`. For this the list must be sorted,
which `Sorted` is shown to promise. With other uploads storing rows in between, the carried sum is a lower bound of the present sum but
no longer an upper bound of the shorter window's; it is one of the sum *when the check began*, which is what `ConcurrentVerdict` states.

### Media paths

The second part of `LocalMedia_proofs` holds for all IDs, server names and file names. `LocalFilesDistinct`, `RemoteFilesDistinct`, `LocalThumbnailsDistinct`
and `URLCacheFilesDistinct`: paths determine the IDs they were made of, because the parts of a shard have fixed places, and a date
is longer than a shard's first part. `NothingToClean`: no part is empty, `.` or `..`, so `filepath.Clean` and the jail check of `join`
leave every path alone. `TempIsApart`, `TempIsSwept`: temporary files lie where no media does and where the sweep looks, on
the mount of their final path. `OnlyWhatIsAllowed`: previews are never written, local media only with uploads on. The IDs are those this
program and Synapse make, and server names do not begin with a dot: an ID with dots, which `validatePathComponent` lets pass, is
not covered.

### Left to TLC

Liveness: `UploadAnswered`, `ReadAnswered`, `RequestAnswered`, `CallerAnswered`, `Answered` and `AccessesReachRows`. They need fairness and
`ENABLED`, which are out of the prover's reach.

## 8. Where the code and its documents part

The first is a run of the project. The others (in parentheses) need no watching: a write between two reads of another,
a context that is its client's, or a count before an insert. Their statements stand at the end of their module or among its
properties, and the configuration named here shows each violated by TLC, most of them in a second or two. A row without a
configuration is shown by the property that holds in its place.

| Run | Code | Document | What happens |
|---|---|---|---|
| `flagged_served` | `handlers.go:584` | `README.md:337-339` | A download waits for a reserved ID; the PUT completes it with `quarantined_by = 'system'`; the download serves it, since quarantine is checked only on the row read first. |
| (`LocalMediaCrashOrphan.cfg`) | `upload.go:121` | `README.md:313-315` | Killed between rename and insert, a synchronous upload leaves a file no row names, and nothing removes it. |
| (`LocalMediaPendingRace.cfg`) | `upload.go:159` | `upload.go:156-157` | Concurrent `/create` requests count before either inserts. |
| (`LocalMediaQuotaRace.cfg`) | `upload.go:112` | `README.md:345-348` | Concurrent uploads sum before either is recorded. |
| (`RemoteMediaLostReply.cfg`) | `store.go:119` | `store.go:53-54` | The insert is applied and reported as failed; the file is removed, the row stays and every later fetch loses to it. |
| (`TokenCacheLeaderLeaves.cfg`) | `authclient.go:206` | `authclient.go:177-179` | The client of the request that made the shared whoami call hangs up; the requests sharing it are answered 503. |
| (`UpstreamPoolBody.cfg`) | `proxy.go:143` | `proxy.go:140-142`, `README.md:448` | A proxied upload is refused by one worker; the retry sends a body that is already closed and fails. |
| (`WellKnownCancelled.cfg`) | `resolver.go:262` | `README.md:218` | A client hangs up during a fetch; "no delegation" is cached for a host that has one. |
| (`WellKnownDead.cfg`) | `resolver.go:268` | `resolver.go:242-243` | In the grace period a failed refresh stores nothing, so every request that waited for it fetches again. |
| (`ThumbnailsLength.cfg`) | `store.go:238` | `store.go:232-235` | After the worker's `stat` Synapse renames its own file over the worker's and writes its row; the worker's upsert then sets the length of a file that is gone. |
| (`ThumbnailsPurged.cfg`) | `store.go:243` | `README.md:295-298` | The media is purged and fetched again while its thumbnail is generated; the upsert then makes a row with the old `filesystem_id`, which no later upsert corrects. |
| (`ConcurrentVerdict`) | `upload.go:530` | `upload.go:526-529` | "It can only over-count": another upload stored between two queries makes the carried sum too low for the shorter window. |

`AckedIsServable`, `RowHasFile`, `VerdictNotOverdue`, `OutageNotSeen` and the others state what remains true in each case.

## 9. Assumptions, and what is left out

*Assumed.* Random IDs of 24 letters do not collide. `rename(2)` and a single SQL statement
are atomic, and what a process wrote before it was killed is there afterwards (no power loss without
`fsync`). The start-up sweep lasts less than an hour, and the temporary directory it reads is its own
process's. A shutdown that runs into its limit of 30 s is a crash of the requests
still in progress. Administrators quarantine and do not un-quarantine, and local media is not
deleted: both are Synapse's, and the worker would go on from the row it read. The quota window spans the run.

Synapse's thumbnails are made under the `filesystem_id` of the row it reads, file first, as its own code does. In `Thumbnails` an upload-time job
starts when the upload has been answered, and has the file until the process dies.

*Left out of the modules.* Requests refused before they read shared state. The 404 of the legacy
endpoints for authenticated media and the directory of the URL cache, which select a constant
answer or another path. The content of a multipart response or a redirect, which decides only whether a fetch
succeeds. Whose token a verdict is about. Header rewriting in the proxy, the routing of `passthrough.go` and responses that
switch protocols. The jitter of the resolver's periods, and its SRV half: one lookup at dial time, without a cache. The formatting
of thumbnail file names.

*Not modelled.* Configuration parsing (`config.go`, `synapseconfig.go`), listeners and start-up checks, EXIF, WebP and multipart
parsing, range responses, the federation user agent, metrics, logs and the parity tool: each reads one input or writes one output, with no
state that another step could find changed.
