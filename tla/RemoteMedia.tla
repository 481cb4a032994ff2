------------------------------ MODULE RemoteMedia ------------------------------
(***************************************************************************)
(* Media of other homeservers: a download that finds no row fetches the    *)
(* media from its origin and stores it the way Synapse would (store.go,    *)
(* fetch.go, serveRemoteDownload and fetchRemote of handlers.go), against  *)
(* the table remote_media_cache and the directory remote_content that all  *)
(* worker processes share with Synapse.                                    *)
(*                                                                         *)
(* Concurrent requests for one media ID in one process share one call of   *)
(* fetchAndStore through a singleflight group: its leader runs the call    *)
(* with the leader's own request context, and the others wait for it.      *)
(*                                                                         *)
(* A fetch generates a filesystem_id of 24 random letters, so the fetch    *)
(* itself stands for that ID and for the path it names.                    *)
(*                                                                         *)
(* An operator whose name begins with Bug is a plausible slip in the code  *)
(* it stands next to.  No action uses one.                                 *)
(***************************************************************************)
EXTENDS Integers, FiniteSets

CONSTANTS
  Media,          \* <<origin, media ID>> pairs
  Workers,        \* processes of this program on one media store
  Requests,       \* downloads, each made once
  Foreign,        \* fetches that Synapse itself makes
  FetchSlots,     \* media.max_concurrent_fetches, in each process
  ProxyFailures,  \* media.fetch_failure = "proxy"
  Faults,         \* which of AllFaults the environment has
  None

AllFaults == {"db",         \* a database call fails and has no effect
              "lostReply",  \* an insert is applied, but its caller is not told:
                            \* the connection broke, or the leader's client left
              "disk",       \* a rename or the creation of a file fails
              "origin",     \* the origin is unreachable, or has not got it
              "leave",      \* a client hangs up
              "crash",      \* a worker process is killed
              "purge"}      \* Synapse's purge_media_cache

Fetches == Requests \cup Foreign

ASSUME ConstantsAssumption ==
  /\ FetchSlots \in Nat \ {0}
  /\ ProxyFailures \in BOOLEAN
  /\ Faults \subseteq AllFaults
  /\ Requests \cap Foreign = {}
  /\ None \notin Media \cup Workers \cup Fetches

VARIABLES
  row,       \* remote_media_cache, by media ID
  file,      \* the fetches whose file is at its final path
  temp,      \* the requests with a file in remote_content/.tmp
  flight,    \* the leader of the call in progress, by process and media ID
  slots,     \* tokens held in each process's Fetcher.slots
  at,        \* the process a request came to
  asks,      \* the media ID it asks for
  pc,        \* its next step
  leader,    \* the request whose call it waits for
  snap,      \* the row it goes on with
  result,    \* what its call returns, as a leader
  reply,     \* its answer
  gone,      \* the requests whose client has left: their context is cancelled
  recorded,  \* history: the <<media ID, filesystem_id>> pairs ever in a row
  purged     \* history: the files Synapse has purged

store == <<row, file, temp>>
process == <<flight, slots>>
request == <<at, asks, leader, gone>>
history == <<recorded, purged>>
vars == <<store, process, request, pc, snap, result, reply, history>>

------------------------------------------------------------------------------
Rows == [fs : Fetches \cup {None}, bad : BOOLEAN]
Row(f, bad) == [fs |-> f, bad |-> bad]
NoRow == Row(None, FALSE)

Exists(m) == row[m].fs # None
Quarantined(m) == row[m].bad

Errors == {"tooLarge", "originNotFound", "failed"}
Replies == {"none", "served", "notFound", "tooLarge", "failed", "proxied", "missing"}
CallSteps == {"recheck", "stat", "create", "acquire", "fetch", "install", "insert",
              "yield", "reread", "undo", "return"}
ActiveSteps == CallSteps \cup {"lookup", "join", "wait", "resume", "open"}

InCall(r) == pc[r] \in CallSteps
Active(r) == pc[r] \in ActiveSteps

\* A cancelled context fails every database call before it is sent.
CallFails(r) == "db" \in Faults \/ r \in gone

TypeOK ==
  /\ row \in [Media -> Rows]
  /\ file \subseteq Fetches
  /\ temp \subseteq Requests
  /\ flight \in [Workers -> [Media -> Requests \cup {None}]]
  /\ slots \in [Workers -> Int]
  /\ at \in [Requests -> Workers \cup {None}]
  /\ asks \in [Requests -> Media \cup {None}]
  /\ pc \in [Requests -> ActiveSteps \cup {"idle", "done", "lost"}]
  /\ leader \in [Requests -> Requests \cup {None}]
  /\ snap \in [Requests -> Rows]
  /\ result \in [Requests -> Errors \cup {"none", "row"}]
  /\ reply \in [Requests -> Replies]
  /\ gone \subseteq Requests
  /\ recorded \subseteq Media \X Fetches
  /\ purged \subseteq Fetches

Init ==
  /\ row = [m \in Media |-> NoRow]
  /\ file = {}
  /\ temp = {}
  /\ flight = [w \in Workers |-> [m \in Media |-> None]]
  /\ slots = [w \in Workers |-> 0]
  /\ at = [r \in Requests |-> None]
  /\ asks = [r \in Requests |-> None]
  /\ pc = [r \in Requests |-> "idle"]
  /\ leader = [r \in Requests |-> None]
  /\ snap = [r \in Requests |-> NoRow]
  /\ result = [r \in Requests |-> "none"]
  /\ reply = [r \in Requests |-> "none"]
  /\ gone = {}
  /\ recorded = {}
  /\ purged = {}

Goto(r, step) ==
  /\ pc' = [pc EXCEPT ![r] = step]
  /\ UNCHANGED <<snap, result, reply>>

Answer(r, code) ==
  /\ pc' = [pc EXCEPT ![r] = "done"]
  /\ reply' = [reply EXCEPT ![r] = code]
  /\ UNCHANGED <<snap, result>>

\* The handler goes on with the row it has just been given.
OpenWith(r, media) ==
  /\ pc' = [pc EXCEPT ![r] = "open"]
  /\ snap' = [snap EXCEPT ![r] = media]
  /\ UNCHANGED <<result, reply>>

\* fetchAndStore returns: an error, or the row that won.
Fail(l, error) ==
  /\ pc' = [pc EXCEPT ![l] = "return"]
  /\ result' = [result EXCEPT ![l] = error]
  /\ UNCHANGED <<snap, reply>>

ReturnRow(l, media) ==
  /\ pc' = [pc EXCEPT ![l] = "return"]
  /\ result' = [result EXCEPT ![l] = "row"]
  /\ snap' = [snap EXCEPT ![l] = media]
  /\ UNCHANGED reply

FreeSlot(l) == slots' = [slots EXCEPT ![at[l]] = @ - 1]

------------------------------------------------------------------------------
\* serveRemoteDownload, up to the fetch.

Arrive(r) ==
  /\ pc[r] = "idle"
  /\ \E w \in Workers, m \in Media :
       /\ at' = [at EXCEPT ![r] = w]
       /\ asks' = [asks EXCEPT ![r] = m]
  /\ Goto(r, "lookup")
  /\ UNCHANGED <<store, process, leader, gone, history>>

Gate(r, media) ==
  \/ media.bad /\ Answer(r, "notFound")
  \/ ~media.bad /\ OpenWith(r, media)

GetRemoteMedia(r) ==
  /\ pc[r] = "lookup"
  /\ \/ r \notin gone /\ ~Exists(asks[r]) /\ Goto(r, "join")
     \/ r \notin gone /\ Exists(asks[r]) /\ Gate(r, row[asks[r]])
     \/ CallFails(r) /\ Answer(r, "failed")
  /\ UNCHANGED <<store, process, request, history>>

\* rf.inflight.Do: lead a call, or wait for the one there is.
Join(r) ==
  /\ pc[r] = "join"
  /\ LET current == flight[at[r]][asks[r]] IN
     \/ /\ current = None
        /\ leader' = [leader EXCEPT ![r] = r]
        /\ flight' = [flight EXCEPT ![at[r]][asks[r]] = r]
        /\ Goto(r, "recheck")
     \/ /\ current # None
        /\ leader' = [leader EXCEPT ![r] = current]
        /\ Goto(r, "wait")
        /\ UNCHANGED flight
  /\ UNCHANGED <<store, slots, at, asks, gone, history>>

------------------------------------------------------------------------------
\* fetchAndStore, by the leader.

\* Another request may have stored it while this one queued.
Recheck(l) ==
  /\ pc[l] = "recheck"
  /\ \/ /\ l \notin gone /\ Exists(asks[l])
        /\ snap' = [snap EXCEPT ![l] = row[asks[l]]]
        /\ pc' = [pc EXCEPT ![l] = "stat"]
        /\ UNCHANGED <<result, reply>>
     \/ l \notin gone /\ ~Exists(asks[l]) /\ Goto(l, "create")
     \/ CallFails(l) /\ Fail(l, "failed")
  /\ UNCHANGED <<store, process, request, history>>

StatExisting(l) ==
  /\ pc[l] = "stat"
  /\ \/ snap[l].fs \in file /\ ReturnRow(l, snap[l])
     \/ snap[l].fs \notin file /\ Goto(l, "create")
  /\ UNCHANGED <<store, process, request, history>>

\* download creates the temporary file before it queues for a fetch slot.
CreateTemp(l) ==
  /\ pc[l] = "create"
  /\ \/ temp' = temp \cup {l} /\ Goto(l, "acquire")
     \/ "disk" \in Faults /\ Fail(l, "failed") /\ UNCHANGED temp
  /\ UNCHANGED <<row, file, process, request, history>>

AcquireSlot(l) ==
  /\ pc[l] = "acquire"
  /\ \/ /\ slots[at[l]] < FetchSlots
        /\ slots' = [slots EXCEPT ![at[l]] = @ + 1]
        /\ Goto(l, "fetch")
        /\ UNCHANGED temp
     \/ /\ l \in gone
        /\ temp' = temp \ {l}
        /\ Fail(l, "failed")
        /\ UNCHANGED slots
  /\ UNCHANGED <<row, file, flight, request, history>>

Fetch(l) ==
  /\ pc[l] = "fetch"
  /\ FreeSlot(l)
  /\ l \notin gone
  /\ Goto(l, "install")
  /\ UNCHANGED <<store, flight, request, history>>

\* Refused, unreachable, over the size limit, past its timeout, or cancelled.
FetchFails(l) ==
  /\ pc[l] = "fetch"
  /\ FreeSlot(l)
  /\ \/ "origin" \in Faults /\ \E error \in Errors : Fail(l, error)
     \/ l \in gone /\ Fail(l, "failed")
  /\ temp' = temp \ {l}
  /\ UNCHANGED <<row, file, flight, request, history>>

BugInstall(l) ==                          \* the rename's error is dropped
  /\ pc[l] = "install"
  /\ temp' = temp \ {l}
  /\ file' = file \cup {l} \/ ("disk" \in Faults /\ UNCHANGED file)
  /\ Goto(l, "insert")
  /\ UNCHANGED <<row, process, request, history>>

\* The file lands, complete, before anything names it.
Install(l) ==
  /\ pc[l] = "install"
  /\ temp' = temp \ {l}
  /\ \/ file' = file \cup {l} /\ Goto(l, "insert")
     \/ "disk" \in Faults /\ Fail(l, "failed") /\ UNCHANGED file
  /\ UNCHANGED <<row, process, request, history>>

\* storeRemoteMediaQuery: INSERT ... ON CONFLICT DO NOTHING.
InsertRow(m, f) ==
  /\ row' = IF Exists(m) THEN row ELSE [row EXCEPT ![m] = Row(f, FALSE)]
  /\ recorded' = IF Exists(m) THEN recorded ELSE recorded \cup {<<m, f>>}

BugLost(l) == FALSE                       \* RowsAffected is not looked at
Lost(l) == Exists(asks[l])

\* The winner returns the row it wrote without reading it again.
StoreRemoteMedia(l) ==
  /\ pc[l] = "insert"
  /\ \/ /\ l \notin gone
        /\ InsertRow(asks[l], l)
        /\ \/ ~Lost(l) /\ ReturnRow(l, Row(l, FALSE))
           \/ Lost(l) /\ Goto(l, "yield")
           \/ "lostReply" \in Faults /\ Goto(l, "undo")
     \/ CallFails(l) /\ Goto(l, "undo") /\ UNCHANGED <<row, recorded>>
  /\ UNCHANGED <<file, temp, process, request, purged>>

\* Another writer was first: its file is the one that stays.
Yield(l) ==
  /\ pc[l] = "yield"
  /\ file' = file \ {l}
  /\ Goto(l, "reread")
  /\ UNCHANGED <<row, temp, process, request, history>>

BugRereadWinner(l) ==                     \* the loser goes on with its own row
  /\ pc[l] = "reread"
  /\ ReturnRow(l, Row(l, FALSE))
  /\ UNCHANGED <<store, process, request, history>>

RereadWinner(l) ==
  /\ pc[l] = "reread"
  /\ \/ l \notin gone /\ Exists(asks[l]) /\ ReturnRow(l, row[asks[l]])
     \/ ~Exists(asks[l]) /\ Fail(l, "failed")
     \/ CallFails(l) /\ Fail(l, "failed")
  /\ UNCHANGED <<store, process, request, history>>

BugUndo(l) ==                             \* the insert's error path returns at once
  /\ pc[l] = "undo"
  /\ Fail(l, "failed")
  /\ UNCHANGED <<store, process, request, history>>

Undo(l) ==
  /\ pc[l] = "undo"
  /\ file' = file \ {l}
  /\ Fail(l, "failed")
  /\ UNCHANGED <<row, temp, process, request, history>>

BugRelease(l) ==                          \* an error leaves the call in the group
  /\ pc[l] = "return"
  /\ flight' = IF result[l] = "row" THEN [flight EXCEPT ![at[l]][asks[l]] = None] ELSE flight
  /\ Goto(l, "resume")
  /\ UNCHANGED <<store, slots, request, history>>

\* The call is over: the group forgets it and its waiters wake.
Release(l) ==
  /\ pc[l] = "return"
  /\ flight' = [flight EXCEPT ![at[l]][asks[l]] = None]
  /\ Goto(l, "resume")
  /\ UNCHANGED <<store, slots, request, history>>

------------------------------------------------------------------------------
\* fetchRemote and serveRemoteDownload, after the fetch.

Wake(r) ==
  /\ pc[r] = "wait"
  /\ flight[at[r]][asks[r]] # leader[r]
  /\ Goto(r, "resume")
  /\ UNCHANGED <<store, process, request, history>>

ErrorReply(error) ==
  IF error = "tooLarge" THEN "tooLarge"
  ELSE IF ProxyFailures THEN "proxied"
  ELSE IF error = "originNotFound" THEN "notFound" ELSE "failed"

Resume(r) ==
  /\ pc[r] = "resume"
  /\ LET l == leader[r] IN
     \/ result[l] = "row" /\ Gate(r, snap[l])
     \/ result[l] \in Errors /\ Answer(r, ErrorReply(result[l]))
  /\ UNCHANGED <<store, process, request, history>>

\* A row whose file is gone is Synapse's to repair: "missing" is proxied.
OpenFile(r) ==
  /\ pc[r] = "open"
  /\ Answer(r, IF snap[r].fs \in file THEN "served" ELSE "missing")
  /\ UNCHANGED <<store, process, request, history>>

------------------------------------------------------------------------------
\* The environment.

ClientLeaves(r) ==
  /\ "leave" \in Faults /\ Active(r) /\ r \notin gone
  /\ gone' = gone \cup {r}
  /\ UNCHANGED <<store, process, at, asks, leader, pc, snap, result, reply, history>>

\* The process dies and is started again: only the disk keeps what it did.
Crash(w) ==
  /\ "crash" \in Faults
  /\ \E r \in Requests : at[r] = w /\ Active(r)
  /\ flight' = [flight EXCEPT ![w] = [m \in Media |-> None]]
  /\ slots' = [slots EXCEPT ![w] = 0]
  /\ pc' = [r \in Requests |-> IF at[r] = w /\ Active(r) THEN "lost" ELSE pc[r]]
  /\ UNCHANGED <<store, request, snap, result, reply, history>>

\* Synapse fetches the media itself: a file first, then a row if there is none.
SynapseStores(m, f) ==
  /\ ~Exists(m) /\ \A i \in Media : <<i, f>> \notin recorded
  /\ InsertRow(m, f)
  /\ file' = file \cup {f}
  /\ UNCHANGED <<temp, process, request, pc, snap, result, reply, purged>>

Quarantine(m) ==
  /\ Exists(m) /\ ~Quarantined(m)
  /\ row' = [row EXCEPT ![m].bad = TRUE]
  /\ UNCHANGED <<file, temp, process, request, pc, snap, result, reply, history>>

\* purge_media_cache deletes the file and then the row.
PurgeFile(m) ==
  /\ "purge" \in Faults
  /\ row[m].fs \in file
  /\ file' = file \ {row[m].fs}
  /\ purged' = purged \cup {row[m].fs}
  /\ UNCHANGED <<row, temp, process, request, pc, snap, result, reply, recorded>>

PurgeRow(m) ==
  /\ row[m].fs \in purged
  /\ row' = [row EXCEPT ![m] = NoRow]
  /\ UNCHANGED <<file, temp, process, request, pc, snap, result, reply, history>>

------------------------------------------------------------------------------
CallStep(l) ==
  \/ Recheck(l) \/ StatExisting(l) \/ CreateTemp(l) \/ AcquireSlot(l)
  \/ Fetch(l) \/ FetchFails(l) \/ Install(l) \/ StoreRemoteMedia(l)
  \/ Yield(l) \/ RereadWinner(l) \/ Undo(l) \/ Release(l)

RequestStep(r) ==
  \/ GetRemoteMedia(r) \/ Join(r) \/ CallStep(r) \/ Wake(r) \/ Resume(r) \/ OpenFile(r)

Environment ==
  \/ \E w \in Workers : Crash(w)
  \/ \E m \in Media : \/ Quarantine(m) \/ PurgeFile(m) \/ PurgeRow(m)
                      \/ \E f \in Foreign : SynapseStores(m, f)

Next ==
  \/ \E r \in Requests : Arrive(r) \/ RequestStep(r) \/ ClientLeaves(r)
  \/ Environment

Spec == Init /\ [][Next]_vars

\* Database calls return, a fetch ends by its timeout, a slot is queued for in a
\* Go channel, and the group wakes its waiters.  Nothing else is owed.
FairSpec == Spec /\ \A r \in Requests : WF_vars(RequestStep(r))

------------------------------------------------------------------------------
\* Properties.

\* A row is never without its file, whatever its fetch met: the file lands first,
\* and only the file no row names is taken away again.  README.md:187-190.
RowHasFile == \A m \in Media : Exists(m) => row[m].fs \in file \cup purged

\* A file that no row names belongs to a call that is about to insert it or to
\* remove it, or that died there.  store.go:114-132.
NoOrphanFile ==
  \A f \in file : \/ \E m \in Media : row[m].fs = f
                  \/ f \in Requests /\ pc[f] \in {"insert", "yield", "undo", "lost"}

\* A download is sent to Synapse for a missing file only if Synapse purged it:
\* a loser of the race goes on with the winner's row.  store.go:122-135.
MissingFileWasPurged ==
  \A r \in Requests : reply[r] = "missing" => snap[r].fs \in purged

\* Every download is answered, whoever its leader is, unless the process dies.
RequestAnswered == \A r \in Requests : Active(r) ~> pc[r] \in {"done", "lost"}

\* While nothing is purged the cache is a write-once register per media ID, and
\* a download that is served acknowledges what it holds.
Cached == [m \in Media |-> IF row[m].fs \in file THEN row[m].fs ELSE None]
ServedMedia == {<<asks[r], snap[r].fs>> : r \in {q \in Requests : reply[q] = "served"}}

Register == INSTANCE WriteOnceRegister WITH
  Keys <- Media, Values <- Fetches, Absent <- None,
  stored <- Cached, acked <- ServedMedia

\* Fetches by any number of processes and by Synapse implement the register.
ImplementsRegister == Register!Spec

------------------------------------------------------------------------------
\* What a comment says, and the code does not keep to.

\* store.go:53-54: after an error nothing has been written that Synapse would
\* trip over, such as a row without its file.
FailureLeavesNoRow ==
  \A l \in Requests : result[l] \in Errors => \A m \in Media : row[m].fs # l
==============================================================================
