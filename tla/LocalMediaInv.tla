---------------------------- MODULE LocalMediaInv ----------------------------
(***************************************************************************)
(* The inductive invariant of LocalMedia: who may touch a media ID's row   *)
(* and file, by the step each upload has reached.  The point of it is that *)
(* a synchronous upload owns its ID because it generated it, and an        *)
(* asynchronous one because it won the row, and that no ID has both kinds. *)
(***************************************************************************)
EXTENDS LocalMedia

StoreSteps == {"slot", "write", "quarantine", "limits"}

\* Which steps each kind of request takes, and what it carries while it does.
RequestShape(u) ==
  /\ pc[u] = "idle" => req[u].kind = "none"
  /\ req[u].kind = "none" => reply[u] = "none"
  /\ pc[u] \in {"lookup", "complete"} => req[u].kind = "async"
  /\ pc[u] \in {"insert", "unlink"} => req[u].kind = "sync"
  /\ pc[u] \in {"count", "reserve"} => req[u].kind = "create" /\ req[u].id = None
  /\ pc[u] \in StoreSteps \cup {"install", "answer"} => req[u].kind \in {"sync", "async"}
  /\ req[u].kind \in {"sync", "async"} =>
       req[u].id \in MediaIDs /\ req[u].body \in Contents /\ req[u].user \in Users
  /\ req[u].kind = "create" => req[u].user \in Users
  /\ reply[u] # "none" => pc[u] = "done"

\* An ID is generated once.
GeneratedOnce ==
  \A u, v \in Uploads :
    Generates(u) /\ Generates(v) /\ req[u].id = req[v].id /\ req[u].id # None => u = v

\* Only generated IDs have rows or files, and a reserved ID has no file.
OnlyGenerated ==
  \A m \in MediaIDs :
    /\ Exists(m) \/ file[m] # None => m \in Generated
    /\ Completed(m) => Exists(m)
    /\ Pending(m) => file[m] = None

\* An asynchronous upload past its lookup works on an ID from /create.
PastLookup(u) ==
  /\ req[u].kind = "async"
  /\ \/ pc[u] \in StoreSteps \cup {"complete", "install", "answer"}
     \/ reply[u] \in {"ok", "notInstalled"}

AsyncOnReserved ==
  \A u \in Uploads : PastLookup(u) =>
    /\ req[u].id \in Generated
    /\ \A v \in Uploads : req[v].kind = "sync" => req[v].id # req[u].id

SyncNeverPending ==
  \A u \in Uploads : req[u].kind = "sync" => ~Pending(req[u].id)

\* What a synchronous upload finds under its own ID.
SyncState(u) ==
  req[u].kind = "sync" =>
    /\ pc[u] \in StoreSteps \cup {"install"} =>
         ~Exists(req[u].id) /\ file[req[u].id] = None
    /\ pc[u] = "insert" => ~Exists(req[u].id) /\ file[req[u].id] = req[u].body
    /\ pc[u] = "unlink" =>
         /\ file[req[u].id] = req[u].body
         /\ Exists(req[u].id) => "lostReply" \in Faults

\* What an asynchronous upload that won its row finds under its ID.
AsyncState(u) ==
  req[u].kind = "async" /\ pc[u] = "install" =>
    row[req[u].id].content = req[u].body /\ file[req[u].id] = None

\* What either finds once its bytes are installed and recorded.
InstalledState(u) ==
  pc[u] = "answer" \/ Acked(u) =>
    row[req[u].id].content = req[u].body /\ file[req[u].id] = req[u].body

\* One upload records a media ID.
RecordedOnce ==
  \A u, v \in Uploads : Recorded(u) /\ Recorded(v) /\ req[u].id = req[v].id => u = v

RecordedCompleted == \A u \in Uploads : Recorded(u) => Completed(req[u].id)

IInv ==
  /\ TypeOK
  /\ \A u \in Uploads : RequestShape(u) /\ SyncState(u) /\ AsyncState(u) /\ InstalledState(u)
  /\ GeneratedOnce
  /\ OnlyGenerated
  /\ AsyncOnReserved
  /\ SyncNeverPending
  /\ RecordedOnce
  /\ RecordedCompleted
  /\ FileMatchesRow
------------------------------------------------------------------------------
\* What more the safety properties need, each inductive once IInv is known.

\* A row that is not there is not quarantined.
AbsentRowClean == \A m \in MediaIDs : ~Exists(m) => ~Quarantined(m)

\* A lost reply discards the temporary file of an upload that has won its row.
DanglingExplained == "lostReply" \notin Faults => DanglingRowHasOwner

StoreInv == AbsentRowClean /\ NoOrphanFile /\ DanglingExplained

\* The sweep's list names files of requests that died with an earlier process: a
\* file is in it once it is an hour old, and the sweep comes first of all.
OldIsAbandoned ==
  /\ \A u \in old : temp[u] # "none"
  /\ phase = "down" => \A u \in Uploads : ~Active(u)
  /\ phase = "starting" => \A u \in old : ~Active(u)

TempInv == TempFollowsRequest /\ OldIsAbandoned

\* What a download has seen of its row, which a quarantine closes for good.
ReadState(r) ==
  /\ rd[r].reply # "none" => rd[r].pc = "done"
  /\ rd[r].pc = "open" =>
       Completed(rd[r].id) /\ rd[r].snap = row[rd[r].id].content
  /\ rd[r].reply = "served" => rd[r].bytes = rd[r].snap
  /\ r \in warned =>
       /\ rd[r].pc \in {"resolve", "done", "lost"} /\ rd[r].reply # "served"
       /\ rd[r].pc = "resolve" => Quarantined(rd[r].id)

ReadInv == \A r \in Readers : ReadState(r)
==============================================================================
