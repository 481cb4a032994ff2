-------------------------- MODULE Thumbnails_proofs --------------------------
(***************************************************************************)
(* Proofs about Thumbnails: a thumbnail row of the current media has its   *)
(* file, a process generates for one request at a time, and what was       *)
(* generated is an answer to all that waited for it.  No fault is assumed  *)
(* away: the theorems hold with lost replies, crashes and purges.          *)
(*                                                                         *)
(* And proofs about ThumbnailSizes: the sizes of every thumbnail of every  *)
(* source.                                                                 *)
(***************************************************************************)
EXTENDS Thumbnails, ThumbnailSizes, TLAPS

Made == 1 .. fetched       \* the filesystem_ids there have been

\* Nothing of the media's current fetch is gone before a purge has taken the rows too.
HasFile(i) == i = media.fs /\ ~purging => file[i] # None

WriteSteps == {"create", "install", "stat", "upsert"}

\* The media has the newest of its IDs, so that none that anyone goes on with, or that
\* a row has, is that of a fetch yet to come.
IdsMade ==
  /\ media.fs # None => media.fs = fetched
  /\ source \subseteq Made
  /\ row # NoRow => row.fs \in Made
  /\ theirs # None => theirs \in Made
  /\ \A a \in Actors : /\ snap[a] # None => snap[a] \in Made
                       /\ pc[a] \in WriteSteps => snap[a] # None

\* A row is written by one that has put the file in place.
FilesFirst ==
  /\ row # NoRow => HasFile(row.fs)
  /\ theirs # None => HasFile(theirs)
  /\ \A a \in Actors : pc[a] \in {"stat", "upsert"} => HasFile(snap[a])

BeforeJoin == {"idle", "media", "thumbs", "stored", "cache", "join"}
BeforeMade == BeforeJoin \cup {"recheck", "acquire", "generate"}

\* A call belongs to the request that leads it, and has the place of its process.
CallShape ==
  \A r \in Requests :
    /\ Active(r) => at[r] \in Workers
    /\ InCall(r) => flight[at[r]] = r /\ leader[r] = r
    /\ pc[r] \in BeforeJoin => leader[r] = None

LeadersLead ==
  /\ \A w \in Workers : flight[w] # None => leader[flight[w]] = flight[w]
  /\ \A r \in Requests : leader[r] # None => leader[leader[r]] = leader[r]

NotCached ==
  \A r \in Requests : pc[r] \in CallSteps \ {"recheck", "return"} => at[r] \notin cache

\* The others in a call wait for its end.
Followers ==
  \A r, q \in Requests :
    leader[r] = q /\ InCall(q) => r = q \/ pc[r] \in {"wait", "lost"}

\* What was generated is what the call returns, whatever fails after it.
Delivered ==
  \A r \in Requests :
    /\ pc[r] \in BeforeMade => r \notin made
    /\ pc[r] = "return" /\ r \in made => result[r] = "bytes"
    /\ pc[r] = "respond" /\ leader[r] \in made => result[r] = "bytes"
    /\ pc[r] = "done" /\ leader[r] \in made => reply[r] = "generated"

\* The inductive invariant.
Files == IdsMade /\ FilesFirst
Calls == CallShape /\ LeadersLead /\ NotCached /\ Followers /\ Delivered
IInv == TypeOK /\ Files /\ Calls
------------------------------------------------------------------------------
\* Types.

ProgramTypes ==
  /\ cache \subseteq Workers
  /\ flight \in [Workers -> Requests \cup {None}]
  /\ slots \in [Workers -> Int]
  /\ at \in [Actors -> Workers \cup {None}]
  /\ leader \in [Requests -> Requests \cup {None}]
  /\ found \in [Requests -> Ids \cup {None}]
  /\ size \in [Actors -> Lengths \cup {None}]
  /\ pc \in [Actors -> ActiveSteps \cup {"idle", "done", "lost"}]
  /\ result \in [Requests -> {"none", "bytes", "error"}]
  /\ reply \in [Requests -> Replies]
  /\ gone \subseteq Requests
  /\ made \subseteq Requests

StoreTypes ==
  /\ kind \in Kinds
  /\ media \in [fs : Ids \cup {None}, bad : BOOLEAN]
  /\ fetched \in 0..MaxFetches
  /\ source \subseteq Ids
  /\ row \in [fs : Ids \cup {None}, len : Lengths \cup {None}]
  /\ file \in [Ids -> Lengths \cup {None}]
  /\ purging \in BOOLEAN
  /\ theirs \in Ids \cup {None}
  /\ snap \in [Actors -> Ids \cup {None}]

LEMMA TypeParts == (TypeOK <=> StoreTypes /\ ProgramTypes) /\ (TypeOK' <=> StoreTypes' /\ ProgramTypes')
BY DEF TypeOK, StoreTypes, ProgramTypes

LEMMA TypeInit == Init => TypeOK
<1> SUFFICES ASSUME Init PROVE TypeOK
  OBVIOUS
<1>1. {0, 1} \subseteq 0..MaxFetches /\ 1 \in Ids
  BY ThumbnailsAssumption DEF Ids
<1>2. fetched \in {0, 1} /\ media \in [fs : Ids \cup {None}, bad : BOOLEAN] /\ source \subseteq Ids
  BY <1>1 DEF Init, NoMedia, Ids
<1>3. StoreTypes
  BY <1>1, <1>2 DEF Init, StoreTypes, NoRow
<1>4. ProgramTypes
  BY DEF Init, ProgramTypes, Replies, ActiveSteps, CallSteps
<1> QED BY <1>3, <1>4, TypeParts

\* A step of a request or a job goes on at a step there is, with results there are.
LEMMA StepNames ==
  /\ {"media", "thumbs", "stored", "cache", "join", "wait", "respond"} \subseteq ActiveSteps
  /\ CallSteps \subseteq ActiveSteps
  /\ {"recheck", "acquire", "generate", "create", "install", "stat", "upsert", "put", "return"}
       = CallSteps
  /\ {"none", "notFound", "proxied", "error", "stored", "cached", "generated"} = Replies
BY DEF ActiveSteps, CallSteps, Replies, Bytes

\* What a request's own step does to the program's variables keeps their types.
LEMMA Moves ==
  ASSUME ProgramTypes, NEW a \in Actors
  PROVE  /\ \A step \in ActiveSteps \cup {"idle", "done", "lost"} :
              Goto(a, step) =>
                /\ pc' \in [Actors -> ActiveSteps \cup {"idle", "done", "lost"}]
                /\ result' \in [Requests -> {"none", "bytes", "error"}]
                /\ reply' \in [Requests -> Replies]
         /\ \A code \in Replies :
              Answer(a, code) =>
                /\ pc' \in [Actors -> ActiveSteps \cup {"idle", "done", "lost"}]
                /\ result' \in [Requests -> {"none", "bytes", "error"}]
                /\ reply' \in [Requests -> Replies]
         /\ \A value \in {"none", "bytes", "error"} :
              Return(a, value) =>
                /\ pc' \in [Actors -> ActiveSteps \cup {"idle", "done", "lost"}]
                /\ result' \in [Requests -> {"none", "bytes", "error"}]
                /\ reply' \in [Requests -> Replies]
BY StepNames DEF ProgramTypes, Goto, Answer, Return

\* The steps of one request or job.
LEMMA TypesOfActor ==
  ASSUME TypeOK, NEW a \in Actors, ActorStep(a), IdsMade
  PROVE  TypeOK'
<1>1. StoreTypes /\ ProgramTypes
  BY TypeParts
<1>2. CASE AcquireSlot(a)
  <2>1. ProgramTypes'
    BY <1>1, <1>2, StepNames, Moves DEF ProgramTypes, AcquireSlot, GiveUp, store, local
  <2> QED BY <1>1, <1>2, <2>1, TypeParts DEF StoreTypes, AcquireSlot, store, local
<1>3. CASE Generate(a)
  <2>1. Generated(a) \/ GenerateFails(a)
    BY <1>3 DEF Generate
  <2>2. made' \subseteq Requests
    BY <1>1, <2>1 DEF Generated, GenerateFails, ProgramTypes
  <2>3. Destination(a) \in ActiveSteps \cup {"idle", "done", "lost"}
    BY StepNames DEF Destination
  <2>4. /\ pc' \in [Actors -> ActiveSteps \cup {"idle", "done", "lost"}]
        /\ result' \in [Requests -> {"none", "bytes", "error"}]
        /\ reply' \in [Requests -> Replies]
    BY <1>1, <2>1, <2>3, StepNames, Moves DEF Generated, GenerateFails, GiveUp
  <2>5. slots' \in [Workers -> Int]
    <3>1. slots \in [Workers -> Int] /\ slots' = [slots EXCEPT ![at[a]] = @ - 1]
      BY <1>1, <1>3 DEF ProgramTypes, Generate
    <3> DEFINE w == at[a]
    <3> HIDE DEF w
    <3>2. slots' = [slots EXCEPT ![w] = @ - 1]
      BY <3>1 DEF w
    <3>3. CASE w \in Workers
      BY <3>1, <3>2, <3>3
    <3>4. CASE w \notin Workers
      BY <3>1, <3>2, <3>4
    <3> QED BY <3>3, <3>4
  <2>6. UNCHANGED <<cache, flight, at, leader, found, size, gone>>
    BY <1>3 DEF Generate, local
  <2>7. ProgramTypes'
    BY <1>1, <2>2, <2>4, <2>5, <2>6 DEF ProgramTypes
  <2> QED BY <1>1, <1>3, <2>7, TypeParts DEF StoreTypes, Generate, store, local
<1>4. CASE CreateTemp(a)
  <2>1. ProgramTypes'
    BY <1>1, <1>4, StepNames, Moves DEF ProgramTypes, CreateTemp, NotStored, process, local
  <2> QED BY <1>1, <1>4, <2>1, TypeParts DEF StoreTypes, CreateTemp, store, local
<1>5. CASE Install(a)
  <2>1. ProgramTypes'
    BY <1>1, <1>5, StepNames, Moves DEF ProgramTypes, Install, NotStored, process, local
  <2>2. file' \in [Ids -> Lengths \cup {None}]
    BY <1>1, <1>5 DEF StoreTypes, Install, Lengths
  <2> QED BY <1>1, <1>5, <2>1, <2>2, TypeParts DEF StoreTypes, Install, local
<1>6. CASE Stat(a)
  <2>1. snap[a] \in Ids
    BY <1>1, <1>6, IdsMade DEF IdsMade, WriteSteps, Stat, StoreTypes
  <2>2. size' \in [Actors -> Lengths \cup {None}]
    BY <1>1, <1>6, <2>1 DEF StoreTypes, ProgramTypes, Stat, Lengths
  <2>3. ProgramTypes'
    BY <1>1, <1>6, <2>2, StepNames, Moves DEF ProgramTypes, Stat, NotStored, process
  <2> QED BY <1>1, <1>6, <2>3, TypeParts DEF StoreTypes, Stat, store
<1>7. CASE StoreThumbnail(a)
  <2>1. row' \in [fs : Ids \cup {None}, len : Lengths \cup {None}]
    <3>1. snap[a] \in Ids \cup {None} /\ size[a] \in Lengths \cup {None}
      BY <1>1 DEF StoreTypes, ProgramTypes
    <3>2. Upsert(snap[a], size[a]) \/ UNCHANGED row
      BY <1>7 DEF StoreThumbnail
    <3> QED BY <1>1, <3>1, <3>2 DEF StoreTypes, Upsert
  <2>2. ProgramTypes'
    BY <1>1, <1>7, StepNames, Moves DEF ProgramTypes, StoreThumbnail, NotStored, Stored, process
  <2> QED BY <1>1, <1>7, <2>1, <2>2, TypeParts DEF StoreTypes, StoreThumbnail
<1> QED BY <1>2, <1>3, <1>4, <1>5, <1>6, <1>7 DEF ActorStep

\* The steps that only a request has, or only a job.
LEMMA TypesOfRequest ==
  ASSUME TypeOK, CallShape, NEW r \in Requests,
         \/ Arrive(r) \/ LookupMedia(r) \/ FetchMedia(r) \/ LookupThumbnails(r)
         \/ OpenStored(r) \/ OpenCached(r) \/ Join(r) \/ Recheck(r) \/ Put(r)
         \/ Release(r) \/ Respond(r) \/ ClientLeaves(r)
  PROVE  TypeOK'
<1> r \in Actors
  BY DEF Actors
<1>1. StoreTypes /\ ProgramTypes
  BY TypeParts
<1>2. CASE Arrive(r)
  <2>1. ProgramTypes'
    BY <1>1, <1>2, StepNames, Moves DEF ProgramTypes, Arrive, process
  <2> QED BY <1>1, <1>2, <2>1, TypeParts DEF StoreTypes, Arrive, store
<1>3. CASE LookupMedia(r)
  <2>1. ProgramTypes'
    BY <1>1, <1>3, StepNames, Moves DEF ProgramTypes, LookupMedia, Gate, process
  <2> QED BY <1>1, <1>3, <2>1, TypeParts DEF StoreTypes, LookupMedia, Gate, store
<1>4. CASE FetchMedia(r)
  <2>1. ProgramTypes'
    BY <1>1, <1>4, StepNames, Moves DEF ProgramTypes, FetchMedia, process
  <2>2. NewMedia => /\ fetched' \in 0..MaxFetches /\ source' \subseteq Ids
                    /\ media' \in [fs : Ids \cup {None}, bad : BOOLEAN] /\ fetched' \in Ids
    BY <1>1, ThumbnailsAssumption DEF NewMedia, StoreTypes, Ids
  <2> QED BY <1>1, <1>4, <2>1, <2>2, TypeParts DEF StoreTypes, FetchMedia
<1>5. CASE LookupThumbnails(r)
  <2>1. found' \in [Requests -> Ids \cup {None}]
    BY <1>1, <1>5 DEF LookupThumbnails, ProgramTypes, StoreTypes
  <2>2. ProgramTypes'
    BY <1>1, <1>5, <2>1, StepNames, Moves DEF ProgramTypes, LookupThumbnails, process
  <2> QED BY <1>1, <1>5, <2>2, TypeParts DEF StoreTypes, LookupThumbnails, store
<1>6. CASE OpenStored(r)
  <2>1. ProgramTypes'
    BY <1>1, <1>6, StepNames, Moves DEF ProgramTypes, OpenStored, process
  <2> QED BY <1>1, <1>6, <2>1, TypeParts DEF StoreTypes, OpenStored, store
<1>7. CASE OpenCached(r)
  <2>1. ProgramTypes'
    BY <1>1, <1>7, StepNames, Moves DEF ProgramTypes, OpenCached, process, local
  <2> QED BY <1>1, <1>7, <2>1, TypeParts DEF StoreTypes, OpenCached, store, local
<1>8. CASE Join(r)
  <2>1. leader' \in [Requests -> Requests \cup {None}] /\ flight' \in [Workers -> Requests \cup {None}]
    BY <1>1, <1>8, StepNames DEF Join, ProgramTypes, CallShape, Active
  <2>2. ProgramTypes'
    BY <1>1, <1>8, <2>1, StepNames, Moves DEF ProgramTypes, Join
  <2> QED BY <1>1, <1>8, <2>2, TypeParts DEF StoreTypes, Join, store
<1>9. CASE Recheck(r)
  <2>1. ProgramTypes'
    BY <1>1, <1>9, StepNames, Moves DEF ProgramTypes, Recheck, process, local
  <2> QED BY <1>1, <1>9, <2>1, TypeParts DEF StoreTypes, Recheck, store, local
<1>10. CASE Put(r)
  <2>1. cache' \subseteq Workers
    BY <1>1, <1>10, StepNames DEF Put, ProgramTypes, CallShape, Active
  <2>2. ProgramTypes'
    BY <1>1, <1>10, <2>1, StepNames, Moves DEF ProgramTypes, Put, local
  <2> QED BY <1>1, <1>10, <2>2, TypeParts DEF StoreTypes, Put, store, local
<1>11. CASE Release(r)
  <2>1. /\ pc' \in [Actors -> ActiveSteps \cup {"idle", "done", "lost"}]
        /\ result' \in [Requests -> {"none", "bytes", "error"}]
        /\ flight' \in [Workers -> Requests \cup {None}]
    BY <1>1, <1>11, StepNames DEF Release, ProgramTypes
  <2>2. ProgramTypes'
    BY <1>1, <1>11, <2>1 DEF ProgramTypes, Release, local
  <2> QED BY <1>1, <1>11, <2>2, TypeParts DEF StoreTypes, Release, store, local
<1>12. CASE Respond(r)
  <2>1. ProgramTypes'
    BY <1>1, <1>12, StepNames, Moves DEF ProgramTypes, Respond, process, local
  <2> QED BY <1>1, <1>12, <2>1, TypeParts DEF StoreTypes, Respond, store, local
<1>13. CASE ClientLeaves(r)
  BY <1>1, <1>13, TypeParts DEF StoreTypes, ProgramTypes, ClientLeaves, store, process
<1> QED BY <1>2, <1>3, <1>4, <1>5, <1>6, <1>7, <1>8, <1>9, <1>10, <1>11, <1>12, <1>13

\* The steps of everyone else.
LEMMA TypesOfOthers ==
  ASSUME TypeOK, IdsMade, (\E j \in Jobs : StartJob(j)) \/ Environment
  PROVE  TypeOK'
<1>1. StoreTypes /\ ProgramTypes
  BY TypeParts
<1>2. ASSUME NEW j \in Jobs, StartJob(j) PROVE TypeOK'
  <2>1. ProgramTypes'
    BY <1>1, <1>2, StepNames, Moves DEF ProgramTypes, StartJob, process, Actors
  <2> QED BY <1>1, <1>2, <2>1, TypeParts DEF StoreTypes, StartJob, store
<1>3. ASSUME NEW w \in Workers, Crash(w) PROVE TypeOK'
  <2>1. ProgramTypes'
    BY <1>1, <1>3 DEF ProgramTypes, Crash, local
  <2> QED BY <1>1, <1>3, <2>1, TypeParts DEF StoreTypes, Crash, store, local
<1>4. ASSUME NEW w \in Workers, Evict(w) PROVE TypeOK'
  BY <1>1, <1>4, TypeParts DEF StoreTypes, ProgramTypes, Evict, store, local
<1>5. ASSUME UNCHANGED Others PROVE ProgramTypes' /\ UNCHANGED <<kind, snap>>
  BY <1>1, <1>5 DEF ProgramTypes, Others, process, local
<1>6. CASE SynapseWrites
  <2>1. theirs' \in Ids /\ file' \in [Ids -> Lengths \cup {None}]
    BY <1>1, <1>6 DEF SynapseWrites, StoreTypes, Lengths
  <2> QED BY <1>1, <1>5, <1>6, <2>1, TypeParts DEF StoreTypes, SynapseWrites
<1>7. CASE SynapseRecords
  <2>1. row' \in [fs : Ids \cup {None}, len : Lengths \cup {None}]
    BY <1>1, <1>7 DEF SynapseRecords, Upsert, StoreTypes, Lengths
  <2> QED BY <1>1, <1>5, <1>7, <2>1, TypeParts DEF StoreTypes, SynapseRecords
<1>8. CASE Fetch
  <2>1. /\ fetched' \in 0..MaxFetches /\ source' \subseteq Ids
        /\ media' \in [fs : Ids \cup {None}, bad : BOOLEAN]
    BY <1>1, <1>8, ThumbnailsAssumption DEF NewMedia, StoreTypes, Ids, Fetch
  <2> QED BY <1>1, <1>5, <1>8, <2>1, TypeParts DEF StoreTypes, Fetch
<1>9. CASE Quarantine
  <2>1. media' \in [fs : Ids \cup {None}, bad : BOOLEAN]
    BY <1>1, <1>9 DEF Quarantine, StoreTypes
  <2> QED BY <1>1, <1>5, <1>9, <2>1, TypeParts DEF StoreTypes, Quarantine
<1>10. CASE PurgeFiles
  <2>1. file' \in [Ids -> Lengths \cup {None}] /\ source' \subseteq Ids
    BY <1>1, <1>10 DEF PurgeFiles, StoreTypes
  <2> QED BY <1>1, <1>5, <1>10, <2>1, TypeParts DEF StoreTypes, PurgeFiles
<1>11. CASE PurgeRows
  <2>1. media' \in [fs : Ids \cup {None}, bad : BOOLEAN] /\ row' \in [fs : Ids \cup {None}, len : Lengths \cup {None}]
    BY <1>11 DEF PurgeRows, NoMedia, NoRow
  <2> QED BY <1>1, <1>5, <1>11, <2>1, TypeParts DEF StoreTypes, PurgeRows
<1> QED BY <1>2, <1>3, <1>4, <1>6, <1>7, <1>8, <1>9, <1>10, <1>11 DEF Environment
------------------------------------------------------------------------------
\* The store: files before rows.

LEMMA FilesInit == Init => IdsMade /\ FilesFirst
<1> SUFFICES ASSUME Init PROVE IdsMade /\ FilesFirst
  OBVIOUS
<1>1. fetched \in {0, 1} /\ source = Made /\ (media.fs = None \/ media.fs = fetched)
  BY DEF Init, NoMedia, Made
<1>2. row = NoRow /\ theirs = None /\ \A a \in Actors : snap[a] = None /\ pc[a] = "idle"
  BY DEF Init
<1> QED BY <1>1, <1>2 DEF IdsMade, FilesFirst, WriteSteps

\* The steps that leave the store and what everyone goes on with alone.
KeepsStore ==
  /\ UNCHANGED <<store, snap>>
  /\ \A a \in Actors : /\ pc'[a] \in WriteSteps => snap[a] # None
                       /\ pc'[a] \in {"stat", "upsert"} => HasFile(snap[a])

LEMMA StoreKept ==
  ASSUME IdsMade, FilesFirst, KeepsStore
  PROVE  IdsMade' /\ FilesFirst'
<1>1. UNCHANGED <<media, fetched, source, row, file, purging, theirs, snap>>
  BY DEF KeepsStore, store
<1>2. Made' = Made /\ \A i : HasFile(i)' <=> HasFile(i)
  BY <1>1 DEF Made, HasFile
<1>3. IdsMade'
  BY <1>1, <1>2 DEF IdsMade, KeepsStore, NoRow
<1>4. FilesFirst'
  BY <1>1, <1>2 DEF FilesFirst, KeepsStore, NoRow
<1> QED BY <1>3, <1>4

\* One request or job goes on to a step of which the invariant is true.
LEMMA GoesOn ==
  ASSUME TypeOK, IdsMade, FilesFirst, NEW a \in Actors, NEW step,
         pc' = [pc EXCEPT ![a] = step], UNCHANGED <<store, snap>>,
         step \in WriteSteps => snap[a] # None,
         step \in {"stat", "upsert"} => HasFile(snap[a])
  PROVE  IdsMade' /\ FilesFirst'
<1>1. pc'[a] = step /\ \A b \in Actors \ {a} : pc'[b] = pc[b]
  BY DEF TypeOK
<1>2. KeepsStore
  BY <1>1 DEF KeepsStore, IdsMade, FilesFirst
<1> QED BY <1>2, StoreKept

\* The steps of a call, the two that write excepted.
LEMMA FilesOfCall ==
  ASSUME TypeOK, IdsMade, FilesFirst, NEW a \in Actors,
         AcquireSlot(a) \/ Generate(a) \/ CreateTemp(a) \/ Stat(a)
  PROVE  IdsMade' /\ FilesFirst'
<1>1. UNCHANGED <<store, snap>>
  BY DEF AcquireSlot, Generate, CreateTemp, Stat, local
<1>2. CASE AcquireSlot(a)
  <2>1. PICK step \in {"generate", "return", "done"} : pc' = [pc EXCEPT ![a] = step]
    BY <1>2 DEF AcquireSlot, GiveUp, Goto, Return
  <2> QED BY <1>1, <2>1, GoesOn DEF WriteSteps
<1>3. CASE Generate(a)
  <2>1. PICK step \in {"create", "put", "return", "done"} :
          pc' = [pc EXCEPT ![a] = step] /\ (step = "create" => snap[a] \in source)
    BY <1>3 DEF Generate, Generated, Destination, GenerateFails, GiveUp, Goto, Return
  <2>2. snap[a] \in source => snap[a] # None
    BY ThumbnailsAssumption DEF TypeOK
  <2> QED BY <1>1, <2>1, <2>2, GoesOn DEF WriteSteps
<1>4. CASE CreateTemp(a)
  <2>1. PICK step \in {"install", "put", "done"} : pc' = [pc EXCEPT ![a] = step]
    BY <1>4 DEF CreateTemp, NotStored, Goto
  <2>2. snap[a] # None
    BY <1>4 DEF CreateTemp, IdsMade, WriteSteps
  <2> QED BY <1>1, <2>1, <2>2, GoesOn DEF WriteSteps
<1>5. CASE Stat(a)
  <2>1. PICK step \in {"upsert", "put", "done"} : pc' = [pc EXCEPT ![a] = step]
    BY <1>5 DEF Stat, NotStored, Goto
  <2>2. snap[a] # None /\ HasFile(snap[a])
    BY <1>5 DEF Stat, IdsMade, FilesFirst, WriteSteps
  <2> QED BY <1>1, <2>1, <2>2, GoesOn DEF WriteSteps
<1> QED BY <1>2, <1>3, <1>4, <1>5

\* store.go:227-253: the file lands, and only then a row is written.
LEMMA FilesOfWriting ==
  ASSUME TypeOK, IdsMade, FilesFirst, NEW a \in Actors, Install(a) \/ StoreThumbnail(a)
  PROVE  IdsMade' /\ FilesFirst'
<1>1. CASE Install(a)
  <2>1. snap[a] # None /\ snap[a] \in Ids
    BY <1>1 DEF Install, IdsMade, WriteSteps, TypeOK
  <2>2. /\ UNCHANGED <<media, fetched, source, row, purging, theirs, snap>>
        /\ file' = [file EXCEPT ![snap[a]] = "worker"] \/ UNCHANGED file
    BY <1>1 DEF Install, local
  <2>3. PICK step \in {"stat", "put", "done"} :
          /\ pc' = [pc EXCEPT ![a] = step]
          /\ step = "stat" => file' = [file EXCEPT ![snap[a]] = "worker"]
    BY <1>1 DEF Install, NotStored, Goto
  <2>4. pc'[a] = step /\ \A b \in Actors \ {a} : pc'[b] = pc[b]
    BY <2>3 DEF TypeOK
  <2>5. Made' = Made /\ IdsMade'
    BY <2>1, <2>2, <2>3, <2>4 DEF IdsMade, Made, WriteSteps, NoRow
  <2>6. "worker" # None
    BY ThumbnailsAssumption DEF Lengths
  <2>7. \A i \in Ids : HasFile(i) => HasFile(i)'
    BY <2>1, <2>2, <2>6 DEF HasFile, TypeOK
  <2>8. step = "stat" => HasFile(snap[a])'
    BY <2>1, <2>2, <2>3, <2>6 DEF HasFile, TypeOK
  <2>9. /\ row # NoRow => row.fs \in Ids
        /\ theirs # None => theirs \in Ids
        /\ \A b \in Actors : pc[b] \in {"stat", "upsert"} => snap[b] \in Ids
    <3>1. Made \subseteq Ids
      BY ThumbnailsAssumption DEF TypeOK, Made, Ids
    <3> QED BY <3>1 DEF IdsMade, WriteSteps
  <2>10. row' # NoRow => HasFile(row.fs)'
    BY <2>2, <2>7, <2>9 DEF FilesFirst
  <2>11. theirs' # None => HasFile(theirs)'
    BY <2>2, <2>7, <2>9 DEF FilesFirst
  <2>12. \A b \in Actors : pc'[b] \in {"stat", "upsert"} => HasFile(snap[b])'
    BY <2>2, <2>3, <2>4, <2>7, <2>8, <2>9 DEF FilesFirst
  <2> QED BY <2>5, <2>10, <2>11, <2>12 DEF FilesFirst
<1>2. CASE StoreThumbnail(a)
  <2>1. UNCHANGED <<media, fetched, source, file, purging, theirs, snap>>
    BY <1>2 DEF StoreThumbnail
  <2>2. pc[a] = "upsert" /\ snap[a] \in Made /\ HasFile(snap[a])
    BY <1>2 DEF StoreThumbnail, IdsMade, FilesFirst, WriteSteps
  <2>3. PICK step \in {"return", "put", "done"} : pc' = [pc EXCEPT ![a] = step]
    BY <1>2 DEF StoreThumbnail, NotStored, Stored, Goto, Return
  <2>4. pc'[a] = step /\ \A b \in Actors \ {a} : pc'[b] = pc[b]
    BY <2>3 DEF TypeOK
  <2>5. row' # NoRow => row'.fs \in Made /\ HasFile(row'.fs)
    <3>1. Upsert(snap[a], size[a]) \/ row' = row
      BY <1>2 DEF StoreThumbnail
    <3>2. CASE row' = row
      BY <3>2 DEF IdsMade, FilesFirst
    <3>3. CASE Upsert(snap[a], size[a]) /\ row = NoRow
      BY <2>2, <3>3 DEF Upsert
    <3>4. CASE Upsert(snap[a], size[a]) /\ row # NoRow
      <4>1. row'.fs = row.fs
        BY <3>4 DEF Upsert, TypeOK
      <4> QED BY <3>4, <4>1 DEF IdsMade, FilesFirst
    <3> QED BY <3>1, <3>2, <3>3, <3>4
  <2>6. Made' = Made /\ \A i : HasFile(i)' <=> HasFile(i)
    BY <2>1 DEF Made, HasFile
  <2>7. IdsMade'
    BY <2>1, <2>3, <2>4, <2>5, <2>6 DEF IdsMade, WriteSteps
  <2>8. row' # NoRow => HasFile(row.fs)'
    BY <2>1, <2>5 DEF HasFile
  <2>9. FilesFirst'
    BY <2>1, <2>3, <2>4, <2>6, <2>8 DEF FilesFirst
  <2> QED BY <2>7, <2>9
<1> QED BY <1>1, <1>2

\* A request that has not begun to write goes on with the ID of a media row it has read.
LEMMA FilesOfRequest ==
  ASSUME TypeOK, IdsMade, FilesFirst, NEW r \in Requests,
         \/ Arrive(r) \/ LookupMedia(r) \/ FetchMedia(r) \/ LookupThumbnails(r)
         \/ OpenStored(r) \/ OpenCached(r) \/ Join(r) \/ Recheck(r) \/ Put(r)
         \/ Release(r) \/ Respond(r) \/ ClientLeaves(r)
  PROVE  IdsMade' /\ FilesFirst'
<1> r \in Actors
  BY DEF Actors
<1> DEFINE Elsewhere == {"media", "thumbs", "stored", "cache", "join", "wait", "recheck",
                         "acquire", "return", "done"}
<1>1. CASE \/ Arrive(r) \/ LookupThumbnails(r) \/ OpenStored(r) \/ OpenCached(r)
           \/ Join(r) \/ Recheck(r) \/ Put(r) \/ Respond(r)
  <2>1. UNCHANGED <<store, snap>>
    BY <1>1 DEF Arrive, LookupThumbnails, OpenStored, OpenCached, Join, Recheck, Put, Respond, local
  <2>2. PICK step \in Elsewhere : pc' = [pc EXCEPT ![r] = step]
    BY <1>1 DEF Arrive, LookupThumbnails, OpenStored, OpenCached, Join, Recheck, Put, Respond,
                Goto, Answer, Return
  <2> QED BY <2>1, <2>2, GoesOn DEF WriteSteps
<1>2. CASE Release(r)
  <2>1. \A a \in Actors : pc'[a] = pc[a] \/ pc'[a] = "respond"
    BY <1>2 DEF Release
  <2>2. UNCHANGED <<store, snap>>
    BY <1>2 DEF Release, local
  <2>3. KeepsStore
    BY <2>1, <2>2 DEF KeepsStore, IdsMade, FilesFirst, WriteSteps
  <2> QED BY <2>3, StoreKept
<1>3. CASE ClientLeaves(r)
  <2>1. UNCHANGED <<store, snap, pc>>
    BY <1>3 DEF ClientLeaves
  <2>2. KeepsStore
    BY <2>1 DEF KeepsStore, IdsMade, FilesFirst
  <2> QED BY <2>2, StoreKept
<1>4. CASE LookupMedia(r) \/ FetchMedia(r)
  <2>1. PICK step \in Elsewhere : pc' = [pc EXCEPT ![r] = step]
    BY <1>4 DEF LookupMedia, FetchMedia, Gate, Goto, Answer
  <2>2. pc'[r] = step /\ \A b \in Actors \ {r} : pc'[b] = pc[b]
    BY <2>1 DEF TypeOK
  <2>3. UNCHANGED <<row, file, purging, theirs>>
    BY <1>4 DEF LookupMedia, FetchMedia, store
  <2>4. \/ UNCHANGED <<media, fetched, source>>
        \/ NewMedia
    BY <1>4 DEF LookupMedia, FetchMedia, store
  <2>5. snap' = [snap EXCEPT ![r] = snap'[r]]
    BY <1>4 DEF LookupMedia, FetchMedia, Gate, TypeOK
  <2>6. snap'[r] \in {snap[r], media.fs, fetched'}
    BY <1>4 DEF LookupMedia, FetchMedia, Gate, TypeOK
  <2>7. fetched \in Nat /\ Made \subseteq Made' /\ fetched' \in Nat
    BY <2>4 DEF TypeOK, NewMedia, Made
  <2>8. snap'[r] # None => snap'[r] \in Made'
    <3>1. CASE UNCHANGED <<media, fetched, source>>
      <4>1. snap'[r] \in {snap[r], media.fs}
        BY <1>4, <3>1 DEF LookupMedia, FetchMedia, Gate, TypeOK, NewMedia
      <4>2. media.fs # None => media.fs \in Made
        BY ThumbnailsAssumption DEF IdsMade, Made, TypeOK, Ids
      <4> QED BY <4>1, <4>2, <3>1, <2>7 DEF IdsMade
    <3>2. CASE NewMedia
      <4>1. fetched' \in Made'
        BY <3>2, <2>7 DEF NewMedia, Made
      <4>2. media.fs # None => media.fs \in Made
        BY ThumbnailsAssumption DEF IdsMade, Made, TypeOK, Ids
      <4> QED BY <2>6, <2>7, <4>1, <4>2 DEF IdsMade
    <3> QED BY <2>4, <3>1, <3>2
  <2>9. media'.fs # None => media'.fs = fetched' 
    BY <2>4 DEF IdsMade, NewMedia
  <2>10. source' \subseteq Made'
    <3>1. NewMedia => fetched' \in Made' /\ source' = source \cup {fetched'}
      BY <2>7 DEF NewMedia, Made
    <3> QED BY <2>4, <2>7, <3>1 DEF IdsMade
  <2>11. \A b \in Actors : /\ snap'[b] # None => snap'[b] \in Made'
                           /\ pc'[b] \in WriteSteps => snap'[b] # None
    BY <2>1, <2>2, <2>5, <2>7, <2>8 DEF IdsMade, WriteSteps, TypeOK
  <2>12. IdsMade'
    BY <2>3, <2>7, <2>9, <2>10, <2>11 DEF IdsMade, NoRow
  <2>13. \A i \in Made : HasFile(i) => HasFile(i)'
    BY <2>3, <2>4 DEF HasFile, NewMedia, Made, TypeOK
  <2>14. \A b \in Actors : pc'[b] \in {"stat", "upsert"} =>
           pc[b] = pc'[b] /\ snap'[b] = snap[b] /\ snap[b] \in Made
    BY <2>1, <2>2, <2>5 DEF IdsMade, WriteSteps, TypeOK
  <2>15. FilesFirst'
    <3>1. row' # NoRow => HasFile(row.fs)'
      BY <2>3, <2>13 DEF IdsMade, FilesFirst
    <3>2. theirs' # None => HasFile(theirs)'
      BY <2>3, <2>13 DEF IdsMade, FilesFirst
    <3>3. \A b \in Actors : pc'[b] \in {"stat", "upsert"} => HasFile(snap[b])'
      BY <2>13, <2>14 DEF FilesFirst
    <3>4. \A b \in Actors : pc'[b] \in {"stat", "upsert"} => (snap[b])' = snap[b]
      BY <2>14
    <3> QED BY <2>3, <3>1, <3>2, <3>3, <3>4 DEF FilesFirst, HasFile, NoRow
  <2> QED BY <2>12, <2>15
<1> QED BY <1>1, <1>2, <1>3, <1>4

\* Synapse writes its file before its row too, and a purge takes the rows last: while one
\* is under way nothing is said of the files.
LEMMA FilesOfOthers ==
  ASSUME TypeOK, IdsMade, FilesFirst, (\E j \in Jobs : StartJob(j)) \/ Environment
  PROVE  IdsMade' /\ FilesFirst'
<1>0. Made \subseteq Ids /\ None \notin Ids /\ (media.fs # None => media.fs \in Made)
  BY ThumbnailsAssumption DEF TypeOK, Made, Ids, IdsMade
<1>1. ASSUME NEW j \in Jobs, StartJob(j) PROVE IdsMade' /\ FilesFirst'
  <2>1. /\ j \in Actors /\ UNCHANGED store
        /\ snap' = [snap EXCEPT ![j] = media.fs] /\ pc' = [pc EXCEPT ![j] = "acquire"]
    BY <1>1 DEF StartJob, Goto, Actors
  <2>2. UNCHANGED <<media, fetched, source, row, file, purging, theirs>>
    BY <2>1 DEF store
  <2>3. Made' = Made /\ \A i : HasFile(i)' <=> HasFile(i)
    BY <2>2 DEF Made, HasFile
  <2>4. snap'[j] = media.fs /\ pc'[j] = "acquire"
    BY <2>1 DEF TypeOK
  <2>5. \A b \in Actors \ {j} : snap'[b] = snap[b] /\ pc'[b] = pc[b]
    BY <2>1 DEF TypeOK
  <2>6. \A b \in Actors : /\ snap'[b] # None => snap'[b] \in Made
                          /\ pc'[b] \in WriteSteps => snap'[b] # None
    BY <1>0, <2>4, <2>5 DEF IdsMade, WriteSteps
  <2>7. IdsMade'
    BY <2>2, <2>3, <2>6 DEF IdsMade, NoRow
  <2>8. \A b \in Actors : pc'[b] \in {"stat", "upsert"} => HasFile(snap[b]) /\ snap'[b] = snap[b]
    BY <2>4, <2>5 DEF FilesFirst
  <2>9. \A b \in Actors : pc'[b] \in {"stat", "upsert"} => HasFile(snap'[b])
    BY <2>8
  <2>10. FilesFirst'
    BY <2>2, <2>9 DEF FilesFirst, HasFile, NoRow
  <2> QED BY <2>7, <2>10
<1>2. ASSUME NEW w \in Workers, Crash(w) \/ Evict(w) PROVE IdsMade' /\ FilesFirst'
  <2>1. UNCHANGED <<store, snap>>
    BY <1>2 DEF Crash, Evict, local
  <2>2. \A a \in Actors : pc'[a] = pc[a] \/ pc'[a] = "lost"
    BY <1>2 DEF Crash, Evict
  <2>3. KeepsStore
    BY <2>1, <2>2 DEF KeepsStore, IdsMade, FilesFirst, WriteSteps
  <2> QED BY <2>3, StoreKept
<1>3. UNCHANGED Others => UNCHANGED <<snap, pc>>
  BY DEF Others, local
<1>4. CASE SynapseWrites
  <2>1. /\ UNCHANGED <<media, fetched, source, row, purging, snap, pc>>
        /\ media.fs \in Ids /\ theirs' = media.fs /\ media.fs # None
        /\ file' = [file EXCEPT ![media.fs] = "synapse"]
    BY <1>0, <1>3, <1>4 DEF SynapseWrites, TypeOK
  <2>2. Made' = Made /\ IdsMade'
    BY <1>0, <2>1 DEF IdsMade, Made, NoRow
  <2>3. "synapse" # None
    BY ThumbnailsAssumption DEF Lengths
  <2>4. \A i \in Ids : HasFile(i)'
    BY <2>1, <2>3 DEF HasFile, TypeOK
  <2>5. row' # NoRow => row'.fs \in Made
    BY <2>2 DEF IdsMade, NoRow
  <2>6. \A b \in Actors : pc'[b] \in {"stat", "upsert"} => snap'[b] \in Made
    BY <2>2 DEF IdsMade, WriteSteps
  <2>7. \A i \in Ids : i = media'.fs /\ ~purging' => file'[i] # None
    BY <2>4 DEF HasFile
  <2>8. FilesFirst'
    BY <1>0, <2>1, <2>5, <2>6, <2>7 DEF FilesFirst, HasFile, NoRow
  <2> QED BY <2>2, <2>8
<1>5. CASE SynapseRecords
  <2>1. UNCHANGED <<media, fetched, source, file, purging, snap, pc>> /\ theirs' = None
    BY <1>3, <1>5 DEF SynapseRecords
  <2>2. theirs \in Made /\ HasFile(theirs) /\ Upsert(theirs, "synapse")
    BY <1>5 DEF SynapseRecords, IdsMade, FilesFirst
  <2>3. row'.fs \in Made /\ HasFile(row'.fs)
    <3>1. CASE row = NoRow
      BY <2>2, <3>1 DEF Upsert
    <3>2. CASE row # NoRow
      <4>1. row'.fs = row.fs
        BY <2>2, <3>2 DEF Upsert, TypeOK
      <4> QED BY <3>2, <4>1 DEF IdsMade, FilesFirst
    <3> QED BY <3>1, <3>2
  <2>4. Made' = Made /\ \A i : HasFile(i)' <=> HasFile(i)
    BY <2>1 DEF Made, HasFile
  <2>5. IdsMade'
    BY <2>1, <2>3, <2>4 DEF IdsMade
  <2>6. HasFile(row.fs)'
    BY <2>1, <2>3 DEF HasFile
  <2>7. FilesFirst'
    BY <2>1, <2>4, <2>6 DEF FilesFirst
  <2> QED BY <2>5, <2>7
<1>6. CASE Fetch
  <2>1. UNCHANGED <<row, file, purging, theirs, snap, pc>> /\ NewMedia
    BY <1>3, <1>6 DEF Fetch
  <2>2. fetched \in Nat /\ fetched' \in Made' /\ Made \subseteq Made' /\ fetched' \notin Made
    BY <2>1 DEF TypeOK, NewMedia, Made
  <2>3. media'.fs = fetched' /\ source' = source \cup {fetched'}
    BY <2>1 DEF NewMedia
  <2>4. IdsMade'
    BY <2>1, <2>2, <2>3 DEF IdsMade, NoRow
  <2>5. \A i \in Made : ~(i = media'.fs)
    BY <2>2, <2>3
  <2>6. /\ row # NoRow => row.fs \in Made
        /\ theirs # None => theirs \in Made
        /\ \A b \in Actors : pc[b] \in {"stat", "upsert"} => snap[b] \in Made
    BY DEF IdsMade, WriteSteps
  <2>7. FilesFirst'
    BY <2>1, <2>5, <2>6 DEF FilesFirst, HasFile, NoRow
  <2> QED BY <2>4, <2>7
<1>7. CASE Quarantine
  <2>1. UNCHANGED <<fetched, source, row, file, purging, theirs, snap, pc>>
    BY <1>3, <1>7 DEF Quarantine
  <2>2. media'.fs = media.fs
    BY <1>7 DEF Quarantine, TypeOK
  <2>3. Made' = Made /\ IdsMade'
    BY <2>1, <2>2 DEF IdsMade, Made, NoRow
  <2>4. FilesFirst'
    BY <2>1, <2>2 DEF FilesFirst, HasFile, NoRow
  <2> QED BY <2>3, <2>4
<1>8. CASE PurgeFiles
  <2>1. /\ UNCHANGED <<media, fetched, row, theirs, snap, pc>>
        /\ purging' = TRUE /\ source' \subseteq source
    BY <1>3, <1>8 DEF PurgeFiles
  <2>2. Made' = Made /\ IdsMade'
    BY <2>1 DEF IdsMade, Made, NoRow
  <2>3. FilesFirst'
    BY <2>1 DEF FilesFirst, HasFile
  <2> QED BY <2>2, <2>3
<1>9. CASE PurgeRows
  <2>1. /\ UNCHANGED <<fetched, source, theirs, file, snap, pc>>
        /\ media'.fs = None /\ row' = NoRow /\ NoRow' = NoRow
    BY <1>3, <1>9 DEF PurgeRows, NoMedia, NoRow
  <2>2. Made' = Made /\ IdsMade'
    BY <2>1 DEF IdsMade, Made
  <2>3. FilesFirst'
    BY <2>1, <2>2 DEF FilesFirst, HasFile, IdsMade, WriteSteps
  <2> QED BY <2>2, <2>3
<1> QED BY <1>1, <1>2, <1>4, <1>5, <1>6, <1>7, <1>8, <1>9 DEF Environment
------------------------------------------------------------------------------
\* The calls: one leader in each process, and what it made is what all are told.

LEMMA CallsInit == Init => Calls
BY ThumbnailsAssumption, StepNames
   DEF Init, Calls, CallShape, LeadersLead, NotCached, Followers, Delivered, Active, InCall, ActiveSteps, CallSteps,
       BeforeMade, BeforeJoin, Actors

\* Where the requests are.
LEMMA Stages ==
  /\ CallSteps \cap (BeforeJoin \cup {"wait", "respond", "done", "lost"}) = {}
  /\ ActiveSteps = CallSteps \cup (BeforeJoin \ {"idle"}) \cup {"wait", "respond"}
  /\ BeforeMade = BeforeJoin \cup {"recheck", "acquire", "generate"}
  /\ {"recheck", "acquire", "generate", "create", "install", "stat", "upsert", "put", "return"}
       = CallSteps
  /\ {"idle", "media", "thumbs", "stored", "cache", "join"} = BeforeJoin
BY DEF ActiveSteps, CallSteps, BeforeJoin, BeforeMade

\* A step of which the calls and their followers take no notice.
KeepsCalls ==
  /\ UNCHANGED <<cache, flight, leader, made>>
  /\ \A r \in Requests : /\ pc'[r] = pc[r] /\ at'[r] = at[r]
                          /\ result'[r] = result[r] /\ reply'[r] = reply[r]

LEMMA CallsKept ==
  ASSUME Calls, KeepsCalls
  PROVE  Calls'
<1>1. CallShape' /\ LeadersLead'
  BY DEF Calls, CallShape, LeadersLead, KeepsCalls, Active, InCall
<1>2. NotCached'
  BY DEF Calls, NotCached, KeepsCalls
<1>3. Followers'
  BY DEF Calls, Followers, KeepsCalls, InCall
<1>4. Delivered'
  BY DEF Calls, Delivered, KeepsCalls
<1> QED BY <1>1, <1>2, <1>3, <1>4 DEF Calls

\* Only r moves, from a step before its call to another or to its answer.
LEMMA BeforeTheCall ==
  ASSUME TypeOK, Calls, NEW r \in Requests, NEW step,
         pc[r] \in BeforeJoin, step \in BeforeJoin \cup {"done"},
         pc' = [pc EXCEPT ![r] = step],
         UNCHANGED <<cache, flight, leader, made, result>>,
         \A q \in Requests \ {r} : at'[q] = at[q] /\ reply'[q] = reply[q],
         step # "done" => step # "idle" /\ at'[r] \in Workers
  PROVE  Calls'
<1> USE DEF Calls
<1>1. r \in Actors /\ Requests \subseteq Actors
  BY DEF Actors
<1>2. pc'[r] = step /\ \A q \in Requests \ {r} : pc'[q] = pc[q]
  BY <1>1 DEF TypeOK
<1>3. leader[r] = None /\ None \notin Actors /\ None \notin made
  BY <1>1, ThumbnailsAssumption DEF CallShape, TypeOK
<1>4. step \notin CallSteps /\ pc[r] \notin CallSteps /\ step \notin {"wait", "respond", "return"}
  BY Stages
<1>5. CallShape' /\ LeadersLead'
  BY <1>2, <1>3, <1>4, Stages DEF CallShape, LeadersLead, Active, InCall
<1>6. NotCached'
  BY <1>2, <1>4 DEF NotCached
<1>7. Followers'
  BY <1>1, <1>2, <1>3, <1>4 DEF Followers, InCall
<1>8. Delivered'
  BY <1>1, <1>2, <1>3, <1>4, Stages DEF Delivered
<1> QED BY <1>5, <1>6, <1>7, <1>8 DEF Calls

\* A request on its way to a call, and a client that leaves.
LEMMA CallsOfArrivals ==
  ASSUME TypeOK, Calls, NEW r \in Requests,
         \/ Arrive(r) \/ LookupMedia(r) \/ FetchMedia(r) \/ LookupThumbnails(r)
         \/ OpenStored(r) \/ OpenCached(r) \/ ClientLeaves(r)
  PROVE  Calls'
<1> USE DEF Calls
<1>1. r \in Actors /\ Requests \subseteq Actors
  BY DEF Actors
<1>2. CASE ClientLeaves(r)
  <2>1. KeepsCalls
    BY <1>2 DEF ClientLeaves, KeepsCalls, process
  <2> QED BY <2>1, CallsKept
<1>3. CASE Arrive(r)
  <2>1. /\ pc[r] = "idle" /\ pc' = [pc EXCEPT ![r] = "media"]
        /\ UNCHANGED <<cache, flight, leader, made, result, reply>>
    BY <1>3 DEF Arrive, Goto, process
  <2>2. at'[r] \in Workers /\ \A q \in Requests \ {r} : at'[q] = at[q]
    BY <1>1, <1>3 DEF Arrive, TypeOK
  <2> QED BY <2>1, <2>2, BeforeTheCall DEF BeforeJoin
<1>4. CASE LookupMedia(r) \/ FetchMedia(r) \/ LookupThumbnails(r) \/ OpenStored(r) \/ OpenCached(r)
  <2>1. /\ pc[r] \in BeforeJoin \ {"idle"}
        /\ UNCHANGED <<cache, flight, at, leader, made, result>>
    BY <1>4 DEF LookupMedia, FetchMedia, LookupThumbnails, OpenStored, OpenCached, Gate, Goto, Answer,
                BeforeJoin, process, local
  <2>2. PICK step \in {"thumbs", "stored", "cache", "join", "done"} : pc' = [pc EXCEPT ![r] = step]
    BY <1>4 DEF LookupMedia, FetchMedia, LookupThumbnails, OpenStored, OpenCached, Gate, Goto, Answer
  <2>3. \A q \in Requests \ {r} : reply'[q] = reply[q]
    BY <1>1, <1>4 DEF LookupMedia, FetchMedia, LookupThumbnails, OpenStored, OpenCached, Gate, Goto,
                      Answer, TypeOK
  <2>4. at[r] \in Workers
    BY <2>1, Stages DEF CallShape, Active
  <2> QED BY <2>1, <2>2, <2>3, <2>4, BeforeTheCall, Stages
<1> QED BY <1>2, <1>3, <1>4

\* handlers.go:396-400: a request leads the call that it finds nobody in, or waits for it.
LEMMA CallsOfJoin ==
  ASSUME TypeOK, Calls, NEW r \in Requests, Join(r)
  PROVE  Calls'
<1> USE DEF Calls
<1>1. r \in Actors /\ Requests \subseteq Actors
  BY DEF Actors
<1>2. /\ pc[r] = "join" /\ leader[r] = None /\ at[r] \in Workers
      /\ UNCHANGED <<cache, at, made, result, reply>>
  BY Stages DEF Join, Goto, CallShape, Active
<1>3. r \notin made /\ None \notin Actors /\ pc[r] \notin CallSteps
  BY <1>1, <1>2, Stages, ThumbnailsAssumption DEF Delivered
<1>4. \A q \in Requests : InCall(q) => q # r /\ flight[at[q]] = q /\ at[q] \in Workers /\ leader[q] = q
  BY <1>3, Stages DEF CallShape, InCall, Active
<1>5. CASE flight[at[r]] = None
  <2>1. /\ leader' = [leader EXCEPT ![r] = r]
        /\ flight' = [flight EXCEPT ![at[r]] = r]
        /\ pc' = [pc EXCEPT ![r] = "recheck"]
    BY <1>5 DEF Join, Goto
  <2>2. /\ leader'[r] = r /\ flight'[at[r]] = r /\ pc'[r] = "recheck"
        /\ \A q \in Requests \ {r} : leader'[q] = leader[q] /\ pc'[q] = pc[q]
        /\ \A w \in Workers \ {at[r]} : flight'[w] = flight[w]
    BY <1>1, <1>2, <2>1 DEF TypeOK
  <2>3. \A q \in Requests : InCall(q) => at[q] # at[r]
    BY <1>1, <1>3, <1>4, <1>5
  <2>4. CallShape'
    BY <1>2, <2>2, <2>3, Stages DEF CallShape, Active, InCall
  <2>5. NotCached'
    BY <1>2, <2>2 DEF NotCached
  <2>6. \A q \in Requests : leader[q] # r
    BY <1>1, <1>2, <1>3 DEF LeadersLead
  <2>9. LeadersLead'
    BY <1>1, <1>2, <2>2, <2>6, <1>3 DEF LeadersLead, TypeOK
  <2>7. Followers'
    BY <2>2, <2>6 DEF Followers, InCall
  <2>8. Delivered'
    BY <1>2, <1>3, <2>2, Stages DEF Delivered
  <2> QED BY <2>4, <2>5, <2>7, <2>8, <2>9
<1>6. CASE flight[at[r]] # None
  <2>1. leader' = [leader EXCEPT ![r] = flight[at[r]]] /\ pc' = [pc EXCEPT ![r] = "wait"]
        /\ UNCHANGED flight
    BY <1>6 DEF Join, Goto
  <2>2. /\ pc'[r] = "wait"
        /\ \A q \in Requests \ {r} : leader'[q] = leader[q] /\ pc'[q] = pc[q]
    BY <1>1, <2>1 DEF TypeOK
  <2>3. CallShape'
    BY <1>2, <2>1, <2>2, Stages DEF CallShape, Active, InCall
  <2>7. LeadersLead'
    <3>1. leader'[r] = flight[at[r]] /\ flight[at[r]] \in Requests \ {r}
      BY <1>1, <1>2, <1>3, <1>6, <2>1 DEF TypeOK, LeadersLead
    <3>2. \A q \in Requests : leader[q] # r
      BY <1>1, <1>2, <1>3 DEF LeadersLead
    <3>3. \A w \in Workers : flight[w] # r
      BY <1>1, <1>2, <1>3 DEF LeadersLead
    <3> QED BY <1>1, <1>2, <2>1, <2>2, <3>1, <3>2, <3>3 DEF LeadersLead, TypeOK
  <2>4. NotCached'
    BY <1>2, <2>2, Stages DEF NotCached
  <2>5. Followers'
    BY <2>2, Stages DEF Followers, InCall
  <2>6. Delivered'
    BY <1>2, <2>2, Stages DEF Delivered
  <2> QED BY <2>3, <2>4, <2>5, <2>6, <2>7
<1> QED BY <1>5, <1>6

\* The leader of a call goes on with it.  What it puts in the cache no other leader of its
\* process misses, for there is none; what it makes, its followers have yet to be told.
LEMMA InTheCall ==
  ASSUME TypeOK, Calls, NEW r \in Requests, NEW step \in CallSteps \ {"recheck"},
         InCall(r), pc' = [pc EXCEPT ![r] = step],
         UNCHANGED <<flight, at, leader, reply>>,
         cache' \subseteq cache \cup {at[r]},
         step # "return" => at[r] \notin cache',
         made' = made \/ made' = made \cup {r},
         r \in made' => step \notin BeforeMade /\ (step = "return" => result'[r] = "bytes"),
         \A q \in Requests \ {r} : result'[q] = result[q]
  PROVE  Calls'
<1> USE DEF Calls
<1>1. r \in Actors /\ Requests \subseteq Actors
  BY DEF Actors
<1>2. pc'[r] = step /\ \A q \in Requests \ {r} : pc'[q] = pc[q]
  BY <1>1 DEF TypeOK
<1>3. leader[r] = r /\ flight[at[r]] = r /\ pc[r] \in CallSteps
  BY DEF CallShape, InCall
<1>4. CallShape' /\ LeadersLead'
  <2>1. at[r] \in Workers /\ step \notin BeforeJoin
    BY <1>3, Stages DEF CallShape, Active
  <2> QED BY <1>2, <1>3, <2>1, Stages DEF CallShape, LeadersLead, Active, InCall
<1>5. NotCached'
  <2>1. \A q \in Requests \ {r} : InCall(q) => at[q] # at[r]
    BY <1>3 DEF CallShape
  <2> QED BY <1>2, <2>1, Stages DEF NotCached, InCall
<1>6. Followers'
  BY <1>2, <1>3 DEF Followers, InCall
<1>7. Delivered'
  <2>1. step \notin {"respond", "done"} /\ (step \in BeforeMade => r \notin made')
    BY Stages
  <2>2. \A q \in Requests \ {r} : leader[q] \in made' /\ pc[q] \in {"respond", "done"} => leader[q] \in made
    BY <1>3 DEF Followers, InCall
  <2> QED BY <1>2, <2>1, <2>2, Stages DEF Delivered
<1> QED BY <1>4, <1>5, <1>6, <1>7

\* handlers.go:405-440.
LEMMA CallsOfLeader ==
  ASSUME TypeOK, Calls, NEW r \in Requests, ActorStep(r) \/ Recheck(r) \/ Put(r)
  PROVE  Calls'
<1> USE DEF Calls
<1>1. r \in Actors /\ r \notin Jobs
  BY ThumbnailsAssumption DEF Actors
<1>2. InCall(r) /\ UNCHANGED <<flight, at, leader, reply>>
  BY Stages DEF ActorStep, AcquireSlot, Generate, CreateTemp, Install, Stat, StoreThumbnail, Recheck,
     Put, GiveUp, Generated, GenerateFails, NotStored, Stored, Goto, Return, process, local, InCall
<1>3. pc[r] \in CallSteps \ {"recheck", "return"} => at[r] \notin cache
  BY DEF NotCached
<1>4. pc[r] \in {"recheck", "acquire", "generate"} => r \notin made
  BY Stages DEF Delivered
<1>5. \A value : Return(r, value) =>
         /\ pc' = [pc EXCEPT ![r] = "return"]
         /\ result'[r] = value /\ \A q \in Requests \ {r} : result'[q] = result[q]
  BY DEF Return, TypeOK
<1>6. \A step : Goto(r, step) => pc' = [pc EXCEPT ![r] = step] /\ UNCHANGED result
  BY DEF Goto
<1>7. GiveUp(r) => Return(r, "error")
  BY <1>1 DEF GiveUp
<1>8. (NotStored(r) => Goto(r, "put")) /\ (Stored(r) => Return(r, "bytes"))
  BY <1>1 DEF NotStored, Stored
<1>10. CASE Recheck(r)
  <2>1. UNCHANGED <<cache, made>> /\ pc[r] = "recheck"
    BY <1>10 DEF Recheck, process
  <2>2. CASE at[r] \in cache /\ Return(r, "bytes")
    BY <1>2, <1>4, <1>5, <2>1, <2>2, InTheCall, Stages
  <2>3. CASE at[r] \notin cache /\ Goto(r, "acquire")
    BY <1>2, <1>4, <1>6, <2>1, <2>3, InTheCall, Stages
  <2> QED BY <1>10, <2>2, <2>3 DEF Recheck
<1>11. CASE AcquireSlot(r)
  <2>1. UNCHANGED <<cache, made>> /\ pc[r] = "acquire" /\ at[r] \notin cache
    BY <1>3, <1>11, Stages DEF AcquireSlot
  <2>2. CASE Goto(r, "generate")
    BY <1>2, <1>4, <1>6, <2>1, <2>2, InTheCall, Stages
  <2>3. CASE Return(r, "error")
    BY <1>2, <1>4, <1>5, <2>1, <2>3, InTheCall, Stages
  <2> QED BY <1>7, <1>11, <2>2, <2>3 DEF AcquireSlot
<1>12. CASE Generate(r)
  <2>1. UNCHANGED cache /\ pc[r] = "generate" /\ at[r] \notin cache
    BY <1>3, <1>12, Stages DEF Generate
  <2>2. CASE Generated(r)
    <3>1. PICK step \in {"create", "put"} : Goto(r, step) /\ made' = made \cup {r}
      BY <2>2, <1>1 DEF Generated, Destination
    <3>2. step \in CallSteps \ {"recheck", "return"} /\ step \notin BeforeMade
      BY <3>1, Stages
    <3> QED BY <1>2, <1>6, <2>1, <3>1, <3>2, InTheCall
  <2>3. CASE GenerateFails(r)
    <3>1. Return(r, "error") /\ made' = made
      BY <1>7, <2>3 DEF GenerateFails
    <3> QED BY <1>2, <1>4, <1>5, <2>1, <3>1, InTheCall, Stages
  <2> QED BY <1>12, <2>2, <2>3 DEF Generate
<1>13. CASE CreateTemp(r) \/ Install(r) \/ Stat(r)
  <2>1. UNCHANGED <<cache, made>> /\ at[r] \notin cache
    BY <1>3, <1>13, Stages DEF CreateTemp, Install, Stat, process
  <2>2. PICK step \in {"install", "stat", "upsert", "put"} : Goto(r, step)
    BY <1>1, <1>8, <1>13 DEF CreateTemp, Install, Stat
  <2>3. step \in CallSteps \ {"recheck", "return"} /\ step \notin BeforeMade
    BY <2>2, Stages
  <2> QED BY <1>2, <1>6, <2>1, <2>2, <2>3, InTheCall
<1>14. CASE StoreThumbnail(r)
  <2>1. UNCHANGED <<cache, made>> /\ at[r] \notin cache
    BY <1>3, <1>14, Stages DEF StoreThumbnail, process
  <2>2. CASE Return(r, "bytes")
    BY <1>2, <1>5, <2>1, <2>2, InTheCall, Stages
  <2>3. CASE Goto(r, "put")
    BY <1>2, <1>6, <2>1, <2>3, InTheCall, Stages
  <2> QED BY <1>8, <1>14, <2>2, <2>3 DEF StoreThumbnail
<1>15. CASE Put(r)
  <2>1. /\ made' = made /\ cache' \subseteq cache \cup {at[r]} /\ Return(r, "bytes")
    BY <1>15 DEF Put
  <2> QED BY <1>2, <1>5, <2>1, InTheCall, Stages
<1> QED BY <1>10, <1>11, <1>12, <1>13, <1>14, <1>15 DEF ActorStep

\* What the call returned is told to its leader and to all that wait for it.
LEMMA CallsOfRelease ==
  ASSUME TypeOK, Calls, NEW r \in Requests, Release(r)
  PROVE  Calls'
<1> USE DEF Calls
<1>1. r \in Actors /\ Requests \subseteq Actors
  BY DEF Actors
<1> DEFINE told == {q \in Requests : q = r \/ (pc[q] = "wait" /\ leader[q] = r)}
<1>2. /\ \A q \in Requests : pc'[q] = (IF q \in told THEN "respond" ELSE pc[q])
      /\ \A q \in Requests : result'[q] = (IF q \in told THEN result[r] ELSE result[q])
      /\ flight' = [flight EXCEPT ![at[r]] = None]
      /\ pc[r] = "return" /\ UNCHANGED <<cache, at, leader, made, reply>>
  BY <1>1 DEF Release, local
<1>3. InCall(r) /\ leader[r] = r /\ flight[at[r]] = r /\ at[r] \in Workers
  BY <1>2, Stages DEF CallShape, InCall, Active
<1>4. \A q \in told : leader[q] = r /\ q \in Requests /\ pc[q] \in {"wait", "return"}
  BY <1>2, <1>3
<1>5. r \in told
  OBVIOUS
<1> HIDE DEF told
<1>6. \A q \in Requests : InCall(q) /\ at[q] = at[r] => q = r
  BY <1>3 DEF CallShape
<1>7. /\ flight'[at[r]] = None
      /\ \A w \in Workers \ {at[r]} : flight'[w] = flight[w]
  BY <1>2, <1>3 DEF TypeOK
<1>8. CallShape'
  <2> SUFFICES ASSUME NEW q \in Requests
               PROVE  /\ Active(q)' => at[q] \in Workers
                      /\ InCall(q)' => flight'[at[q]] = q /\ leader[q] = q
                      /\ pc'[q] \in BeforeJoin => leader[q] = None
    BY <1>2 DEF CallShape
  <2>1. CASE q \in told
    BY <1>2, <1>3, <1>4, <2>1, Stages DEF CallShape, Active, InCall
  <2>2. CASE q \notin told
    BY <1>2, <1>5, <1>6, <1>7, <2>2, Stages DEF CallShape, Active, InCall
  <2> QED BY <2>1, <2>2
<1>9. LeadersLead'
  BY <1>2, <1>7 DEF LeadersLead
<1>10. NotCached'
  BY <1>2, Stages DEF NotCached
<1>11. Followers'
  BY <1>2, <1>3, <1>4, <1>5, Stages DEF Followers, InCall
<1>12. Delivered'
  <2>1. r \in made => result[r] = "bytes"
    BY <1>2 DEF Delivered
  <2> QED BY <1>2, <1>4, <2>1, Stages DEF Delivered
<1> QED BY <1>8, <1>9, <1>10, <1>11, <1>12

\* handlers.go:441-463.
LEMMA CallsOfRespond ==
  ASSUME TypeOK, Calls, NEW r \in Requests, Respond(r)
  PROVE  Calls'
<1> USE DEF Calls
<1>1. r \in Actors /\ Requests \subseteq Actors
  BY DEF Actors
<1>2. /\ pc[r] = "respond" /\ UNCHANGED <<cache, flight, at, leader, made, result>>
      /\ Answer(r, IF result[r] = "bytes" THEN "generated" ELSE "proxied")
  BY DEF Respond, Answer, process, local
<1>3. /\ pc'[r] = "done" /\ \A q \in Requests \ {r} : pc'[q] = pc[q] /\ reply'[q] = reply[q]
      /\ result[r] = "bytes" => reply'[r] = "generated"
  BY <1>1, <1>2 DEF Answer, TypeOK
<1>4. CallShape' /\ LeadersLead'
  BY <1>2, <1>3, Stages DEF CallShape, LeadersLead, Active, InCall
<1>5. NotCached' /\ Followers'
  BY <1>2, <1>3, Stages DEF NotCached, Followers, InCall
<1>6. Delivered'
  BY <1>2, <1>3, Stages DEF Delivered
<1> QED BY <1>4, <1>5, <1>6

\* Jobs share nothing with the calls but slots and files; a crash ends every call of a
\* process, and of the calls no one else takes notice.
LEMMA CallsOfOthers ==
  ASSUME TypeOK, Calls,
         (\E j \in Jobs : StartJob(j) \/ ActorStep(j)) \/ Environment
  PROVE  Calls'
<1>1. ASSUME NEW j \in Jobs, StartJob(j) PROVE Calls'
  <2>1. j \notin Requests /\ Requests \subseteq Actors
    BY ThumbnailsAssumption DEF Actors
  <2>2. /\ pc' = [pc EXCEPT ![j] = "acquire"] /\ (\E w \in Workers : at' = [at EXCEPT ![j] = w])
        /\ UNCHANGED <<cache, flight, leader, made, result, reply>>
    BY <1>1 DEF StartJob, Goto, process
  <2>3. KeepsCalls
    BY <2>1, <2>2 DEF KeepsCalls, TypeOK
  <2> QED BY <2>3, CallsKept
<1>2. ASSUME NEW j \in Jobs, ActorStep(j) PROVE Calls'
  <2>1. j \notin Requests /\ Requests \subseteq Actors
    BY ThumbnailsAssumption DEF Actors
  <2>2. UNCHANGED <<cache, flight, at, leader>>
    BY <1>2 DEF ActorStep, AcquireSlot, Generate, CreateTemp, Install, Stat, StoreThumbnail,
                process, local
  <2>3. made' = made
    BY <1>2, <2>1 DEF ActorStep, AcquireSlot, Generate, Generated, GenerateFails, CreateTemp, Install,
                Stat, StoreThumbnail
  <2>4. \E step : Goto(j, step)
    BY <1>2, <2>1 DEF ActorStep, AcquireSlot, Generate, CreateTemp, Install, Stat, StoreThumbnail,
                GiveUp, Generated, GenerateFails, NotStored, Stored
  <2>5. \A r \in Requests : pc'[r] = pc[r] /\ result'[r] = result[r] /\ reply'[r] = reply[r]
    BY <2>1, <2>4 DEF Goto, TypeOK
  <2>6. KeepsCalls
    BY <2>2, <2>3, <2>5 DEF KeepsCalls
  <2> QED BY <2>6, CallsKept
<1>3. ASSUME NEW w \in Workers, Crash(w) PROVE Calls'
  <2> USE DEF Calls
  <2>1. Requests \subseteq Actors
    BY DEF Actors
  <2>2. /\ UNCHANGED <<cache, at, leader, made, result, reply>>
        /\ flight' = [flight EXCEPT ![w] = None]
        /\ \A r \in Requests : pc'[r] = (IF at[r] = w /\ Active(r) THEN "lost" ELSE pc[r])
    BY <1>3, <2>1 DEF Crash, local
  <2>3. flight'[w] = None /\ \A v \in Workers \ {w} : flight'[v] = flight[v]
    BY <2>2 DEF TypeOK
  <2>4. \A r \in Requests : InCall(r)' => InCall(r) /\ at[r] # w
    BY <2>2, Stages DEF InCall, Active
  <2>5. CallShape'
    <3> SUFFICES ASSUME NEW q \in Requests
                 PROVE  /\ Active(q)' => at[q] \in Workers
                        /\ InCall(q)' => flight'[at[q]] = q /\ leader[q] = q
                        /\ pc'[q] \in BeforeJoin => leader[q] = None
      BY <2>2 DEF CallShape
    <3>1. Active(q)' => at[q] \in Workers
      BY <2>2, Stages DEF CallShape, Active
    <3>2. InCall(q)' => flight'[at[q]] = q /\ leader[q] = q
      BY <2>3, <2>4, Stages DEF CallShape, InCall, Active
    <3>3. pc'[q] \in BeforeJoin => leader[q] = None
      BY <2>2, Stages DEF CallShape
    <3> QED BY <3>1, <3>2, <3>3
  <2>6. LeadersLead'
    BY <2>2, <2>3 DEF LeadersLead
  <2>7. NotCached'
    BY <2>2, Stages DEF NotCached
  <2>8. Followers'
    BY <2>2, <2>4 DEF Followers
  <2>9. Delivered'
    BY <2>2, Stages DEF Delivered
  <2> QED BY <2>5, <2>6, <2>7, <2>8, <2>9
<1>4. ASSUME NEW w \in Workers, Evict(w) PROVE Calls'
  <2>1. /\ UNCHANGED <<flight, at, leader, made, pc, result, reply>>
        /\ cache' \subseteq cache
    BY <1>4 DEF Evict, local
  <2>2. NotCached'
    BY <2>1 DEF Calls, NotCached
  <2> QED BY <2>1, <2>2 DEF Calls, CallShape, LeadersLead, Followers, Delivered, Active, InCall
<1>5. CASE SynapseWrites \/ SynapseRecords \/ Fetch \/ Quarantine \/ PurgeFiles \/ PurgeRows
  <2>1. UNCHANGED Others
    BY <1>5 DEF SynapseWrites, SynapseRecords, Fetch, Quarantine, PurgeFiles, PurgeRows, Others
  <2>2. KeepsCalls
    BY <2>1 DEF Others, KeepsCalls, process, local
  <2> QED BY <2>2, CallsKept
<1> QED BY <1>1, <1>2, <1>3, <1>4, <1>5 DEF Environment

------------------------------------------------------------------------------
LEMMA InitIInv == Init => IInv
BY TypeInit, FilesInit, CallsInit DEF IInv, Files

\* Every step, of any request or job and of all others.
LEMMA StepIInv ==
  ASSUME IInv, [Next]_vars
  PROVE  IInv'
<1> USE DEF Files
<1>0. TypeOK /\ Calls /\ CallShape /\ IdsMade /\ FilesFirst
  BY DEF IInv, Calls
<1>1. ASSUME NEW r \in Requests, Arrive(r) \/ RequestStep(r) \/ ClientLeaves(r) PROVE IInv'
  <2>1. r \in Actors
    BY DEF Actors
  <2>2. CASE ActorStep(r)
    <3>1. IdsMade' /\ FilesFirst'
      BY <1>0, <2>1, <2>2, FilesOfCall, FilesOfWriting DEF ActorStep
    <3>2. TypeOK' /\ Calls'
      BY <1>0, <2>1, <2>2, TypesOfActor, CallsOfLeader
    <3> QED BY <3>1, <3>2 DEF IInv
  <2>3. CASE ~ActorStep(r)
    <3>1. \/ Arrive(r) \/ LookupMedia(r) \/ FetchMedia(r) \/ LookupThumbnails(r)
          \/ OpenStored(r) \/ OpenCached(r) \/ Join(r) \/ Recheck(r) \/ Put(r)
          \/ Release(r) \/ Respond(r) \/ ClientLeaves(r)
      BY <1>1, <2>3 DEF RequestStep
    <3>2. TypeOK' /\ IdsMade' /\ FilesFirst'
      BY <1>0, <3>1, TypesOfRequest, FilesOfRequest
    <3>3. Calls'
      BY <1>0, <3>1, CallsOfArrivals, CallsOfJoin, CallsOfLeader, CallsOfRelease, CallsOfRespond
    <3> QED BY <3>2, <3>3 DEF IInv
  <2> QED BY <2>2, <2>3
<1>2. ASSUME NEW j \in Jobs, ActorStep(j) PROVE IInv'
  <2>1. j \in Actors
    BY DEF Actors
  <2>2. IdsMade' /\ FilesFirst'
    BY <1>0, <1>2, <2>1, FilesOfCall, FilesOfWriting DEF ActorStep
  <2>3. TypeOK' /\ Calls'
    BY <1>0, <1>2, <2>1, TypesOfActor, CallsOfOthers
  <2> QED BY <2>2, <2>3 DEF IInv
<1>3. CASE (\E j \in Jobs : StartJob(j)) \/ Environment
  <2>1. TypeOK' /\ IdsMade' /\ FilesFirst'
    BY <1>0, <1>3, TypesOfOthers, FilesOfOthers
  <2>2. Calls'
    BY <1>0, <1>3, CallsOfOthers
  <2> QED BY <2>1, <2>2 DEF IInv
<1>4. CASE UNCHANGED vars
  <2>1. UNCHANGED <<kind, media, fetched, source, row, file, purging, theirs, cache, flight, slots,
                    at, leader, snap, found, size, gone, made, pc, result, reply>>
    BY <1>4 DEF vars, store, process, local
  <2>2. TypeOK'
    BY <1>0, <2>1 DEF TypeOK
  <2>3. IdsMade' /\ FilesFirst'
    BY <1>0, <2>1 DEF IdsMade, FilesFirst, HasFile, Made, NoRow
  <2>4. KeepsCalls
    BY <2>1 DEF KeepsCalls
  <2>5. Calls'
    BY <1>0, <2>4, CallsKept
  <2> QED BY <2>2, <2>3, <2>5 DEF IInv
<1> QED BY <1>1, <1>2, <1>3, <1>4 DEF Next

\* store.go:227-253: with any number of processes, requests, upload-time jobs and fetches,
\* and every failure, a thumbnail row of the media's current filesystem_id has its file.
THEOREM ThumbnailRowsHaveFiles == Spec => []RowHasFile
<1>1. IInv => RowHasFile
  BY DEF IInv, Files, FilesFirst, HasFile, RowHasFile
<1> QED BY InitIInv, StepIInv, <1>1, PTL DEF Spec

\* handlers.go:396-412: a process generates for one request at a time, and nothing that its
\* cache holds.
THEOREM OneGeneration == Spec => []GeneratesOnce
<1>1. IInv => GeneratesOnce
  BY DEF IInv, Calls, CallShape, NotCached, GeneratesOnce
<1> QED BY InitIInv, StepIInv, <1>1, PTL DEF Spec

\* handlers.go:432-438: what was made answers all that wait for it, stored or not.
THEOREM GeneratedIsServed == Spec => []MadeIsServed
<1>1. IInv => MadeIsServed
  BY DEF IInv, Calls, Delivered, MadeIsServed
<1> QED BY InitIInv, StepIInv, <1>1, PTL DEF Spec
------------------------------------------------------------------------------
\* The sizes (ThumbnailSizes).

\* Products keep the order of their factors.
LEMMA ProductMonotone ==
  ASSUME NEW a \in Nat, NEW b \in Nat, NEW c \in Nat, a <= b
  PROVE  a * c <= b * c
OBVIOUS

\* What rounding down does.
LEMMA Quotient ==
  ASSUME NEW a \in Nat, NEW b \in Positive
  PROVE  /\ a \div b \in Nat
         /\ (a \div b) * b <= a
         /\ a < ((a \div b) + 1) * b
BY DEF Positive

\* A quotient is below what its numerator is below a multiple of, and conversely.
LEMMA QuotientBelow ==
  ASSUME NEW a \in Nat, NEW b \in Positive, NEW n \in Nat
  PROVE  /\ a < n * b => a \div b < n
         /\ n * b <= a => n <= a \div b
<1> DEFINE q == a \div b
<1>1. q \in Nat /\ q * b <= a /\ a < (q + 1) * b /\ b \in Nat /\ n * b \in Nat /\ q * b \in Nat
  BY Quotient DEF Positive
<1> HIDE DEF q
<1>2. a < n * b => q < n
  <2> SUFFICES ASSUME n <= q PROVE n * b <= a
    BY <1>1
  <2>1. n * b <= q * b
    BY <1>1, ProductMonotone
  <2> QED BY <1>1, <2>1
<1>3. n * b <= a => n <= q
  <2> SUFFICES ASSUME q + 1 <= n PROVE a < n * b
    BY <1>1
  <2>1. (q + 1) * b <= n * b /\ (q + 1) * b \in Nat
    BY <1>1, ProductMonotone
  <2> QED BY <1>1, <2>1
<1> QED BY <1>2, <1>3 DEF q

\* Multiplication commutes: the code's products are taken in either order.
LEMMA Products ==
  ASSUME NEW a \in Nat, NEW b \in Nat
  PROVE  a * b = b * a /\ a * b \in Nat
OBVIOUS

------------------------------------------------------------------------------
\* One side of aspect: the box's side, and the other rounded down.  a and b are the source's
\* sides, m the box's side along a and n its side along b.
LEMMA Side ==
  ASSUME NEW a \in Positive, NEW b \in Positive, NEW m \in Positive, NEW n \in Positive,
         m * b <= n * a
  PROVE  LET side == AtLeastOne((m * b) \div a)
         IN  /\ side \in 1 .. n
             /\ side = 1 \/ side * a <= m * b
             /\ m * b < (side + 1) * a
             /\ m > a => side >= b
             /\ side > b => m >= a
<1> DEFINE q == (m * b) \div a
           side == AtLeastOne(q)
<1>1. a \in Nat /\ b \in Nat /\ m \in Nat /\ n \in Nat /\ m * b \in Nat /\ n * a \in Nat
  BY DEF Positive
<1>2. q \in Nat /\ q * a <= m * b /\ m * b < (q + 1) * a
  BY <1>1, Quotient
<1>3. \A k \in Nat : (m * b < k * a => q < k) /\ (k * a <= m * b => k <= q)
  BY <1>1, QuotientBelow
<1> HIDE DEF q
<1>4. q <= n
  <2>1. (n + 1) * a \in Nat /\ n * a < (n + 1) * a
    BY <1>1 DEF Positive
  <2>2. q < n + 1
    BY <1>1, <1>3, <2>1
  <2> QED BY <1>1, <1>2, <2>2
<1>5. m > a => q >= b
  <2> SUFFICES ASSUME m > a PROVE b * a <= m * b
    BY <1>1, <1>3
  <2>1. a * b <= m * b
    BY <1>1, ProductMonotone
  <2> QED BY <1>1, <2>1, Products
<1>6. q > b => m >= a
  <2> SUFFICES ASSUME m < a PROVE q <= b
    BY <1>1, <1>2
  <2>1. m * b <= a * b
    BY <1>1, ProductMonotone
  <2>2. m * b < (b + 1) * a /\ (b + 1) * a \in Nat
    <3>1. a * b = b * a /\ (b + 1) * a = b * a + a /\ a * b \in Nat
      BY <1>1
    <3> QED BY <1>1, <2>1, <3>1 DEF Positive
  <2>3. q < b + 1
    BY <1>1, <1>3, <2>2
  <2> QED BY <1>1, <1>2, <2>3
<1>7. CASE q >= 1
  BY <1>1, <1>2, <1>4, <1>5, <1>6, <1>7 DEF AtLeastOne, q
<1>8. CASE q = 0
  <2>1. side = 1 /\ 1 \in 1 .. n /\ ~(1 > b)
    BY <1>1, <1>8 DEF AtLeastOne, Positive
  <2>2. m * b < (1 + 1) * a
    BY <1>1, <1>2, <1>8
  <2>3. m > a => 1 >= b
    BY <1>1, <1>5, <1>8
  <2> QED BY <2>1, <2>2, <2>3 DEF q
<1> QED BY <1>2, <1>7, <1>8

\* aspect, as one of two sides rounded down (thumbnail.go:112-117).
LEMMA Aspects ==
  ASSUME NEW srcW \in Positive, NEW srcH \in Positive, NEW maxW \in Positive, NEW maxH \in Positive
  PROVE  LET scaled == aspect(srcW, srcH, maxW, maxH)
         IN  \/ /\ maxW * srcH <= maxH * srcW
                /\ scaled[1] = maxW /\ scaled[2] = AtLeastOne((maxW * srcH) \div srcW)
             \/ /\ maxH * srcW <= maxW * srcH
                /\ scaled[2] = maxH /\ scaled[1] = AtLeastOne((maxH * srcW) \div srcH)
<1>1. maxW * srcH \in Nat /\ maxH * srcW \in Nat
  BY DEF Positive
<1> QED BY <1>1 DEF aspect

\* thumbnail.go:109-117: the size that is computed always fits, touches the box and is the
\* largest to keep the ratio, for every source and every box.
THEOREM AspectFits ==
  ASSUME NEW srcW \in Positive, NEW srcH \in Positive, NEW maxW \in Positive, NEW maxH \in Positive
  PROVE  FitsBox(srcW, srcH, maxW, maxH)
<1>1. maxW \in 1 .. maxW /\ maxH \in 1 .. maxH
  BY DEF Positive
<1> QED BY <1>1, Aspects, Side DEF FitsBox

\* thumbnail.go:244-247: cutting both sides to the source's never changes the ratio.
THEOREM NeverStretched ==
  ASSUME NEW srcW \in Positive, NEW srcH \in Positive, NEW maxW \in Positive, NEW maxH \in Positive
  PROVE  NotStretched(srcW, srcH, maxW, maxH)
BY Aspects, Side DEF NotStretched

\* thumbnail.go:119-133: the crop box lies inside the scaled image, in its middle.
THEOREM CropIsInside ==
  ASSUME NEW srcW \in Positive, NEW srcH \in Positive, NEW w \in Positive, NEW h \in Positive
  PROVE  BoxIsInside(srcW, srcH, w, h)
<1>1. w \in Nat /\ h \in Nat /\ srcW \in Nat /\ srcH \in Nat /\ w * srcH \in Nat /\ h * srcW \in Nat
  BY DEF Positive
<1>2. ASSUME NEW n \in Nat, NEW m \in Nat, m <= n
      PROVE  LET margin == (n - m) \div 2
             IN  margin >= 0 /\ n - m - margin - margin \in {0, 1}
  BY <1>2
<1>3. (w - w) \div 2 = 0 /\ w - w = 0 /\ h - h = 0
  BY <1>1
<1>4. CASE w * srcH > h * srcW
  <2> DEFINE scaledH == (w * srcH) \div srcW
  <2>1. scaledH \in Nat /\ h <= scaledH
    BY <1>1, <1>4, Quotient, QuotientBelow
  <2> HIDE DEF scaledH
  <2>2. cropBox(srcW, srcH, w, h)
          = [width |-> w, height |-> scaledH, left |-> 0, top |-> (scaledH - h) \div 2]
    BY <1>4 DEF cropBox, scaledH
  <2>3. /\ (scaledH - h) \div 2 >= 0
        /\ scaledH - h - (scaledH - h) \div 2 - (scaledH - h) \div 2 \in {0, 1}
    BY <1>1, <1>2, <2>1
  <2> QED BY <1>1, <2>2, <2>3 DEF BoxIsInside
<1>5. CASE ~(w * srcH > h * srcW)
  <2> DEFINE scaledW == (h * srcW) \div srcH
  <2>1. scaledW \in Nat /\ w <= scaledW
    BY <1>1, <1>5, Quotient, QuotientBelow
  <2> HIDE DEF scaledW
  <2>2. cropBox(srcW, srcH, w, h)
          = [width |-> scaledW, height |-> h, left |-> (scaledW - w) \div 2, top |-> 0]
    BY <1>5 DEF cropBox, scaledW
  <2>3. /\ (scaledW - w) \div 2 >= 0
        /\ scaledW - w - (scaledW - w) \div 2 - (scaledW - w) \div 2 \in {0, 1}
    BY <1>1, <1>2, <2>1
  <2> QED BY <1>1, <2>2, <2>3 DEF BoxIsInside
<1> QED BY <1>4, <1>5
==============================================================================
