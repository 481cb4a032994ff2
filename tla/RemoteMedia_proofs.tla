-------------------------- MODULE RemoteMedia_proofs --------------------------
(***************************************************************************)
(* Proofs about RemoteMedia: a row names a file that was complete before   *)
(* the row was written, no file stays behind but a dead call's, a file is  *)
(* missing only if Synapse purged it, and the cache is a write-once        *)
(* register while nothing is purged.                                       *)
(*                                                                         *)
(* All of it needs "lostReply" \notin Faults: when an insert is applied    *)
(* and its caller takes it for failed, Undo deletes the file of a row.     *)
(***************************************************************************)
EXTENDS RemoteMedia, TLAPS

\* What a request has once it has arrived, and what its leader asks for.
RequestShape ==
  \A r \in Requests :
    /\ pc[r] = "idle" => leader[r] = None /\ result[r] = "none"
    /\ pc[r] # "idle" => at[r] \in Workers /\ asks[r] \in Media
    /\ pc[r] \in CallSteps \cup {"wait", "resume"} => leader[r] # None
    /\ reply[r] # "none" => pc[r] = "done"
    /\ leader[r] # None => pc[leader[r]] # "idle" /\ asks[leader[r]] = asks[r]

\* The singleflight group keeps a call under the media ID it is for.
FlightShape ==
  \A w \in Workers, m \in Media :
    flight[w][m] # None => pc[flight[w][m]] # "idle" /\ asks[flight[w][m]] = m

Unrecorded(f) == \A m \in Media : <<m, f>> \notin recorded

\* A filesystem_id is recorded for one media ID, with its file in place, which
\* leaves only by a purge.
Records ==
  /\ \A m \in Media : Exists(m) => <<m, row[m].fs>> \in recorded
  /\ \A m, i \in Media, f \in Fetches :
       <<m, f>> \in recorded /\ <<i, f>> \in recorded => m = i
  /\ \A m \in Media, f \in Fetches : <<m, f>> \in recorded => f \in file \cup purged
  /\ \A f \in purged : f \notin file /\ ~Unrecorded(f)

BeforeInstall ==
  {"idle", "lookup", "join", "recheck", "stat", "create", "acquire", "fetch", "install"}

\* Where the file of a call is while no row has named it.
FetchState ==
  \A l \in Requests :
    /\ pc[l] \in BeforeInstall \cup {"reread"} => Unrecorded(l) /\ l \notin file
    /\ pc[l] \in {"insert", "yield", "undo"} => Unrecorded(l) /\ l \in file

\* The row a request goes on with, or hands to its waiters, was in the table.
SnapRecorded ==
  \A r \in Requests :
    \/ result[r] = "row"
    \/ pc[r] \in {"stat", "open"}
    \/ reply[r] \in {"served", "missing"}
    => <<asks[r], snap[r].fs>> \in recorded

\* The inductive invariant.
Shape == TypeOK /\ RequestShape /\ FlightShape
StoreInv == Records /\ FetchState /\ NoOrphanFile
ReadInv == SnapRecorded /\ MissingFileWasPurged
IInv == Shape /\ StoreInv /\ ReadInv
------------------------------------------------------------------------------
\* The requests, their calls and the singleflight group.

LEMMA ShapeInit == Init => Shape
<1> SUFFICES ASSUME Init PROVE Shape
  OBVIOUS
<1>1. TypeOK
  BY DEF Init, TypeOK, NoRow, Row, Rows, ActiveSteps, CallSteps, Replies
<1>2. RequestShape /\ FlightShape
  BY DEF Init, RequestShape, FlightShape, CallSteps
<1> QED BY <1>1, <1>2 DEF Shape

\* What the step of one request does to its own variables keeps their types.
LEMMA RequestTypes ==
  ASSUME Shape, NEW r \in Requests, RequestStep(r)
  PROVE  /\ pc' \in [Requests -> ActiveSteps \cup {"idle", "done", "lost"}]
         /\ snap' \in [Requests -> Rows]
         /\ result' \in [Requests -> Errors \cup {"none", "row"}]
         /\ reply' \in [Requests -> Replies]
<1> USE DEF Shape, TypeOK, ActiveSteps, CallSteps, Errors
<1>1. pc[r] # "idle" => asks[r] \in Media
  BY DEF RequestShape
<1>2. ASSUME NEW media \in Rows, Gate(r, media)
      PROVE  /\ pc' \in [Requests -> ActiveSteps \cup {"idle", "done", "lost"}]
             /\ snap' \in [Requests -> Rows]
             /\ result' \in [Requests -> Errors \cup {"none", "row"}]
             /\ reply' \in [Requests -> Replies]
  BY <1>2 DEF Gate, Answer, OpenWith, Replies
<1>3. CASE GetRemoteMedia(r)
  BY <1>1, <1>2, <1>3 DEF GetRemoteMedia, Goto, Answer, Replies
<1>4. CASE Join(r) \/ Release(r) \/ Wake(r)
  BY <1>4 DEF Join, Release, Wake, Goto
<1>5. CASE Recheck(r) \/ StatExisting(r)
  BY <1>1, <1>5 DEF Recheck, StatExisting, Goto, Fail, ReturnRow
<1>6. CASE CreateTemp(r) \/ AcquireSlot(r) \/ Fetch(r) \/ FetchFails(r) \/ Install(r)
  BY <1>6 DEF CreateTemp, AcquireSlot, Fetch, FetchFails, Install, Goto, Fail
<1>7. CASE StoreRemoteMedia(r)
  <2>1. Row(r, FALSE) \in Rows
    BY DEF Row, Rows, Fetches
  <2>2. \/ Goto(r, "yield") \/ Goto(r, "undo") \/ ReturnRow(r, Row(r, FALSE))
    BY <1>7 DEF StoreRemoteMedia
  <2>3. CASE Goto(r, "yield") \/ Goto(r, "undo")
    BY <2>3 DEF Goto
  <2>4. CASE ReturnRow(r, Row(r, FALSE))
    BY <2>1, <2>4 DEF ReturnRow
  <2> QED BY <2>2, <2>3, <2>4
<1>8. CASE Yield(r) \/ RereadWinner(r) \/ Undo(r)
  BY <1>1, <1>8 DEF Yield, RereadWinner, Undo, Goto, Fail, ReturnRow
<1>9. CASE Resume(r)
  <2>1. leader[r] \in Requests
    BY <1>9 DEF Resume, RequestShape
  <2>2. CASE Gate(r, snap[leader[r]])
    BY <1>2, <2>1, <2>2
  <2>3. CASE \E error \in Errors : Answer(r, ErrorReply(error))
    BY <2>3 DEF Answer, ErrorReply, Replies
  <2> QED BY <1>9, <2>1, <2>2, <2>3 DEF Resume
<1>10. CASE OpenFile(r)
  BY <1>10 DEF OpenFile, Answer, Replies
<1> QED
  BY <1>3, <1>4, <1>5, <1>6, <1>7, <1>8, <1>9, <1>10 DEF RequestStep, CallStep

LEMMA BadRow ==
  ASSUME NEW media \in Rows
  PROVE  [media EXCEPT !.bad = TRUE] \in Rows
BY DEF Rows

LEMMA InsertTypes ==
  ASSUME TypeOK, NEW m \in Media, NEW f \in Fetches, InsertRow(m, f)
  PROVE  row' \in [Media -> Rows] /\ recorded' \in SUBSET (Media \X Fetches)
BY DEF TypeOK, InsertRow, Row, Rows

LEMMA TypeStep == ASSUME Shape, [Next]_vars PROVE TypeOK'
<1> USE DEF Shape, TypeOK
<1>1. ASSUME NEW r \in Requests, RequestStep(r) PROVE TypeOK'
  <2>1. pc[r] # "idle" => at[r] \in Workers /\ asks[r] \in Media
    BY DEF RequestShape
  <2>2. pc[r] # "idle" /\ UNCHANGED <<at, asks, gone, purged>>
    BY <1>1 DEF RequestStep, CallStep, GetRemoteMedia, Join, Recheck, StatExisting, CreateTemp,
                AcquireSlot, Fetch, FetchFails, Install, StoreRemoteMedia, Yield, RereadWinner,
                Undo, Release, Wake, Resume, OpenFile, request, history
  <2>3. CASE Join(r)
    <3>1. /\ leader' \in [Requests -> Requests \cup {None}]
          /\ flight' \in [Workers -> [Media -> Requests \cup {None}]]
      <4>1. flight[at[r]][asks[r]] \in Requests \cup {None}
        BY <2>1, <2>2
      <4>2. CASE flight' = [flight EXCEPT ![at[r]][asks[r]] = r]
        BY <2>1, <2>2, <2>3, <4>1, <4>2 DEF Join
      <4>3. CASE UNCHANGED flight
        BY <2>3, <4>1, <4>3 DEF Join
      <4> QED BY <2>3, <4>2, <4>3 DEF Join
    <3> QED BY <1>1, <2>2, <2>3, <3>1, RequestTypes DEF Join, store, history
  <2>4. CASE StoreRemoteMedia(r)
    <3>1. row' \in [Media -> Rows] /\ recorded' \in SUBSET (Media \X Fetches)
      BY <2>1, <2>2, <2>4, InsertTypes DEF StoreRemoteMedia, Fetches
    <3> QED BY <1>1, <2>2, <2>4, <3>1, RequestTypes DEF StoreRemoteMedia, process, request
  <2>5. CASE Release(r)
    <3>1. flight' \in [Workers -> [Media -> Requests \cup {None}]]
      BY <2>1, <2>2, <2>5 DEF Release
    <3> QED BY <1>1, <2>2, <2>5, <3>1, RequestTypes DEF Release, store, request, history
  <2>6. CASE CreateTemp(r) \/ AcquireSlot(r) \/ Fetch(r) \/ FetchFails(r)
    <3>1. /\ temp' \subseteq Requests /\ slots' \in [Workers -> Int]
          /\ UNCHANGED <<row, file, flight, leader, recorded>>
      BY <2>1, <2>2, <2>6 DEF CreateTemp, AcquireSlot, Fetch, FetchFails, FreeSlot, store,
                              process, request, history
    <3> QED BY <1>1, <2>2, <3>1, RequestTypes
  <2>7. CASE Install(r) \/ Yield(r) \/ Undo(r)
    <3>1. /\ temp' \subseteq Requests /\ file' \subseteq Fetches
          /\ UNCHANGED <<row, slots, flight, leader, recorded>>
      BY <2>7 DEF Install, Yield, Undo, process, request, history, Fetches
    <3> QED BY <1>1, <2>2, <3>1, RequestTypes
  <2>8. CASE \/ GetRemoteMedia(r) \/ Recheck(r) \/ StatExisting(r) \/ RereadWinner(r)
             \/ Wake(r) \/ Resume(r) \/ OpenFile(r)
    <3>1. UNCHANGED <<row, file, temp, slots, flight, leader, recorded>>
      BY <2>8 DEF GetRemoteMedia, Recheck, StatExisting, RereadWinner, Wake, Resume, OpenFile,
                  store, process, request, history
    <3> QED BY <1>1, <2>2, <3>1, RequestTypes
  <2> QED
    BY <1>1, <2>3, <2>4, <2>5, <2>6, <2>7, <2>8 DEF RequestStep, CallStep
<1>2. ASSUME NEW r \in Requests, Arrive(r) \/ ClientLeaves(r) PROVE TypeOK'
  <2>1. CASE ClientLeaves(r)
    BY <1>2, <2>1 DEF ClientLeaves, store, process, history
  <2>2. CASE Arrive(r)
    <3>1. /\ pc' \in [Requests -> ActiveSteps \cup {"idle", "done", "lost"}]
          /\ at' \in [Requests -> Workers \cup {None}]
          /\ asks' \in [Requests -> Media \cup {None}]
      BY <2>2 DEF Arrive, Goto, ActiveSteps
    <3> QED BY <2>2, <3>1 DEF Arrive, Goto, store, process, history
  <2> QED BY <1>2, <2>1, <2>2
<1>3. ASSUME NEW w \in Workers, Crash(w) PROVE TypeOK'
  BY <1>3 DEF Crash, store, request, history
<1>4. ASSUME NEW m \in Media, NEW f \in Foreign, SynapseStores(m, f) PROVE TypeOK'
  <2>1. row' \in [Media -> Rows] /\ recorded' \in SUBSET (Media \X Fetches)
    BY <1>4, InsertTypes DEF SynapseStores, Fetches
  <2> QED BY <1>4, <2>1 DEF SynapseStores, process, request, Fetches
<1>5. ASSUME NEW m \in Media, Quarantine(m) \/ PurgeFile(m) \/ PurgeRow(m) PROVE TypeOK'
  <2>1. CASE Quarantine(m) \/ PurgeRow(m)
    <3>1. row' \in [Media -> Rows]
      <4>0. NoRow \in Rows
        BY DEF NoRow, Row, Rows
      <4>1. [row[m] EXCEPT !.bad = TRUE] \in Rows
        BY BadRow
      <4>2. \/ row' = [row EXCEPT ![m] = [row[m] EXCEPT !.bad = TRUE]]
            \/ row' = [row EXCEPT ![m] = NoRow]
        BY <2>1 DEF Quarantine, PurgeRow
      <4> QED BY <4>0, <4>1, <4>2
    <3> QED BY <2>1, <3>1 DEF Quarantine, PurgeRow, process, request, history
  <2>2. CASE PurgeFile(m)
    BY <2>2 DEF PurgeFile, process, request
  <2> QED BY <1>5, <2>1, <2>2
<1>6. CASE UNCHANGED vars
  BY <1>6 DEF vars, store, process, request, history
<1> QED
  BY <1>1, <1>2, <1>3, <1>4, <1>5, <1>6 DEF Next, Environment

\* A step that leaves the requests and their leaders alone, and only forgets calls.
LEMMA QuietShape ==
  ASSUME Shape, TypeOK', UNCHANGED <<at, asks, leader>>,
         \A w \in Workers, m \in Media : flight'[w][m] \in {flight[w][m], None},
         \A r \in Requests : /\ pc'[r] = "idle" <=> pc[r] = "idle"
                             /\ pc[r] = "idle" => result'[r] = result[r]
                             /\ pc'[r] \in CallSteps \cup {"wait", "resume"} =>
                                  pc[r] \in CallSteps \cup {"wait", "resume"}
                             /\ reply'[r] # "none" => pc'[r] = "done"
  PROVE  Shape'
<1>1. RequestShape'
  BY DEF Shape, RequestShape, TypeOK
<1>2. FlightShape'
  BY DEF Shape, FlightShape, TypeOK
<1> QED BY <1>1, <1>2 DEF Shape

\* Every step of a request but Join moves it along its own path.
Moves(r) ==
  /\ pc[r] \notin {"idle", "done", "lost"} /\ pc'[r] # "idle"
  /\ \A q \in Requests : q # r => /\ pc'[q] = pc[q] /\ reply'[q] = reply[q]
                                  /\ result'[q] = result[q] /\ snap'[q] = snap[q]
  /\ pc'[r] \in CallSteps \cup {"wait", "resume"} => pc[r] \in CallSteps \cup {"wait", "resume"}
  /\ reply'[r] # "none" => pc'[r] = "done"

LEMMA MovesOn ==
  ASSUME Shape, NEW r \in Requests, RequestStep(r), ~Join(r)
  PROVE  Moves(r) /\ UNCHANGED <<at, asks, leader>>
<1> USE DEF Shape, TypeOK, CallSteps, Moves
<1>0. pc[r] # "done" => reply[r] = "none"
  BY DEF RequestShape
<1>1. CASE GetRemoteMedia(r) \/ Resume(r) \/ OpenFile(r)
  <2>1. /\ pc[r] \in {"lookup", "resume", "open"} /\ UNCHANGED <<at, asks, leader>>
        /\ \/ GetRemoteMedia(r) /\ Goto(r, "join")
           \/ \E media : OpenWith(r, media)
           \/ \E code : Answer(r, code)
    BY <1>1 DEF GetRemoteMedia, Resume, OpenFile, Gate, request
  <2>2. CASE GetRemoteMedia(r) /\ Goto(r, "join")
    BY <1>0, <2>1, <2>2 DEF Goto
  <2>3. ASSUME NEW media, OpenWith(r, media) PROVE Moves(r)
    BY <1>0, <2>1, <2>3 DEF OpenWith
  <2>4. ASSUME NEW code, Answer(r, code) PROVE Moves(r)
    BY <1>0, <2>1, <2>4 DEF Answer
  <2> QED BY <2>1, <2>2, <2>3, <2>4
<1>2. CASE CallStep(r) \/ Wake(r)
  <2>1. /\ pc[r] \in CallSteps \cup {"wait"} /\ UNCHANGED <<at, asks, leader>>
        /\ \/ \E step \in CallSteps \cup {"resume"} : Goto(r, step)
           \/ \E error : Fail(r, error)
           \/ \E media : ReturnRow(r, media)
           \/ /\ Recheck(r) /\ pc' = [pc EXCEPT ![r] = "stat"]
              /\ snap' = [snap EXCEPT ![r] = row[asks[r]]] /\ UNCHANGED <<result, reply>>
    BY <1>2 DEF CallStep, Recheck, StatExisting, CreateTemp, AcquireSlot, Fetch, FetchFails,
                Install, StoreRemoteMedia, Yield, RereadWinner, Undo, Release, Wake, request
  <2>2. ASSUME NEW step \in CallSteps \cup {"resume"}, Goto(r, step) PROVE Moves(r)
    BY <1>0, <2>1, <2>2 DEF Goto
  <2> QED BY <1>0, <2>1, <2>2 DEF Fail, ReturnRow
<1> QED BY <1>1, <1>2 DEF RequestStep

LEMMA ShapeStep == ASSUME Shape, [Next]_vars PROVE Shape'
<1>0. TypeOK'
  BY TypeStep
<1>1. ASSUME NEW r \in Requests, RequestStep(r), ~Join(r) PROVE Shape'
  <2>1. Moves(r) /\ UNCHANGED <<at, asks, leader>>
    BY <1>1, MovesOn
  <2>2. \A w \in Workers, m \in Media : flight'[w][m] \in {flight[w][m], None}
    <3>1. CASE Release(r)
      BY <2>1, <3>1 DEF Release, Shape, TypeOK
    <3>2. CASE UNCHANGED flight
      BY <3>2
    <3> QED
      BY <1>1, <3>1, <3>2
      DEF RequestStep, CallStep, GetRemoteMedia, Recheck, StatExisting, CreateTemp, AcquireSlot,
          Fetch, FetchFails, Install, StoreRemoteMedia, Yield, RereadWinner, Undo, Wake,
          Resume, OpenFile, process
  <2>3. \A q \in Requests : /\ pc'[q] = "idle" <=> pc[q] = "idle"
                            /\ pc[q] = "idle" => result'[q] = result[q]
                            /\ pc'[q] \in CallSteps \cup {"wait", "resume"} =>
                                 pc[q] \in CallSteps \cup {"wait", "resume"}
                            /\ reply'[q] # "none" => pc'[q] = "done"
    BY <2>1 DEF Moves, Shape, RequestShape
  <2> QED BY <1>0, <2>1, <2>2, <2>3, QuietShape
<1>2. ASSUME NEW r \in Requests, Join(r) PROVE Shape'
  <2>0. /\ pc[r] = "join" /\ at[r] \in Workers /\ asks[r] \in Media /\ reply[r] = "none"
        /\ UNCHANGED <<asks, at, result, reply>> /\ pc' = [pc EXCEPT ![r] = pc'[r]]
        /\ pc'[r] \in {"recheck", "wait"} /\ leader' = [leader EXCEPT ![r] = leader'[r]]
    BY <1>2 DEF Join, Goto, Shape, TypeOK, RequestShape
  <2>1. leader'[r] # None /\ pc'[leader'[r]] # "idle" /\ asks[leader'[r]] = asks[r]
    BY <1>2, <2>0, ConstantsAssumption DEF Join, Shape, TypeOK, FlightShape, Fetches
  <2>2. RequestShape'
    BY <2>0, <2>1 DEF Shape, RequestShape, TypeOK, CallSteps
  <2>3. \A w \in Workers, m \in Media :
          flight'[w][m] = flight[w][m] \/ (flight'[w][m] = r /\ m = asks[r])
    BY <1>2, <2>0 DEF Join, Shape, TypeOK
  <2>4. FlightShape'
    BY <2>0, <2>3 DEF Shape, FlightShape, TypeOK
  <2> QED BY <1>0, <2>2, <2>4 DEF Shape
<1>3. ASSUME NEW r \in Requests, Arrive(r) PROVE Shape'
  <2>1. /\ pc[r] = "idle" /\ leader[r] = None /\ result[r] = "none" /\ reply[r] = "none"
        /\ UNCHANGED <<flight, leader, result, reply>> /\ pc' = [pc EXCEPT ![r] = "lookup"]
        /\ at'[r] \in Workers /\ asks'[r] \in Media
        /\ \A q \in Requests : q # r => asks'[q] = asks[q] /\ at'[q] = at[q]
    BY <1>3 DEF Arrive, Goto, process, Shape, TypeOK, RequestShape
  <2>2. RequestShape'
    BY <2>1 DEF Shape, RequestShape, TypeOK, CallSteps
  <2>3. FlightShape'
    BY <2>1 DEF Shape, FlightShape, TypeOK
  <2> QED BY <1>0, <2>2, <2>3 DEF Shape
<1>4. CASE (\E r \in Requests : ClientLeaves(r)) \/ (Environment /\ ~\E w \in Workers : Crash(w))
          \/ UNCHANGED vars
  <2>1. UNCHANGED <<at, asks, leader, pc, result, reply, flight>>
    BY <1>4 DEF ClientLeaves, Environment, Quarantine, PurgeFile, PurgeRow, SynapseStores, vars,
                process, request
  <2> QED BY <1>0, <2>1 DEF Shape, RequestShape, FlightShape
<1>5. ASSUME NEW w \in Workers, Crash(w) PROVE Shape'
  <2>1. /\ UNCHANGED <<at, asks, leader, result, reply>>
        /\ \A v \in Workers, m \in Media : flight'[v][m] \in {flight[v][m], None}
        /\ \A r \in Requests : pc'[r] = pc[r]
                              \/ (pc'[r] = "lost" /\ pc[r] \notin {"idle", "done"})
    BY <1>5 DEF Crash, request, Active, ActiveSteps, CallSteps, Shape, TypeOK
  <2>2. \A r \in Requests : /\ pc'[r] = "idle" <=> pc[r] = "idle"
                            /\ pc[r] = "idle" => result'[r] = result[r]
                            /\ pc'[r] \in CallSteps \cup {"wait", "resume"} =>
                                 pc[r] \in CallSteps \cup {"wait", "resume"}
                            /\ reply'[r] # "none" => pc'[r] = "done"
    BY <2>1 DEF Shape, RequestShape, CallSteps
  <2> QED BY <1>0, <2>1, <2>2, QuietShape
<1> QED
  BY <1>1, <1>2, <1>3, <1>4, <1>5 DEF Next, Environment

------------------------------------------------------------------------------
\* The table and the directory.

BeforeInsert == BeforeInstall \cup {"reread"}
Holding == {"insert", "yield", "undo"}

\* What a step that touches neither store may do to a request.
QuietMove(r) ==
  /\ pc'[r] \in BeforeInsert => pc[r] \in BeforeInsert
  /\ pc'[r] \in Holding => pc[r] \in Holding
  /\ pc[r] \in Holding \cup {"lost"} => pc'[r] \in Holding \cup {"lost"}

StoresUntouched == UNCHANGED <<row, file, recorded, purged>>

LEMMA StoreInvInit == Init => StoreInv
BY DEF Init, StoreInv, Records, FetchState, NoOrphanFile, Exists, NoRow, Row, Unrecorded

LEMMA QuietKeepsStores ==
  ASSUME StoreInv, StoresUntouched, \A r \in Requests : QuietMove(r)
  PROVE  StoreInv'
<1> USE DEF StoreInv, StoresUntouched
<1>1. Records'
  BY DEF Records, Exists, Unrecorded
<1>2. FetchState'
  BY DEF FetchState, QuietMove, Unrecorded, BeforeInsert, Holding
<1>3. NoOrphanFile'
  BY DEF NoOrphanFile, QuietMove, Holding
<1> QED BY <1>1, <1>2, <1>3

\* The quiet steps, by what they do.
LEMMA QuietSteps ==
  ASSUME Shape, NEW r \in Requests,
         \/ Arrive(r) \/ GetRemoteMedia(r) \/ Join(r) \/ Recheck(r) \/ StatExisting(r)
         \/ CreateTemp(r) \/ AcquireSlot(r) \/ Fetch(r) \/ FetchFails(r) \/ RereadWinner(r)
         \/ Release(r) \/ Wake(r) \/ Resume(r) \/ OpenFile(r) \/ ClientLeaves(r)
         \/ Install(r) /\ Fail(r, "failed") /\ UNCHANGED file
         \/ StoreRemoteMedia(r) /\ Goto(r, "undo") /\ UNCHANGED <<row, recorded>>
  PROVE  StoresUntouched /\ \A q \in Requests : QuietMove(q)
<1> USE DEF Shape, TypeOK, QuietMove, BeforeInsert, BeforeInstall, Holding, StoresUntouched
<1>1. CASE Arrive(r) \/ Join(r) \/ ClientLeaves(r)
  BY <1>1 DEF Arrive, Join, ClientLeaves, Goto, store, history
<1>2. CASE GetRemoteMedia(r) \/ Recheck(r) \/ StatExisting(r)
  BY <1>2 DEF GetRemoteMedia, Recheck, StatExisting, Goto, Answer, Gate, OpenWith, Fail,
              ReturnRow, store, history
<1>3. CASE CreateTemp(r) \/ AcquireSlot(r) \/ Fetch(r) \/ FetchFails(r)
  BY <1>3 DEF CreateTemp, AcquireSlot, Fetch, FetchFails, Goto, Fail, store, history
<1>4. CASE RereadWinner(r) \/ Release(r) \/ Wake(r)
  BY <1>4 DEF RereadWinner, Release, Wake, Goto, Fail, ReturnRow, store, history
<1>5. CASE Resume(r)
  <2>1. /\ pc[r] = "resume" /\ StoresUntouched
        /\ (\E code : Answer(r, code)) \/ (\E media : OpenWith(r, media))
    BY <1>5 DEF Resume, Gate, store, history
  <2> QED BY <2>1 DEF Answer, OpenWith
<1>6. CASE OpenFile(r)
  BY <1>6 DEF OpenFile, Answer, store, history
<1>7. CASE \/ Install(r) /\ Fail(r, "failed") /\ UNCHANGED file
           \/ StoreRemoteMedia(r) /\ Goto(r, "undo") /\ UNCHANGED <<row, recorded>>
  BY <1>7 DEF Install, StoreRemoteMedia, Fail, Goto, history
<1> QED
  BY <1>1, <1>2, <1>3, <1>4, <1>5, <1>6, <1>7

\* The file lands before anything names it.
LEMMA InstallKeepsStores ==
  ASSUME Shape, StoreInv, NEW l \in Requests, pc[l] = "install",
         file' = file \cup {l}, Goto(l, "insert"), UNCHANGED <<row, history>>
  PROVE  StoreInv'
<1> USE DEF StoreInv
<1>1. Unrecorded(l) /\ l \in Fetches
  BY DEF FetchState, BeforeInstall, Fetches
<1>2. /\ UNCHANGED <<recorded, purged>> /\ pc'[l] = "insert"
      /\ \A q \in Requests : q # l => pc'[q] = pc[q]
  BY DEF Goto, history, Shape, TypeOK
<1>3. Records'
  BY <1>1, <1>2 DEF Records, Exists, Unrecorded
<1>4. FetchState'
  BY <1>1, <1>2 DEF FetchState, Unrecorded, BeforeInstall
<1>5. NoOrphanFile'
  BY <1>2 DEF NoOrphanFile
<1> QED BY <1>3, <1>4, <1>5

\* A file that no row has named is taken away again.
LEMMA RemoveKeepsStores ==
  ASSUME Shape, StoreInv, NEW l \in Requests, pc[l] \in {"yield", "undo"},
         file' = file \ {l}, pc' = [pc EXCEPT ![l] = pc'[l]], pc'[l] \in {"reread", "return"},
         UNCHANGED <<row, history>>
  PROVE  StoreInv'
<1> USE DEF StoreInv
<1>1. Unrecorded(l)
  BY DEF FetchState
<1>2. /\ UNCHANGED <<recorded, purged>> /\ \A q \in Requests : q # l => pc'[q] = pc[q]
  BY DEF history, Shape, TypeOK
<1>3. Records'
  BY <1>1, <1>2 DEF Records, Exists, Unrecorded
<1>4. FetchState'
  BY <1>1, <1>2 DEF FetchState, Unrecorded, BeforeInstall
<1>5. NoOrphanFile'
  BY <1>2 DEF NoOrphanFile
<1> QED BY <1>3, <1>4, <1>5

\* The first row of a media ID names a file that is in place.
LEMMA InsertKeepsStores ==
  ASSUME Shape, StoreInv, NEW m \in Media, NEW f \in Fetches,
         ~Exists(m), Unrecorded(f), InsertRow(m, f), file' = file \cup {f}, UNCHANGED purged,
         \A q \in Requests : \/ pc'[q] = pc[q] /\ (q = f => pc[q] \notin BeforeInsert \cup Holding)
                             \/ q = f /\ pc'[q] = "return"
  PROVE  StoreInv'
<1> USE DEF StoreInv
<1>1. /\ row'[m].fs = f /\ \A i \in Media : i # m => row'[i] = row[i]
      /\ recorded' = recorded \cup {<<m, f>>}
  BY DEF InsertRow, Row, Shape, TypeOK
<1>2. f \notin purged
  BY DEF Records
<1>3. Records'
  BY <1>1, <1>2 DEF Records, Exists, Unrecorded
<1>4. FetchState'
  BY <1>1 DEF FetchState, Unrecorded, BeforeInsert, BeforeInstall, Holding
<1>5. NoOrphanFile'
  <2>1. \A g \in file : row[m].fs # g
    BY ConstantsAssumption DEF Exists, Shape, TypeOK
  <2> QED BY <1>1, <2>1 DEF NoOrphanFile
<1> QED BY <1>3, <1>4, <1>5

LEMMA StoreStep ==
  ASSUME "lostReply" \notin Faults, Shape, StoreInv, NEW l \in Requests, StoreRemoteMedia(l)
  PROVE  StoreInv'
<1>1. /\ pc[l] = "insert" /\ asks[l] \in Media /\ l \in Fetches
      /\ Unrecorded(l) /\ l \in file /\ UNCHANGED <<file, purged>>
  BY DEF StoreRemoteMedia, Shape, RequestShape, StoreInv, FetchState, Fetches
<1>2. CASE InsertRow(asks[l], l) /\ ~Lost(l) /\ ReturnRow(l, Row(l, FALSE))
  <2>1. \A q \in Requests : (pc'[q] = pc[q] /\ q # l) \/ (q = l /\ pc'[q] = "return")
    BY <1>2 DEF ReturnRow, Shape, TypeOK
  <2>2. ~Exists(asks[l]) /\ file' = file \cup {l}
    BY <1>1, <1>2 DEF Lost
  <2> QED BY <1>1, <1>2, <2>1, <2>2, InsertKeepsStores
<1>3. CASE InsertRow(asks[l], l) /\ Lost(l) /\ Goto(l, "yield")
  <2>1. StoresUntouched
    BY <1>1, <1>3 DEF InsertRow, Lost, StoresUntouched
  <2>2. \A q \in Requests : QuietMove(q)
    BY <1>1, <1>3 DEF Goto, QuietMove, BeforeInsert, BeforeInstall, Holding, Shape, TypeOK
  <2> QED BY <2>1, <2>2, QuietKeepsStores
<1>4. CASE Goto(l, "undo") /\ UNCHANGED <<row, recorded>>
  BY <1>4, QuietSteps, QuietKeepsStores
<1> QED
  BY <1>2, <1>3, <1>4 DEF StoreRemoteMedia

LEMMA StoreInvStep ==
  ASSUME "lostReply" \notin Faults, Shape, StoreInv, [Next]_vars
  PROVE  StoreInv'
<1>1. ASSUME NEW r \in Requests, Arrive(r) \/ ClientLeaves(r) PROVE StoreInv'
  BY <1>1, QuietSteps, QuietKeepsStores
<1>2. ASSUME NEW r \in Requests, RequestStep(r) PROVE StoreInv'
  <2>1. CASE StoreRemoteMedia(r)
    BY <2>1, StoreStep
  <2>2. CASE Install(r)
    <3>1. CASE Fail(r, "failed") /\ UNCHANGED file
      BY <2>2, <3>1, QuietSteps, QuietKeepsStores
    <3>2. CASE file' = file \cup {r} /\ Goto(r, "insert")
      BY <2>2, <3>2, InstallKeepsStores DEF Install
    <3> QED BY <2>2, <3>1, <3>2 DEF Install
  <2>3. CASE Yield(r) \/ Undo(r)
    <3>1. /\ pc[r] \in {"yield", "undo"} /\ file' = file \ {r} /\ UNCHANGED <<row, history>>
          /\ pc' = [pc EXCEPT ![r] = pc'[r]] /\ pc'[r] \in {"reread", "return"}
      BY <2>3 DEF Yield, Undo, Goto, Fail, Shape, TypeOK
    <3> QED BY <3>1, RemoveKeepsStores
  <2> QED
    BY <1>2, <2>1, <2>2, <2>3, QuietSteps, QuietKeepsStores DEF RequestStep, CallStep
<1>3. ASSUME NEW w \in Workers, Crash(w) PROVE StoreInv'
  <2>1. StoresUntouched
    BY <1>3 DEF Crash, store, history, StoresUntouched
  <2>2. \A q \in Requests : pc'[q] = pc[q] \/ (pc'[q] = "lost" /\ pc[q] \notin {"idle", "done"})
    BY <1>3 DEF Crash, Active, ActiveSteps, CallSteps, Shape, TypeOK
  <2>3. \A q \in Requests : QuietMove(q)
    BY <2>2 DEF QuietMove, BeforeInsert, BeforeInstall, Holding
  <2> QED BY <2>1, <2>3, QuietKeepsStores
<1>4. ASSUME NEW m \in Media, NEW f \in Foreign, SynapseStores(m, f) PROVE StoreInv'
  <2>1. /\ f \in Fetches /\ f \notin Requests /\ Unrecorded(f)
    BY <1>4, ConstantsAssumption DEF SynapseStores, Unrecorded, Fetches
  <2>2. \A q \in Requests : pc'[q] = pc[q] /\ q # f
    BY <1>4, <2>1 DEF SynapseStores
  <2> QED BY <1>4, <2>1, <2>2, InsertKeepsStores DEF SynapseStores
<1>5. ASSUME NEW m \in Media, Quarantine(m) PROVE StoreInv'
  <2>1. /\ \A i \in Media : row'[i].fs = row[i].fs
        /\ UNCHANGED <<file, recorded, purged, pc>>
    BY <1>5 DEF Quarantine, history, Shape, TypeOK, Rows
  <2> QED BY <2>1 DEF StoreInv, Records, FetchState, NoOrphanFile, Exists, Unrecorded
<1>6. ASSUME NEW m \in Media, PurgeFile(m) PROVE StoreInv'
  <2>1. /\ row[m].fs \in file /\ file' = file \ {row[m].fs} /\ purged' = purged \cup {row[m].fs}
        /\ UNCHANGED <<row, recorded, pc>> /\ row[m].fs # None /\ row[m].fs \in Fetches
    BY <1>6, ConstantsAssumption DEF PurgeFile, Shape, TypeOK
  <2>2. <<m, row[m].fs>> \in recorded
    BY <2>1 DEF StoreInv, Records, Exists
  <2>3. Records'
    BY <2>1, <2>2 DEF StoreInv, Records, Exists, Unrecorded
  <2>4. FetchState'
    BY <2>1, <2>2 DEF StoreInv, FetchState, Unrecorded
  <2>5. NoOrphanFile'
    BY <2>1 DEF StoreInv, NoOrphanFile
  <2> QED BY <2>3, <2>4, <2>5 DEF StoreInv
<1>7. ASSUME NEW m \in Media, PurgeRow(m) PROVE StoreInv'
  <2>1. /\ row[m].fs \in purged /\ row[m].fs \notin file /\ UNCHANGED <<file, recorded, purged, pc>>
        /\ row'[m].fs = None /\ \A i \in Media : i # m => row'[i] = row[i]
    BY <1>7 DEF PurgeRow, NoRow, Row, Shape, TypeOK, history, StoreInv, Records
  <2>2. Records'
    BY <2>1 DEF StoreInv, Records, Exists, Unrecorded
  <2>3. FetchState'
    BY <2>1 DEF StoreInv, FetchState, Unrecorded
  <2>4. NoOrphanFile'
    BY <2>1 DEF StoreInv, NoOrphanFile
  <2> QED BY <2>2, <2>3, <2>4 DEF StoreInv
<1>8. CASE UNCHANGED vars
  <2>1. StoresUntouched /\ UNCHANGED pc
    BY <1>8 DEF vars, store, history, StoresUntouched
  <2> QED BY <2>1, QuietKeepsStores DEF QuietMove
<1> QED
  BY <1>1, <1>2, <1>3, <1>4, <1>5, <1>6, <1>7, <1>8 DEF Next, Environment

LEMMA StoreInvariant ==
  ASSUME "lostReply" \notin Faults PROVE Spec => [](Shape /\ StoreInv)
<1>1. Shape /\ StoreInv /\ [Next]_vars => (Shape /\ StoreInv)'
  BY ShapeStep, StoreInvStep
<1> QED BY <1>1, ShapeInit, StoreInvInit, PTL DEF Spec

\* Any number of processes and Synapse, with every failure and crash but a lost
\* reply, never leave a row whose file is not in place, or was not purged.
THEOREM RowsHaveFiles ==
  ASSUME "lostReply" \notin Faults PROVE Spec => []RowHasFile
<1>1. Shape /\ StoreInv => RowHasFile
  BY DEF Shape, TypeOK, Rows, StoreInv, Records, RowHasFile, Exists
<1> QED BY <1>1, StoreInvariant, PTL

\* Losers of the insert's race and failed inserts take their file away: one that no
\* row names belongs to a call that is about to, or that died before it could.
THEOREM OrphansAreRemoved ==
  ASSUME "lostReply" \notin Faults PROVE Spec => []NoOrphanFile
<1>1. Shape /\ StoreInv => NoOrphanFile
  BY DEF StoreInv
<1> QED BY <1>1, StoreInvariant, PTL

------------------------------------------------------------------------------
\* What the handlers go on with.

Claims(r) ==
  \/ result[r] = "row"
  \/ pc[r] \in {"stat", "open"}
  \/ reply[r] \in {"served", "missing"}

\* A request that makes no new claim, or makes one about a row of the table.
Keeps(r) ==
  /\ Claims(r)' => Claims(r) /\ asks'[r] = asks[r] /\ snap'[r] = snap[r]
  /\ reply'[r] = "missing" => reply[r] = "missing"

Renews(r) == <<asks'[r], snap'[r].fs>> \in recorded' /\ reply'[r] # "missing"

LEMMA ReadInvInit == Init => ReadInv
BY DEF Init, ReadInv, SnapRecorded, MissingFileWasPurged

LEMMA KeepsReadInv ==
  ASSUME ReadInv, recorded \subseteq recorded', purged \subseteq purged',
         \A r \in Requests : Keeps(r) \/ Renews(r)
  PROVE  ReadInv'
<1>1. SnapRecorded'
  BY DEF ReadInv, SnapRecorded, Keeps, Renews, Claims
<1>2. MissingFileWasPurged'
  BY DEF ReadInv, MissingFileWasPurged, Keeps, Renews, Claims
<1> QED BY <1>1, <1>2 DEF ReadInv

LEMMA HistoryGrows ==
  ASSUME [Next]_vars PROVE recorded \subseteq recorded' /\ purged \subseteq purged'
BY DEF Next, Environment, RequestStep, CallStep, Arrive, GetRemoteMedia, Join, Recheck,
       StatExisting, CreateTemp, AcquireSlot, Fetch, FetchFails, Install, StoreRemoteMedia,
       Yield, RereadWinner, Undo, Release, Wake, Resume, OpenFile, ClientLeaves, Crash,
       SynapseStores, Quarantine, PurgeFile, PurgeRow, InsertRow, history, vars

\* A request that goes on with a row of the table.
LEMMA OpenRenews ==
  ASSUME Shape, NEW r \in Requests, NEW media \in Rows, pc[r] # "done",
         <<asks[r], media.fs>> \in recorded', UNCHANGED asks,
         Gate(r, media) \/ ReturnRow(r, media)
  PROVE  Keeps(r) \/ Renews(r)
<1>1. reply[r] = "none"
  BY DEF Shape, RequestShape
<1>2. CASE OpenWith(r, media) \/ ReturnRow(r, media)
  BY <1>1, <1>2 DEF OpenWith, ReturnRow, Renews, Shape, TypeOK
<1>3. CASE Answer(r, "notFound")
  BY <1>3 DEF Answer, Keeps, Claims, Shape, TypeOK
<1> QED BY <1>2, <1>3 DEF Gate

LEMMA ReadStep ==
  ASSUME "lostReply" \notin Faults, Shape, Shape', StoreInv, ReadInv,
         NEW r \in Requests, RequestStep(r), ~Join(r), ~OpenFile(r), recorded \subseteq recorded'
  PROVE  Keeps(r) \/ Renews(r)
<1> USE DEF Shape
<1>1. Moves(r) /\ UNCHANGED <<at, asks, leader>> /\ asks[r] \in Media /\ pc[r] # "done"
  BY MovesOn DEF Moves, RequestShape
<1>2. Exists(asks[r]) => <<asks[r], row[asks[r]].fs>> \in recorded /\ row[asks[r]] \in Rows
  BY <1>1 DEF StoreInv, Records, TypeOK
<1>3. CASE GetRemoteMedia(r)
  <2>1. CASE Exists(asks[r]) /\ Gate(r, row[asks[r]])
    BY <1>1, <1>2, <2>1, OpenRenews
  <2>2. CASE Goto(r, "join") \/ Answer(r, "failed")
    BY <1>1, <2>2 DEF Goto, Answer, Keeps, Claims, TypeOK
  <2> QED BY <1>3, <2>1, <2>2 DEF GetRemoteMedia
<1>4. CASE Recheck(r)
  <2>1. CASE Exists(asks[r]) /\ snap' = [snap EXCEPT ![r] = row[asks[r]]] /\ UNCHANGED reply
    BY <1>1, <1>2, <2>1 DEF Renews, RequestShape, TypeOK
  <2>2. CASE Goto(r, "create") \/ Fail(r, "failed")
    BY <1>1, <2>2 DEF Goto, Fail, Keeps, Claims, TypeOK
  <2> QED BY <1>4, <2>1, <2>2 DEF Recheck
<1>5. CASE StatExisting(r)
  <2>1. pc[r] = "stat" /\ (Goto(r, "create") \/ ReturnRow(r, snap[r]))
    BY <1>5 DEF StatExisting
  <2> QED BY <1>1, <2>1 DEF Goto, ReturnRow, Keeps, Claims, TypeOK
<1>6. CASE \/ CreateTemp(r) \/ AcquireSlot(r) \/ Fetch(r) \/ FetchFails(r) \/ Install(r)
           \/ Yield(r) \/ Undo(r) \/ Release(r) \/ Wake(r)
  <2>1. (\E step \in {"acquire", "fetch", "install", "insert", "reread", "resume"} : Goto(r, step))
        \/ \E error \in Errors : Fail(r, error)
    BY <1>6 DEF CreateTemp, AcquireSlot, Fetch, FetchFails, Install, Yield, Undo, Release, Wake,
                Errors
  <2> QED BY <1>1, <2>1 DEF Goto, Fail, Keeps, Claims, TypeOK, Errors
<1>7. CASE StoreRemoteMedia(r)
  <2>1. CASE Goto(r, "yield") \/ Goto(r, "undo")
    BY <1>1, <2>1 DEF Goto, Keeps, Claims, TypeOK
  <2>2. CASE InsertRow(asks[r], r) /\ ~Lost(r) /\ ReturnRow(r, Row(r, FALSE))
    <3>1. <<asks[r], Row(r, FALSE).fs>> \in recorded' /\ Row(r, FALSE) \in Rows
      BY <2>2 DEF InsertRow, Lost, Row, Rows, Fetches
    <3> QED BY <1>1, <2>2, <3>1, OpenRenews
  <2> QED BY <1>7, <2>1, <2>2 DEF StoreRemoteMedia
<1>8. CASE RereadWinner(r)
  <2>1. CASE Exists(asks[r]) /\ ReturnRow(r, row[asks[r]])
    BY <1>1, <1>2, <2>1, OpenRenews
  <2>2. CASE Fail(r, "failed")
    BY <1>1, <2>2 DEF Fail, Keeps, Claims, TypeOK
  <2> QED BY <1>8, <2>1, <2>2 DEF RereadWinner
<1>9. CASE Resume(r)
  <2>1. leader[r] \in Requests /\ asks[leader[r]] = asks[r]
    BY <1>9 DEF Resume, RequestShape, TypeOK
  <2>2. CASE result[leader[r]] = "row" /\ Gate(r, snap[leader[r]])
    <3>1. <<asks[r], snap[leader[r]].fs>> \in recorded' /\ snap[leader[r]] \in Rows
      BY <2>1, <2>2 DEF ReadInv, SnapRecorded, TypeOK
    <3> QED BY <1>1, <2>2, <3>1, OpenRenews
  <2>3. CASE \E error \in Errors : Answer(r, ErrorReply(error))
    BY <1>1, <2>3 DEF Answer, ErrorReply, Keeps, Claims, TypeOK
  <2> QED BY <1>9, <2>1, <2>2, <2>3 DEF Resume
<1> QED
  BY <1>3, <1>4, <1>5, <1>6, <1>7, <1>8, <1>9 DEF RequestStep, CallStep

\* A file that is missing when it is opened was recorded, and so purged.
LEMMA OpenStep ==
  ASSUME Shape, StoreInv, ReadInv, NEW r \in Requests, OpenFile(r)
  PROVE  ReadInv'
<1> USE DEF Shape
<1>1. /\ pc[r] = "open" /\ UNCHANGED <<snap, result, asks, recorded, purged>>
      /\ reply'[r] = IF snap[r].fs \in file THEN "served" ELSE "missing"
      /\ \A q \in Requests : q # r => pc'[q] = pc[q] /\ reply'[q] = reply[q]
  BY DEF OpenFile, Answer, TypeOK, request, history
<1>2. <<asks[r], snap[r].fs>> \in recorded
  BY <1>1 DEF ReadInv, SnapRecorded
<1>3. asks[r] \in Media /\ snap[r].fs \in Fetches
  BY <1>2 DEF TypeOK
<1>4. snap[r].fs \in file \cup purged
  BY <1>2, <1>3 DEF StoreInv, Records
<1>5. SnapRecorded'
  <2>1. \A q \in Requests : q # r => (Claims(q)' <=> Claims(q))
    BY <1>1 DEF Claims
  <2> QED BY <1>1, <1>2, <2>1 DEF ReadInv, SnapRecorded, Claims
<1>6. MissingFileWasPurged'
  BY <1>1, <1>4 DEF ReadInv, MissingFileWasPurged
<1> QED BY <1>5, <1>6 DEF ReadInv

LEMMA ReadInvStep ==
  ASSUME "lostReply" \notin Faults, Shape, Shape', StoreInv, ReadInv, [Next]_vars
  PROVE  ReadInv'
<1>1. recorded \subseteq recorded' /\ purged \subseteq purged'
  BY HistoryGrows
<1>2. ASSUME NEW r \in Requests, RequestStep(r), ~Join(r), ~OpenFile(r) PROVE ReadInv'
  <2>1. Moves(r) /\ UNCHANGED asks
    BY <1>2, MovesOn
  <2>2. Keeps(r) \/ Renews(r)
    BY <1>1, <1>2, ReadStep
  <2>3. \A q \in Requests : q # r => Keeps(q)
    BY <2>1 DEF Moves, Keeps, Claims
  <2> QED BY <1>1, <2>2, <2>3, KeepsReadInv
<1>3. ASSUME NEW r \in Requests, Join(r) PROVE ReadInv'
  <2>1. \A q \in Requests : Keeps(q)
    BY <1>3 DEF Join, Goto, Keeps, Claims, Shape, TypeOK
  <2> QED BY <1>1, <2>1, KeepsReadInv
<1>4. ASSUME NEW r \in Requests, Arrive(r) PROVE ReadInv'
  <2>1. /\ reply[r] = "none" /\ result[r] = "none" /\ pc'[r] = "lookup"
        /\ UNCHANGED <<snap, result, reply>>
        /\ \A q \in Requests : q # r => asks'[q] = asks[q] /\ pc'[q] = pc[q]
    BY <1>4 DEF Arrive, Goto, Shape, TypeOK, RequestShape
  <2>2. \A q \in Requests : Keeps(q)
    BY <2>1 DEF Keeps, Claims
  <2> QED BY <1>1, <2>2, KeepsReadInv
<1>5. CASE (\E r \in Requests : ClientLeaves(r)) \/ Environment \/ UNCHANGED vars
  <2>1. /\ UNCHANGED <<asks, snap, result, reply>>
        /\ \A q \in Requests : pc'[q] = pc[q] \/ pc'[q] = "lost"
    BY <1>5 DEF ClientLeaves, Environment, Crash, Quarantine, PurgeFile, PurgeRow, SynapseStores,
                vars, process, request, Shape, TypeOK
  <2>2. \A q \in Requests : Keeps(q)
    BY <2>1 DEF Keeps, Claims
  <2> QED BY <1>1, <2>2, KeepsReadInv
<1> QED BY <1>2, <1>3, <1>4, <1>5, OpenStep DEF Next

LEMMA Invariant ==
  ASSUME "lostReply" \notin Faults PROVE Spec => []IInv
<1>1. IInv /\ [Next]_vars => IInv'
  BY ShapeStep, StoreInvStep, ReadInvStep DEF IInv
<1>2. Init => IInv
  BY ShapeInit, StoreInvInit, ReadInvInit DEF IInv
<1> QED BY <1>1, <1>2, PTL DEF Spec

\* A loser of the race goes on with the winner's row, and its file is there: a download
\* finds no file only if Synapse purged it.
THEOREM MissingMeansPurged ==
  ASSUME "lostReply" \notin Faults PROVE Spec => []MissingFileWasPurged
<1>1. IInv => MissingFileWasPurged
  BY DEF IInv, ReadInv
<1> QED BY <1>1, Invariant, PTL

------------------------------------------------------------------------------
\* The refinement.  The insert of a media ID's first row writes its register, the
\* opening of the file acknowledges it, and every other step stutters.

\* While nothing is purged, a recorded filesystem_id stays its media ID's.
Settled ==
  /\ purged = {}
  /\ \A m \in Media, f \in Fetches : <<m, f>> \in recorded => row[m].fs = f

AbstractNext == [Register!Next]_<<Cached, ServedMedia>>

SameRows == \A m \in Media : row'[m].fs = row[m].fs

SameAnswers ==
  \A r \in Requests : /\ reply'[r] = "served" <=> reply[r] = "served"
                      /\ reply[r] = "served" => asks'[r] = asks[r] /\ snap'[r] = snap[r]

LEMMA CachedIsRow ==
  ASSUME Shape, StoreInv, Settled, Shape', StoreInv', Settled'
  PROVE  /\ Cached = [m \in Media |-> row[m].fs]
         /\ Cached' = [m \in Media |-> row'[m].fs]
<1>1. \A m \in Media : row[m].fs \in file \/ row[m].fs = None
  BY DEF Shape, TypeOK, Rows, StoreInv, Records, Settled, Exists
<1>2. ASSUME NEW m \in Media PROVE row'[m].fs \in file' \/ row'[m].fs = None
  <2>1. row'[m].fs \in Fetches \cup {None}
    BY DEF Shape, TypeOK, Rows
  <2>2. row'[m].fs # None => <<m, row'[m].fs>> \in recorded'
    BY DEF StoreInv, Records, Exists
  <2>3. \A f \in Fetches : <<m, f>> \in recorded' => f \in file'
    BY DEF StoreInv, Records, Settled
  <2> QED BY <2>1, <2>2, <2>3
<1> QED BY <1>1, <1>2 DEF Cached

LEMMA StutterStep ==
  ASSUME Shape, StoreInv, Settled, Shape', StoreInv', Settled', SameRows, SameAnswers
  PROVE  AbstractNext
<1>1. Cached = [m \in Media |-> row[m].fs]
  BY CachedIsRow
<1>2. Cached' = [m \in Media |-> row'[m].fs]
  BY CachedIsRow
<1>3. ServedMedia' = ServedMedia
  BY DEF ServedMedia, SameAnswers
<1> QED BY <1>1, <1>2, <1>3 DEF AbstractNext, SameRows

LEMMA PublishStep ==
  ASSUME Shape, StoreInv, Settled, Shape', StoreInv', Settled', SameAnswers,
         NEW m \in Media, NEW f \in Fetches, ~Exists(m), InsertRow(m, f)
  PROVE  AbstractNext
<1>1. Cached = [i \in Media |-> row[i].fs]
  BY CachedIsRow
<1>2. Cached' = [i \in Media |-> row'[i].fs]
  BY CachedIsRow
<1>3. row[m].fs = None /\ row' = [row EXCEPT ![m] = Row(f, FALSE)]
  BY DEF Exists, InsertRow
<1>4. Cached' = [Cached EXCEPT ![m] = f]
  BY <1>1, <1>2, <1>3 DEF Row, Shape, TypeOK
<1>5. ServedMedia' = ServedMedia
  BY DEF ServedMedia, SameAnswers
<1>6. Register!Publish(m, f)
  BY <1>1, <1>3, <1>4, <1>5 DEF Register!Publish
<1> QED BY <1>6 DEF AbstractNext, Register!Next

LEMMA OpenAcknowledges ==
  ASSUME IInv, Settled, StoreInv', Shape', Settled', NEW r \in Requests, OpenFile(r)
  PROVE  AbstractNext
<1> USE DEF IInv, Shape
<1>1. /\ pc[r] = "open" /\ UNCHANGED <<row, file, snap, asks>> /\ reply[r] = "none"
      /\ reply' = [reply EXCEPT ![r] = IF snap[r].fs \in file THEN "served" ELSE "missing"]
  BY DEF OpenFile, Answer, request, store, RequestShape
<1>2. <<asks[r], snap[r].fs>> \in recorded
  BY <1>1 DEF ReadInv, SnapRecorded
<1>3. asks[r] \in Media /\ snap[r].fs \in Fetches
  BY <1>2 DEF TypeOK
<1>4. row[asks[r]].fs = snap[r].fs /\ snap[r].fs \in file
  BY <1>2, <1>3 DEF Settled, StoreInv, Records
<1>5. Cached[asks[r]] = snap[r].fs
  BY <1>3, <1>4 DEF Cached
<1>6. UNCHANGED Cached
  BY <1>1 DEF Cached
<1>7. \A q \in Requests : reply'[q] = "served" <=> reply[q] = "served" \/ q = r
  BY <1>1, <1>4 DEF TypeOK
<1>8. ServedMedia' = ServedMedia \cup {<<asks[r], snap[r].fs>>}
  BY <1>1, <1>7 DEF ServedMedia
<1>9. Register!Acknowledge(asks[r], snap[r].fs)
  BY <1>5, <1>6, <1>8 DEF Register!Acknowledge
<1> QED BY <1>3, <1>9 DEF AbstractNext, Register!Next

\* Only the opening of a file serves one.
LEMMA OnlyOpenServes ==
  ASSUME Shape, NEW r \in Requests, RequestStep(r), ~OpenFile(r)
  PROVE  SameAnswers
<1> USE DEF Shape, TypeOK
<1>1. CASE Join(r)
  BY <1>1 DEF Join, Goto, SameAnswers
<1>2. CASE ~Join(r)
  <2>1. Moves(r) /\ UNCHANGED asks
    BY <1>2, MovesOn
  <2>2. reply[r] = "none"
    BY <2>1 DEF Moves, RequestShape
  <2>3. \/ reply'[r] = reply[r]
        \/ \E code \in Replies \ {"served"} : reply' = [reply EXCEPT ![r] = code]
    BY <1>2 DEF RequestStep, CallStep, GetRemoteMedia, Recheck, StatExisting, CreateTemp,
                AcquireSlot, Fetch, FetchFails, Install, StoreRemoteMedia, Yield, RereadWinner,
                Undo, Release, Wake, Resume, Gate, OpenWith, Goto, Answer, Fail, ReturnRow,
                ErrorReply, Replies
  <2>4. reply'[r] # "served"
    BY <2>2, <2>3
  <2> QED BY <2>1, <2>2, <2>4 DEF Moves, SameAnswers
<1> QED BY <1>1, <1>2

\* What a step does to the rows while nothing is purged: nothing, or a first insert.
LEMMA RowsMove ==
  ASSUME "lostReply" \notin Faults, "purge" \notin Faults, Shape, Settled, [Next]_vars
  PROVE  /\ UNCHANGED purged
         /\ \/ SameRows /\ UNCHANGED recorded
            \/ \E m \in Media, f \in Fetches : ~Exists(m) /\ InsertRow(m, f)
<1> USE DEF Shape, TypeOK
<1>1. ASSUME NEW r \in Requests, StoreRemoteMedia(r)
      PROVE  /\ UNCHANGED purged
             /\ \/ SameRows /\ UNCHANGED recorded
                \/ \E m \in Media, f \in Fetches : ~Exists(m) /\ InsertRow(m, f)
  <2>1. /\ asks[r] \in Media /\ r \in Fetches /\ UNCHANGED purged
        /\ InsertRow(asks[r], r) \/ UNCHANGED <<row, recorded>>
    BY <1>1 DEF StoreRemoteMedia, RequestShape, Fetches
  <2>2. CASE UNCHANGED <<row, recorded>>
    BY <2>1, <2>2 DEF SameRows
  <2>3. CASE InsertRow(asks[r], r) /\ Exists(asks[r])
    BY <2>1, <2>3 DEF InsertRow, SameRows
  <2> QED BY <2>1, <2>2, <2>3
<1>2. ASSUME NEW r \in Requests, RequestStep(r), ~StoreRemoteMedia(r)
      PROVE  UNCHANGED <<row, recorded, purged>>
  BY <1>2 DEF RequestStep, CallStep, GetRemoteMedia, Join, Recheck, StatExisting, CreateTemp,
              AcquireSlot, Fetch, FetchFails, Install, Yield, RereadWinner, Undo, Release, Wake,
              Resume, OpenFile, store, history
<1>3. ASSUME NEW r \in Requests, Arrive(r) \/ ClientLeaves(r)
      PROVE  UNCHANGED <<row, recorded, purged>>
  BY <1>3 DEF Arrive, ClientLeaves, store, history
<1>4. ASSUME NEW m \in Media, NEW f \in Foreign, SynapseStores(m, f)
      PROVE  UNCHANGED purged /\ ~Exists(m) /\ InsertRow(m, f) /\ f \in Fetches
  BY <1>4 DEF SynapseStores, Fetches
<1>5. ASSUME NEW m \in Media, Quarantine(m) \/ PurgeFile(m) \/ PurgeRow(m)
      PROVE  SameRows /\ UNCHANGED <<recorded, purged>>
  <2>1. Quarantine(m)
    BY <1>5 DEF PurgeFile, PurgeRow, Settled
  <2> QED BY <2>1 DEF Quarantine, SameRows, Rows, history
<1>6. ASSUME NEW w \in Workers, Crash(w) PROVE UNCHANGED <<row, recorded, purged>>
  BY <1>6 DEF Crash, store, history
<1>7. CASE UNCHANGED vars
  BY <1>7 DEF vars, store, history, SameRows
<1> QED
  BY <1>1, <1>2, <1>3, <1>4, <1>5, <1>6, <1>7 DEF Next, Environment, SameRows

LEMMA SettledStep ==
  ASSUME "lostReply" \notin Faults, "purge" \notin Faults, Shape, StoreInv, Settled, [Next]_vars
  PROVE  Settled'
<1>1. UNCHANGED purged
  BY RowsMove
<1>2. CASE SameRows /\ UNCHANGED recorded
  BY <1>1, <1>2 DEF Settled, SameRows
<1>3. ASSUME NEW m \in Media, NEW f \in Fetches, ~Exists(m), InsertRow(m, f) PROVE Settled'
  <2>1. /\ row' = [row EXCEPT ![m] = Row(f, FALSE)] /\ recorded' = recorded \cup {<<m, f>>}
        /\ row[m].fs = None
    BY <1>3 DEF InsertRow, Exists
  <2>2. \A g \in Fetches : <<m, g>> \notin recorded
    BY <2>1, ConstantsAssumption DEF Settled
  <2> QED BY <1>1, <2>1, <2>2 DEF Settled, Row, Shape, TypeOK
<1> QED BY <1>2, <1>3, RowsMove

LEMMA AbstractStep ==
  ASSUME "lostReply" \notin Faults, "purge" \notin Faults, IInv, IInv', Settled, Settled',
         [Next]_vars
  PROVE  AbstractNext
<1> USE DEF IInv
<1>1. ASSUME NEW r \in Requests, OpenFile(r) PROVE AbstractNext
  BY <1>1, OpenAcknowledges
<1>2. CASE ~\E r \in Requests : OpenFile(r)
  <2>1. SameAnswers
    <3>1. ASSUME NEW r \in Requests, RequestStep(r) PROVE SameAnswers
      BY <1>2, <3>1, OnlyOpenServes
    <3>2. ASSUME NEW r \in Requests, Arrive(r) PROVE SameAnswers
      <4>1. reply[r] = "none" /\ UNCHANGED <<snap, reply>>
            /\ \A q \in Requests : q # r => asks'[q] = asks[q]
        BY <3>2 DEF Arrive, Goto, Shape, TypeOK, RequestShape
      <4> QED BY <4>1 DEF SameAnswers
    <3>3. CASE (\E r \in Requests : ClientLeaves(r)) \/ Environment \/ UNCHANGED vars
      BY <3>3 DEF ClientLeaves, Environment, Crash, Quarantine, PurgeFile, PurgeRow,
                  SynapseStores, vars, request, SameAnswers
    <3> QED BY <3>1, <3>2, <3>3 DEF Next
  <2>2. CASE SameRows
    BY <2>1, <2>2, StutterStep
  <2>3. ASSUME NEW m \in Media, NEW f \in Fetches, ~Exists(m), InsertRow(m, f) PROVE AbstractNext
    BY <2>1, <2>3, PublishStep
  <2> QED BY <2>2, <2>3, RowsMove
<1> QED BY <1>1, <1>2

\* Fetches by any number of processes and by Synapse implement a write-once register
\* for each media ID, as long as nothing is purged and no insert's reply is lost: a
\* media ID keeps its first file, and that file is what every download serves.
THEOREM FetchesImplementRegister ==
  ASSUME "lostReply" \notin Faults, "purge" \notin Faults
  PROVE  Spec => ImplementsRegister
<1>1. Init => Settled
  BY DEF Init, Settled
<1>2. Shape /\ StoreInv /\ Settled /\ [Next]_vars => Settled'
  BY SettledStep
<1>3. Init => Register!Init
  <2> SUFFICES ASSUME Init PROVE Register!Init
    OBVIOUS
  <2>1. Cached = [m \in Media |-> None]
    BY DEF Init, Cached
  <2>2. ServedMedia = {}
    BY DEF Init, ServedMedia
  <2> QED BY <2>1, <2>2 DEF Register!Init
<1>4. IInv /\ IInv' /\ Settled /\ Settled' /\ [Next]_vars =>
        [Register!Next]_<<Cached, ServedMedia>>
  BY AbstractStep DEF AbstractNext
<1>5. IInv => Shape /\ StoreInv
  BY DEF IInv
<1> QED
  BY <1>1, <1>2, <1>3, <1>4, <1>5, Invariant, PTL DEF Spec, ImplementsRegister, Register!Spec
==============================================================================
