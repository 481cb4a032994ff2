------------------------------ MODULE LastAccess ------------------------------
(***************************************************************************)
(* The batching of last_access_ts (db.go): a request that serves media     *)
(* marks it in a map, and one goroutine per process swaps the map for an   *)
(* empty one on a ticker and sends the marks as one batch of updates, once *)
(* more when the process is told to stop.  Several workers share the       *)
(* database.                                                               *)
(*                                                                         *)
(* A medium stands for a row of local_media_repository or of               *)
(* remote_media_cache, and one map for recentLocal and recentRemote, which *)
(* are swapped under one lock and sent in one batch.                       *)
(*                                                                         *)
(* The names that every specification has (Init, Next, Spec and so on)     *)
(* begin with Marks here, so that the proofs about what a process keeps in *)
(* memory can extend this module along with WellKnown.                     *)
(*                                                                         *)
(* An operator whose name begins with Bug is a plausible slip in the code  *)
(* it stands next to.  No action uses one.                                 *)
(***************************************************************************)
EXTENDS Integers

CONSTANTS
  Workers,          \* the processes
  Media,            \* the rows accessed
  MaxTime,          \* bound on the clock
  UpdateLastAccess, \* database.update_last_access
  MarksFaults       \* what may go wrong, a subset of FaultKinds

FaultKinds == {"fails", "late", "crash", "drainTimeout"}

ASSUME MarksAssumption ==
  /\ MaxTime \in Nat
  /\ UpdateLastAccess \in BOOLEAN
  /\ MarksFaults \subseteq FaultKinds

Time == 0 .. MaxTime

VARIABLES
  clock,    \* the wall clock of all of them
  recent,   \* recentLocal and recentRemote, per worker
  batch,    \* the maps flushLastAccess has swapped out
  now,      \* the time it stamps them with
  loop,     \* the next step of flushLoop
  stage,    \* how far the process has come to its end
  stamp,    \* last_access_ts in the database
  backlog,  \* batches given up after 30 seconds that the database may yet apply
  access,   \* history: when each medium was last accessed
  lost,     \* history: the media the mark of whose last access was dropped or overwritten
  unsent    \* history: the media whose marks a process kept when it ended by itself

process == <<recent, batch, now, loop, stage>>
marksVars == <<clock, process, stamp, backlog, access, lost, unsent>>

------------------------------------------------------------------------------
Batches == [media : SUBSET Media, now : Time]

MarksTypeOK ==
  /\ clock \in Time
  /\ recent \in [Workers -> SUBSET Media]
  /\ batch \in [Workers -> SUBSET Media]
  /\ now \in [Workers -> Time]
  /\ loop \in [Workers -> {"select", "swap", "stamp", "send", "lastSwap", "lastStamp",
                           "lastSend", "stopped"}]
  /\ stage \in [Workers -> {"serving", "draining", "closing", "overdue", "exited"}]
  /\ stamp \in [Media -> Time]
  /\ backlog \subseteq Batches
  /\ access \in [Media -> Time]
  /\ lost \subseteq Media
  /\ unsent \subseteq Media

\* NewDB starts flushLoop, or closes flushStopped when nothing is to be recorded.
MarksInit ==
  /\ clock = 0
  /\ recent = [w \in Workers |-> {}]
  /\ batch = [w \in Workers |-> {}]
  /\ now = [w \in Workers |-> 0]
  /\ loop = [w \in Workers |-> IF UpdateLastAccess THEN "select" ELSE "stopped"]
  /\ stage = [w \in Workers |-> "serving"]
  /\ stamp = [m \in Media |-> 0]
  /\ backlog = {}
  /\ access = [m \in Media |-> 0]
  /\ lost = {}
  /\ unsent = {}

LoopGoto(w, step) == loop' = [loop EXCEPT ![w] = step]

\* db.Close has closed stopFlush: "closing" once every handler has returned, "overdue" while
\* some run on.
Closing(w) == stage[w] \in {"closing", "overdue"}

\* MarkRecentlyAccessedLocal and -Remote, in a handler.
Mark(w, m) ==
  /\ UpdateLastAccess
  /\ stage[w] \in {"serving", "draining", "overdue"}
  /\ recent' = [recent EXCEPT ![w] = @ \cup {m}]
  /\ access' = [access EXCEPT ![m] = clock]
  /\ lost' = lost \ {m}
  /\ UNCHANGED <<clock, batch, now, loop, stage, stamp, backlog, unsent>>

\* flushLoop: the ticker, or stopFlush; either may be taken when both are ready.
FlushTick(w) ==
  /\ loop[w] = "select"
  /\ LoopGoto(w, "swap")
  /\ UNCHANGED <<clock, recent, batch, now, stage, stamp, backlog, access, lost, unsent>>

BugStopFlush(w) ==    \* leaves the loop without a last flush
  /\ loop[w] = "select"
  /\ Closing(w)
  /\ LoopGoto(w, "stopped")
  /\ UNCHANGED <<clock, recent, batch, now, stage, stamp, backlog, access, lost, unsent>>

StopFlush(w) ==
  /\ loop[w] = "select"
  /\ Closing(w)
  /\ LoopGoto(w, "lastSwap")
  /\ UNCHANGED <<clock, recent, batch, now, stage, stamp, backlog, access, lost, unsent>>

\* Back to the select, or out of the loop.
AfterFlush(w) == IF loop[w] \in {"lastSwap", "lastStamp", "lastSend"} THEN "stopped" ELSE "select"

\* flushLastAccess: the maps are taken and replaced under one lock.
Swap(w) ==
  /\ loop[w] \in {"swap", "lastSwap"}
  /\ batch' = [batch EXCEPT ![w] = recent[w]]
  /\ recent' = [recent EXCEPT ![w] = {}]
  /\ LoopGoto(w, IF recent[w] = {} THEN AfterFlush(w)
                 ELSE IF loop[w] = "swap" THEN "stamp" ELSE "lastStamp")
  /\ UNCHANGED <<clock, now, stage, stamp, backlog, access, lost, unsent>>

BugStamp(w) ==    \* the time was taken when the loop started
  /\ loop[w] \in {"stamp", "lastStamp"}
  /\ LoopGoto(w, IF loop[w] = "stamp" THEN "send" ELSE "lastSend")
  /\ UNCHANGED <<clock, recent, batch, now, stage, stamp, backlog, access, lost, unsent>>

\* now := time.Now(), taken after the maps.
Stamp(w) ==
  /\ loop[w] \in {"stamp", "lastStamp"}
  /\ now' = [now EXCEPT ![w] = clock]
  /\ LoopGoto(w, IF loop[w] = "stamp" THEN "send" ELSE "lastSend")
  /\ UNCHANGED <<clock, recent, batch, stage, stamp, backlog, access, lost, unsent>>

\* SendBatch runs the updates in one implicit transaction, over whatever is there.
Applied(b, t) == [m \in Media |-> IF m \in b THEN t ELSE stamp[m]]
Newer(b, t) == {m \in b : stamp[m] > t}

BugBatchDone(w) ==    \* clears the maps after the flush, as if nothing came in meanwhile
  /\ batch' = [batch EXCEPT ![w] = {}]
  /\ recent' = [recent EXCEPT ![w] = {}]
  /\ LoopGoto(w, AfterFlush(w))
  /\ UNCHANGED now

BatchDone(w) ==
  /\ batch' = [batch EXCEPT ![w] = {}]
  /\ LoopGoto(w, AfterFlush(w))
  /\ UNCHANGED <<recent, now>>

\* The updates are committed, whether or not the worker hears of it.
Commit(w) ==
  /\ loop[w] \in {"send", "lastSend"}
  /\ stamp' = Applied(batch[w], now[w])
  /\ lost' = lost \cup Newer(batch[w], now[w])
  /\ BatchDone(w)
  /\ UNCHANGED <<clock, stage, backlog, access, unsent>>

\* They are not, and the marks are dropped: the next access will record it again.
CommitFails(w) ==
  /\ "fails" \in MarksFaults
  /\ loop[w] \in {"send", "lastSend"}
  /\ lost' = lost \cup batch[w]
  /\ BatchDone(w)
  /\ UNCHANGED <<clock, stage, stamp, backlog, access, unsent>>

\* The 30 seconds are over, and the database may still be at it.
TimesOut(w) ==
  /\ "late" \in MarksFaults
  /\ loop[w] \in {"send", "lastSend"}
  /\ backlog' = backlog \cup {[media |-> batch[w], now |-> now[w]]}
  /\ lost' = lost \cup batch[w]
  /\ BatchDone(w)
  /\ UNCHANGED <<clock, stage, stamp, access, unsent>>

CommitLate(b) ==
  /\ stamp' = Applied(b.media, b.now)
  /\ lost' = lost \cup Newer(b.media, b.now)
  /\ backlog' = backlog \ {b}
  /\ UNCHANGED <<clock, process, access, unsent>>

------------------------------------------------------------------------------
\* run: a signal, then Shutdown for at most 30 seconds, then the deferred db.Close.
Terminate(w) ==
  /\ stage[w] = "serving"
  /\ stage' = [stage EXCEPT ![w] = "draining"]
  /\ UNCHANGED <<clock, recent, batch, now, loop, stamp, backlog, access, lost, unsent>>

Close(w) ==
  /\ stage[w] = "draining"
  /\ \E s \in {"closing"} \cup (IF "drainTimeout" \in MarksFaults THEN {"overdue"} ELSE {}) :
       stage' = [stage EXCEPT ![w] = s]
  /\ UNCHANGED <<clock, recent, batch, now, loop, stamp, backlog, access, lost, unsent>>

Forget(w) ==
  /\ recent' = [recent EXCEPT ![w] = {}]
  /\ batch' = [batch EXCEPT ![w] = {}]
  /\ stage' = [stage EXCEPT ![w] = "exited"]
  /\ LoopGoto(w, "stopped")
  /\ lost' = lost \cup recent[w] \cup batch[w]
  /\ UNCHANGED <<clock, now, stamp, backlog, access>>

\* flushStopped is closed, Close returns and the process ends.
Exit(w) ==
  /\ Closing(w)
  /\ loop[w] = "stopped"
  /\ unsent' = unsent \cup (IF stage[w] = "closing" THEN recent[w] ELSE {})
  /\ Forget(w)

Crash(w) ==
  /\ "crash" \in MarksFaults
  /\ stage[w] # "exited"
  /\ Forget(w)
  /\ UNCHANGED unsent

ClockTick ==
  /\ clock < MaxTime
  /\ clock' = clock + 1
  /\ UNCHANGED <<process, stamp, backlog, access, lost, unsent>>

Flush(w) == FlushTick(w) \/ StopFlush(w) \/ Swap(w) \/ Stamp(w) \/ Commit(w)

MarksNext ==
  \/ \E w \in Workers :
       \/ Flush(w) \/ CommitFails(w) \/ TimesOut(w)
       \/ Terminate(w) \/ Close(w) \/ Exit(w) \/ Crash(w)
       \/ \E m \in Media : Mark(w, m)
  \/ \E b \in backlog : CommitLate(b)
  \/ ClockTick

MarksSpec == MarksInit /\ [][MarksNext]_marksVars

\* The loop runs on, a closed stopFlush is seen at last although the ticker fires again and
\* again (select takes either), the database answers or the 30 seconds pass, and so does
\* the drain.
MarksFairSpec ==
  /\ MarksSpec
  /\ \A w \in Workers :
       /\ WF_marksVars(Flush(w) \/ CommitFails(w) \/ TimesOut(w))
       /\ SF_marksVars(StopFlush(w))
       /\ WF_marksVars(Close(w))
       /\ WF_marksVars(Exit(w))

------------------------------------------------------------------------------
\* A worker has the mark, or stamps the row with a time that is late enough.
Holds(w, m) ==
  \/ m \in recent[w]
  \/ /\ m \in batch[w]
     /\ (loop[w] \in {"send", "lastSend"} => now[w] >= access[m])

\* db.go:260-305: an access is on its way to the row or in it, whatever is marked while a
\* batch is swapped, stamped and sent, unless its mark was lost with a failed batch or a
\* process, or an older batch was applied over it.
AccessIsRecorded ==
  \A m \in Media :
     access[m] > stamp[m] => m \in lost \/ \E w \in Workers : Holds(w, m)

\* db.go:123-131 and main.go:85: a process that has let its handlers return loses no mark
\* when it ends.
CloseFlushesAll == unsent = {}

\* db.go:260-305: an access reaches its row, unless its mark is lost.
AccessesReachRows ==
  \A m \in Media :
     access[m] > stamp[m] ~> access[m] <= stamp[m] \/ m \in lost

=============================================================================
