----------------------------- MODULE UploadLimits -----------------------------
(***************************************************************************)
(* media_upload_limits for one user (upload.go:481-535, config.go:649): an *)
(* upload whose body has been read is held against each limit in turn,     *)
(* longest window first, and its row is written if no limit is exceeded.   *)
(* The sum of a longer window is carried to a shorter one, which is asked  *)
(* for only if the carried sum does not settle it.  Other uploads of the   *)
(* user, in this worker or another, and Synapse's deletions come between   *)
(* any two queries.                                                        *)
(*                                                                         *)
(* The rows are represented by what the query can tell of them:            *)
(* uploaded[t] is the sum of media_length over rows created after t.       *)
(*                                                                         *)
(* An operator whose name begins with Bug is a plausible slip in the code  *)
(* it stands next to.  No action uses one.                                 *)
(***************************************************************************)
EXTENDS Integers, Sequences

CONSTANTS
  Uploads,         \* uploads of the user, each made once
  Lengths,         \* the lengths a body may have
  Configurations,  \* the lists of limits that homeserver.yaml may hold, in its order
  MaxTime          \* bound on the clock

ASSUME ConstantsAssumption ==
  /\ Lengths \subseteq Nat
  /\ \A c \in Configurations :
       Len(c) \in Nat /\ c \in [1 .. Len(c) -> [window : Nat, max : Nat]]
  /\ MaxTime \in Nat

Time == 0 .. MaxTime

VARIABLES
  limits,     \* MediaConfig.uploadLimits
  clock,
  uploaded,   \* the rows of the user, by what they sum to
  pc,         \* the next step of each upload
  length,     \* stored.length
  created,    \* created_ts of its row: the reservation's, or the time it is stored
  now,        \* evaluateUploadLimits' now
  i,          \* its loop variable
  used,       \* its used
  measured,   \* its measured
  start,      \* history: the rows when the evaluation began
  disturbed,  \* history: what others have done to the rows since
  overlapped  \* history: whether another upload ever ran beside one being evaluated

check == <<now, i, used, measured>>
vars == <<limits, clock, uploaded, pc, length, created, check, start, disturbed, overlapped>>

------------------------------------------------------------------------------
BugBefore(c, j, k) == c[j].window < c[k].window \/ (c[j].window = c[k].window /\ j < k)

\* parseMediaUploadLimits sorts descending by window, and stably.
Before(c, j, k) == c[j].window > c[k].window \/ (c[j].window = c[k].window /\ j < k)

Orders(c) == {p \in [DOMAIN c -> DOMAIN c] : \A j, k \in DOMAIN c : j < k => Before(c, p[j], p[k])}

Sorted(c) == {[j \in DOMAIN c |-> c[p[j]]] : p \in Orders(c)}

\* now.Add(-limit.Window); nothing is created at 0.
NotBefore(t, l) == IF l.window < t THEN t - l.window ELSE 0

------------------------------------------------------------------------------
Steps == {"idle", "received", "evaluate", "store", "stored", "refused", "failed"}

\* The uploads whose evaluation may still lead to a row.
InProgress(u) == pc[u] \in {"received", "evaluate", "store"}

Rows == [Time -> Nat]

TypeOK ==
  /\ \E c \in Configurations : limits \in Sorted(c)
  /\ clock \in Time
  /\ uploaded \in Rows
  /\ pc \in [Uploads -> Steps]
  /\ length \in [Uploads -> Nat]
  /\ created \in [Uploads -> Time]
  /\ now \in [Uploads -> Time]
  /\ i \in [Uploads -> Nat \ {0}]
  /\ used \in [Uploads -> Nat]
  /\ measured \in [Uploads -> BOOLEAN]
  /\ start \in [Uploads -> Rows]
  /\ disturbed \in [Uploads -> SUBSET {"grown", "shrunk"}]
  /\ overlapped \in BOOLEAN

Init ==
  /\ \E c \in Configurations : limits \in Sorted(c)
  /\ clock = 0
  /\ uploaded = [t \in Time |-> 0]
  /\ pc = [u \in Uploads |-> "idle"]
  /\ length = [u \in Uploads |-> 0]
  /\ created = [u \in Uploads |-> 0]
  /\ now = [u \in Uploads |-> 0]
  /\ i = [u \in Uploads |-> 1]
  /\ used = [u \in Uploads |-> 0]
  /\ measured = [u \in Uploads |-> FALSE]
  /\ start = [u \in Uploads |-> [t \in Time |-> 0]]
  /\ disturbed = [u \in Uploads |-> {}]
  /\ overlapped = FALSE

Goto(u, step) == pc' = [pc EXCEPT ![u] = step]

\* The rows change under every upload that is being, or has been, evaluated.
Disturb(others, how) ==
  disturbed' = [u \in Uploads |->
                  IF u \in others /\ pc[u] # "idle" THEN disturbed[u] \cup {how} ELSE disturbed[u]]

\* The body is on disk.  A completed reservation keeps the created_ts it was made with.
Receive(u, n, c) ==
  /\ pc[u] = "idle"
  /\ c <= clock
  /\ length' = [length EXCEPT ![u] = n]
  /\ created' = [created EXCEPT ![u] = c]
  /\ overlapped' = (overlapped \/ \E v \in Uploads : InProgress(v))
  /\ Goto(u, "received")
  /\ UNCHANGED <<limits, clock, uploaded, check, start, disturbed>>

\* exceededLimit.
Evaluate(u) ==
  /\ pc[u] = "received"
  /\ now' = [now EXCEPT ![u] = clock]
  /\ start' = [start EXCEPT ![u] = uploaded]
  /\ disturbed' = [disturbed EXCEPT ![u] = {}]
  /\ Goto(u, "evaluate")
  /\ UNCHANGED <<limits, clock, uploaded, length, created, i, used, measured, overlapped>>

Limit(u) == limits[i[u]]
Checking(u) == pc[u] = "evaluate" /\ i[u] \in DOMAIN limits

BugSettled(u) == used[u] + length[u] <= Limit(u).max    \* nothing need have been measured

Settled(u) == measured[u] /\ used[u] + length[u] <= Limit(u).max

\* The carried sum is below this ceiling too.
Skip(u) ==
  /\ Checking(u)
  /\ Settled(u)
  /\ i' = [i EXCEPT ![u] = @ + 1]
  /\ UNCHANGED <<limits, clock, uploaded, pc, length, created, now, used, measured, start,
                 disturbed, overlapped>>

BugMeasure(u) ==    \* refuses on the carried sum
  /\ Checking(u)
  /\ ~Settled(u)
  /\ LET total == IF measured[u] THEN used[u] ELSE uploaded[NotBefore(now[u], Limit(u))]
     IN  /\ used' = [used EXCEPT ![u] = total]
         /\ IF total + length[u] > Limit(u).max
              THEN /\ Goto(u, "refused")
                   /\ UNCHANGED i
              ELSE /\ i' = [i EXCEPT ![u] = @ + 1]
                   /\ UNCHANGED pc
  /\ measured' = [measured EXCEPT ![u] = TRUE]
  /\ UNCHANGED <<limits, clock, uploaded, length, created, now, start, disturbed, overlapped>>

\* UploadedSizeForUser, and the comparison with what it returns.
Measure(u) ==
  /\ Checking(u)
  /\ ~Settled(u)
  /\ LET total == uploaded[NotBefore(now[u], Limit(u))]
     IN  /\ used' = [used EXCEPT ![u] = total]
         /\ IF total + length[u] > Limit(u).max
              THEN /\ Goto(u, "refused")
                   /\ UNCHANGED i
              ELSE /\ i' = [i EXCEPT ![u] = @ + 1]
                   /\ UNCHANGED pc
  /\ measured' = [measured EXCEPT ![u] = TRUE]
  /\ UNCHANGED <<limits, clock, uploaded, length, created, now, start, disturbed, overlapped>>

\* The query fails, and the upload with it.
MeasureFails(u) ==
  /\ Checking(u)
  /\ ~Settled(u)
  /\ Goto(u, "failed")
  /\ UNCHANGED <<limits, clock, uploaded, length, created, check, start, disturbed, overlapped>>

\* No limit is exceeded.
Pass(u) ==
  /\ pc[u] = "evaluate"
  /\ i[u] \notin DOMAIN limits
  /\ Goto(u, "store")
  /\ UNCHANGED <<limits, clock, uploaded, length, created, check, start, disturbed, overlapped>>

\* The row is inserted, or the reservation completed.
Store(u, c) ==
  /\ pc[u] = "store"
  /\ c \in {created[u], clock}
  /\ uploaded' = [t \in Time |-> IF t < c THEN uploaded[t] + length[u] ELSE uploaded[t]]
  /\ Disturb(Uploads \ {u}, "grown")
  /\ Goto(u, "stored")
  /\ UNCHANGED <<limits, clock, length, created, check, start, overlapped>>

StoreFails(u) ==
  /\ pc[u] = "store"
  /\ Goto(u, "failed")
  /\ UNCHANGED <<limits, clock, uploaded, length, created, check, start, disturbed, overlapped>>

\* Synapse deletes rows of the user that were created up to c.
Delete(c) ==
  /\ uploaded' = [t \in Time |-> IF t < c THEN uploaded[c] ELSE uploaded[t]]
  /\ uploaded' # uploaded
  /\ Disturb(Uploads, "shrunk")
  /\ UNCHANGED <<limits, clock, pc, length, created, check, start, overlapped>>

Tick ==
  /\ clock < MaxTime
  /\ clock' = clock + 1
  /\ UNCHANGED <<limits, uploaded, pc, length, created, check, start, disturbed, overlapped>>

Next ==
  \/ \E u \in Uploads :
       \/ \E n \in Lengths : \E c \in Time : Receive(u, n, c)
       \/ Evaluate(u) \/ Skip(u) \/ Measure(u) \/ MeasureFails(u) \/ Pass(u)
       \/ \E c \in Time : Store(u, c)
       \/ StoreFails(u)
  \/ \E c \in Time : Delete(c)
  \/ Tick

Spec == Init /\ [][Next]_vars

------------------------------------------------------------------------------
\* The limits an upload of n bytes exceeds, each held against its own window.
Exceeded(rows, t, n) ==
  {j \in DOMAIN limits : rows[NotBefore(t, limits[j])] + n > limits[j].max}

\* upload.go:498-507: the queries that are skipped change nothing.  With the rows as they
\* were, an upload passes if it exceeds no limit, and is refused with the first that it
\* does, longest window first.
VerdictIsReference ==
  \A u \in Uploads : disturbed[u] = {} =>
    LET exceeded == Exceeded(start[u], now[u], length[u])
    IN  /\ pc[u] \in {"store", "stored"} => exceeded = {}
        /\ pc[u] = "refused" => /\ i[u] \in exceeded
                                /\ \A j \in exceeded : i[u] <= j

\* upload.go:519-522: rows of other uploads may come in between two queries, and what is
\* carried is then too low.  Still no upload passes that was over a limit when its check
\* began, and none is refused that is not over the limit it is told of.
ConcurrentVerdict ==
  \A u \in Uploads : "shrunk" \notin disturbed[u] =>
    /\ pc[u] \in {"store", "stored"} => Exceeded(start[u], now[u], length[u]) = {}
    /\ pc[u] = "refused" => i[u] \in Exceeded(uploaded, now[u], length[u])

\* upload.go:488: one upload at a time never takes the user above a limit, whenever it was
\* reserved and however the windows move on.  (Two that are checked side by side do.)
QuotaHeldWhenAlone ==
  ~overlapped => Exceeded(uploaded, clock, 0) = {}

=============================================================================
