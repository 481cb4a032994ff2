-------------------------- MODULE UploadLimits_proofs --------------------------
(***************************************************************************)
(* The verdict on an upload, for every list of limits, every length and    *)
(* every interleaving of any number of uploads.  The argument compares     *)
(* three sums over a window: what the rows were when the check began, what *)
(* was measured and what the rows are.  While nothing is deleted they are  *)
(* in this order; while no other upload stores a row, in the reverse one.  *)
(* A sum carried from a longer window to a shorter one keeps its place,    *)
(* because the limits are sorted and fewer rows are newer (Monotone).      *)
(***************************************************************************)
EXTENDS UploadLimits, TLAPS

\* Whose check has begun and has not failed.
Checked == {"evaluate", "store", "stored", "refused"}

NB(u, j) == NotBefore(now[u], limits[j])
Fits(rows, u, j) == rows[NB(u, j)] + length[u] <= limits[j].max

IsList(l) ==
  \E n \in Nat :
    /\ DOMAIN l = 1 .. n
    /\ \A j \in 1 .. n : l[j].window \in Nat /\ l[j].max \in Nat

LongestFirst(l) == \A j, k \in DOMAIN l : j <= k => l[j].window >= l[k].window

\* Fewer rows are newer.
Monotone(rows) == \A s, t \in Time : s <= t => rows[t] <= rows[s]

Loop(u) ==
  /\ now[u] <= clock
  /\ pc[u] \in {"idle", "received"} => i[u] = 1 /\ measured[u] = FALSE
  /\ pc[u] = "idle" => disturbed[u] = {}
  /\ pc[u] = "evaluate" => measured[u] \/ i[u] = 1
  /\ pc[u] \in {"store", "stored"} => i[u] \notin DOMAIN limits
  /\ pc[u] = "refused" => i[u] \in DOMAIN limits

\* The rows have only grown since the check began.
Grown(u) ==
  pc[u] \in Checked /\ "shrunk" \notin disturbed[u] =>
    /\ \A t \in Time : start[u][t] <= uploaded[t]
    /\ \A j \in DOMAIN limits : j < i[u] => Fits(start[u], u, j)
    /\ pc[u] = "evaluate" /\ measured[u] =>
         \A j \in DOMAIN limits : j >= i[u] => start[u][NB(u, j)] <= used[u]
    /\ pc[u] = "refused" => ~Fits(uploaded, u, i[u])

\* They have only shrunk.
Shrunk(u) ==
  pc[u] \in {"evaluate", "store", "refused"} /\ "grown" \notin disturbed[u] =>
    /\ \A t \in Time : uploaded[t] <= start[u][t]
    /\ pc[u] # "refused" =>
         /\ \A j \in DOMAIN limits : j < i[u] => Fits(uploaded, u, j)
         /\ measured[u] =>
              \A j \in DOMAIN limits : j >= i[u] => uploaded[NB(u, j)] <= used[u]

\* As long as uploads come one at a time, nobody else stores a row meanwhile.
Alone ==
  ~overlapped =>
    /\ \A u, v \in Uploads : InProgress(u) /\ InProgress(v) => u = v
    /\ \A u \in Uploads : InProgress(u) => "grown" \notin disturbed[u]

IInv ==
  /\ TypeOK
  /\ IsList(limits)
  /\ LongestFirst(limits)
  /\ Monotone(uploaded)
  /\ \A u \in Uploads : Monotone(start[u]) /\ Loop(u) /\ Grown(u) /\ Shrunk(u)
  /\ Alone
  /\ QuotaHeldWhenAlone

------------------------------------------------------------------------------
\* config.go:680-682: what the sort promises.
LEMMA SortedLists ==
  ASSUME NEW c \in Configurations, NEW l \in Sorted(c)
  PROVE  IsList(l) /\ LongestFirst(l)
<1>1. Len(c) \in Nat /\ c \in [1 .. Len(c) -> [window : Nat, max : Nat]]
  BY ConstantsAssumption
<1>2. DOMAIN c = 1 .. Len(c) /\ \A k \in DOMAIN c : c[k] \in [window : Nat, max : Nat]
  BY <1>1
<1>3. PICK p \in Orders(c) : l = [j \in DOMAIN c |-> c[p[j]]]
  BY DEF Sorted
<1>4. DOMAIN l = 1 .. Len(c) /\ p \in [DOMAIN c -> DOMAIN c]
  BY <1>2, <1>3 DEF Orders
<1>5. \A j \in DOMAIN c : l[j] = c[p[j]] /\ l[j].window \in Nat /\ l[j].max \in Nat
  <2> SUFFICES ASSUME NEW j \in DOMAIN c
               PROVE  l[j] = c[p[j]] /\ l[j].window \in Nat /\ l[j].max \in Nat
    OBVIOUS
  <2>1. l[j] = c[p[j]]
    BY <1>3
  <2>2. p[j] \in DOMAIN c
    BY <1>4
  <2>3. c[p[j]] \in [window : Nat, max : Nat]
    BY <1>2, <2>2
  <2> QED BY <2>1, <2>3
<1>6. \A j, k \in DOMAIN c : j < k => l[j].window >= l[k].window
  <2>1. \A j, k \in DOMAIN c : j < k => Before(c, p[j], p[k])
    BY DEF Orders
  <2> QED BY <1>2, <1>4, <1>5, <2>1 DEF Before
<1>7. LongestFirst(l)
  BY <1>2, <1>4, <1>5, <1>6 DEF LongestFirst
<1> QED BY <1>1, <1>2, <1>4, <1>5, <1>7 DEF IsList

\* A limit's window begins at a time, later for a shorter one and later as time goes on.
LEMMA Windows ==
  ASSUME IsList(limits), NEW j \in DOMAIN limits, NEW t \in Time
  PROVE  /\ NotBefore(t, limits[j]) \in Time
         /\ \A k \in DOMAIN limits : limits[j].window >= limits[k].window =>
              NotBefore(t, limits[j]) <= NotBefore(t, limits[k])
         /\ \A s \in Time : t <= s => NotBefore(t, limits[j]) <= NotBefore(s, limits[j])
BY ConstantsAssumption DEF IsList, NotBefore, Time

LEMMA InitIInv == Init => IInv
<1> SUFFICES ASSUME Init PROVE IInv
  OBVIOUS
<1>1. IsList(limits) /\ LongestFirst(limits)
  BY SortedLists DEF Init
<1>2. TypeOK
  <2>1. 0 \in Time
    BY ConstantsAssumption DEF Time
  <2>2. uploaded \in Rows /\ start \in [Uploads -> Rows]
    BY DEF Init, Rows
  <2>3. \E c \in Configurations : limits \in Sorted(c)
    BY DEF Init
  <2>4. /\ length \in [Uploads -> Nat] /\ created \in [Uploads -> Time]
        /\ now \in [Uploads -> Time] /\ i \in [Uploads -> Nat \ {0}] /\ used \in [Uploads -> Nat]
    BY <2>1 DEF Init
  <2> QED BY <2>1, <2>2, <2>3, <2>4 DEF Init, TypeOK, Steps
<1>3. Monotone(uploaded) /\ \A u \in Uploads : Monotone(start[u])
  BY DEF Init, Monotone
<1>4. \A u \in Uploads : Loop(u) /\ Grown(u) /\ Shrunk(u)
  <2>1. \A u \in Uploads : /\ pc[u] = "idle" /\ now[u] = 0 /\ i[u] = 1
                           /\ measured[u] = FALSE /\ disturbed[u] = {}
    BY DEF Init
  <2>2. clock = 0
    BY DEF Init
  <2>3. \A u \in Uploads : Loop(u)
    <3>1. \A u \in Uploads : now[u] = 0
      BY DEF Init
    <3>2. 0 <= 0
      OBVIOUS
    <3>3. \A u \in Uploads : now[u] <= clock
      BY <2>2, <3>1, <3>2, Zenon
    <3> QED BY <2>1, <3>3, Zenon DEF Loop
  <2> QED BY <2>1, <2>3 DEF Grown, Shrunk, Checked
<1>5. Alone
  BY DEF Init, Alone, InProgress
<1>6. QuotaHeldWhenAlone
  <2>1. \A j \in DOMAIN limits : NotBefore(clock, limits[j]) \in Time
    BY <1>1, <1>2, Windows DEF TypeOK
  <2>2. \A t \in Time : uploaded[t] = 0
    BY DEF Init
  <2>3. \A j \in DOMAIN limits : ~(uploaded[NotBefore(clock, limits[j])] + 0 > limits[j].max)
    BY <1>1, <2>1, <2>2 DEF IsList
  <2> QED BY <2>3 DEF QuotaHeldWhenAlone, Exceeded
<1> QED BY <1>1, <1>2, <1>3, <1>4, <1>5, <1>6 DEF IInv

------------------------------------------------------------------------------
LEMMA TypePreserved ==
  ASSUME TypeOK, [Next]_vars
  PROVE  TypeOK'
<1> USE ConstantsAssumption DEF TypeOK, Steps, Rows
<1>1. CASE UNCHANGED vars
  BY <1>1 DEF vars, check
<1>2. ASSUME NEW u \in Uploads, NEW n \in Lengths, NEW c \in Time, Receive(u, n, c) PROVE TypeOK'
  <2>1. length' \in [Uploads -> Nat] /\ created' \in [Uploads -> Time]
    BY <1>2 DEF Receive
  <2> QED BY <1>2, <2>1 DEF Receive, Goto, check
<1>3. ASSUME NEW u \in Uploads, Evaluate(u) PROVE TypeOK'
  BY <1>3 DEF Evaluate, Goto
<1>4. ASSUME NEW u \in Uploads, Skip(u) PROVE TypeOK'
  BY <1>4 DEF Skip
<1>5. ASSUME NEW u \in Uploads, Measure(u), IsList(limits) PROVE TypeOK'
  <2>1. NotBefore(now[u], Limit(u)) \in Time
    BY <1>5, Windows DEF Measure, Checking, Limit
  <2>2. used' \in [Uploads -> Nat]
    BY <1>5, <2>1 DEF Measure
  <2>3. i' \in [Uploads -> Nat \ {0}]
    <3>1. i' = i \/ i' = [i EXCEPT ![u] = @ + 1]
      BY <1>5 DEF Measure
    <3>2. i[u] \in Nat \ {0} /\ i[u] + 1 \in Nat \ {0}
      OBVIOUS
    <3> QED BY <3>1, <3>2
  <2>4. pc' \in [Uploads -> Steps]
    BY <1>5 DEF Measure, Goto
  <2> QED BY <1>5, <2>2, <2>3, <2>4 DEF Measure
<1>6. ASSUME NEW u \in Uploads, MeasureFails(u) \/ Pass(u) \/ StoreFails(u) PROVE TypeOK'
  BY <1>6 DEF MeasureFails, Pass, StoreFails, Goto, check
<1>7. ASSUME NEW u \in Uploads, NEW c \in Time, Store(u, c) PROVE TypeOK'
  <2>1. uploaded' \in Rows
    BY <1>7 DEF Store
  <2> QED BY <1>7, <2>1 DEF Store, Goto, Disturb, check
<1>8. ASSUME NEW c \in Time, Delete(c) PROVE TypeOK'
  <2>1. uploaded' \in Rows
    BY <1>8 DEF Delete
  <2> QED BY <1>8, <2>1 DEF Delete, Disturb, check
<1>9. CASE Tick
  BY <1>9 DEF Tick, check, Time
<1>10. IsList(limits)
  BY SortedLists
<1> QED BY <1>1, <1>2, <1>3, <1>4, <1>5, <1>6, <1>7, <1>8, <1>9, <1>10 DEF Next

\* The limits do not change.
LEMMA LimitsFixed ==
  ASSUME [Next]_vars
  PROVE  limits' = limits
BY DEF Next, vars, Receive, Evaluate, Skip, Measure, MeasureFails, Pass, Store, StoreFails,
       Delete, Tick

LEMMA MonotonePreserved ==
  ASSUME IInv, [Next]_vars
  PROVE  Monotone(uploaded)' /\ \A u \in Uploads : Monotone(start[u])'
<1> USE ConstantsAssumption DEF IInv, TypeOK, Rows, Monotone, Time
<1>1. CASE UNCHANGED <<uploaded, start>>
  BY <1>1
<1>2. ASSUME NEW u \in Uploads, Evaluate(u)
      PROVE  Monotone(uploaded)' /\ \A v \in Uploads : Monotone(start[v])'
  BY <1>2 DEF Evaluate
<1>3. ASSUME NEW u \in Uploads, NEW c \in Time, Store(u, c)
      PROVE  Monotone(uploaded)' /\ \A v \in Uploads : Monotone(start[v])'
  <2>1. length[u] \in Nat /\ start' = start
    BY <1>3 DEF Store
  <2>2. \A t \in Time : uploaded'[t] = IF t < c THEN uploaded[t] + length[u] ELSE uploaded[t]
    BY <1>3 DEF Store
  <2>3. ASSUME NEW s \in Time, NEW t \in Time, s <= t PROVE uploaded'[t] <= uploaded'[s]
    <3>1. uploaded[t] <= uploaded[s] /\ uploaded[t] \in Nat /\ uploaded[s] \in Nat
      BY <2>3
    <3>2. t < c => s < c
      BY <2>3
    <3>3. /\ uploaded'[t] = IF t < c THEN uploaded[t] + length[u] ELSE uploaded[t]
          /\ uploaded'[s] = IF s < c THEN uploaded[s] + length[u] ELSE uploaded[s]
      BY <2>2
    <3>4. length[u] \in Nat
      BY <2>1
    <3> HIDE DEF IInv
    <3> QED BY <3>1, <3>2, <3>3, <3>4
  <2> QED BY <2>1, <2>3
<1>4. ASSUME NEW c \in Time, Delete(c)
      PROVE  Monotone(uploaded)' /\ \A v \in Uploads : Monotone(start[v])'
  <2>1. \A t \in Time : uploaded'[t] = IF t < c THEN uploaded[c] ELSE uploaded[t]
    BY <1>4 DEF Delete
  <2>2. start' = start
    BY <1>4 DEF Delete
  <2> QED BY <2>1, <2>2
<1>5. ASSUME NEW u \in Uploads, NEW n \in Lengths, NEW c \in Time, Receive(u, n, c)
      PROVE  UNCHANGED <<uploaded, start>>
  BY <1>5 DEF Receive
<1>6. ASSUME NEW u \in Uploads, Skip(u) \/ Measure(u) \/ MeasureFails(u) \/ Pass(u) \/ StoreFails(u)
      PROVE  UNCHANGED <<uploaded, start>>
  BY <1>6 DEF Skip, Measure, MeasureFails, Pass, StoreFails
<1>7. ASSUME Tick PROVE UNCHANGED <<uploaded, start>>
  BY <1>7 DEF Tick
<1> QED BY <1>1, <1>2, <1>3, <1>4, <1>5, <1>6, <1>7 DEF Next, vars

\* A step that leaves an upload and the rows alone.
Checks(u) == Loop(u) /\ Grown(u) /\ Shrunk(u)

LEMMA Undisturbed ==
  ASSUME IInv, NEW u \in Uploads, limits' = limits, uploaded' = uploaded, clock' \in Time,
         clock' >= clock, pc'[u] = pc[u], now'[u] = now[u], i'[u] = i[u], used'[u] = used[u],
         measured'[u] = measured[u], start'[u] = start[u], disturbed'[u] = disturbed[u],
         pc[u] = "idle" \/ length'[u] = length[u]
  PROVE  Checks(u)'
<1>1. Loop(u)'
  BY ConstantsAssumption DEF IInv, TypeOK, Loop, Time
<1>2. \A j \in DOMAIN limits : NB(u, j)' = NB(u, j)
  BY DEF NB
<1>3. CASE pc[u] = "idle"
  BY <1>1, <1>3 DEF Checks, Grown, Shrunk, Checked
<1>4. CASE pc[u] # "idle"
  <2>1. \A j \in DOMAIN limits : Fits(uploaded, u, j)' = Fits(uploaded, u, j)
    BY <1>2, <1>4 DEF Fits
  <2>2. \A j \in DOMAIN limits : Fits(start[u], u, j)' = Fits(start[u], u, j)
    BY <1>2, <1>4 DEF Fits
  <2>3. pc[u] = "refused" => i[u] \in DOMAIN limits
    BY DEF IInv, Loop
  <2>4. Grown(u)'
    BY <1>2, <2>1, <2>2, <2>3 DEF IInv, Grown
  <2>5. Shrunk(u)'
    BY <1>2, <2>1 DEF IInv, Shrunk
  <2> QED BY <1>1, <2>4, <2>5 DEF Checks
<1> QED BY <1>3, <1>4

\* The rows an upload is compared with are where its window says.
LEMMA WindowsOf ==
  ASSUME IInv, NEW u \in Uploads, NEW j \in DOMAIN limits
  PROVE  /\ NB(u, j) \in Time
         /\ uploaded[NB(u, j)] \in Nat /\ start[u][NB(u, j)] \in Nat
         /\ limits[j].max \in Nat /\ length[u] \in Nat /\ used[u] \in Nat
         /\ \A k \in DOMAIN limits : j <= k =>
              /\ NB(u, k) \in Time
              /\ uploaded[NB(u, k)] \in Nat /\ start[u][NB(u, k)] \in Nat
              /\ uploaded[NB(u, k)] <= uploaded[NB(u, j)]
              /\ start[u][NB(u, k)] <= start[u][NB(u, j)]
<1>1. NB(u, j) \in Time /\ limits[j].max \in Nat
  BY Windows DEF IInv, TypeOK, NB, IsList
<1>2. \A k \in DOMAIN limits : j <= k => NB(u, k) \in Time /\ NB(u, j) <= NB(u, k)
  BY Windows DEF IInv, TypeOK, NB, LongestFirst
<1>3. uploaded \in Rows /\ start[u] \in Rows /\ length[u] \in Nat /\ used[u] \in Nat
  BY DEF IInv, TypeOK
<1>4. Monotone(uploaded) /\ Monotone(start[u])
  BY DEF IInv
<1> QED BY <1>1, <1>2, <1>3, <1>4 DEF Rows, Monotone

LEMMA EvaluateChecks ==
  ASSUME IInv, NEW u \in Uploads, Evaluate(u)
  PROVE  Checks(u)'
<1>1. /\ pc'[u] = "evaluate" /\ i'[u] = 1 /\ measured'[u] = FALSE /\ disturbed'[u] = {}
      /\ start'[u] = uploaded /\ uploaded' = uploaded /\ now'[u] = clock /\ clock' = clock
      /\ limits' = limits
  BY DEF Evaluate, Goto, IInv, TypeOK, Loop
<1>2. \A j \in DOMAIN limits : ~(j < 1)
  BY DEF IInv, IsList
<1>3. /\ \A t \in Time : uploaded[t] <= uploaded[t]
      /\ clock <= clock
  BY ConstantsAssumption DEF IInv, TypeOK, Rows, Time
<1>4. Loop(u)'
  BY <1>1, <1>3, Zenon DEF Loop
<1>5. Grown(u)'
  BY <1>1, <1>2, <1>3 DEF Grown
<1>6. Shrunk(u)'
  BY <1>1, <1>2, <1>3 DEF Shrunk
<1> QED BY <1>4, <1>5, <1>6 DEF Checks

\* A limit that is skipped or measured: what is known of the ones before it, and of what
\* is carried on, in rows that have kept their order to the measured sum.
LEMMA SkipChecks ==
  ASSUME IInv, NEW u \in Uploads, Skip(u)
  PROVE  Checks(u)'
<1>1. /\ i'[u] = i[u] + 1 /\ pc[u] = "evaluate" /\ i[u] \in DOMAIN limits /\ measured[u]
      /\ used[u] + length[u] <= limits[i[u]].max
  BY DEF Skip, Checking, Settled, Limit, IInv, TypeOK
<1>2. UNCHANGED <<limits, clock, uploaded, pc, length, now, used, measured, start, disturbed>>
  BY DEF Skip
<1>3. \A j \in DOMAIN limits : j \in Nat /\ NB(u, j)' = NB(u, j)
  BY <1>2 DEF NB, IInv, IsList
<1>4. i[u] \in Nat
  BY DEF IInv, TypeOK
<1>5. Loop(u)'
  BY <1>1, <1>2 DEF Loop, IInv
<1>6. Grown(u)'
  <2> SUFFICES ASSUME "shrunk" \notin disturbed[u]
               PROVE  /\ \A t \in Time : start[u][t] <= uploaded[t]
                      /\ \A j \in DOMAIN limits : j < i[u] + 1 => Fits(start[u], u, j)
                      /\ \A j \in DOMAIN limits : j >= i[u] + 1 => start[u][NB(u, j)] <= used[u]
    BY <1>1, <1>2, <1>3 DEF Grown, Fits
  <2>1. Grown(u)
    BY DEF IInv
  <2>2. Fits(start[u], u, i[u])
    BY <1>1, <1>4, <2>1, WindowsOf DEF Grown, Checked, Fits
  <2> QED BY <1>1, <1>3, <1>4, <2>1, <2>2 DEF Grown, Checked
<1>7. Shrunk(u)'
  <2> SUFFICES ASSUME "grown" \notin disturbed[u]
               PROVE  /\ \A t \in Time : uploaded[t] <= start[u][t]
                      /\ \A j \in DOMAIN limits : j < i[u] + 1 => Fits(uploaded, u, j)
                      /\ \A j \in DOMAIN limits : j >= i[u] + 1 => uploaded[NB(u, j)] <= used[u]
    BY <1>1, <1>2, <1>3 DEF Shrunk, Fits
  <2>1. Shrunk(u)
    BY DEF IInv
  <2>2. Fits(uploaded, u, i[u])
    BY <1>1, <1>4, <2>1, WindowsOf DEF Shrunk, Fits
  <2> QED BY <1>1, <1>3, <1>4, <2>1, <2>2 DEF Shrunk
<1> QED BY <1>5, <1>6, <1>7 DEF Checks

LEMMA MeasureChecks ==
  ASSUME IInv, NEW u \in Uploads, Measure(u)
  PROVE  Checks(u)'
<1> DEFINE total == uploaded[NB(u, i[u])]
<1>1. /\ pc[u] = "evaluate" /\ i[u] \in DOMAIN limits /\ i[u] \in Nat
      /\ used'[u] = total /\ measured'[u] = TRUE
  BY DEF Measure, Checking, Limit, NB, IInv, TypeOK
<1>2. UNCHANGED <<limits, clock, uploaded, length, now, start, disturbed>>
  BY DEF Measure
<1>3. \A j \in DOMAIN limits : j \in Nat /\ NB(u, j)' = NB(u, j)
  BY <1>2 DEF NB, IInv, IsList
<1>4. Loop(u) /\ Grown(u) /\ Shrunk(u)
  BY DEF IInv
<1>5. CASE total + length[u] > limits[i[u]].max
  <2>1. pc'[u] = "refused" /\ i' = i
    BY <1>5 DEF Measure, Goto, NB, Limit, IInv, TypeOK
  <2>2. ~Fits(uploaded, u, i[u])
    BY <1>1, <1>5, WindowsOf DEF Fits
  <2>3. Loop(u)'
    BY <1>1, <1>2, <1>4, <2>1 DEF Loop
  <2>4. Grown(u)'
    BY <1>1, <1>2, <1>3, <1>4, <2>1, <2>2 DEF Grown, Fits, Checked
  <2>5. Shrunk(u)'
    BY <1>1, <1>2, <1>4, <2>1 DEF Shrunk
  <2> QED BY <2>3, <2>4, <2>5 DEF Checks
<1>6. CASE ~(total + length[u] > limits[i[u]].max)
  <2>1. i'[u] = i[u] + 1 /\ pc' = pc
    BY <1>6 DEF Measure, NB, Limit, IInv, TypeOK
  <2>2. Fits(uploaded, u, i[u])
    BY <1>1, <1>6, WindowsOf DEF Fits
  <2>3. Loop(u)'
    BY <1>1, <1>2, <1>4, <2>1 DEF Loop
  <2>4. \A j \in DOMAIN limits : j >= i[u] => uploaded[NB(u, j)] <= total
    BY <1>1, <1>3, WindowsOf
  <2>5. Grown(u)'
    <3> SUFFICES ASSUME "shrunk" \notin disturbed[u]
                 PROVE  /\ \A t \in Time : start[u][t] <= uploaded[t]
                        /\ \A j \in DOMAIN limits : j < i[u] + 1 => Fits(start[u], u, j)
                        /\ \A j \in DOMAIN limits : j >= i[u] + 1 => start[u][NB(u, j)] <= total
      BY <1>1, <1>2, <1>3, <2>1 DEF Grown, Fits
    <3>1. \A t \in Time : start[u][t] <= uploaded[t]
      BY <1>1, <1>4 DEF Grown, Checked
    <3>2. Fits(start[u], u, i[u])
      BY <1>1, <2>2, <3>1, WindowsOf DEF Fits
    <3>3. \A j \in DOMAIN limits : j < i[u] => Fits(start[u], u, j)
      BY <1>1, <1>4 DEF Grown, Checked
    <3>4. \A j \in DOMAIN limits : j >= i[u] => start[u][NB(u, j)] <= total
      <4> SUFFICES ASSUME NEW j \in DOMAIN limits, j >= i[u]
                   PROVE  start[u][NB(u, j)] <= total
        OBVIOUS
      <4>1. start[u][NB(u, j)] <= uploaded[NB(u, j)]
        BY <3>1, WindowsOf
      <4>2. uploaded[NB(u, j)] <= total
        BY <2>4
      <4>3. start[u][NB(u, j)] \in Nat /\ uploaded[NB(u, j)] \in Nat /\ total \in Nat
        BY <1>1, WindowsOf
      <4> QED BY <4>1, <4>2, <4>3
    <3> QED BY <1>1, <1>3, <3>1, <3>2, <3>3, <3>4
  <2>6. Shrunk(u)'
    <3> SUFFICES ASSUME "grown" \notin disturbed[u]
                 PROVE  /\ \A t \in Time : uploaded[t] <= start[u][t]
                        /\ \A j \in DOMAIN limits : j < i[u] + 1 => Fits(uploaded, u, j)
                        /\ \A j \in DOMAIN limits : j >= i[u] + 1 => uploaded[NB(u, j)] <= total
      BY <1>1, <1>2, <1>3, <2>1 DEF Shrunk, Fits
    <3> QED BY <1>1, <1>3, <1>4, <2>2, <2>4 DEF Shrunk
  <2> QED BY <2>3, <2>5, <2>6 DEF Checks
<1> QED BY <1>5, <1>6

\* A row that is stored, by the upload itself or by another.
LEMMA StoreChecks ==
  ASSUME IInv, NEW v \in Uploads, NEW c \in Time, Store(v, c), NEW u \in Uploads
  PROVE  Checks(u)'
<1>1. UNCHANGED <<limits, clock, length, now, i, used, measured, start>>
  BY DEF Store, check
<1>2. \A j \in DOMAIN limits : NB(u, j)' = NB(u, j) /\ NB(u, j) \in Time
  BY <1>1, WindowsOf DEF NB
<1>3. Loop(u) /\ Grown(u) /\ Shrunk(u)
  BY DEF IInv
<1>4. \A t \in Time : uploaded[t] \in Nat /\ uploaded'[t] \in Nat /\ start[u][t] \in Nat
                     /\ uploaded[t] <= uploaded'[t]
  <2>1. \A t \in Time : uploaded'[t] = IF t < c THEN uploaded[t] + length[v] ELSE uploaded[t]
    BY DEF Store
  <2>2. length[v] \in Nat /\ uploaded \in Rows /\ start[u] \in Rows
    BY DEF IInv, TypeOK
  <2> QED BY <2>1, <2>2 DEF Rows
<1>5. CASE u = v
  <2>1. pc[u] = "store" /\ pc'[u] = "stored" /\ disturbed'[u] = disturbed[u]
    BY <1>5 DEF Store, Goto, Disturb, IInv, TypeOK
  <2>2. Loop(u)'
    BY <1>1, <1>3, <2>1 DEF Loop
  <2>3. Grown(u)'
    <3> SUFFICES ASSUME "shrunk" \notin disturbed[u]
                 PROVE  /\ \A t \in Time : start[u][t] <= uploaded'[t]
                        /\ \A j \in DOMAIN limits : j < i[u] => Fits(start[u], u, j)
      BY <1>1, <1>2, <2>1 DEF Grown, Fits
    <3>1. /\ \A t \in Time : start[u][t] <= uploaded[t]
          /\ \A j \in DOMAIN limits : j < i[u] => Fits(start[u], u, j)
      BY <1>3, <2>1 DEF Grown, Checked
    <3> QED BY <1>4, <3>1
  <2>4. Shrunk(u)'
    BY <2>1 DEF Shrunk
  <2> QED BY <2>2, <2>3, <2>4 DEF Checks
<1>6. CASE u # v
  <2>1. pc'[u] = pc[u]
    BY <1>6 DEF Store, Goto, IInv, TypeOK
  <2>2. disturbed'[u] = IF pc[u] # "idle" THEN disturbed[u] \cup {"grown"} ELSE disturbed[u]
    BY <1>6 DEF Store, Disturb, IInv, TypeOK
  <2>3. Loop(u)'
    BY <1>1, <1>3, <2>1, <2>2 DEF Loop
  <2>4. Grown(u)'
    <3> SUFFICES ASSUME pc[u] \in Checked, "shrunk" \notin disturbed[u]
                 PROVE  /\ \A t \in Time : start[u][t] <= uploaded'[t]
                        /\ \A j \in DOMAIN limits : j < i[u] => Fits(start[u], u, j)
                        /\ pc[u] = "evaluate" /\ measured[u] =>
                             \A j \in DOMAIN limits : j >= i[u] => start[u][NB(u, j)] <= used[u]
                        /\ pc[u] = "refused" => ~Fits(uploaded', u, i[u])
      BY <1>1, <1>2, <1>3, <2>1, <2>2 DEF Grown, Fits, Loop
    <3>1. Grown(u)
      BY <1>3
    <3>2. \A t \in Time : start[u][t] <= uploaded'[t]
      BY <1>4, <3>1 DEF Grown
    <3>3. ASSUME pc[u] = "refused" PROVE ~Fits(uploaded', u, i[u])
      <4>1. i[u] \in DOMAIN limits
        BY <1>3, <3>3 DEF Loop
      <4>2. ~Fits(uploaded, u, i[u])
        BY <3>1, <3>3 DEF Grown
      <4> QED BY <1>2, <1>4, <4>1, <4>2, WindowsOf DEF Fits
    <3> QED BY <3>1, <3>2, <3>3 DEF Grown
  <2>5. Shrunk(u)'
    BY <2>1, <2>2 DEF Shrunk
  <2> QED BY <2>3, <2>4, <2>5 DEF Checks
<1> QED BY <1>5, <1>6

LEMMA DeleteChecks ==
  ASSUME IInv, NEW c \in Time, Delete(c), NEW u \in Uploads
  PROVE  Checks(u)'
<1>1. UNCHANGED <<limits, clock, pc, length, now, i, used, measured, start>>
  BY DEF Delete, check
<1>2. \A j \in DOMAIN limits : NB(u, j)' = NB(u, j) /\ NB(u, j) \in Time
  BY <1>1, WindowsOf DEF NB
<1>3. Loop(u) /\ Grown(u) /\ Shrunk(u)
  BY DEF IInv
<1>4. \A t \in Time : uploaded[t] \in Nat /\ uploaded'[t] \in Nat /\ start[u][t] \in Nat
                     /\ uploaded'[t] <= uploaded[t]
  <2>1. \A t \in Time : uploaded'[t] = IF t < c THEN uploaded[c] ELSE uploaded[t]
    BY DEF Delete
  <2>2. uploaded \in Rows /\ start[u] \in Rows /\ Monotone(uploaded)
    BY DEF IInv, TypeOK
  <2>3. \A t \in Time : t < c => uploaded[c] <= uploaded[t]
    BY <2>2, ConstantsAssumption DEF Monotone, Time
  <2> QED BY <2>1, <2>2, <2>3 DEF Rows
<1>5. disturbed'[u] = IF pc[u] # "idle" THEN disturbed[u] \cup {"shrunk"} ELSE disturbed[u]
  BY DEF Delete, Disturb, IInv, TypeOK
<1>6. Loop(u)'
  BY <1>1, <1>3, <1>5 DEF Loop
<1>7. Grown(u)'
  BY <1>1, <1>5 DEF Grown, Checked
<1>8. Shrunk(u)'
  <2> SUFFICES ASSUME pc[u] \in {"evaluate", "store", "refused"}, "grown" \notin disturbed[u]
               PROVE  /\ \A t \in Time : uploaded'[t] <= start[u][t]
                      /\ pc[u] # "refused" =>
                           /\ \A j \in DOMAIN limits : j < i[u] => Fits(uploaded', u, j)
                           /\ measured[u] =>
                                \A j \in DOMAIN limits : j >= i[u] => uploaded'[NB(u, j)] <= used[u]
    BY <1>1, <1>2, <1>5 DEF Shrunk, Fits
  <2>1. Shrunk(u)
    BY <1>3
  <2>2. \A t \in Time : uploaded'[t] <= start[u][t]
    BY <1>4, <2>1 DEF Shrunk
  <2>3. ASSUME NEW j \in DOMAIN limits, Fits(uploaded, u, j) PROVE Fits(uploaded', u, j)
    BY <1>2, <1>4, <2>3, WindowsOf DEF Fits
  <2>4. ASSUME NEW j \in DOMAIN limits, uploaded[NB(u, j)] <= used[u]
        PROVE  uploaded'[NB(u, j)] <= used[u]
    BY <1>2, <1>4, <2>4, WindowsOf
  <2> QED BY <2>1, <2>2, <2>3, <2>4 DEF Shrunk
<1> QED BY <1>6, <1>7, <1>8 DEF Checks

LEMMA OtherChecks ==
  ASSUME IInv, NEW v \in Uploads, NEW u \in Uploads,
         \/ \E n \in Lengths : \E c \in Time : Receive(v, n, c)
         \/ MeasureFails(v) \/ Pass(v) \/ StoreFails(v)
  PROVE  Checks(u)'
<1>1. UNCHANGED <<limits, clock, uploaded, now, i, used, measured, start, disturbed>>
  BY DEF Receive, MeasureFails, Pass, StoreFails, check
<1>2. Loop(u) /\ Grown(u) /\ Shrunk(u)
  BY DEF IInv
<1>3. \A j \in DOMAIN limits : NB(u, j)' = NB(u, j)
  BY <1>1 DEF NB
<1>4. ASSUME pc'[u] = pc[u], length'[u] = length[u] PROVE Checks(u)'
  <2>1. clock' \in Time /\ clock' >= clock
    BY <1>1, ConstantsAssumption DEF IInv, TypeOK, Time
  <2> QED BY <1>1, <1>4, <2>1, Undisturbed
<1>5. ASSUME NEW n \in Lengths, NEW c \in Time, Receive(v, n, c) PROVE Checks(u)'
  <2>1. pc[v] = "idle" /\ pc' = [pc EXCEPT ![v] = "received"]
    BY <1>5 DEF Receive, Goto
  <2>2. CASE u = v
    <3>1. pc[u] = "idle" /\ pc'[u] = "received"
      BY <2>1, <2>2 DEF IInv, TypeOK
    <3> QED BY <1>1, <1>2, <3>1 DEF Checks, Loop, Grown, Shrunk, Checked
  <2>3. CASE u # v
    <3>1. pc'[u] = pc[u] /\ length'[u] = length[u]
      BY <1>5, <2>1, <2>3 DEF Receive, IInv, TypeOK
    <3> QED BY <1>1, <3>1, <1>4
  <2> QED BY <2>2, <2>3
<1>6. ASSUME MeasureFails(v) \/ StoreFails(v) PROVE Checks(u)'
  <2>1. length' = length /\ pc' = [pc EXCEPT ![v] = "failed"]
    BY <1>6 DEF MeasureFails, StoreFails, Goto
  <2>2. pc'[u] \in {pc[u], "failed"}
    BY <2>1 DEF IInv, TypeOK
  <2>3. CASE pc'[u] = "failed"
    BY <1>1, <1>2, <2>3 DEF Checks, Loop, Grown, Shrunk, Checked
  <2> QED BY <2>1, <2>2, <2>3, <1>4
<1>7. ASSUME Pass(v) PROVE Checks(u)'
  <2>1. length' = length /\ pc[v] = "evaluate" /\ i[v] \notin DOMAIN limits
        /\ pc' = [pc EXCEPT ![v] = "store"]
    BY <1>7 DEF Pass, Goto
  <2>2. CASE u # v
    <3>1. pc'[u] = pc[u]
      BY <2>1, <2>2 DEF IInv, TypeOK
    <3> QED BY <2>1, <3>1, <1>4
  <2>3. CASE u = v
    <3>1. pc[u] = "evaluate" /\ pc'[u] = "store" /\ i[u] \notin DOMAIN limits
      BY <2>1, <2>3 DEF IInv, TypeOK
    <3>2. Loop(u)'
      BY <1>1, <1>2, <3>1 DEF Loop
    <3>3. Grown(u)'
      BY <1>1, <1>2, <1>3, <2>1, <3>1 DEF Grown, Fits, Checked
    <3>4. Shrunk(u)'
      BY <1>1, <1>2, <1>3, <2>1, <3>1 DEF Shrunk, Fits
    <3> QED BY <3>2, <3>3, <3>4 DEF Checks
  <2> QED BY <2>2, <2>3
<1> QED BY <1>5, <1>6, <1>7

LEMMA ChecksPreserved ==
  ASSUME IInv, [Next]_vars, NEW u \in Uploads
  PROVE  Checks(u)'
<1>1. CASE UNCHANGED vars \/ Tick
  <2>1. clock' \in Time /\ clock' >= clock
    BY <1>1, ConstantsAssumption DEF vars, Tick, IInv, TypeOK, Time
  <2> QED BY <1>1, <2>1, Undisturbed DEF vars, Tick, check
<1>2. ASSUME NEW v \in Uploads, Evaluate(v) \/ Skip(v) \/ Measure(v) PROVE Checks(u)'
  <2>1. CASE u = v
    BY <1>2, <2>1, EvaluateChecks, SkipChecks, MeasureChecks
  <2>2. CASE u # v
    <3>1. UNCHANGED <<limits, clock, uploaded, length>>
      BY <1>2 DEF Evaluate, Skip, Measure
    <3>2. /\ pc'[u] = pc[u] /\ i'[u] = i[u] /\ used'[u] = used[u] /\ measured'[u] = measured[u]
          /\ now'[u] = now[u] /\ start'[u] = start[u] /\ disturbed'[u] = disturbed[u]
      BY <1>2, <2>2 DEF Evaluate, Skip, Measure, Goto, IInv, TypeOK
    <3>3. clock' \in Time /\ clock' >= clock
      BY <3>1, ConstantsAssumption DEF IInv, TypeOK, Time
    <3> QED BY <3>1, <3>2, <3>3, Undisturbed
  <2> QED BY <2>1, <2>2
<1>3. ASSUME NEW v \in Uploads, NEW c \in Time, Store(v, c) PROVE Checks(u)'
  BY <1>3, StoreChecks
<1>4. ASSUME NEW c \in Time, Delete(c) PROVE Checks(u)'
  BY <1>4, DeleteChecks
<1> QED BY <1>1, <1>2, <1>3, <1>4, OtherChecks DEF Next

LEMMA AlonePreserved ==
  ASSUME IInv, [Next]_vars
  PROVE  Alone'
<1> USE DEF IInv, TypeOK, Alone, InProgress
<1>1. CASE UNCHANGED vars \/ Tick
  BY <1>1 DEF vars, Tick
<1>2. ASSUME NEW u \in Uploads, NEW n \in Lengths, NEW c \in Time, Receive(u, n, c) PROVE Alone'
  <2>1. disturbed[u] = {}
    BY <1>2 DEF Receive, Loop
  <2> QED BY <1>2, <2>1 DEF Receive, Goto
<1>3. ASSUME NEW u \in Uploads, Evaluate(u) PROVE Alone'
  BY <1>3 DEF Evaluate, Goto
<1>4. ASSUME NEW u \in Uploads,
             Skip(u) \/ Measure(u) \/ MeasureFails(u) \/ Pass(u) \/ StoreFails(u)
      PROVE  Alone'
  <2>1. UNCHANGED <<overlapped, disturbed>>
    BY <1>4 DEF Skip, Measure, MeasureFails, Pass, StoreFails
  <2>2. \A v \in Uploads : InProgress(v)' => InProgress(v)
    BY <1>4 DEF Skip, Measure, MeasureFails, Pass, StoreFails, Goto, Checking
  <2> QED BY <2>1, <2>2
<1>5. ASSUME NEW u \in Uploads, NEW c \in Time, Store(u, c) PROVE Alone'
  <2> SUFFICES ASSUME ~overlapped
               PROVE  \A v \in Uploads : ~InProgress(v)'
    BY <1>5 DEF Store
  <2> QED BY <1>5 DEF Store, Goto
<1>6. ASSUME NEW c \in Time, Delete(c) PROVE Alone'
  BY <1>6 DEF Delete, Disturb
<1> QED BY <1>1, <1>2, <1>3, <1>4, <1>5, <1>6 DEF Next

LEMMA QuotaPreserved ==
  ASSUME IInv, [Next]_vars
  PROVE  QuotaHeldWhenAlone'
<1> SUFFICES ASSUME ~overlapped', NEW j \in DOMAIN limits, limits' = limits, clock' \in Time
             PROVE  ~(uploaded'[NotBefore(clock', limits[j])] + 0 > limits[j].max)
  <2>1. limits' = limits
    BY LimitsFixed
  <2>2. clock' \in Time
    BY TypePreserved DEF IInv, TypeOK
  <2> QED BY <2>1, <2>2 DEF QuotaHeldWhenAlone, Exceeded
<1>1. ~overlapped
  BY DEF Next, vars, Receive, Evaluate, Skip, Measure, MeasureFails, Pass, Store, StoreFails,
         Delete, Tick
<1> DEFINE nb == NotBefore(clock, limits[j])
<1>2. IsList(limits) /\ Monotone(uploaded) /\ uploaded \in Rows /\ clock \in Time
  BY DEF IInv, TypeOK
<1>3. nb \in Time /\ limits[j].max \in Nat /\ uploaded[nb] \in Nat
  BY <1>2, Windows DEF IsList, Rows
<1>4. uploaded[nb] <= limits[j].max
  <2>1. ~(uploaded[nb] + 0 > limits[j].max)
    BY <1>1 DEF IInv, QuotaHeldWhenAlone, Exceeded
  <2> QED BY <1>3, <2>1
<1>5. CASE uploaded' = uploaded /\ clock' = clock
  BY <1>3, <1>4, <1>5
<1>6. CASE Tick
  <2>1. clock <= clock' /\ uploaded' = uploaded
    BY <1>2, <1>6, ConstantsAssumption DEF Tick, Time
  <2> DEFINE nb1 == NotBefore(clock', limits[j])
  <2>2. nb1 \in Time /\ nb <= nb1
    BY <1>2, <2>1, Windows
  <2>3. uploaded[nb1] <= uploaded[nb] /\ uploaded[nb1] \in Nat
    BY <1>2, <1>3, <2>2 DEF Monotone, Rows
  <2> QED BY <1>3, <1>4, <2>1, <2>3
<1>7. ASSUME NEW c \in Time, Delete(c)
      PROVE  ~(uploaded'[NotBefore(clock', limits[j])] + 0 > limits[j].max)
  <2>1. clock' = clock /\ uploaded'[nb] = IF nb < c THEN uploaded[c] ELSE uploaded[nb]
    BY <1>3, <1>7 DEF Delete
  <2>2. nb < c => uploaded[c] <= uploaded[nb]
    BY <1>2, <1>3, ConstantsAssumption DEF Monotone, Time
  <2>3. uploaded[c] \in Nat
    BY <1>2 DEF Rows
  <2> QED BY <1>3, <1>4, <2>1, <2>2, <2>3
<1>8. ASSUME NEW u \in Uploads, NEW c \in Time, Store(u, c)
      PROVE  ~(uploaded'[NotBefore(clock', limits[j])] + 0 > limits[j].max)
  <2>1. clock' = clock /\ uploaded'[nb] = IF nb < c THEN uploaded[nb] + length[u] ELSE uploaded[nb]
    BY <1>3, <1>8 DEF Store
  <2>2. pc[u] = "store" /\ "grown" \notin disturbed[u]
    BY <1>1, <1>8 DEF Store, IInv, Alone, InProgress
  <2>3. Fits(uploaded, u, j)
    <3>1. i[u] \notin DOMAIN limits /\ i[u] \in Nat \ {0}
      BY <2>2 DEF IInv, Loop, TypeOK
    <3>2. j < i[u]
      BY <1>2, <3>1 DEF IsList
    <3> QED BY <2>2, <3>2 DEF IInv, Shrunk
  <2>4. NB(u, j) \in Time /\ NB(u, j) <= nb
    BY <1>2, Windows DEF NB, IInv, Loop, TypeOK
  <2>5. uploaded[nb] <= uploaded[NB(u, j)] /\ uploaded[NB(u, j)] \in Nat /\ length[u] \in Nat
    BY <1>2, <1>3, <2>4 DEF Monotone, Rows, IInv, TypeOK
  <2> QED BY <1>3, <1>4, <2>1, <2>3, <2>5 DEF Fits
<1>9. ASSUME NEW u \in Uploads,
             \/ \E n \in Lengths : \E c \in Time : Receive(u, n, c)
             \/ Evaluate(u) \/ Skip(u) \/ Measure(u) \/ MeasureFails(u) \/ Pass(u) \/ StoreFails(u)
      PROVE  uploaded' = uploaded /\ clock' = clock
  BY <1>9 DEF Receive, Evaluate, Skip, Measure, MeasureFails, Pass, StoreFails
<1>10. CASE UNCHANGED vars
  BY <1>5, <1>10 DEF vars
<1> QED BY <1>5, <1>6, <1>7, <1>8, <1>9, <1>10 DEF Next

LEMMA StepIInv == IInv /\ [Next]_vars => IInv'
<1> SUFFICES ASSUME IInv, [Next]_vars PROVE IInv'
  OBVIOUS
<1>1. TypeOK'
  BY TypePreserved DEF IInv
<1>2. IsList(limits)' /\ LongestFirst(limits)'
  BY LimitsFixed DEF IInv
<1>3. Monotone(uploaded)' /\ \A u \in Uploads : Monotone(start[u])'
  BY MonotonePreserved
<1>4. \A u \in Uploads : Loop(u)' /\ Grown(u)' /\ Shrunk(u)'
  BY ChecksPreserved DEF Checks
<1>5. Alone' /\ QuotaHeldWhenAlone'
  BY AlonePreserved, QuotaPreserved
<1> QED BY <1>1, <1>2, <1>3, <1>4, <1>5 DEF IInv

------------------------------------------------------------------------------
\* What an upload that has come to its verdict exceeds.
LEMMA Verdicts ==
  ASSUME IInv, NEW u \in Uploads, "shrunk" \notin disturbed[u]
  PROVE  /\ pc[u] \in {"store", "stored"} => Exceeded(start[u], now[u], length[u]) = {}
         /\ pc[u] = "refused" =>
              /\ i[u] \in Exceeded(uploaded, now[u], length[u])
              /\ \A j \in DOMAIN limits : j < i[u] => j \notin Exceeded(start[u], now[u], length[u])
<1>1. Loop(u) /\ Grown(u) /\ IsList(limits) /\ i[u] \in Nat \ {0}
  BY DEF IInv, TypeOK
<1>2. ASSUME NEW j \in DOMAIN limits, pc[u] \in Checked, j < i[u]
      PROVE  j \notin Exceeded(start[u], now[u], length[u])
  <2>1. Fits(start[u], u, j)
    BY <1>1, <1>2 DEF Grown
  <2> QED BY <2>1, WindowsOf DEF Fits, Exceeded, NB
<1>3. ASSUME pc[u] \in {"store", "stored"}
      PROVE  Exceeded(start[u], now[u], length[u]) = {}
  <2>1. \A j \in DOMAIN limits : j < i[u]
    BY <1>1, <1>3 DEF Loop, IsList
  <2> QED BY <1>2, <1>3, <2>1 DEF Checked, Exceeded
<1>4. ASSUME pc[u] = "refused"
      PROVE  i[u] \in Exceeded(uploaded, now[u], length[u])
  <2>1. i[u] \in DOMAIN limits /\ ~Fits(uploaded, u, i[u])
    BY <1>1, <1>4 DEF Loop, Grown, Checked
  <2> QED BY <2>1, WindowsOf DEF Fits, Exceeded, NB
<1> QED BY <1>2, <1>3, <1>4 DEF Checked

\* Every reachable state is of the types it should be.
THEOREM TypeCorrect == Spec => []TypeOK
<1>1. IInv => TypeOK
  BY DEF IInv
<1> QED BY InitIInv, StepIInv, <1>1, PTL DEF Spec

\* upload.go:519-535: whatever other uploads store meanwhile, none passes that was over a
\* limit when its check began, and none is refused that is not over the limit it is told of.
THEOREM VerdictUnderGrowth == Spec => []ConcurrentVerdict
<1>1. IInv => ConcurrentVerdict
  BY Verdicts DEF ConcurrentVerdict
<1> QED BY InitIInv, StepIInv, <1>1, PTL DEF Spec

\* upload.go:498-507: carrying the sum from a longer window and skipping queries gives the
\* verdict that asking for every window would give.
THEOREM CarriedSumIsSound == Spec => []VerdictIsReference
<1>1. IInv => VerdictIsReference
  <2> SUFFICES ASSUME IInv, NEW u \in Uploads, disturbed[u] = {}
               PROVE  LET exceeded == Exceeded(start[u], now[u], length[u])
                      IN  /\ pc[u] \in {"store", "stored"} => exceeded = {}
                          /\ pc[u] = "refused" => /\ i[u] \in exceeded
                                                  /\ \A j \in exceeded : i[u] <= j
    BY DEF VerdictIsReference
  <2>1. pc[u] \in {"store", "stored"} => Exceeded(start[u], now[u], length[u]) = {}
    BY Verdicts
  <2>2. ASSUME pc[u] = "refused"
        PROVE  i[u] \in Exceeded(start[u], now[u], length[u])
    <3>1. i[u] \in DOMAIN limits
      BY <2>2 DEF IInv, Loop
    <3>2. uploaded[NB(u, i[u])] <= start[u][NB(u, i[u])]
      BY <2>2, <3>1, WindowsOf DEF IInv, Shrunk
    <3>3. uploaded[NB(u, i[u])] + length[u] > limits[i[u]].max
      BY <2>2, Verdicts DEF Exceeded, NB
    <3> QED BY <3>1, <3>2, <3>3, WindowsOf DEF Exceeded, NB
  <2>3. ASSUME pc[u] = "refused", NEW j \in Exceeded(start[u], now[u], length[u])
        PROVE  i[u] <= j
    <3>1. j \in DOMAIN limits /\ ~(j < i[u])
      BY <2>3, Verdicts DEF Exceeded
    <3> QED BY <3>1 DEF IInv, TypeOK, IsList
  <2> QED BY <2>1, <2>2, <2>3
<1> QED BY InitIInv, StepIInv, <1>1, PTL DEF Spec

\* upload.go:488: uploads that come one at a time keep the user within every limit.
THEOREM SerialUploadsHoldQuota == Spec => []QuotaHeldWhenAlone
<1>1. IInv => QuotaHeldWhenAlone
  BY DEF IInv
<1> QED BY InitIInv, StepIInv, <1>1, PTL DEF Spec

=============================================================================
