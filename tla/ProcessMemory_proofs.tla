-------------------------- MODULE ProcessMemory_proofs --------------------------
(***************************************************************************)
(* Proofs about two things that a process remembers between requests: the  *)
(* .well-known answer of a host (WellKnown) and the marks of last access   *)
(* (LastAccess).                                                           *)
(*                                                                         *)
(* DelegationNotOverdue and OutageNotSeen hold for every number of         *)
(* requests and all periods.  An answer's age and what is left of it add   *)
(* up to its period, and a refresh keeps only what was cached when it took *)
(* the lock, while nobody else can store.                                  *)
(*                                                                         *)
(* AccessIsRecorded and CloseFlushesAll hold for every number of workers   *)
(* and rows, every bound on the clock and every set of faults.  The first  *)
(* is nearly inductive: what it needs is that a swap overwrites no batch   *)
(* (IdleIsEmpty) and that no access is later than the clock.  The second   *)
(* needs that a process whose handlers have returned has nothing in its    *)
(* map after the last swap (LastSwapTakesAll).                             *)
(***************************************************************************)
EXTENDS WellKnown, LastAccess, FiniteSetTheorems, WellFoundedInduction, TLAPS

\* The lock is that of the one request which may fetch and store.
LockHeld == \A r \in Requests : pc[r] \in Holding <=> lock = r

Fetching == {"request", "sleep"}

\* A request sleeps before another attempt only.
SleepsBetween == \A r \in Requests : pc[r] = "sleep" => attempt[r] < Attempts

NamedNow == server \in Delegates => since[server] = 0

\* A cached delegation was named when it was stored.
EntryAge ==
  Live(entry) /\ entry.delegated \in Delegates =>
    entry.ttl <= MaxPeriod /\ since[entry.delegated] + entry.left <= entry.ttl

\* The one that a refresh may keep was cached after the request had arrived.
PrevAge ==
  \A r \in Requests : pc[r] \in Fetching /\ prev[r].delegated \in Delegates =>
    since[prev[r].delegated] <= MaxPeriod + elapsed[r]

\* What is cached while the lock is held was cached when it was taken.
PrevIsCached ==
  \A r \in Requests :
    pc[r] \in Fetching /\ Live(entry) /\ entry.delegated # None =>
      prev[r].delegated = entry.delegated

IInv ==
  /\ TypeOK
  /\ LockHeld
  /\ SleepsBetween
  /\ NamedNow
  /\ EntryAge
  /\ PrevAge
  /\ PrevIsCached
------------------------------------------------------------------------------
\* The longest period is one of them, and there is one: of the sets of periods without a
\* longest, none is smallest.
LEMMA LongestPeriod == MaxPeriod \in Periods /\ \A p \in Periods : p <= MaxPeriod
<1> DEFINE Has(s) == \E n \in s : \A k \in s : k <= n
           Bad == {s \in SUBSET Periods : s # {} /\ ~Has(s)}
<1>1. ASSUME Bad # {} PROVE FALSE
  <2>0. Bad \subseteq SUBSET Periods
    OBVIOUS
  <2>1. PICK s \in Bad : \A r \in Bad : <<r, s>> \notin StrictSubsetOrdering(Periods)
    <3> HIDE DEF Bad
    <3>1. IsWellFoundedOn(StrictSubsetOrdering(Periods), SUBSET Periods)
      BY ConstantsAssumption, FS_StrictSubsetOrderingWellFounded, FS_FiniteSubsetsOfFinite
    <3> QED BY <1>1, <2>0, <3>1, WFMin
  <2>2. PICK x \in s : TRUE
    BY <2>1
  <2>3. s \subseteq Nat
    BY <2>1, ConstantsAssumption
  <2>4. s \ {x} \notin Bad
    BY <2>1, <2>2 DEF StrictSubsetOrdering
  <2>5. CASE s \ {x} = {}
    <3>1. \A k \in s : k <= x
      BY <2>2, <2>3, <2>5
    <3> QED BY <2>1, <2>2, <3>1
  <2>6. CASE s \ {x} # {}
    <3>1. PICK n \in s \ {x} : \A k \in s \ {x} : k <= n
      BY <2>1, <2>4, <2>6
    <3>2. CASE x <= n
      <4>1. \A k \in s : k <= n
        BY <3>1, <3>2
      <4> QED BY <2>1, <3>1, <4>1
    <3>3. CASE ~(x <= n)
      <4>1. \A k \in s : k <= x
        BY <2>2, <2>3, <3>1, <3>3
      <4> QED BY <2>1, <2>2, <4>1
    <3> QED BY <3>2, <3>3
  <2> QED BY <2>5, <2>6
<1>2. Has(Periods)
  BY <1>1, ConstantsAssumption
<1> QED BY <1>2 DEF MaxPeriod, MaxOf

LEMMA MaxPeriodIsNat == MaxPeriod \in Nat /\ LongAgo = MaxPeriod + FetchTimeout + 1
BY LongestPeriod, ConstantsAssumption DEF LongAgo

LEMMA IInvInit == Init => IInv
<1> SUFFICES ASSUME Init PROVE IInv
  OBVIOUS
<1>1. TypeOK
  BY ConstantsAssumption, MaxPeriodIsNat
     DEF Init, TypeOK, NoEntry, Entry, Entries, Answers
<1>2. LockHeld /\ SleepsBetween /\ PrevAge /\ PrevIsCached
  BY ConstantsAssumption DEF Init, LockHeld, SleepsBetween, PrevAge, PrevIsCached, Holding, Fetching
<1>3. NamedNow /\ EntryAge
  BY DEF Init, NamedNow, EntryAge, Live, NoEntry, Entry
<1> QED BY <1>1, <1>2, <1>3 DEF IInv

------------------------------------------------------------------------------
\* A step that moves one request, and what it has of the cache.
LEMMA AnswerTypes ==
  ASSUME TypeOK, NEW r \in Requests, NEW d \in Answers, Return(r, d)
  PROVE  /\ pc' \in [Requests -> Holding \cup {"idle", "cached", "acquire", "done"}]
         /\ reply' \in [Requests -> Answers \cup {"none"}]
         /\ lock' \in Requests \cup {None}
BY DEF TypeOK, Return, Goto

LEMMA TypeStep == ASSUME TypeOK, SleepsBetween, [Next]_vars PROVE TypeOK'
<1> USE ConstantsAssumption DEF TypeOK
<1>1. ASSUME NEW r \in Requests, Arrive(r) PROVE TypeOK'
  BY <1>1 DEF Arrive, Goto, cache, request
<1>2. ASSUME NEW r \in Requests, LookCached(r) PROVE TypeOK'
  <2>1. entry.delegated \in Answers
    BY DEF Entries
  <2>2. CASE Return(r, entry.delegated)
    BY <1>2, <2>1, <2>2, AnswerTypes DEF LookCached, cache, request
  <2>3. CASE Goto(r, "acquire") /\ UNCHANGED <<reply, lock>>
    BY <1>2, <2>3 DEF LookCached, Goto, cache, request
  <2> QED BY <1>2, <2>2, <2>3 DEF LookCached
<1>3. ASSUME NEW r \in Requests, Acquire(r) PROVE TypeOK'
  BY <1>3 DEF Acquire, Goto, cache, request, Holding
<1>4. ASSUME NEW r \in Requests, GiveUp(r) PROVE TypeOK'
  <2>1. CachedDelegation \in Answers
    BY DEF CachedDelegation, Entries, Answers
  <2> QED BY <1>4, <2>1, AnswerTypes DEF GiveUp, cache, request
<1>5. ASSUME NEW r \in Requests, LookAgain(r) PROVE TypeOK'
  <2>1. entry.delegated \in Answers /\ Previous \in Entries
    BY DEF Entries, Previous, NoEntry, Entry, Answers
  <2>2. CASE Fresh
    BY <1>5, <2>1, <2>2, AnswerTypes DEF LookAgain, cache, request
  <2>3. CASE ~Fresh
    <3>1. /\ prev' = [prev EXCEPT ![r] = Previous]
          /\ retry' \subseteq Requests
          /\ attempt' = [attempt EXCEPT ![r] = 1]
          /\ pc' = [pc EXCEPT ![r] = "request"]
          /\ UNCHANGED <<entry, had, lock, server, elapsed, gone, reply, since, failed>>
      BY <1>5, <2>3 DEF LookAgain, Goto, cache
    <3> QED BY <2>1, <3>1 DEF Holding
  <2> QED BY <2>2, <2>3
<1>6. ASSUME NEW r \in Requests, FetchSucceeds(r) PROVE TypeOK'
  <2>1. PICK period \in Periods : /\ entry' = Entry(Named, period)
                                  /\ had' = IF Named = None THEN 0 ELSE period + Remember
    BY <1>6 DEF FetchSucceeds
  <2>2. Named \in Answers
    BY DEF Named, Answers
  <2>3. period \in Nat /\ period <= MaxPeriod /\ MaxPeriod \in Nat
    BY LongestPeriod
  <2>4. entry' \in Entries /\ entry'.left <= entry'.ttl
    BY <2>1, <2>2, <2>3 DEF Entry, Entries
  <2>5. had' \in 0 .. MaxPeriod + Remember
    BY <2>1, <2>3
  <2> QED BY <1>6, <2>2, <2>4, <2>5, AnswerTypes DEF FetchSucceeds, request
<1>7. ASSUME NEW r \in Requests, NEW temporary \in BOOLEAN, FetchFails(r, temporary)
      PROVE  TypeOK'
  <2>1. prev[r].delegated \in Answers /\ None \in Answers
    BY DEF Entries, Answers
  <2>2. entry' = entry \/ \E p \in {DownPeriod, InvalidPeriod} : entry' = Entry(None, p)
    BY <1>7 DEF FetchFails
  <2>3. entry' \in Entries /\ entry'.left <= entry'.ttl
    BY <2>1, <2>2 DEF Entry, Entries
  <2>4. \E d \in Answers : Return(r, d)
    BY <1>7, <2>1 DEF FetchFails
  <2> QED BY <1>7, <2>3, <2>4, AnswerTypes DEF FetchFails, request
<1>8. ASSUME NEW r \in Requests, RetryLater(r) PROVE TypeOK'
  BY <1>8 DEF RetryLater, Goto, cache, request, Holding
<1>9. ASSUME NEW r \in Requests, Retry(r) PROVE TypeOK'
  <2>1. attempt[r] + 1 \in 0 .. Attempts
    BY <1>9 DEF Retry, SleepsBetween
  <2> QED BY <1>9, <2>1 DEF Retry, Goto, cache, Holding
<1>10. ASSUME NEW r \in Requests, ClientLeaves(r) PROVE TypeOK'
  BY <1>10 DEF ClientLeaves, cache, request
<1>11. ASSUME NEW answer \in Delegates \cup Troubles, ServerChanges(answer) PROVE TypeOK'
  BY <1>11, MaxPeriodIsNat DEF ServerChanges, cache, request
<1>12. CASE Tick
  <2>1. entry' \in Entries /\ entry'.left <= entry'.ttl
    BY <1>12 DEF Tick, Lessened, Entries
  <2>2. had' \in 0 .. MaxPeriod + Remember
    BY <1>12, MaxPeriodIsNat DEF Tick, Lessened
  <2>3. elapsed' \in [Requests -> 0 .. FetchTimeout]
    BY <1>12 DEF Tick
  <2>4. since' \in [Delegates -> 0 .. LongAgo]
    BY <1>12, MaxPeriodIsNat DEF Tick
  <2> QED BY <1>12, <2>1, <2>2, <2>3, <2>4 DEF Tick, request
<1>13. CASE UNCHANGED vars
  BY <1>13 DEF vars, cache, request
<1> QED
  BY <1>1, <1>2, <1>3, <1>4, <1>5, <1>6, <1>7, <1>8, <1>9, <1>10, <1>11, <1>12, <1>13
     DEF Next, RequestStep, FetchEnds

\* A request that returns gives up the lock, and is the only one that may have had it.
LEMMA LockStep == ASSUME TypeOK, LockHeld, SleepsBetween, [Next]_vars
                  PROVE  LockHeld' /\ SleepsBetween'
<1> USE ConstantsAssumption DEF TypeOK, LockHeld, SleepsBetween, Goto, Holding
<1>1. ASSUME NEW r \in Requests, NEW d, Return(r, d), UNCHANGED attempt
      PROVE  LockHeld' /\ SleepsBetween'
  BY <1>1 DEF Return
<1>2. ASSUME NEW r \in Requests, Arrive(r) PROVE LockHeld' /\ SleepsBetween'
  BY <1>2 DEF Arrive, request
<1>3. ASSUME NEW r \in Requests, LookCached(r) PROVE LockHeld' /\ SleepsBetween'
  <2>1. CASE Fresh
    BY <1>1, <1>3, <2>1 DEF LookCached, request
  <2>2. CASE ~Fresh
    BY <1>3, <2>2 DEF LookCached, request
  <2> QED BY <2>1, <2>2
<1>4. ASSUME NEW r \in Requests, Acquire(r) PROVE LockHeld' /\ SleepsBetween'
  BY <1>4 DEF Acquire, request
<1>5. ASSUME NEW r \in Requests, GiveUp(r) PROVE LockHeld' /\ SleepsBetween'
  BY <1>1, <1>5 DEF GiveUp, request
<1>6. ASSUME NEW r \in Requests, LookAgain(r) PROVE LockHeld' /\ SleepsBetween'
  <2>1. CASE Fresh
    BY <1>1, <1>6, <2>1 DEF LookAgain, request
  <2>2. CASE ~Fresh
    BY <1>6, <2>2 DEF LookAgain
  <2> QED BY <2>1, <2>2
<1>7. ASSUME NEW r \in Requests, FetchSucceeds(r) PROVE LockHeld' /\ SleepsBetween'
  BY <1>1, <1>7 DEF FetchSucceeds, request
<1>8. ASSUME NEW r \in Requests, NEW temporary, FetchFails(r, temporary)
      PROVE  LockHeld' /\ SleepsBetween'
  BY <1>1, <1>8 DEF FetchFails, request
<1>9. ASSUME NEW r \in Requests, RetryLater(r) \/ Retry(r) PROVE LockHeld' /\ SleepsBetween'
  BY <1>9 DEF RetryLater, Retry, request
<1>10. ASSUME NEW r \in Requests, ClientLeaves(r) PROVE LockHeld' /\ SleepsBetween'
  BY <1>10 DEF ClientLeaves, request
<1>11. CASE \/ \E answer \in Delegates \cup Troubles : ServerChanges(answer)
            \/ Tick \/ UNCHANGED vars
  BY <1>11 DEF ServerChanges, Tick, vars, request
<1> QED
  BY <1>2, <1>3, <1>4, <1>5, <1>6, <1>7, <1>8, <1>9, <1>10, <1>11
     DEF Next, RequestStep, FetchEnds

\* What the host says now has an age of nothing, and ages grow by a tick at most.
LEMMA SinceStep ==
  ASSUME TypeOK, NamedNow, [Next]_vars
  PROVE  /\ NamedNow'
         /\ \A d \in Delegates : since'[d] <= since[d] + 1
         /\ ~Tick => \A d \in Delegates : since'[d] <= since[d]
<1> USE MaxPeriodIsNat, ConstantsAssumption DEF TypeOK, NamedNow
<1>1. CASE Tick
  BY <1>1 DEF Tick
<1>2. CASE \E answer \in Delegates \cup Troubles : ServerChanges(answer)
  BY <1>2 DEF ServerChanges
<1>3. CASE UNCHANGED <<server, since>>
  BY <1>3
<1>4. UNCHANGED <<server, since>> \/ Tick
      \/ \E answer \in Delegates \cup Troubles : ServerChanges(answer)
  BY DEF Next, RequestStep, FetchEnds, Arrive, LookCached, Acquire, GiveUp, LookAgain,
         FetchSucceeds, FetchFails, RetryLater, Retry, ClientLeaves, vars
<1> QED BY <1>1, <1>2, <1>3, <1>4

\* What a step may make of the cached answer: it is kept, ages by a tick, or is stored by
\* the request that holds the lock.
LEMMA EntryStep ==
  ASSUME [Next]_vars
  PROVE  \/ entry' = entry
         \/ Tick /\ entry' = [entry EXCEPT !.left = Lessened(@)]
         \/ \E r \in Requests :
              /\ pc[r] \in Fetching /\ pc' = [pc EXCEPT ![r] = "done"] /\ ~Tick
              /\ \/ \E period \in Periods : entry' = Entry(Named, period)
                 \/ \E period : entry' = Entry(None, period)
<1>1. CASE Tick
  BY <1>1 DEF Tick
<1>2. ASSUME NEW r \in Requests, FetchSucceeds(r), ~Tick
      PROVE  /\ pc[r] \in Fetching /\ pc' = [pc EXCEPT ![r] = "done"]
             /\ \E period \in Periods : entry' = Entry(Named, period)
  BY <1>2 DEF FetchSucceeds, Return, Goto, Fetching
<1>3. ASSUME NEW r \in Requests, FetchEnds(r)
      PROVE  /\ pc[r] \in Fetching /\ pc' = [pc EXCEPT ![r] = "done"]
             /\ entry' = entry \/ \E period : entry' = Entry(None, period)
  BY <1>3 DEF FetchEnds, FetchFails, Return, Goto, Fetching
<1>4. \/ entry' = entry \/ Tick
      \/ \E r \in Requests : FetchSucceeds(r) \/ FetchEnds(r)
  BY DEF Next, RequestStep, Arrive, LookCached, Acquire, GiveUp, LookAgain,
         RetryLater, Retry, ClientLeaves, ServerChanges, vars, cache
<1> QED BY <1>1, <1>2, <1>3, <1>4

\* What a step may make of a request's fetch: it begins with what is cached, goes on with
\* what it has, or ends.
LEMMA FetchStep ==
  ASSUME TypeOK, [Next]_vars, NEW r \in Requests, pc'[r] \in Fetching
  PROVE  \/ /\ pc[r] \in Fetching /\ prev'[r] = prev[r] /\ elapsed[r] <= elapsed'[r]
            /\ Tick => elapsed'[r] = elapsed[r] + 1
         \/ pc[r] = "again" /\ ~Fresh /\ prev'[r] = Previous /\ entry' = entry /\ ~Tick
<1> USE ConstantsAssumption DEF TypeOK, Goto, Fetching
<1>1. CASE Tick
  <2>1. pc[r] \in Fetching /\ prev' = prev
    BY <1>1 DEF Tick, request
  <2>2. Active(r) /\ ~Cancelled(r)
    BY <1>1, <2>1 DEF Tick, Ready, Active, Holding
  <2>3. elapsed'[r] = elapsed[r] + 1
    BY <1>1, <2>2 DEF Tick, Cancelled
  <2> QED BY <2>1, <2>3
<1>2. ASSUME NEW q \in Requests, LookAgain(q), ~Tick
      PROVE  \/ pc[r] \in Fetching /\ prev'[r] = prev[r] /\ elapsed' = elapsed
             \/ pc[r] = "again" /\ ~Fresh /\ prev'[r] = Previous /\ entry' = entry
  <2>1. CASE Fresh
    BY <1>2, <2>1 DEF LookAgain, Return, request
  <2>2. CASE ~Fresh
    BY <1>2, <2>2 DEF LookAgain, cache
  <2> QED BY <2>1, <2>2
<1>3. ASSUME NEW q \in Requests, ~Tick,
             \/ Arrive(q) \/ LookCached(q) \/ Acquire(q) \/ GiveUp(q) \/ FetchSucceeds(q)
             \/ FetchEnds(q) \/ RetryLater(q) \/ Retry(q) \/ ClientLeaves(q)
      PROVE  pc[r] \in Fetching /\ prev'[r] = prev[r] /\ elapsed' = elapsed
  BY <1>3 DEF Arrive, LookCached, Acquire, GiveUp, FetchSucceeds, FetchEnds, FetchFails, Return,
              RetryLater, Retry, ClientLeaves, request
<1>4. CASE /\ ~Tick
           /\ (\E answer \in Delegates \cup Troubles : ServerChanges(answer)) \/ UNCHANGED vars
  BY <1>4 DEF ServerChanges, vars, request
<1>5. elapsed[r] \in Nat
  OBVIOUS
<1>6. CASE ~Tick
  BY <1>2, <1>3, <1>4, <1>5, <1>6 DEF Next, RequestStep
<1> QED BY <1>1, <1>6

LEMMA AgesStep == ASSUME IInv, [Next]_vars, TypeOK' PROVE EntryAge' /\ PrevAge'
<1>1. /\ \A d \in Delegates : since[d] \in Nat /\ since'[d] \in Nat
      /\ entry \in Entries /\ None \notin Delegates
      /\ \A r \in Requests : elapsed[r] \in Nat /\ elapsed'[r] \in Nat
  BY MaxPeriodIsNat, ConstantsAssumption DEF IInv, TypeOK
<1>2. /\ \A d \in Delegates : since'[d] <= since[d] + 1
      /\ ~Tick => \A d \in Delegates : since'[d] <= since[d]
  BY SinceStep DEF IInv
<1>3. EntryAge'
  <2>1. CASE entry' = entry /\ ~Tick
    BY <1>1, <1>2, <2>1 DEF IInv, EntryAge, Live, Entries
  <2>2. CASE Tick
    <3>1. entry' = [entry EXCEPT !.left = Lessened(@)]
      BY <2>2 DEF Tick
    <3>2. /\ entry'.ttl = entry.ttl /\ entry'.delegated = entry.delegated
          /\ Live(entry') => Live(entry) /\ entry'.left = entry.left - 1
      BY <1>1, <3>1 DEF Entries, Lessened, Live
    <3> DEFINE d == entry.delegated
    <3>3. ASSUME Live(entry'), d \in Delegates
          PROVE  entry.ttl <= MaxPeriod /\ since'[d] + (entry.left - 1) <= entry.ttl
      <4>1. entry.ttl <= MaxPeriod /\ since[d] + entry.left <= entry.ttl
        BY <3>2, <3>3 DEF IInv, EntryAge
      <4>2. since[d] \in Nat /\ since'[d] \in Nat /\ since'[d] <= since[d] + 1
        BY <1>1, <1>2, <3>3
      <4>3. entry.left \in Nat /\ entry.ttl \in Nat
        BY <1>1 DEF Entries
      <4> QED BY <4>1, <4>2, <4>3
    <3> QED BY <3>2, <3>3 DEF EntryAge
  <2>3. ASSUME NEW period, entry' = Entry(None, period) PROVE EntryAge'
    BY <1>1, <2>3 DEF EntryAge, Entry
  <2>4. ASSUME NEW period \in Periods, entry' = Entry(Named, period), ~Tick PROVE EntryAge'
    <3>1. period \in Nat /\ period <= MaxPeriod
      BY LongestPeriod, ConstantsAssumption
    <3>2. entry'.delegated = Named /\ entry'.ttl = period /\ entry'.left = period
      BY <2>4 DEF Entry
    <3>3. Named \in Delegates => since'[Named] = 0
      BY <1>1, <1>2, <2>4 DEF IInv, NamedNow, Named
    <3> QED BY <3>1, <3>2, <3>3 DEF EntryAge
  <2> QED BY <2>1, <2>2, <2>3, <2>4, EntryStep
<1>4. ASSUME NEW r \in Requests, pc'[r] \in Fetching, prev'[r].delegated \in Delegates
      PROVE  since'[prev'[r].delegated] <= MaxPeriod + elapsed'[r]
  <2> DEFINE d == prev'[r].delegated
  <2> SUFFICES since'[d] <= MaxPeriod + elapsed'[r]
    OBVIOUS
  <2>1. since[d] \in Nat /\ since'[d] \in Nat /\ elapsed[r] \in Nat /\ elapsed'[r] \in Nat
    BY <1>1, <1>4
  <2>2. CASE /\ pc[r] \in Fetching /\ prev'[r] = prev[r] /\ elapsed[r] <= elapsed'[r]
             /\ Tick => elapsed'[r] = elapsed[r] + 1
    <3>1. since[d] <= MaxPeriod + elapsed[r]
      BY <1>4, <2>2 DEF IInv, PrevAge
    <3>2. since'[d] <= since[d] + 1 /\ (~Tick => since'[d] <= since[d])
      BY <1>2, <1>4
    <3> HIDE DEF d
    <3> QED BY <2>1, <2>2, <3>1, <3>2, MaxPeriodIsNat
  <2>3. CASE prev'[r] = Previous /\ ~Tick
    <3>1. Live(entry) /\ d = entry.delegated
      BY <1>1, <1>4, <2>3 DEF Previous, NoEntry, Entry
    <3>2. entry.ttl <= MaxPeriod /\ since[d] + entry.left <= entry.ttl
      BY <1>4, <3>1 DEF IInv, EntryAge
    <3>3. since'[d] <= since[d] /\ entry.ttl \in Nat /\ entry.left \in Nat
      BY <1>1, <1>2, <1>4, <2>3 DEF Entries
    <3> HIDE DEF d
    <3> QED BY <2>1, <3>2, <3>3, MaxPeriodIsNat
  <2> QED BY <1>4, <2>2, <2>3, FetchStep DEF IInv
<1> QED BY <1>3, <1>4 DEF PrevAge

LEMMA KeptStep == ASSUME IInv, [Next]_vars, LockHeld' PROVE PrevIsCached'
<1> SUFFICES ASSUME NEW r \in Requests, pc'[r] \in Fetching, Live(entry'),
                    entry'.delegated # None
             PROVE  prev'[r].delegated = entry'.delegated
  BY DEF PrevIsCached
<1>1. entry \in Entries
  BY DEF IInv, TypeOK
<1>2. \/ pc[r] \in Fetching /\ prev'[r] = prev[r]
      \/ pc[r] = "again" /\ prev'[r] = Previous /\ entry' = entry
  BY FetchStep DEF IInv
<1>3. pc[r] \in Holding
  BY <1>2 DEF Fetching, Holding
<1>4. Live(entry) /\ entry'.delegated = entry.delegated
  <2>1. CASE entry' = entry
    BY <2>1
  <2>2. CASE entry' = [entry EXCEPT !.left = Lessened(@)]
    BY <1>1, <2>2 DEF Live, Lessened, Entries
  <2>3. ASSUME NEW q \in Requests, pc[q] \in Fetching, pc' = [pc EXCEPT ![q] = "done"]
        PROVE  FALSE
    <3>1. q = r
      BY <1>3, <2>3, ConstantsAssumption DEF IInv, LockHeld, Fetching, Holding
    <3> QED BY <2>3, <3>1 DEF IInv, TypeOK, Fetching
  <2> QED BY <2>1, <2>2, <2>3, EntryStep
<1> QED BY <1>2, <1>4 DEF IInv, PrevIsCached, Previous

LEMMA IInvStep == IInv /\ [Next]_vars => IInv'
<1> SUFFICES ASSUME IInv, [Next]_vars PROVE IInv'
  OBVIOUS
<1>1. TypeOK' /\ LockHeld' /\ SleepsBetween' /\ NamedNow'
  BY TypeStep, LockStep, SinceStep DEF IInv
<1>2. EntryAge' /\ PrevAge' /\ PrevIsCached'
  BY <1>1, AgesStep, KeptStep
<1> QED BY <1>1, <1>2 DEF IInv

------------------------------------------------------------------------------
\* What a request is told: what is cached, or was when its fetch began, or is said now.
LEMMA ToldStep ==
  ASSUME TypeOK, [Next]_vars, NEW r \in Requests, Answered(r)
  PROVE  /\ UNCHANGED since
         /\ \/ /\ reply'[r] = entry.delegated /\ Live(entry) /\ entry' = entry
            \/ /\ reply'[r] = CachedDelegation /\ entry' = entry
            \/ /\ server \in Delegates \cup {"empty"} /\ reply'[r] = Named
            \/ /\ pc[r] \in Fetching
               /\ \/ reply'[r] = prev[r].delegated
                  \/ reply'[r] = None /\ prev[r].delegated = None
                  \/ reply'[r] = None /\ server = "absent"
<1> USE DEF TypeOK, Return
<1>1. Fresh => Live(entry)
  BY DEF Fresh, Live, Entries
<1>2. PICK q \in Requests : RequestStep(q)
  BY DEF Answered, Next, Arrive, ClientLeaves, ServerChanges, Tick, vars
<1>3. CASE LookCached(q)
  <2>1. CASE Fresh
    BY <1>1, <1>3, <2>1 DEF LookCached, Answered, cache
  <2>2. CASE ~Fresh
    BY <1>3, <2>2 DEF LookCached, Answered
  <2> QED BY <2>1, <2>2
<1>4. CASE GiveUp(q)
  BY <1>4 DEF GiveUp, Answered, cache
<1>5. CASE LookAgain(q)
  <2>1. CASE Fresh
    BY <1>1, <1>5, <2>1 DEF LookAgain, Answered, cache
  <2>2. CASE ~Fresh
    BY <1>5, <2>2 DEF LookAgain, Answered
  <2> QED BY <2>1, <2>2
<1>6. CASE FetchSucceeds(q)
  BY <1>6 DEF FetchSucceeds, Answered
<1>7. ASSUME NEW temporary \in BOOLEAN, FetchFails(q, temporary), pc[q] \in Fetching,
             temporary \/ server = "absent"
      PROVE  /\ UNCHANGED since /\ pc[r] \in Fetching
             /\ \/ reply'[r] = prev[r].delegated
                \/ reply'[r] = None /\ prev[r].delegated = None
                \/ reply'[r] = None /\ server = "absent"
  BY <1>7 DEF FetchFails, Keeps, Answered
<1>8. CASE FetchEnds(q)
  BY <1>7, <1>8 DEF FetchEnds, Fetching
<1>9. CASE Acquire(q) \/ RetryLater(q) \/ Retry(q)
  BY <1>9 DEF Acquire, RetryLater, Retry, Answered
<1> QED BY <1>2, <1>3, <1>4, <1>5, <1>6, <1>8, <1>9 DEF RequestStep

\* resolver.go:262-276, 290-303: no delegation is used longer than its period and one fetch
\* after the host gave it up, through refreshes that fail, leaders that leave and waits.
THEOREM DelegationsExpire == Spec => DelegationNotOverdue
<1>1. ASSUME IInv, [Next]_vars, NEW r \in Requests, Answered(r), reply'[r] \in Delegates
      PROVE  since[reply'[r]] <= MaxPeriod + FetchTimeout
  <2> DEFINE d == reply'[r]
  <2> SUFFICES since[d] <= MaxPeriod + FetchTimeout
    OBVIOUS
  <2>1. /\ entry \in Entries /\ None \notin Delegates /\ since[d] \in Nat
        /\ elapsed[r] \in Nat /\ elapsed[r] <= FetchTimeout /\ FetchTimeout \in Nat
    BY <1>1, ConstantsAssumption, MaxPeriodIsNat DEF IInv, TypeOK
  <2>2. CASE Live(entry) /\ d = entry.delegated
    <3>1. entry.ttl <= MaxPeriod /\ since[d] + entry.left <= entry.ttl
      BY <1>1, <2>2 DEF IInv, EntryAge
    <3>2. entry.ttl \in Nat /\ entry.left \in Nat
      BY <2>1 DEF Entries
    <3> HIDE DEF d
    <3> QED BY <2>1, <3>1, <3>2, MaxPeriodIsNat
  <2>3. CASE server \in Delegates /\ d = server
    <3>1. since[d] = 0
      BY <1>1, <2>3 DEF IInv, NamedNow
    <3> HIDE DEF d
    <3> QED BY <2>1, <3>1, MaxPeriodIsNat
  <2>4. CASE pc[r] \in Fetching /\ d = prev[r].delegated
    <3>1. since[d] <= MaxPeriod + elapsed[r]
      BY <1>1, <2>4 DEF IInv, PrevAge
    <3> HIDE DEF d
    <3> QED BY <2>1, <3>1, MaxPeriodIsNat
  <2>5. \/ Live(entry) /\ d = entry.delegated
        \/ server \in Delegates /\ d = server
        \/ pc[r] \in Fetching /\ d = prev[r].delegated
    BY <1>1, <2>1, ToldStep DEF IInv, CachedDelegation, Named
  <2> QED BY <2>2, <2>3, <2>4, <2>5
<1>2. IInv /\ [Next]_vars =>
        [\A r \in Requests : Answered(r) /\ reply'[r] \in Delegates =>
            since[reply'[r]] <= MaxPeriod + FetchTimeout]_vars
  BY <1>1
<1> QED BY <1>2, IInvInit, IInvStep, PTL DEF Spec, DelegationNotOverdue

\* resolver.go:268-276, README.md:220: an outage of the host is not seen while a delegation
\* is cached, neither by those that fetch nor by those that wait.
THEOREM OutagesUnseen == Spec => OutageNotSeen
<1>1. ASSUME IInv, [Next]_vars, Live(entry), entry.delegated \in Delegates, server \in Outages
      PROVE  /\ entry'.delegated = entry.delegated
             /\ \A r \in Requests : Answered(r) => reply'[r] # None
  <2>1. /\ None \notin Delegates /\ server \notin Delegates \cup {"empty", "absent"}
        /\ entry \in Entries
    BY <1>1, ConstantsAssumption DEF IInv, TypeOK, Troubles, Outages
  <2>2. ASSUME NEW r \in Requests, pc[r] \in Fetching
        PROVE  prev[r].delegated = entry.delegated
    BY <1>1, <2>1, <2>2 DEF IInv, PrevIsCached
  <2>3. ASSUME NEW r \in Requests, Answered(r) PROVE reply'[r] # None
    BY <1>1, <2>1, <2>2, <2>3, ToldStep DEF IInv, CachedDelegation
  <2>4. ASSUME NEW r \in Requests, FetchEnds(r) PROVE entry' = entry
    <3>1. PICK temporary \in BOOLEAN : FetchFails(r, temporary) /\ temporary
      BY <2>1, <2>4 DEF FetchEnds
    <3>2. pc[r] \in Fetching
      BY <2>4 DEF FetchEnds, Fetching
    <3>3. Keeps(r, temporary)
      BY <1>1, <2>1, <2>2, <3>1, <3>2 DEF Keeps
    <3> QED BY <3>1, <3>3 DEF FetchFails
  <2>5. ASSUME Tick PROVE entry'.delegated = entry.delegated
    BY <2>1, <2>5 DEF Tick, Entries
  <2>6. ASSUME ~Tick PROVE entry'.delegated = entry.delegated
    <3>1. entry' = entry
      BY <1>1, <2>1, <2>4, <2>6
         DEF Next, RequestStep, Arrive, LookCached, Acquire, GiveUp, LookAgain, FetchSucceeds,
             RetryLater, Retry, ClientLeaves, ServerChanges, vars, cache
    <3> QED BY <3>1
  <2> QED BY <2>3, <2>5, <2>6
<1>2. IInv /\ [Next]_vars =>
        [Live(entry) /\ entry.delegated \in Delegates /\ server \in Outages =>
           /\ entry'.delegated = entry.delegated
           /\ \A r \in Requests : Answered(r) => reply'[r] # None]_vars
  BY <1>1
<1> QED BY <1>2, IInvInit, IInvStep, PTL DEF Spec, OutageNotSeen

------------------------------------------------------------------------------
\* The marks of last access.

Sending == {"stamp", "send", "lastStamp", "lastSend"}

\* Only a flush in progress has a batch.
IdleIsEmpty == \A w \in Workers : loop[w] \notin Sending => batch[w] = {}

AccessIsPast == \A m \in Media : access[m] <= clock

\* Nothing is marked when nothing is to be recorded, and the last flush begins only when
\* the database is being closed.
LoopFollowsStage ==
  \A w \in Workers :
    IF UpdateLastAccess
      THEN stage[w] \in {"serving", "draining"} => loop[w] \in {"select", "swap", "stamp", "send"}
      ELSE recent[w] = {}

LastSwapTakesAll ==
  \A w \in Workers :
    stage[w] = "closing" /\ loop[w] \in {"lastStamp", "lastSend", "stopped"} => recent[w] = {}

MarksInv ==
  /\ MarksTypeOK
  /\ IdleIsEmpty
  /\ AccessIsPast
  /\ LoopFollowsStage
  /\ LastSwapTakesAll
  /\ AccessIsRecorded
  /\ CloseFlushesAll

USE DEF Time

------------------------------------------------------------------------------
LEMMA MarksInvInit == MarksInit => MarksInv
BY MarksAssumption
   DEF MarksInit, MarksInv, MarksTypeOK, IdleIsEmpty, AccessIsPast, LoopFollowsStage,
       LastSwapTakesAll, AccessIsRecorded, CloseFlushesAll, Sending

LEMMA MarksTypePreserved ==
  ASSUME MarksTypeOK, [MarksNext]_marksVars
  PROVE  MarksTypeOK'
<1> USE MarksAssumption DEF MarksTypeOK
<1>1. CASE UNCHANGED marksVars
  BY <1>1 DEF marksVars, process
<1>2. ASSUME NEW w \in Workers, NEW m \in Media, Mark(w, m) PROVE MarksTypeOK'
  BY <1>2 DEF Mark
<1>3. ASSUME NEW w \in Workers, FlushTick(w) \/ StopFlush(w) PROVE MarksTypeOK'
  BY <1>3 DEF FlushTick, StopFlush, LoopGoto
<1>4. ASSUME NEW w \in Workers, Swap(w) PROVE MarksTypeOK'
  BY <1>4 DEF Swap, LoopGoto, AfterFlush
<1>5. ASSUME NEW w \in Workers, Stamp(w) PROVE MarksTypeOK'
  BY <1>5 DEF Stamp, LoopGoto
<1>6. ASSUME NEW w \in Workers, Commit(w) PROVE MarksTypeOK'
  <2>1. stamp' \in [Media -> Time]
    BY <1>6 DEF Commit, Applied
  <2>2. lost' \subseteq Media
    BY <1>6 DEF Commit, Newer
  <2> QED BY <1>6, <2>1, <2>2 DEF Commit, BatchDone, LoopGoto, AfterFlush
<1>7. ASSUME NEW w \in Workers, CommitFails(w) PROVE MarksTypeOK'
  <2>1. lost' \subseteq Media
    BY <1>7 DEF CommitFails
  <2> QED BY <1>7, <2>1 DEF CommitFails, BatchDone, LoopGoto, AfterFlush
<1>8. ASSUME NEW w \in Workers, TimesOut(w) PROVE MarksTypeOK'
  <2>1. lost' \subseteq Media /\ backlog' \subseteq Batches
    BY <1>8 DEF TimesOut, Batches
  <2> QED BY <1>8, <2>1 DEF TimesOut, BatchDone, LoopGoto, AfterFlush
<1>9. ASSUME NEW b \in backlog, CommitLate(b) PROVE MarksTypeOK'
  <2>1. b.media \subseteq Media /\ b.now \in Time
    BY DEF Batches
  <2>2. stamp' \in [Media -> Time] /\ lost' \subseteq Media
    BY <1>9, <2>1 DEF CommitLate, Applied, Newer
  <2> QED BY <1>9, <2>2 DEF CommitLate, process
<1>10. ASSUME NEW w \in Workers, Terminate(w) \/ Close(w) PROVE MarksTypeOK'
  BY <1>10 DEF Terminate, Close
<1>11. ASSUME NEW w \in Workers, Forget(w), unsent' \subseteq Media PROVE MarksTypeOK'
  BY <1>11 DEF Forget, LoopGoto
<1>12. ASSUME NEW w \in Workers, Exit(w) \/ Crash(w) PROVE MarksTypeOK'
  BY <1>11, <1>12 DEF Exit, Crash
<1>13. CASE ClockTick
  BY <1>13 DEF ClockTick, process
<1> QED
  BY <1>1, <1>2, <1>3, <1>4, <1>5, <1>6, <1>7, <1>8, <1>9, <1>10, <1>12, <1>13
     DEF MarksNext, Flush

\* The parts that are about one worker's loop.
LEMMA LoopPreserved ==
  ASSUME MarksInv, [MarksNext]_marksVars
  PROVE  IdleIsEmpty' /\ LoopFollowsStage' /\ LastSwapTakesAll' /\ CloseFlushesAll'
<1> USE DEF MarksInv, MarksTypeOK, IdleIsEmpty, LoopFollowsStage, LastSwapTakesAll, CloseFlushesAll,
            Sending
<1>1. CASE UNCHANGED marksVars \/ ClockTick \/ \E b \in backlog : CommitLate(b)
  BY <1>1 DEF marksVars, process, ClockTick, CommitLate
<1>2. ASSUME NEW w \in Workers, NEW m \in Media, Mark(w, m)
      PROVE  IdleIsEmpty' /\ LoopFollowsStage' /\ LastSwapTakesAll' /\ CloseFlushesAll'
  BY <1>2 DEF Mark
<1>3. ASSUME NEW w \in Workers, Flush(w)
      PROVE  IdleIsEmpty' /\ LoopFollowsStage' /\ LastSwapTakesAll' /\ CloseFlushesAll'
  <2>1. CASE FlushTick(w) \/ StopFlush(w)
    BY <2>1 DEF FlushTick, StopFlush, Closing, LoopGoto
  <2>2. CASE Swap(w)
    BY <2>2 DEF Swap, LoopGoto, AfterFlush
  <2>3. CASE Stamp(w)
    BY <2>3 DEF Stamp, LoopGoto
  <2>4. CASE Commit(w)
    BY <2>4 DEF Commit, BatchDone, LoopGoto, AfterFlush
  <2> QED BY <1>3, <2>1, <2>2, <2>3, <2>4 DEF Flush
<1>4. ASSUME NEW w \in Workers, CommitFails(w) \/ TimesOut(w)
      PROVE  IdleIsEmpty' /\ LoopFollowsStage' /\ LastSwapTakesAll' /\ CloseFlushesAll'
  BY <1>4 DEF CommitFails, TimesOut, BatchDone, LoopGoto, AfterFlush
<1>5. ASSUME NEW w \in Workers, Terminate(w) \/ Close(w)
      PROVE  IdleIsEmpty' /\ LoopFollowsStage' /\ LastSwapTakesAll' /\ CloseFlushesAll'
  BY <1>5 DEF Terminate, Close
<1>6. ASSUME NEW w \in Workers, Exit(w) \/ Crash(w)
      PROVE  IdleIsEmpty' /\ LoopFollowsStage' /\ LastSwapTakesAll' /\ CloseFlushesAll'
  <2>1. unsent' = {}
    BY <1>6 DEF Exit, Crash
  <2> QED BY <1>6, <2>1 DEF Exit, Crash, Forget, LoopGoto
<1> QED BY <1>1, <1>2, <1>3, <1>4, <1>5, <1>6 DEF MarksNext

LEMMA PastPreserved ==
  ASSUME MarksTypeOK, AccessIsPast, [MarksNext]_marksVars
  PROVE  AccessIsPast'
<1> USE MarksAssumption DEF MarksTypeOK, AccessIsPast
<1>1. CASE UNCHANGED <<clock, access>>
  BY <1>1
<1>2. ASSUME NEW w \in Workers, NEW m \in Media, Mark(w, m) PROVE AccessIsPast'
  BY <1>2 DEF Mark
<1>3. CASE ClockTick
  BY <1>3 DEF ClockTick
<1>4. ASSUME NEW w \in Workers,
             Flush(w) \/ CommitFails(w) \/ TimesOut(w) \/ Terminate(w) \/ Close(w) \/ Exit(w)
               \/ Crash(w)
      PROVE  UNCHANGED <<clock, access>>
  BY <1>4 DEF Flush, FlushTick, StopFlush, Swap, Stamp, Commit, CommitFails, TimesOut, Terminate,
              Close, Exit, Crash, Forget
<1>5. ASSUME NEW b \in backlog, CommitLate(b) PROVE UNCHANGED <<clock, access>>
  BY <1>5 DEF CommitLate
<1> QED BY <1>1, <1>2, <1>3, <1>4, <1>5 DEF MarksNext, marksVars

\* One row at a time: it has its last access, the mark was lost, or a worker holds it.
Recorded(m) == access[m] > stamp[m] => m \in lost \/ \E w \in Workers : Holds(w, m)

LEMMA RecordedPreserved ==
  ASSUME MarksInv, [MarksNext]_marksVars, NEW m \in Media
  PROVE  Recorded(m)'
<1> USE MarksAssumption DEF MarksInv, MarksTypeOK
<1>1. Recorded(m)
  BY DEF AccessIsRecorded, Recorded
<1>2. CASE UNCHANGED marksVars \/ ClockTick
  BY <1>1, <1>2 DEF marksVars, process, ClockTick, Recorded, Holds
<1>3. ASSUME NEW w \in Workers, NEW n \in Media, Mark(w, n) PROVE Recorded(m)'
  <2>1. CASE n = m
    BY <1>3, <2>1 DEF Mark, Recorded, Holds
  <2>2. CASE n # m
    BY <1>1, <1>3, <2>2 DEF Mark, Recorded, Holds
  <2> QED BY <2>1, <2>2
<1>4. ASSUME NEW w \in Workers, FlushTick(w) \/ StopFlush(w) \/ Terminate(w) \/ Close(w)
      PROVE Recorded(m)'
  <2>1. UNCHANGED <<recent, batch, now, stamp, access, lost>>
    BY <1>4 DEF FlushTick, StopFlush, Terminate, Close
  <2>2. \A v \in Workers : loop'[v] \in {"send", "lastSend"} => loop[v] \in {"send", "lastSend"}
    BY <1>4 DEF FlushTick, StopFlush, Terminate, Close, LoopGoto
  <2> QED BY <1>1, <2>1, <2>2 DEF Recorded, Holds
<1>5. ASSUME NEW w \in Workers, Swap(w) PROVE Recorded(m)'
  <2>1. batch[w] = {}
    BY <1>5 DEF Swap, IdleIsEmpty, Sending
  <2>2. loop'[w] \notin {"send", "lastSend"}
    BY <1>5 DEF Swap, LoopGoto, AfterFlush
  <2>3. \A v \in Workers : Holds(v, m) => Holds(v, m)'
    BY <1>5, <2>1, <2>2 DEF Swap, LoopGoto, Holds
  <2> QED BY <1>1, <1>5, <2>3 DEF Swap, Recorded
<1>6. ASSUME NEW w \in Workers, Stamp(w) PROVE Recorded(m)'
  <2>1. \A v \in Workers : Holds(v, m) => Holds(v, m)'
    BY <1>6 DEF Stamp, LoopGoto, Holds, AccessIsPast
  <2> QED BY <1>1, <1>6, <2>1 DEF Stamp, Recorded
<1>7. ASSUME NEW w \in Workers, Commit(w) PROVE Recorded(m)'
  <2>1. \A v \in Workers \ {w} : Holds(v, m) => Holds(v, m)'
    BY <1>7 DEF Commit, BatchDone, LoopGoto, Holds
  <2>2. Holds(w, m) /\ ~Holds(w, m)' => m \in batch[w] /\ now[w] >= access[m]
    BY <1>7 DEF Commit, BatchDone, LoopGoto, Holds
  <2>3. stamp'[m] = (IF m \in batch[w] THEN now[w] ELSE stamp[m]) /\ access' = access
    BY <1>7 DEF Commit, Applied
  <2>4. CASE m \in batch[w] /\ stamp[m] > now[w]
    BY <1>7, <2>4 DEF Commit, Newer, Recorded
  <2>5. CASE ~(m \in batch[w] /\ stamp[m] > now[w])
    <3>1. stamp'[m] >= stamp[m]
      BY <2>3, <2>5
    <3>2. lost \subseteq lost'
      BY <1>7 DEF Commit
    <3> QED BY <1>1, <2>1, <2>2, <2>3, <3>1, <3>2 DEF Recorded
  <2> QED BY <2>4, <2>5
<1>8. ASSUME NEW w \in Workers, CommitFails(w) \/ TimesOut(w) PROVE Recorded(m)'
  <2>1. \A v \in Workers \ {w} : Holds(v, m) => Holds(v, m)'
    BY <1>8 DEF CommitFails, TimesOut, BatchDone, LoopGoto, Holds
  <2>2. Holds(w, m) => Holds(w, m)' \/ m \in batch[w]
    BY <1>8 DEF CommitFails, TimesOut, BatchDone, LoopGoto, Holds
  <2>3. lost' = lost \cup batch[w] /\ UNCHANGED <<stamp, access>>
    BY <1>8 DEF CommitFails, TimesOut
  <2> QED BY <1>1, <2>1, <2>2, <2>3 DEF Recorded
<1>9. ASSUME NEW b \in backlog, CommitLate(b) PROVE Recorded(m)'
  <2>1. \A v \in Workers : Holds(v, m) => Holds(v, m)'
    BY <1>9 DEF CommitLate, process, Holds
  <2>2. b.now \in Time
    BY DEF Batches
  <2>3. stamp'[m] = (IF m \in b.media THEN b.now ELSE stamp[m]) /\ access' = access
    BY <1>9 DEF CommitLate, Applied
  <2>4. CASE m \in b.media /\ stamp[m] > b.now
    BY <1>9, <2>4 DEF CommitLate, Newer, Recorded
  <2>5. CASE ~(m \in b.media /\ stamp[m] > b.now)
    <3>1. stamp'[m] >= stamp[m]
      BY <2>2, <2>3, <2>5
    <3>2. lost \subseteq lost'
      BY <1>9 DEF CommitLate
    <3> QED BY <1>1, <2>1, <2>3, <3>1, <3>2, <2>2 DEF Recorded
  <2> QED BY <2>4, <2>5
<1>10. ASSUME NEW w \in Workers, Exit(w) \/ Crash(w) PROVE Recorded(m)'
  <2>1. \A v \in Workers \ {w} : Holds(v, m) => Holds(v, m)'
    BY <1>10 DEF Exit, Crash, Forget, LoopGoto, Holds
  <2>2. lost' = lost \cup recent[w] \cup batch[w] /\ UNCHANGED <<stamp, access>>
    BY <1>10 DEF Exit, Crash, Forget
  <2> QED BY <1>1, <2>1, <2>2 DEF Recorded, Holds
<1> QED
  BY <1>2, <1>3, <1>4, <1>5, <1>6, <1>7, <1>8, <1>9, <1>10 DEF MarksNext, Flush

LEMMA MarksInvStep == MarksInv /\ [MarksNext]_marksVars => MarksInv'
<1> SUFFICES ASSUME MarksInv, [MarksNext]_marksVars PROVE MarksInv'
  OBVIOUS
<1>1. MarksTypeOK'
  BY MarksTypePreserved DEF MarksInv
<1>2. IdleIsEmpty' /\ LoopFollowsStage' /\ LastSwapTakesAll' /\ CloseFlushesAll'
  BY LoopPreserved
<1>3. AccessIsPast'
  BY PastPreserved DEF MarksInv
<1>4. AccessIsRecorded'
  BY RecordedPreserved DEF Recorded, AccessIsRecorded
<1> QED BY <1>1, <1>2, <1>3, <1>4 DEF MarksInv

------------------------------------------------------------------------------
\* Every reachable state is of the types it should be (db.go:71-120).
THEOREM MarksTypeCorrect == MarksSpec => []MarksTypeOK
<1>1. MarksInv => MarksTypeOK
  BY DEF MarksInv
<1> QED BY MarksInvInit, MarksInvStep, <1>1, PTL DEF MarksSpec

\* db.go:260-305: whatever comes between the swap, the stamp and the update, the last access
\* of a medium is in its row or on its way there, unless its mark was lost or overwritten.
THEOREM NoAccessForgotten == MarksSpec => []AccessIsRecorded
<1>1. MarksInv => AccessIsRecorded
  BY DEF MarksInv
<1> QED BY MarksInvInit, MarksInvStep, <1>1, PTL DEF MarksSpec

\* db.go:123-131, main.go:85: a process whose handlers have returned ends with an empty map.
THEOREM CloseLosesNothing == MarksSpec => []CloseFlushesAll
<1>1. MarksInv => CloseFlushesAll
  BY DEF MarksInv
<1> QED BY MarksInvInit, MarksInvStep, <1>1, PTL DEF MarksSpec
==============================================================================
