------------------------------- MODULE WellKnown -------------------------------
(***************************************************************************)
(* The cached .well-known answer of one host (getWellKnown and what it     *)
(* calls, resolver.go): refreshed before it expires, kept through an       *)
(* outage, and fetched by one request at a time, the others waiting for    *)
(* its lock.  The maps and the lock keep hosts apart, so one is enough.    *)
(*                                                                         *)
(* Time is a Tick.  No tick falls while a request can go on without        *)
(* waiting, and the jitter of the periods is left out.                     *)
(*                                                                         *)
(* An operator whose name begins with Bug is a plausible slip in the code  *)
(* it stands next to.  No action uses one.                                 *)
(***************************************************************************)
EXTENDS Integers, FiniteSets

CONSTANTS
  Requests,       \* requests that resolve the host, each made once
  Delegates,      \* the values m.server may have
  Periods,        \* the cache periods of valid answers, clamped
  InvalidPeriod,  \* wellKnownInvalidCachePeriod
  DownPeriod,     \* wellKnownDownCachePeriod
  Remember,       \* wellKnownRememberHadValid
  Attempts,       \* wellKnownRetryAttempts
  FetchTimeout,   \* the deadline of a request's context
  Faults,         \* which of AllFaults the environment has
  None            \* no delegation

AllFaults == {"leave"}     \* a client hangs up: its context is cancelled

\* What a host without a delegation answers: 404 or bad JSON, an empty m.server,
\* no connection or a 5xx, a document over the size limit, or nothing at all.
Outages == {"down", "oversized", "silent"}
Troubles == {"absent", "empty"} \cup Outages

ASSUME ConstantsAssumption ==
  /\ Periods \subseteq Nat \ {0} /\ Periods # {} /\ IsFiniteSet(Periods)
  /\ InvalidPeriod \in Nat \ {0} /\ DownPeriod \in Nat \ {0}
  /\ Remember \in Nat /\ Attempts \in Nat \ {0}
  /\ FetchTimeout \in Nat \ {0}
  /\ Faults \subseteq AllFaults
  /\ Delegates \cap Troubles = {}
  /\ None \notin Delegates \cup Troubles \cup Requests

VARIABLES
  entry,    \* wellKnown[host]: the answer, its ttl, and how much of it is left
  had,      \* how long hadValid[host] still says so
  lock,     \* the request in inflight[host]
  server,   \* what the host's .well-known says now
  pc,       \* the next step of each request
  prev,     \* getWellKnown's prev, expired if it has none
  retry,    \* the requests that retry
  attempt,  \* requestWellKnown's attempt
  elapsed,  \* the age of each request
  gone,     \* the requests whose client has left
  reply,    \* the delegation each request goes on with
  since,    \* history: the time since the host last named each delegate, capped
  failed    \* history: the requests that were waiting when a fetch failed

cache == <<entry, had>>
request == <<prev, retry, attempt>>
vars == <<cache, lock, server, pc, request, elapsed, gone, reply, since, failed>>

------------------------------------------------------------------------------
MaxOf(S) == CHOOSE n \in S : \A k \in S : k <= n
MaxPeriod == MaxOf(Periods)
LongAgo == MaxPeriod + FetchTimeout + 1

Answers == Delegates \cup {None}
Entries == [delegated : Answers, ttl : Nat, left : Nat]
Entry(delegated, period) == [delegated |-> delegated, ttl |-> period, left |-> period]
NoEntry == Entry(None, 0)

Live(e) == e.left > 0

\* Before the refresh point, which comes with a fifth of the ttl left.
Fresh == entry.left > entry.ttl \div 5

CachedDelegation == IF Live(entry) THEN entry.delegated ELSE None

Holding == {"again", "request", "sleep"}
Active(r) == pc[r] \in {"cached", "acquire"} \cup Holding

BugCancelled(r) == r \in gone             \* a context without a deadline

Cancelled(r) == r \in gone \/ elapsed[r] = FetchTimeout

TypeOK ==
  /\ entry \in Entries /\ entry.left <= entry.ttl
  /\ had \in 0 .. MaxPeriod + Remember
  /\ lock \in Requests \cup {None}
  /\ server \in Delegates \cup Troubles
  /\ pc \in [Requests -> Holding \cup {"idle", "cached", "acquire", "done"}]
  /\ prev \in [Requests -> Entries]
  /\ retry \subseteq Requests
  /\ attempt \in [Requests -> 0 .. Attempts]
  /\ elapsed \in [Requests -> 0 .. FetchTimeout]
  /\ gone \subseteq Requests
  /\ reply \in [Requests -> Answers \cup {"none"}]
  /\ since \in [Delegates -> 0 .. LongAgo]
  /\ failed \subseteq Requests

Init ==
  /\ entry = NoEntry
  /\ had = 0
  /\ lock = None
  /\ server \in Delegates \cup Troubles
  /\ pc = [r \in Requests |-> "idle"]
  /\ prev = [r \in Requests |-> NoEntry]
  /\ retry = {}
  /\ attempt = [r \in Requests |-> 0]
  /\ elapsed = [r \in Requests |-> 0]
  /\ gone = {}
  /\ reply = [r \in Requests |-> "none"]
  /\ since = [d \in Delegates |-> IF d = server THEN 0 ELSE LongAgo]
  /\ failed = {}

Goto(r, step) == pc' = [pc EXCEPT ![r] = step]

\* getWellKnown returns; its deferred release frees the lock if it is held.
Return(r, delegated) ==
  /\ Goto(r, "done")
  /\ reply' = [reply EXCEPT ![r] = delegated]
  /\ lock' = IF lock = r THEN None ELSE lock

------------------------------------------------------------------------------
Arrive(r) ==
  /\ pc[r] = "idle"
  /\ Goto(r, "cached")
  /\ UNCHANGED <<cache, lock, server, request, elapsed, gone, reply, since, failed>>

LookCached(r) ==
  /\ pc[r] = "cached"
  /\ \/ Fresh /\ Return(r, entry.delegated)
     \/ ~Fresh /\ Goto(r, "acquire") /\ UNCHANGED <<reply, lock>>
  /\ UNCHANGED <<cache, server, request, elapsed, gone, since, failed>>

Acquire(r) ==
  /\ pc[r] = "acquire" /\ lock = None
  /\ lock' = r
  /\ Goto(r, "again")
  /\ UNCHANGED <<cache, server, request, elapsed, gone, reply, since, failed>>

\* Cancelled while it waits: whatever is cached, fresh or not.
GiveUp(r) ==
  /\ pc[r] = "acquire" /\ lock # None /\ Cancelled(r)
  /\ Return(r, CachedDelegation)
  /\ UNCHANGED <<cache, server, request, elapsed, gone, since, failed>>

BugPrevious == entry                      \* its expiry is not looked at

Previous == IF Live(entry) THEN entry ELSE NoEntry

\* With the lock: somebody else may have refreshed it.
LookAgain(r) ==
  /\ pc[r] = "again"
  /\ \/ Fresh /\ Return(r, entry.delegated) /\ UNCHANGED request
     \/ /\ ~Fresh
        /\ prev' = [prev EXCEPT ![r] = Previous]
        /\ retry' = IF had > 0 THEN retry \cup {r} ELSE retry
        /\ attempt' = [attempt EXCEPT ![r] = 1]
        /\ Goto(r, "request")
        /\ UNCHANGED <<reply, lock>>
  /\ UNCHANGED <<cache, server, elapsed, gone, since, failed>>

------------------------------------------------------------------------------
\* fetchWellKnown.  The document is what the host says when its answer arrives.

Named == IF server \in Delegates THEN server ELSE None

FetchSucceeds(r) ==
  /\ pc[r] = "request" /\ ~Cancelled(r)
  /\ server \in Delegates \cup {"empty"}
  /\ \E period \in Periods :
       /\ entry' = Entry(Named, period)
       /\ had' = IF Named = None THEN 0 ELSE period + Remember
  /\ Return(r, Named)
  /\ UNCHANGED <<server, request, elapsed, gone, since, failed>>

BugKeeps(r, temporary) == FALSE           \* a refresh that fails is the new answer

Keeps(r, temporary) == temporary /\ prev[r].delegated # None

\* A failure keeps a delegation that was still cached when the fetch began, or
\* is cached itself as "no delegation".
FetchFails(r, temporary) ==
  /\ failed' = failed \cup {q \in Requests : pc[q] = "acquire"}
  /\ \/ Keeps(r, temporary) /\ Return(r, prev[r].delegated) /\ UNCHANGED entry
     \/ /\ ~Keeps(r, temporary)
        /\ entry' = Entry(None, IF had > 0 THEN DownPeriod ELSE InvalidPeriod)
        /\ Return(r, None)
  /\ UNCHANGED <<had, server, request, elapsed, gone, since>>

\* 404 or bad JSON; too large; no connection or 5xx with no attempt left; cancelled.
FetchEnds(r) ==
  \/ pc[r] = "request" /\ ~Cancelled(r) /\ server = "absent" /\ FetchFails(r, FALSE)
  \/ pc[r] = "request" /\ ~Cancelled(r) /\ server = "oversized" /\ FetchFails(r, TRUE)
  \/ /\ pc[r] = "request" /\ ~Cancelled(r) /\ server = "down"
     /\ r \notin retry \/ attempt[r] = Attempts
     /\ FetchFails(r, TRUE)
  \/ pc[r] \in {"request", "sleep"} /\ Cancelled(r) /\ FetchFails(r, TRUE)

RetryLater(r) ==
  /\ pc[r] = "request" /\ ~Cancelled(r) /\ server = "down"
  /\ r \in retry /\ attempt[r] < Attempts
  /\ Goto(r, "sleep")
  /\ UNCHANGED <<cache, lock, server, request, elapsed, gone, reply, since, failed>>

Retry(r) ==
  /\ pc[r] = "sleep" /\ ~Cancelled(r)
  /\ attempt' = [attempt EXCEPT ![r] = @ + 1]
  /\ Goto(r, "request")
  /\ UNCHANGED <<cache, lock, server, prev, retry, elapsed, gone, reply, since, failed>>

------------------------------------------------------------------------------
\* The environment.

ClientLeaves(r) ==
  /\ "leave" \in Faults /\ Active(r) /\ r \notin gone
  /\ gone' = gone \cup {r}
  /\ UNCHANGED <<cache, lock, server, pc, request, elapsed, reply, since, failed>>

ServerChanges(answer) ==
  /\ server' = answer /\ answer # server
  /\ since' = [d \in Delegates |-> IF d \in {server, answer} THEN 0 ELSE since[d]]
  /\ UNCHANGED <<cache, lock, pc, request, elapsed, gone, reply, failed>>

Ready(r) ==
  \/ pc[r] \in {"cached", "again"}
  \/ pc[r] = "acquire" /\ lock = None
  \/ Active(r) /\ Cancelled(r)

Lessened(n) == IF n > 0 THEN n - 1 ELSE 0

Tick ==
  /\ \A r \in Requests : ~Ready(r)
  /\ entry' = [entry EXCEPT !.left = Lessened(@)]
  /\ had' = Lessened(had)
  /\ elapsed' = [r \in Requests |-> IF Active(r) /\ elapsed[r] < FetchTimeout
                                       THEN elapsed[r] + 1 ELSE elapsed[r]]
  /\ since' = [d \in Delegates |-> IF d = server THEN 0
                                   ELSE IF since[d] < LongAgo THEN since[d] + 1 ELSE LongAgo]
  /\ UNCHANGED <<lock, server, pc, request, gone, reply, failed>>

------------------------------------------------------------------------------
RequestStep(r) ==
  \/ LookCached(r) \/ Acquire(r) \/ GiveUp(r) \/ LookAgain(r)
  \/ FetchSucceeds(r) \/ FetchEnds(r) \/ RetryLater(r) \/ Retry(r)

Next ==
  \/ \E r \in Requests : Arrive(r) \/ RequestStep(r) \/ ClientLeaves(r)
  \/ \E answer \in Delegates \cup Troubles : ServerChanges(answer)
  \/ Tick

Spec == Init /\ [][Next]_vars

\* The process runs and time passes; every request has a deadline.
FairSpec == Spec /\ WF_vars(Tick) /\ \A r \in Requests : WF_vars(RequestStep(r))

------------------------------------------------------------------------------
\* Properties.

Answered(r) == reply[r] = "none" /\ reply'[r] # "none"

\* No request goes on with a delegation that the host gave up longer ago than the
\* longest period and the time one fetch may take.  resolver.go:262-276, 290-303.
DelegationNotOverdue ==
  [][\A r \in Requests : Answered(r) /\ reply'[r] \in Delegates =>
        since[reply'[r]] <= MaxPeriod + FetchTimeout]_vars

\* While a delegation is cached an outage is not seen: no request goes without it,
\* and the refresh that fails leaves it cached.  resolver.go:268-276, README.md:220.
OutageNotSeen ==
  [][Live(entry) /\ entry.delegated \in Delegates /\ server \in Outages =>
       /\ entry'.delegated = entry.delegated
       /\ \A r \in Requests : Answered(r) => reply'[r] # None]_vars

\* Every request gets an answer, those waiting for the lock included.
RequestAnswered == \A r \in Requests : Active(r) ~> pc[r] = "done"

------------------------------------------------------------------------------
\* What documents and comments say, and the code does not keep to.

\* README.md:218: "no delegation" is cached for a host with no usable .well-known.
NoDelegationMeansUnusable ==
  [][entry'.left > entry.left /\ entry'.delegated = None =>
       server \in Troubles \/ \E r \in Requests : elapsed[r] = FetchTimeout]_vars

\* resolver.go:242-243: a dead .well-known is not fetched once per concurrent
\* request: those that wait for a fetch that fails do not fetch again.
DeadFetchedOnce == \A r \in failed : pc[r] \notin {"request", "sleep"}
==============================================================================
