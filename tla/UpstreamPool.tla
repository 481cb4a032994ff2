----------------------------- MODULE UpstreamPool -----------------------------
(***************************************************************************)
(* The pool of Synapse workers behind the reverse proxy (proxy.go): a      *)
(* request goes to the endpoint with the fewest requests in flight, and to *)
(* another if the connection is refused.  The counters are atomics read    *)
(* one at a time, so other requests come between any two of them.          *)
(*                                                                         *)
(* net/http's Transport closes a request's body whenever it returns an     *)
(* error, a refused connection included; what is sent of a closed body is  *)
(* cut short.                                                              *)
(*                                                                         *)
(* An operator whose name begins with Bug is a plausible slip in the code  *)
(* it stands next to.  No action uses one.                                 *)
(***************************************************************************)
EXTENDS Integers, FiniteSets

CONSTANTS
  N,         \* the number of endpoints configured
  Requests   \* proxied requests, each made once

ASSUME ConstantsAssumption == N \in Nat \ {0}

Endpoints == 0 .. N - 1    \* in the order of the configuration
None == -1

VARIABLES
  rr,        \* Proxy.rr, modulo N
  inflight,  \* upstreamEndpoint.inflight
  up,        \* the endpoints that accept connections
  pc,        \* the next step of each request
  scan,      \* pick's variables, per request
  target,    \* the endpoint it has picked
  tried,     \* RoundTrip's tried
  body,      \* its own body
  released,  \* the requests whose releasingBody has run its once
  reply,     \* how it ended
  gone,      \* the requests whose client has left
  seenBy,    \* history: the endpoints that have been sent (part of) it
  refused,   \* history: the endpoints that refused its connection
  quiet      \* history: the requests in whose pick no counter has changed yet

pool == <<rr, inflight>>
request == <<scan, target, tried, body, released, reply>>
vars == <<pool, up, pc, request, gone, seenBy, refused, quiet>>

------------------------------------------------------------------------------
\* The variables of pick: offset, i, best and bestLoad.
Scans == [offset : Endpoints, i : 0 .. N, best : Endpoints \cup {None},
          load : 0 .. Cardinality(Requests)]
NewScan(offset) == [offset |-> offset, i |-> 0, best |-> None, load |-> 0]

Steps == {"idle", "pick", "scan", "dispatch", "dial", "sent", "streaming", "closed", "done"}
InFlightSteps == {"dial", "sent", "streaming"}
Active(r) == pc[r] \notin {"idle", "done"}

TypeOK ==
  /\ rr \in Endpoints
  /\ inflight \in [Endpoints -> 0 .. Cardinality(Requests)]
  /\ up \subseteq Endpoints
  /\ pc \in [Requests -> Steps]
  /\ scan \in [Requests -> Scans]
  /\ target \in [Requests -> Endpoints \cup {None}]
  /\ tried \in [Requests -> SUBSET Endpoints]
  /\ body \in [Requests -> {"none", "open", "closed"}]
  /\ released \subseteq Requests
  /\ reply \in [Requests -> {"none", "answered", "failed", "unreachable"}]
  /\ gone \subseteq Requests
  /\ seenBy \in [Requests -> SUBSET Endpoints]
  /\ refused \in [Requests -> SUBSET Endpoints]
  /\ quiet \subseteq Requests

Init ==
  /\ rr = 0
  /\ inflight = [e \in Endpoints |-> 0]
  /\ up = Endpoints
  /\ pc = [r \in Requests |-> "idle"]
  /\ scan = [r \in Requests |-> NewScan(0)]
  /\ target = [r \in Requests |-> None]
  /\ tried = [r \in Requests |-> {}]
  /\ body = [r \in Requests |-> "none"]
  /\ released = {}
  /\ reply = [r \in Requests |-> "none"]
  /\ gone = {}
  /\ seenBy = [r \in Requests |-> {}]
  /\ refused = [r \in Requests |-> {}]
  /\ quiet = {}

Goto(r, step) == pc' = [pc EXCEPT ![r] = step]

\* ep.inflight.Add: a pick in progress is disturbed by it.
Add(e, n) ==
  /\ inflight' = [inflight EXCEPT ![e] = @ + n]
  /\ quiet' = {}

Finish(r, code) ==
  /\ Goto(r, "done")
  /\ reply' = [reply EXCEPT ![r] = code]

CloseBody(r) ==
  body' = [body EXCEPT ![r] = IF @ = "open" THEN "closed" ELSE @]

------------------------------------------------------------------------------
\* ServeHTTP: a GET has no body, an upload or an admin request may have one.
Arrive(r) ==
  /\ pc[r] = "idle"
  /\ \E b \in {"none", "open"} : body' = [body EXCEPT ![r] = b]
  /\ Goto(r, "pick")
  /\ UNCHANGED <<pool, up, scan, target, tried, released, reply, gone, seenBy, refused, quiet>>

\* pick: p.rr.Add(1), then the counters, one by one.
StartPick(r) ==
  /\ pc[r] = "pick"
  /\ rr' = (rr + 1) % N
  /\ scan' = [scan EXCEPT ![r] = NewScan(rr')]
  /\ quiet' = quiet \cup {r}
  /\ Goto(r, "scan")
  /\ UNCHANGED <<inflight, up, target, tried, body, released, reply, gone, seenBy, refused>>

BugBetter(load, s) == s.best = None \/ load <= s.load    \* a later one wins a tie

Better(load, s) == s.best = None \/ load < s.load

ReadLoad(r) ==
  /\ pc[r] = "scan" /\ scan[r].i < N
  /\ LET s == scan[r]
         e == (s.offset + s.i) % N
     IN scan' = [scan EXCEPT ![r] =
                   IF e \notin tried[r] /\ Better(inflight[e], s)
                   THEN [s EXCEPT !.i = @ + 1, !.best = e, !.load = inflight[e]]
                   ELSE [s EXCEPT !.i = @ + 1]]
  /\ UNCHANGED <<pool, up, pc, target, tried, body, released, reply, gone, seenBy, refused, quiet>>

EndPick(r) ==
  /\ pc[r] = "scan" /\ scan[r].i = N
  /\ target' = [target EXCEPT ![r] = scan[r].best]
  /\ Goto(r, "dispatch")
  /\ UNCHANGED <<pool, up, scan, tried, body, released, reply, gone, seenBy, refused, quiet>>

Dispatch(r) ==
  /\ pc[r] = "dispatch"
  /\ tried' = [tried EXCEPT ![r] = @ \cup {target[r]}]
  /\ Add(target[r], 1)
  /\ Goto(r, "dial")
  /\ UNCHANGED <<rr, up, scan, target, body, released, reply, gone, seenBy, refused>>

------------------------------------------------------------------------------
\* ep.transport.RoundTrip.

Connect(r) ==
  /\ pc[r] = "dial" /\ target[r] \in up
  /\ seenBy' = [seenBy EXCEPT ![r] = @ \cup {target[r]}]
  /\ Goto(r, "sent")
  /\ UNCHANGED <<pool, up, request, gone, refused, quiet>>

\* The loop over the endpoints ends when each has been tried once.
Exhausted(r) == tried[r] = Endpoints

\* isConnectError: the next endpoint, or the last error.
Refuse(r) ==
  /\ pc[r] = "dial" /\ target[r] \notin up
  /\ Add(target[r], -1)
  /\ CloseBody(r)
  /\ refused' = [refused EXCEPT ![r] = @ \cup {target[r]}]
  /\ IF Exhausted(r) THEN Finish(r, "unreachable")
                     ELSE Goto(r, "pick") /\ UNCHANGED reply
  /\ UNCHANGED <<rr, up, scan, target, tried, released, gone, seenBy>>

\* The endpoint died, the client left, or the body could not be read.
Broken(r) ==
  \/ pc[r] = "sent" /\ (target[r] \notin up \/ body[r] = "closed")
  \/ pc[r] \in {"dial", "sent"} /\ r \in gone

BugFail(r) ==                             \* every error is retried
  /\ Broken(r)
  /\ Add(target[r], -1)
  /\ CloseBody(r)
  /\ IF Exhausted(r) THEN Finish(r, "failed")
                     ELSE Goto(r, "pick") /\ UNCHANGED reply
  /\ UNCHANGED <<rr, up, scan, target, tried, released, gone, seenBy, refused>>

Fail(r) ==
  /\ Broken(r)
  /\ Add(target[r], -1)
  /\ CloseBody(r)
  /\ Finish(r, "failed")
  /\ UNCHANGED <<rr, up, scan, target, tried, released, gone, seenBy, refused>>

\* Any response, a 5xx included, ends the loop.
Respond(r) ==
  /\ pc[r] = "sent" /\ target[r] \in up
  /\ Goto(r, "streaming")
  /\ UNCHANGED <<pool, up, request, gone, seenBy, refused, quiet>>

------------------------------------------------------------------------------
\* releasingBody.Close, at the end of the response or when copying it fails.
\* A body may be closed more than once.

BugRelease(r) ==                          \* no sync.Once
  /\ Add(target[r], -1)
  /\ released' = released \cup {r}

Release(r) ==
  \/ /\ r \notin released
     /\ Add(target[r], -1)
     /\ released' = released \cup {r}
  \/ /\ r \in released
     /\ UNCHANGED <<inflight, quiet, released>>

CloseResponse(r) ==
  /\ pc[r] \in {"streaming", "closed"}
  /\ Release(r)
  /\ IF pc[r] = "streaming" THEN Goto(r, "closed") /\ UNCHANGED reply
                            ELSE Finish(r, "answered")
  /\ UNCHANGED <<rr, up, scan, target, tried, body, gone, seenBy, refused>>

EndRequest(r) ==
  /\ pc[r] = "closed"
  /\ Finish(r, "answered")
  /\ UNCHANGED <<pool, up, scan, target, tried, body, released, gone, seenBy, refused, quiet>>

------------------------------------------------------------------------------
\* The environment.

ClientLeaves(r) ==
  /\ Active(r) /\ r \notin gone
  /\ gone' = gone \cup {r}
  /\ UNCHANGED <<pool, up, pc, request, seenBy, refused, quiet>>

\* A Synapse worker stops, or is started again.
Toggle(e) ==
  /\ up' = IF e \in up THEN up \ {e} ELSE up \cup {e}
  /\ UNCHANGED <<pool, pc, request, gone, seenBy, refused, quiet>>

RequestStep(r) ==
  \/ StartPick(r) \/ ReadLoad(r) \/ EndPick(r) \/ Dispatch(r) \/ Connect(r) \/ Refuse(r)
  \/ Fail(r) \/ Respond(r) \/ CloseResponse(r) \/ EndRequest(r)

Next ==
  \/ \E r \in Requests : Arrive(r) \/ RequestStep(r) \/ ClientLeaves(r)
  \/ \E e \in Endpoints : Toggle(e)

Spec == Init /\ [][Next]_vars

------------------------------------------------------------------------------
\* Properties.

\* A counter is the number of requests its endpoint is busy with: from before the
\* connection is made until the response body is closed, once, on every path.
\* proxy.go:157-189, 206-216.
InflightAccounted ==
  \A e \in Endpoints :
    inflight[e] = Cardinality({r \in Requests : target[r] = e /\ pc[r] \in InFlightSteps})

\* A request is never sent to two endpoints: one that may have acted on it is the
\* last, whatever it answers or fails with.  proxy.go:137-142, 167-169.
SentToOne == \A r \in Requests : Cardinality(seenBy[r]) <= 1

\* pick finds an endpoint, one not tried yet, and if no counter moved under it the
\* least busy, the first after its offset among equals.  proxy.go:117-135.
PickIsLeastBusy ==
  \A r \in Requests : pc[r] = "dispatch" =>
    /\ target[r] \in Endpoints \ tried[r]
    /\ r \in quiet =>
         LET Distance(e) == (e - scan[r].offset + N) % N
         IN \A e \in Endpoints \ tried[r] :
              \/ inflight[target[r]] < inflight[e]
              \/ /\ inflight[target[r]] = inflight[e]
                 /\ Distance(target[r]) <= Distance(e)

------------------------------------------------------------------------------
\* What a document says, and the code does not keep to.

\* README.md:448: if an upstream cannot be reached, the request is retried against
\* another.  So it fails only because its client left, the endpoint it reached died,
\* or none can be reached.
RetryReachesAnother ==
  [][\A r \in Requests : reply'[r] = "failed" /\ reply[r] = "none" /\ refused[r] # {} =>
        r \in gone \/ target[r] \notin up]_vars
==============================================================================
