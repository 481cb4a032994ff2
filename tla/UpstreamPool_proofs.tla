------------------------- MODULE UpstreamPool_proofs -------------------------
(***************************************************************************)
(* Proofs about UpstreamPool for every number of endpoints and of          *)
(* requests: the counters count, a request reaches one endpoint at most,   *)
(* and a pick that nothing disturbs is of the least busy endpoint, the     *)
(* first of them after its offset.  The requests may be infinitely many:   *)
(* those in flight are not.                                                *)
(***************************************************************************)
EXTENDS UpstreamPool, FiniteSetTheorems, TLAPS

\* What TypeOK says of the variables that the properties are about, with no bound on the
\* counters: that follows from what they count.
PoolTypes ==
  /\ rr \in Endpoints
  /\ inflight \in [Endpoints -> Int]
  /\ pc \in [Requests -> Steps]
  /\ scan \in [Requests -> [offset : Endpoints, i : 0 .. N, best : Endpoints \cup {None},
                            load : Int]]
  /\ target \in [Requests -> Endpoints \cup {None}]
  /\ tried \in [Requests -> SUBSET Endpoints]
  /\ seenBy \in [Requests -> SUBSET Endpoints]
  /\ released \subseteq Requests

BeforeConnect == {"idle", "pick", "scan", "dispatch", "dial"}

\* Once a request has picked, it has an endpoint; until then one is left to try.
Targets ==
  \A r \in Requests :
    /\ pc[r] \in InFlightSteps \cup {"dispatch", "closed"} => target[r] \in Endpoints
    /\ pc[r] \in {"idle", "pick", "scan"} => tried[r] # Endpoints

Busy(e) == {r \in Requests : target[r] = e /\ pc[r] \in InFlightSteps}

\* A counter goes down once for every time it went up.
Counted == \A e \in Endpoints : IsFiniteSet(Busy(e)) /\ inflight[e] = Cardinality(Busy(e))

ReleasedOnce ==
  \A r \in Requests :
    /\ pc[r] \in BeforeConnect \cup InFlightSteps => r \notin released
    /\ pc[r] = "closed" => r \in released

\* What has been sent is not picked for again.
SentOnce ==
  \A r \in Requests :
    /\ pc[r] \in BeforeConnect => seenBy[r] = {}
    /\ seenBy[r] = {} \/ \E e \in Endpoints : seenBy[r] = {e}

\* How far an endpoint is from the first that a scan reads.
Far(s, e) == (e - s.offset + N) % N

Preferred(load, s, best, e) ==
  \/ load[best] < load[e]
  \/ load[best] = load[e] /\ Far(s, best) <= Far(s, e)

\* A scan has the best of the endpoints it has read, and what it read if none has changed.
ScanOf(s, skip, load, undisturbed) ==
  /\ s.best = None => \A e \in Endpoints \ skip : ~(Far(s, e) < s.i)
  /\ s.best # None =>
       /\ s.best \in Endpoints \ skip
       /\ Far(s, s.best) < s.i
       /\ undisturbed =>
            /\ s.load = load[s.best]
            /\ \A e \in Endpoints \ skip : Far(s, e) < s.i => Preferred(load, s, s.best, e)

Scanning ==
  \A r \in Requests : pc[r] = "scan" => ScanOf(scan[r], tried[r], inflight, r \in quiet)

\* What it ends with.
PickOf(s, best, skip, load, undisturbed) ==
  /\ best \in Endpoints \ skip
  /\ undisturbed => \A e \in Endpoints \ skip : Preferred(load, s, best, e)

Picked ==
  \A r \in Requests :
    pc[r] = "dispatch" => PickOf(scan[r], target[r], tried[r], inflight, r \in quiet)

\* The inductive invariant.
IInv ==
  PoolTypes /\ Targets /\ Counted /\ ReleasedOnce /\ SentOnce /\ Scanning /\ Picked
------------------------------------------------------------------------------
\* The endpoints in the order in which a scan reads them.

\* The remainder of a number that is not two rounds away.
LEMMA Remainder ==
  ASSUME NEW x \in 0 .. N + N - 1
  PROVE  x % N = IF x < N THEN x ELSE x - N
<1>1. N \in Nat /\ N > 0 /\ x \in Nat
  BY ConstantsAssumption
<1>2. CASE x < N
  BY <1>1, <1>2
<1>3. CASE x >= N
  <2>1. x = N * 1 + (x - N) /\ x - N \in 0 .. N - 1
    BY <1>1, <1>3
  <2>2. (N * 1 + (x - N)) % N = x - N
    BY <1>1, <2>1
  <2> QED BY <1>1, <1>3, <2>1, <2>2
<1> QED BY <1>1, <1>2, <1>3

LEMMA Distances ==
  ASSUME NEW s, s.offset \in Endpoints, NEW e \in Endpoints
  PROVE  /\ Far(s, e) \in 0 .. N - 1
         /\ Far(s, e) = IF s.offset <= e THEN e - s.offset ELSE e - s.offset + N
<1> DEFINE x == e - s.offset + N
<1>1. x \in 0 .. N + N - 1 /\ N \in Nat /\ e \in 0 .. N - 1 /\ s.offset \in 0 .. N - 1
  BY ConstantsAssumption DEF Endpoints
<1>2. Far(s, e) = x % N
  BY DEF Far
<1> HIDE DEF x
<1>3. x % N = IF x < N THEN x ELSE x - N
  BY <1>1, Remainder
<1> QED BY <1>1, <1>2, <1>3 DEF x

\* The next endpoint is the one that is as far as the scan has come, and no other is.
LEMMA NextRead ==
  ASSUME NEW s, s.offset \in Endpoints, s.i \in 0 .. N - 1
  PROVE  LET e == (s.offset + s.i) % N
         IN  e \in Endpoints /\ \A d \in Endpoints : Far(s, d) = s.i <=> d = e
<1> DEFINE e == (s.offset + s.i) % N
<1>1. s.offset + s.i \in 0 .. N + N - 1 /\ N \in Nat /\ s.offset \in 0 .. N - 1
  BY ConstantsAssumption DEF Endpoints
<1>2. e = IF s.offset + s.i < N THEN s.offset + s.i ELSE s.offset + s.i - N
  BY <1>1, Remainder
<1> HIDE DEF e
<1>3. e \in Endpoints
  BY <1>1, <1>2 DEF Endpoints
<1>4. ASSUME NEW d \in Endpoints PROVE Far(s, d) = s.i <=> d = e
  <2>1. Far(s, d) = IF s.offset <= d THEN d - s.offset ELSE d - s.offset + N
    BY Distances
  <2>2. d \in 0 .. N - 1
    BY DEF Endpoints
  <2> QED BY <1>1, <1>2, <2>1, <2>2
<1> QED BY <1>3, <1>4 DEF e

------------------------------------------------------------------------------
LEMMA InitIInv == Init => IInv
<1> SUFFICES ASSUME Init PROVE IInv
  OBVIOUS
<1>1. N \in Nat /\ 0 \in Endpoints /\ 0 \in 0 .. N
  BY ConstantsAssumption DEF Endpoints
<1>2. PoolTypes
  BY <1>1 DEF Init, PoolTypes, NewScan, Steps
<1>3. Targets /\ ReleasedOnce /\ SentOnce /\ Scanning /\ Picked
  BY <1>1 DEF Init, Targets, ReleasedOnce, SentOnce, Scanning, Picked, InFlightSteps, BeforeConnect
<1>4. Counted
  <2> SUFFICES ASSUME NEW e \in Endpoints
               PROVE  IsFiniteSet(Busy(e)) /\ inflight[e] = Cardinality(Busy(e))
    BY DEF Counted
  <2>1. Busy(e) = {}
    BY DEF Init, Busy, InFlightSteps
  <2> QED BY <2>1, FS_EmptySet DEF Init
<1> QED BY <1>2, <1>3, <1>4 DEF IInv

LEMMA TypesStep ==
  ASSUME PoolTypes, Targets, [Next]_vars
  PROVE  PoolTypes'
<1> USE DEF PoolTypes
<1>0. N \in Nat /\ N > 0
  BY ConstantsAssumption
<1>1. {"idle", "pick", "scan", "dispatch", "dial", "sent", "streaming", "closed", "done"} = Steps
  BY DEF Steps
<1>2. \A r \in Requests : \A step \in Steps : Goto(r, step) => pc' \in [Requests -> Steps]
  BY DEF Goto
<1>3. \A e : \A n \in Int : Add(e, n) => inflight' \in [Endpoints -> Int]
  <2> SUFFICES ASSUME NEW e, NEW n \in Int, Add(e, n) PROVE inflight' \in [Endpoints -> Int]
    OBVIOUS
  <2>1. CASE e \in Endpoints
    BY <2>1 DEF Add
  <2>2. CASE e \notin Endpoints
    BY <2>2 DEF Add
  <2> QED BY <2>1, <2>2
<1>10. ASSUME NEW r \in Requests, Arrive(r) PROVE PoolTypes'
  BY <1>1, <1>2, <1>10 DEF Arrive, pool
<1>11. ASSUME NEW r \in Requests, StartPick(r) PROVE PoolTypes'
  <2>1. rr' \in Endpoints
    BY <1>0, <1>11 DEF StartPick, Endpoints
  <2>2. NewScan(rr') \in [offset : Endpoints, i : 0 .. N, best : Endpoints \cup {None}, load : Int]
    BY <1>0, <2>1 DEF NewScan
  <2> QED BY <1>1, <1>2, <1>11, <2>1, <2>2 DEF StartPick
<1>12. ASSUME NEW r \in Requests, ReadLoad(r) PROVE PoolTypes'
  <2> DEFINE s == scan[r]
             e == (s.offset + s.i) % N
  <2>1. s.i \in 0 .. N - 1 /\ s.i + 1 \in 0 .. N /\ s.offset \in Endpoints
    BY <1>0, <1>12 DEF ReadLoad
  <2>2. e \in Endpoints
    BY <2>1, NextRead
  <2>3. s \in [offset : Endpoints, i : 0 .. N, best : Endpoints \cup {None}, load : Int]
    OBVIOUS
  <2>4. /\ scan' = [scan EXCEPT ![r] = IF e \notin tried[r] /\ Better(inflight[e], s)
                          THEN [s EXCEPT !.i = @ + 1, !.best = e, !.load = inflight[e]]
                          ELSE [s EXCEPT !.i = @ + 1]]
        /\ UNCHANGED <<pool, pc, target, tried, seenBy, released>>
    BY <1>12 DEF ReadLoad
  <2> HIDE DEF s, e
  <2>5. /\ [s EXCEPT !.i = @ + 1, !.best = e, !.load = inflight[e]]
             \in [offset : Endpoints, i : 0 .. N, best : Endpoints \cup {None}, load : Int]
        /\ [s EXCEPT !.i = @ + 1]
             \in [offset : Endpoints, i : 0 .. N, best : Endpoints \cup {None}, load : Int]
    BY <2>1, <2>2, <2>3
  <2>6. scan' \in [Requests -> [offset : Endpoints, i : 0 .. N, best : Endpoints \cup {None}, load : Int]]
    BY <2>4, <2>5
  <2> QED BY <2>4, <2>6 DEF pool
<1>13. ASSUME NEW r \in Requests, EndPick(r) PROVE PoolTypes'
  BY <1>1, <1>2, <1>13 DEF EndPick, pool
<1>14. ASSUME NEW r \in Requests, Dispatch(r) PROVE PoolTypes'
  <2>1. target[r] \in Endpoints
    BY <1>14 DEF Dispatch, Targets
  <2>2. tried' \in [Requests -> SUBSET Endpoints]
    BY <1>14, <2>1 DEF Dispatch
  <2> QED BY <1>1, <1>2, <1>3, <1>14, <2>1, <2>2 DEF Dispatch
<1>15. ASSUME NEW r \in Requests, Connect(r) PROVE PoolTypes'
  <2>1. target[r] \in Endpoints
    BY <1>15 DEF Connect, Targets, InFlightSteps
  <2>2. seenBy' \in [Requests -> SUBSET Endpoints]
    BY <1>15, <2>1 DEF Connect
  <2> QED BY <1>1, <1>2, <1>15, <2>2 DEF Connect, pool, request
<1>16. ASSUME NEW r \in Requests, Refuse(r) \/ Fail(r) PROVE PoolTypes'
  <2>1. inflight' \in [Endpoints -> Int]
    BY <1>3, <1>16 DEF Refuse, Fail
  <2>2. pc' \in [Requests -> Steps]
    BY <1>1, <1>2, <1>16 DEF Refuse, Fail, Finish
  <2> QED BY <1>16, <2>1, <2>2 DEF Refuse, Fail
<1>17. ASSUME NEW r \in Requests, Respond(r) \/ EndRequest(r) PROVE PoolTypes'
  BY <1>1, <1>2, <1>17 DEF Respond, EndRequest, Finish, pool, request
<1>18. ASSUME NEW r \in Requests, CloseResponse(r) PROVE PoolTypes'
  <2>1. inflight' \in [Endpoints -> Int] /\ released' \subseteq Requests
    BY <1>3, <1>18 DEF CloseResponse, Release
  <2>2. pc' \in [Requests -> Steps]
    BY <1>1, <1>2, <1>18 DEF CloseResponse, Finish
  <2> QED BY <1>18, <2>1, <2>2 DEF CloseResponse
<1>19. ASSUME NEW r \in Requests, ClientLeaves(r) PROVE PoolTypes'
  BY <1>19 DEF ClientLeaves, pool, request
<1>20. ASSUME NEW e \in Endpoints, Toggle(e) PROVE PoolTypes'
  BY <1>20 DEF Toggle, pool, request
<1>21. CASE UNCHANGED vars
  BY <1>21 DEF vars, pool, request
<1> QED BY <1>10, <1>11, <1>12, <1>13, <1>14, <1>15, <1>16, <1>17, <1>18, <1>19, <1>20, <1>21
        DEF Next, RequestStep

\* A step of a request leaves the steps of the others where they are.
LEMMA Moved ==
  ASSUME PoolTypes, NEW r \in Requests
  PROVE  /\ \A step : Goto(r, step) => pc'[r] = step /\ \A q \in Requests \ {r} : pc'[q] = pc[q]
         /\ \A code : Finish(r, code) => pc'[r] = "done" /\ \A q \in Requests \ {r} : pc'[q] = pc[q]
BY DEF PoolTypes, Goto, Finish

\* proxy.go:137-142: there is an endpoint to pick for as long as not all are tried.
LEMMA TargetsStep ==
  ASSUME PoolTypes, Targets, Picked, Scanning, [Next]_vars
  PROVE  Targets'
<1> USE DEF Targets, InFlightSteps
<1>1. ASSUME NEW r \in Requests,
             Arrive(r) \/ StartPick(r) \/ ReadLoad(r) \/ Connect(r) \/ Refuse(r) \/ Fail(r)
               \/ Respond(r) \/ CloseResponse(r) \/ EndRequest(r)
      PROVE  Targets'
  <2>1. UNCHANGED <<target, tried>>
    BY <1>1 DEF Arrive, StartPick, ReadLoad, Connect, Refuse, Fail, Respond, CloseResponse,
                EndRequest, request
  <2>2. \A q \in Requests \ {r} : pc'[q] = pc[q]
    BY <1>1, Moved DEF Arrive, StartPick, ReadLoad, Connect, Refuse, Fail, Respond, CloseResponse,
                EndRequest
  <2>3. pc'[r] \in InFlightSteps \cup {"dispatch", "closed"} =>
          pc[r] \in InFlightSteps \cup {"dispatch", "closed"}
    BY <1>1, Moved DEF Arrive, StartPick, ReadLoad, Connect, Refuse, Fail, Respond, CloseResponse,
                EndRequest
  <2>4. pc'[r] \in {"idle", "pick", "scan"} => tried[r] # Endpoints
    BY <1>1, Moved DEF Arrive, StartPick, ReadLoad, Connect, Refuse, Fail, Respond, CloseResponse,
                EndRequest, Exhausted
  <2> QED BY <2>1, <2>2, <2>3, <2>4
<1>2. ASSUME NEW r \in Requests, EndPick(r) PROVE Targets'
  <2>1. scan[r].best \in Endpoints
    <3>1. pc[r] = "scan" /\ scan[r].i = N /\ scan[r].offset \in Endpoints /\ tried[r] \subseteq Endpoints
      BY <1>2 DEF EndPick, PoolTypes
    <3>2. PICK e \in Endpoints : e \notin tried[r]
      BY <3>1
    <3>3. Far(scan[r], e) < scan[r].i
      BY <3>1, Distances, ConstantsAssumption
    <3> QED BY <3>1, <3>2, <3>3 DEF Scanning, ScanOf
  <2>2. target'[r] \in Endpoints /\ \A q \in Requests \ {r} : target'[q] = target[q]
    BY <1>2, <2>1 DEF EndPick, PoolTypes
  <2> QED BY <1>2, <2>2, Moved DEF EndPick
<1>3. ASSUME NEW r \in Requests, Dispatch(r) PROVE Targets'
  <2>1. \A q \in Requests \ {r} : tried'[q] = tried[q]
    BY <1>3 DEF Dispatch, PoolTypes
  <2> QED BY <1>3, <2>1, Moved DEF Dispatch
<1>4. CASE (\E r \in Requests : ClientLeaves(r)) \/ (\E e \in Endpoints : Toggle(e)) \/ UNCHANGED vars
  BY <1>4 DEF ClientLeaves, Toggle, vars, request
<1> QED BY <1>1, <1>2, <1>3, <1>4 DEF Next, RequestStep

\* proxy.go:206-216.
LEMMA ReleasedStep ==
  ASSUME PoolTypes, ReleasedOnce, [Next]_vars
  PROVE  ReleasedOnce'
<1> USE DEF ReleasedOnce, InFlightSteps, BeforeConnect
<1>1. ASSUME NEW r \in Requests, RequestStep(r) \/ Arrive(r), ~CloseResponse(r) PROVE ReleasedOnce'
  <2>1. UNCHANGED released
    BY <1>1 DEF RequestStep, Arrive, StartPick, ReadLoad, EndPick, Dispatch, Connect, Refuse, Fail,
                Respond, EndRequest, request
  <2>2. \A q \in Requests \ {r} : pc'[q] = pc[q]
    BY <1>1, Moved DEF RequestStep, Arrive, StartPick, ReadLoad, EndPick, Dispatch, Connect, Refuse,
                Fail, Respond, EndRequest
  <2>3. /\ pc'[r] # "closed"
        /\ pc'[r] \in BeforeConnect \cup InFlightSteps => pc[r] \in BeforeConnect \cup InFlightSteps
    BY <1>1, Moved DEF RequestStep, Arrive, StartPick, ReadLoad, EndPick, Dispatch, Connect, Refuse,
                Fail, Respond, EndRequest, Broken
  <2> QED BY <2>1, <2>2, <2>3
<1>2. ASSUME NEW r \in Requests, CloseResponse(r) PROVE ReleasedOnce'
  <2>1. released' = released \cup {r}
    BY <1>2 DEF CloseResponse, Release
  <2>2. pc'[r] \in {"closed", "done"} /\ \A q \in Requests \ {r} : pc'[q] = pc[q]
    BY <1>2, Moved DEF CloseResponse
  <2> QED BY <2>1, <2>2
<1>3. CASE (\E r \in Requests : ClientLeaves(r)) \/ (\E e \in Endpoints : Toggle(e)) \/ UNCHANGED vars
  BY <1>3 DEF ClientLeaves, Toggle, vars, request
<1> QED BY <1>1, <1>2, <1>3 DEF Next

\* proxy.go:167-169: only a refused connection is tried again.
LEMMA SentStep ==
  ASSUME PoolTypes, Targets, SentOnce, [Next]_vars
  PROVE  SentOnce'
<1> USE DEF SentOnce, BeforeConnect
<1>1. ASSUME NEW r \in Requests, RequestStep(r) \/ Arrive(r), ~Connect(r) PROVE SentOnce'
  <2>1. UNCHANGED seenBy
    BY <1>1 DEF RequestStep, Arrive, StartPick, ReadLoad, EndPick, Dispatch, Refuse, Fail, Respond,
                CloseResponse, EndRequest
  <2>2. \A q \in Requests \ {r} : pc'[q] = pc[q]
    BY <1>1, Moved DEF RequestStep, Arrive, StartPick, ReadLoad, EndPick, Dispatch, Refuse, Fail,
                Respond, CloseResponse, EndRequest
  <2>3. pc'[r] \in BeforeConnect => pc[r] \in BeforeConnect
    BY <1>1, Moved DEF RequestStep, Arrive, StartPick, ReadLoad, EndPick, Dispatch, Refuse, Fail,
                Respond, CloseResponse, EndRequest
  <2> QED BY <2>1, <2>2, <2>3
<1>2. ASSUME NEW r \in Requests, Connect(r) PROVE SentOnce'
  <2>1. pc[r] = "dial" /\ target[r] \in Endpoints /\ seenBy[r] = {}
    BY <1>2 DEF Connect, Targets, InFlightSteps
  <2>2. seenBy'[r] = {target[r]} /\ \A q \in Requests \ {r} : seenBy'[q] = seenBy[q]
    BY <1>2, <2>1 DEF Connect, PoolTypes
  <2>3. pc'[r] = "sent" /\ \A q \in Requests \ {r} : pc'[q] = pc[q]
    BY <1>2, Moved DEF Connect
  <2> QED BY <2>1, <2>2, <2>3
<1>3. CASE (\E r \in Requests : ClientLeaves(r)) \/ (\E e \in Endpoints : Toggle(e)) \/ UNCHANGED vars
  BY <1>3 DEF ClientLeaves, Toggle, vars
<1> QED BY <1>1, <1>2, <1>3 DEF Next

------------------------------------------------------------------------------
\* The counters.

InFlight(r) == pc[r] \in InFlightSteps

\* No request begins or ends to be in flight.
LEMMA SameCount ==
  ASSUME Counted, UNCHANGED inflight,
         \A q \in Requests : InFlight(q)' <=> InFlight(q),
         \A q \in Requests : InFlight(q) => target'[q] = target[q]
  PROVE  Counted'
<1>1. \A e \in Endpoints : Busy(e)' = Busy(e)
  BY DEF Busy, InFlight
<1> QED BY <1>1 DEF Counted

\* One request begins to be in flight, and its endpoint's counter goes up.
LEMMA CountsUp ==
  ASSUME PoolTypes, Counted, NEW r \in Requests, target[r] \in Endpoints, UNCHANGED target,
         ~InFlight(r), InFlight(r)', \A q \in Requests \ {r} : pc'[q] = pc[q],
         Add(target[r], 1)
  PROVE  Counted'
<1>1. /\ inflight'[target[r]] = inflight[target[r]] + 1
      /\ \A e \in Endpoints \ {target[r]} : inflight'[e] = inflight[e]
  BY DEF Add, PoolTypes
<1>2. r \notin Busy(target[r]) /\ Busy(target[r])' = Busy(target[r]) \cup {r}
  BY DEF Busy, InFlight
<1>3. \A e \in Endpoints \ {target[r]} : Busy(e)' = Busy(e)
  BY DEF Busy, InFlight
<1>4. IsFiniteSet(Busy(target[r])) /\ inflight[target[r]] = Cardinality(Busy(target[r]))
  BY DEF Counted
<1>5. IsFiniteSet(Busy(target[r])') /\ inflight'[target[r]] = Cardinality(Busy(target[r])')
  <2>1. /\ IsFiniteSet(Busy(target[r]) \cup {r})
        /\ Cardinality(Busy(target[r]) \cup {r}) = Cardinality(Busy(target[r])) + 1
    BY <1>2, <1>4, FS_AddElement
  <2> QED BY <1>1, <1>2, <1>4, <2>1
<1>6. ASSUME NEW e \in Endpoints
      PROVE  IsFiniteSet(Busy(e)') /\ inflight'[e] = Cardinality(Busy(e)')
  <2>1. CASE e = target[r]
    BY <1>5, <2>1
  <2>2. CASE e # target[r]
    BY <1>1, <1>3, <2>2 DEF Counted
  <2> QED BY <2>1, <2>2
<1> QED BY <1>6 DEF Counted

\* One request ends to be in flight, and its endpoint's counter goes down.
LEMMA CountsDown ==
  ASSUME PoolTypes, Counted, NEW r \in Requests, target[r] \in Endpoints, UNCHANGED target,
         InFlight(r), ~InFlight(r)', \A q \in Requests \ {r} : pc'[q] = pc[q],
         Add(target[r], -1)
  PROVE  Counted'
<1>1. /\ inflight'[target[r]] = inflight[target[r]] - 1
      /\ \A e \in Endpoints \ {target[r]} : inflight'[e] = inflight[e]
  BY DEF Add, PoolTypes
<1>2. r \in Busy(target[r]) /\ Busy(target[r])' = Busy(target[r]) \ {r}
  BY DEF Busy, InFlight
<1>3. \A e \in Endpoints \ {target[r]} : Busy(e)' = Busy(e)
  BY DEF Busy, InFlight
<1>4. IsFiniteSet(Busy(target[r])) /\ inflight[target[r]] = Cardinality(Busy(target[r]))
  BY DEF Counted
<1>5. IsFiniteSet(Busy(target[r])') /\ inflight'[target[r]] = Cardinality(Busy(target[r])')
  <2>1. /\ IsFiniteSet(Busy(target[r]) \ {r})
        /\ Cardinality(Busy(target[r]) \ {r}) = Cardinality(Busy(target[r])) - 1
    BY <1>2, <1>4, FS_RemoveElement
  <2> QED BY <1>1, <1>2, <1>4, <2>1
<1>6. ASSUME NEW e \in Endpoints
      PROVE  IsFiniteSet(Busy(e)') /\ inflight'[e] = Cardinality(Busy(e)')
  <2>1. CASE e = target[r]
    BY <1>5, <2>1
  <2>2. CASE e # target[r]
    BY <1>1, <1>3, <2>2 DEF Counted
  <2> QED BY <2>1, <2>2
<1> QED BY <1>6 DEF Counted

\* proxy.go:157-189.
LEMMA CountedStep ==
  ASSUME PoolTypes, Targets, Counted, ReleasedOnce, [Next]_vars
  PROVE  Counted'
<1>1. ASSUME NEW r \in Requests,
             Arrive(r) \/ StartPick(r) \/ ReadLoad(r) \/ EndPick(r) \/ Connect(r) \/ Respond(r)
               \/ EndRequest(r)
      PROVE  Counted'
  <2>1. UNCHANGED inflight
    BY <1>1 DEF Arrive, StartPick, ReadLoad, EndPick, Connect, Respond, EndRequest, pool
  <2>2. \A q \in Requests \ {r} : pc'[q] = pc[q] /\ target'[q] = target[q]
    BY <1>1, Moved DEF Arrive, StartPick, ReadLoad, EndPick, Connect, Respond, EndRequest, request,
                       PoolTypes
  <2>3. (InFlight(r)' <=> InFlight(r)) /\ (InFlight(r) => target'[r] = target[r])
    BY <1>1, Moved DEF Arrive, StartPick, ReadLoad, EndPick, Connect, Respond, EndRequest, request,
                       InFlight, InFlightSteps
  <2>4. \A q \in Requests : InFlight(q)' <=> InFlight(q)
    BY <2>2, <2>3 DEF InFlight
  <2>5. \A q \in Requests : InFlight(q) => target'[q] = target[q]
    BY <2>2, <2>3
  <2> QED BY <2>1, <2>4, <2>5, SameCount
<1>2. ASSUME NEW r \in Requests, Dispatch(r) PROVE Counted'
  <2>1. target[r] \in Endpoints /\ UNCHANGED target /\ Add(target[r], 1)
    BY <1>2 DEF Dispatch, Targets
  <2>2. ~InFlight(r) /\ InFlight(r)' /\ \A q \in Requests \ {r} : pc'[q] = pc[q]
    BY <1>2, Moved DEF Dispatch, InFlight, InFlightSteps
  <2> QED BY <2>1, <2>2, CountsUp
<1>3. ASSUME NEW r \in Requests, Refuse(r) \/ Fail(r) PROVE Counted'
  <2>1. pc[r] \in {"dial", "sent"}
    BY <1>3 DEF Refuse, Fail, Broken
  <2>2. target[r] \in Endpoints /\ UNCHANGED target /\ Add(target[r], -1)
    BY <1>3, <2>1 DEF Refuse, Fail, Targets, InFlightSteps
  <2>3. InFlight(r) /\ ~InFlight(r)' /\ \A q \in Requests \ {r} : pc'[q] = pc[q]
    BY <1>3, <2>1, Moved DEF Refuse, Fail, InFlight, InFlightSteps
  <2> QED BY <2>2, <2>3, CountsDown
<1>4. ASSUME NEW r \in Requests, CloseResponse(r) PROVE Counted'
  <2>1. UNCHANGED target /\ \A q \in Requests \ {r} : pc'[q] = pc[q]
    BY <1>4, Moved DEF CloseResponse
  <2>2. CASE pc[r] = "streaming"
    <3>1. target[r] \in Endpoints /\ Add(target[r], -1)
      BY <1>4, <2>2 DEF CloseResponse, Release, ReleasedOnce, Targets, InFlightSteps
    <3>2. InFlight(r) /\ ~InFlight(r)'
      BY <1>4, <2>2, Moved DEF CloseResponse, InFlight, InFlightSteps
    <3> QED BY <2>1, <3>1, <3>2, CountsDown
  <2>3. CASE pc[r] = "closed"
    <3>1. UNCHANGED inflight
      BY <1>4, <2>3 DEF CloseResponse, Release, ReleasedOnce
    <3>2. ~InFlight(r) /\ ~InFlight(r)'
      BY <1>4, <2>3, Moved DEF CloseResponse, InFlight, InFlightSteps
    <3>3. \A q \in Requests : InFlight(q)' <=> InFlight(q)
      BY <2>1, <3>2 DEF InFlight
    <3> QED BY <2>1, <3>1, <3>3, SameCount
  <2> QED BY <1>4, <2>2, <2>3 DEF CloseResponse
<1>5. CASE (\E r \in Requests : ClientLeaves(r)) \/ (\E e \in Endpoints : Toggle(e)) \/ UNCHANGED vars
  <2>1. UNCHANGED <<inflight, pc, target>>
    BY <1>5 DEF ClientLeaves, Toggle, vars, pool, request
  <2> QED BY <2>1, SameCount DEF InFlight
<1> QED BY <1>1, <1>2, <1>3, <1>4, <1>5 DEF Next, RequestStep

------------------------------------------------------------------------------
\* The scan.

Unfinished(s) == s.i < N

\* ReadLoad's value of scan[r].
ReadNext(s, skip, load) ==
  LET e == (s.offset + s.i) % N
  IN  IF e \notin skip /\ Better(load[e], s)
      THEN [s EXCEPT !.i = @ + 1, !.best = e, !.load = load[e]]
      ELSE [s EXCEPT !.i = @ + 1]

\* proxy.go:123-133: one more endpoint is read, and is the best if it has fewer requests
\* than the best so far.
LEMMA ReadsOne ==
  ASSUME NEW s \in [offset : Endpoints, i : 0 .. N, best : Endpoints \cup {None}, load : Int],
         Unfinished(s), NEW skip, NEW load \in [Endpoints -> Int], NEW undisturbed \in BOOLEAN,
         ScanOf(s, skip, load, undisturbed)
  PROVE  ScanOf(ReadNext(s, skip, load), skip, load, undisturbed)
<1> DEFINE e == (s.offset + s.i) % N
           t == ReadNext(s, skip, load)
<1>0. N \in Nat /\ None \notin Endpoints /\ s.i < N
  BY ConstantsAssumption DEF None, Endpoints, Unfinished
<1>1. e \in Endpoints /\ \A d \in Endpoints : Far(s, d) = s.i <=> d = e
  BY <1>0, NextRead
<1>2. t.offset = s.offset /\ t.i = s.i + 1
  BY DEF ReadNext
<1>3. \A d : Far(t, d) = Far(s, d)
  BY <1>2 DEF Far
<1>4. /\ e \notin skip /\ Better(load[e], s) => t.best = e /\ t.load = load[e]
      /\ ~(e \notin skip /\ Better(load[e], s)) => t.best = s.best /\ t.load = s.load
  BY DEF ReadNext
<1> SUFFICES ScanOf(t, skip, load, undisturbed)
  OBVIOUS
<1> HIDE DEF e, t
<1>5. \A d \in Endpoints : Far(s, d) \in 0 .. N - 1
  BY Distances
<1>6. \A d \in Endpoints : Far(t, d) < t.i <=> (Far(s, d) < s.i \/ d = e)
  BY <1>0, <1>1, <1>2, <1>3, <1>5
<1>7. CASE e \notin skip /\ Better(load[e], s)
  <2>1. t.best = e /\ t.load = load[e] /\ e \in Endpoints \ skip /\ t.best # None
    BY <1>0, <1>1, <1>4, <1>7
  <2>2. Far(t, t.best) < t.i
    BY <1>1, <1>6, <2>1
  <2>3. ASSUME undisturbed, NEW d \in Endpoints \ skip, Far(t, d) < t.i
        PROVE  Preferred(load, t, e, d)
    <3>1. CASE d = e
      BY <1>3, <1>5, <3>1 DEF Preferred
    <3>2. CASE d # e
      <4>1. Far(s, d) < s.i
        BY <1>6, <2>3, <3>2
      <4>2. s.best # None
        BY <2>3, <4>1 DEF ScanOf
      <4>3. s.best \in Endpoints /\ s.load = load[s.best] /\ Preferred(load, s, s.best, d)
        BY <2>3, <4>1, <4>2 DEF ScanOf
      <4>4. load[e] < load[s.best]
        BY <1>7, <4>2, <4>3 DEF Better
      <4>5. load[e] \in Int /\ load[d] \in Int /\ load[s.best] \in Int
        BY <1>1, <4>3
      <4> QED BY <4>3, <4>4, <4>5 DEF Preferred
    <3> QED BY <3>1, <3>2
  <2>4. undisturbed => \A d \in Endpoints \ skip : Far(t, d) < t.i => Preferred(load, t, t.best, d)
    BY <2>1, <2>3
  <2>5. undisturbed => t.load = load[t.best]
    BY <2>1
  <2> QED BY <2>1, <2>2, <2>4, <2>5, Zenon DEF ScanOf
<1>8. CASE ~(e \notin skip /\ Better(load[e], s))
  <2>1. t.best = s.best /\ t.load = s.load
    BY <1>4, <1>8
  <2>2. CASE s.best = None
    <3>1. e \in skip
      BY <1>8, <2>2 DEF Better
    <3>2. \A d \in Endpoints \ skip : ~(Far(s, d) < s.i)
      BY <2>2 DEF ScanOf
    <3>3. \A d \in Endpoints \ skip : ~(Far(t, d) < t.i)
      BY <1>6, <3>1, <3>2
    <3>4. t.best = None
      BY <2>1, <2>2
    <3> QED BY <3>3, <3>4, Zenon DEF ScanOf
  <2>3. CASE s.best # None
    <3>1. s.best \in Endpoints \ skip /\ Far(s, s.best) < s.i /\ Far(t, t.best) < t.i
      BY <1>6, <2>1, <2>3 DEF ScanOf
    <3>2. ASSUME undisturbed, NEW d \in Endpoints \ skip, Far(t, d) < t.i
          PROVE  Preferred(load, t, s.best, d)
      <4>1. CASE Far(s, d) < s.i
        BY <1>3, <2>3, <3>2, <4>1 DEF ScanOf, Preferred
      <4>2. CASE d = e
        <5>1. s.load = load[s.best] /\ ~(load[e] < s.load)
          BY <1>8, <2>3, <3>2, <4>2 DEF ScanOf, Better
        <5>2. load[e] \in Int /\ load[s.best] \in Int /\ Far(s, e) = s.i /\ Far(s, s.best) < s.i
              /\ Far(s, s.best) \in 0 .. N - 1
          BY <1>1, <1>5, <3>1
        <5> QED BY <1>3, <4>2, <5>1, <5>2 DEF Preferred
      <4> QED BY <1>6, <3>2, <4>1, <4>2
    <3>3. t.best # None /\ t.best \in Endpoints \ skip
      BY <2>1, <2>3, <3>1
    <3>4. undisturbed => \A d \in Endpoints \ skip : Far(t, d) < t.i => Preferred(load, t, t.best, d)
      BY <2>1, <3>2
    <3>5. undisturbed => t.load = load[t.best]
      BY <2>1, <2>3 DEF ScanOf
    <3> QED BY <3>1, <3>3, <3>4, <3>5, Zenon DEF ScanOf
  <2> QED BY <2>2, <2>3
<1> QED BY <1>7, <1>8

\* A scan that has read every endpoint, and there is one to try, has the best of them.
LEMMA ReadsAll ==
  ASSUME NEW s \in [offset : Endpoints, i : 0 .. N, best : Endpoints \cup {None}, load : Int],
         s.i = N, NEW skip \in SUBSET Endpoints, skip # Endpoints,
         NEW load, NEW undisturbed \in BOOLEAN, ScanOf(s, skip, load, undisturbed)
  PROVE  PickOf(s, s.best, skip, load, undisturbed)
<1>1. \A d \in Endpoints : Far(s, d) < s.i
  BY Distances, ConstantsAssumption
<1>2. s.best # None
  BY <1>1 DEF ScanOf
<1> QED BY <1>1, <1>2 DEF ScanOf, PickOf

\* A pick in progress is undisturbed only if no counter has changed.
Watched ==
  /\ quiet' # {} => UNCHANGED inflight
  /\ \A q \in Requests : q \in quiet' => q \in quiet \/ pc[q] = "pick"

LEMMA WatchedStep ==
  ASSUME PoolTypes, [Next]_vars
  PROVE  Watched
<1>1. ASSUME NEW r \in Requests, Arrive(r) \/ RequestStep(r) \/ ClientLeaves(r) PROVE Watched
  BY <1>1 DEF Watched, RequestStep, Arrive, StartPick, ReadLoad, EndPick, Dispatch, Connect, Refuse,
     Fail, Respond, CloseResponse, Release, EndRequest, ClientLeaves, Add, pool
<1>2. CASE (\E e \in Endpoints : Toggle(e)) \/ UNCHANGED vars
  BY <1>2 DEF Watched, Toggle, vars, pool
<1> QED BY <1>1, <1>2 DEF Next

\* The requests whose pick is as it was.
StaysPicking(q) ==
  /\ pc'[q] = pc[q] /\ scan'[q] = scan[q] /\ tried'[q] = tried[q] /\ target'[q] = target[q]

LEMMA OthersStay ==
  ASSUME PoolTypes, NEW r \in Requests, Arrive(r) \/ RequestStep(r) \/ ClientLeaves(r)
  PROVE  \A q \in Requests \ {r} : StaysPicking(q)
<1>1. \A q \in Requests \ {r} : pc'[q] = pc[q]
  BY Moved DEF RequestStep, Arrive, StartPick, ReadLoad, EndPick, Dispatch, Connect, Refuse, Fail,
     Respond, CloseResponse, EndRequest, ClientLeaves
<1>2. \A q \in Requests \ {r} : scan'[q] = scan[q]
  BY DEF PoolTypes, RequestStep, Arrive, StartPick, ReadLoad, EndPick, Dispatch, Connect, Refuse, Fail,
     Respond, CloseResponse, EndRequest, ClientLeaves, request
<1>3. \A q \in Requests \ {r} : tried'[q] = tried[q] /\ target'[q] = target[q]
  BY DEF PoolTypes, RequestStep, Arrive, StartPick, ReadLoad, EndPick, Dispatch, Connect, Refuse, Fail,
     Respond, CloseResponse, EndRequest, ClientLeaves, request
<1> QED BY <1>1, <1>2, <1>3 DEF StaysPicking

\* What is known of the pick of one request.
PickInv(q) ==
  /\ pc[q] = "scan" => ScanOf(scan[q], tried[q], inflight, q \in quiet)
  /\ pc[q] = "dispatch" => PickOf(scan[q], target[q], tried[q], inflight, q \in quiet)

LEMMA PickStays ==
  ASSUME Watched, NEW q \in Requests, PickInv(q), StaysPicking(q)
  PROVE  PickInv(q)'
<1>1. pc[q] \in {"scan", "dispatch"} => (q \in quiet' => q \in quiet /\ inflight' = inflight)
  BY DEF Watched
<1>2. ASSUME pc[q] = "scan" PROVE ScanOf(scan[q], tried[q], inflight', q \in quiet')
  <2>1. ScanOf(scan[q], tried[q], inflight, q \in quiet)
    BY <1>2 DEF PickInv
  <2> QED BY <1>1, <1>2, <2>1 DEF ScanOf
<1>3. ASSUME pc[q] = "dispatch" PROVE PickOf(scan[q], target[q], tried[q], inflight', q \in quiet')
  <2>1. PickOf(scan[q], target[q], tried[q], inflight, q \in quiet)
    BY <1>3 DEF PickInv
  <2> QED BY <1>1, <1>3, <2>1 DEF PickOf
<1>4. pc'[q] = pc[q] /\ scan'[q] = scan[q] /\ tried'[q] = tried[q] /\ target'[q] = target[q]
  BY DEF StaysPicking
<1>5. pc'[q] = "scan" => ScanOf(scan'[q], tried'[q], inflight', q \in quiet')
  BY <1>2, <1>4
<1>6. pc'[q] = "dispatch" => PickOf(scan'[q], target'[q], tried'[q], inflight', q \in quiet')
  BY <1>3, <1>4
<1> QED BY <1>5, <1>6 DEF PickInv, ScanOf, PickOf, Preferred, Far

\* proxy.go:117-135.
LEMMA PickStep ==
  ASSUME PoolTypes, Targets, Scanning, Picked, [Next]_vars
  PROVE  Scanning' /\ Picked'
<1>1. \A q \in Requests : PickInv(q)
  BY DEF Scanning, Picked, PickInv
<1>2. Watched
  BY WatchedStep
<1>3. ASSUME NEW r \in Requests, Arrive(r) \/ RequestStep(r) \/ ClientLeaves(r)
      PROVE  \A q \in Requests : PickInv(q)'
  <2>1. \A q \in Requests \ {r} : PickInv(q)'
    BY <1>1, <1>2, <1>3, OthersStay, PickStays
  <2>2. CASE StartPick(r)
    <3>1. pc'[r] = "scan" /\ scan'[r] = NewScan(rr')
      BY <2>2, Moved DEF StartPick, PoolTypes
    <3>2. rr' \in Endpoints /\ N \in Nat /\ N > 0
      BY <2>2, ConstantsAssumption DEF StartPick, PoolTypes, Endpoints
    <3>3. \A e \in Endpoints : ~(Far(NewScan(rr'), e) < NewScan(rr').i)
      <4> SUFFICES ASSUME NEW e \in Endpoints PROVE ~(Far(NewScan(rr'), e) < 0)
        BY DEF NewScan
      <4>1. NewScan(rr').offset \in Endpoints
        BY <3>2 DEF NewScan
      <4>2. Far(NewScan(rr'), e) \in 0 .. N - 1
        BY <4>1, Distances
      <4> QED BY <4>2
    <3>4. NewScan(rr').best = None
      BY DEF NewScan
    <3> QED BY <2>1, <3>1, <3>3, <3>4 DEF PickInv, ScanOf
  <2>3. CASE ReadLoad(r)
    <3> DEFINE s == scan[r]
               t == ReadNext(s, tried[r], inflight)
    <3>1. /\ pc[r] = "scan" /\ s.i < N /\ scan'[r] = t
          /\ UNCHANGED <<inflight, pc, tried, quiet>>
      <4>1. /\ pc[r] = "scan" /\ s.i < N /\ scan' = [scan EXCEPT ![r] = t]
            /\ UNCHANGED <<inflight, pc, tried, quiet>>
        BY <2>3 DEF ReadLoad, ReadNext, pool, PoolTypes
      <4> HIDE DEF t
      <4> QED BY <4>1 DEF PoolTypes
    <3>2. ScanOf(s, tried[r], inflight, r \in quiet)
      BY <1>1, <3>1 DEF PickInv
    <3>3. ScanOf(t, tried[r], inflight, r \in quiet)
      <4>1. /\ s \in [offset : Endpoints, i : 0 .. N, best : Endpoints \cup {None}, load : Int]
            /\ inflight \in [Endpoints -> Int]
        BY DEF PoolTypes
      <4>2. (r \in quiet) \in BOOLEAN
        OBVIOUS
      <4>3. Unfinished(scan[r])
        BY <3>1 DEF Unfinished
      <4>4. ScanOf(ReadNext(scan[r], tried[r], inflight), tried[r], inflight, r \in quiet)
        <5> DEFINE u == r \in quiet
                   skip == tried[r]
                   w == scan[r]
        <5>1. u \in BOOLEAN /\ Unfinished(w) /\ ScanOf(w, skip, inflight, u)
          BY <3>2, <4>3
        <5>2. w \in [offset : Endpoints, i : 0 .. N, best : Endpoints \cup {None}, load : Int]
          BY <4>1
        <5>3. inflight \in [Endpoints -> Int]
          BY <4>1
        <5> HIDE DEF u, skip, w
        <5>4. ScanOf(ReadNext(w, skip, inflight), skip, inflight, u)
          BY <5>1, <5>2, <5>3, ReadsOne
        <5> QED BY <5>4 DEF u, skip, w
      <4> QED BY <4>4
    <3> HIDE DEF t
    <3> QED BY <2>1, <3>1, <3>3 DEF PickInv, ScanOf, Preferred
  <2>4. CASE EndPick(r)
    <3>1. /\ pc[r] = "scan" /\ scan[r].i = N /\ target'[r] = scan[r].best
          /\ UNCHANGED <<inflight, scan, tried, quiet>> /\ pc'[r] = "dispatch"
      BY <2>4, Moved DEF EndPick, PoolTypes, pool
    <3>2. ScanOf(scan[r], tried[r], inflight, r \in quiet)
      BY <1>1, <3>1 DEF PickInv
    <3>3. PickOf(scan[r], scan[r].best, tried[r], inflight, r \in quiet)
      <4>1. /\ scan[r] \in [offset : Endpoints, i : 0 .. N, best : Endpoints \cup {None}, load : Int]
            /\ tried[r] \in SUBSET Endpoints /\ tried[r] # Endpoints
        BY <3>1 DEF PoolTypes, Targets
      <4>2. (r \in quiet) \in BOOLEAN
        OBVIOUS
      <4> QED BY <3>1, <3>2, <4>1, <4>2, ReadsAll
    <3> QED BY <2>1, <3>1, <3>3 DEF PickInv, PickOf, Preferred
  <2>5. CASE ClientLeaves(r)
    <3>1. StaysPicking(r)
      BY <2>5 DEF ClientLeaves, StaysPicking, request
    <3> QED BY <1>1, <1>2, <2>1, <3>1, PickStays
  <2>6. CASE \/ Arrive(r) \/ Dispatch(r) \/ Connect(r) \/ Refuse(r) \/ Fail(r) \/ Respond(r)
             \/ CloseResponse(r) \/ EndRequest(r)
    <3>1. pc'[r] \notin {"scan", "dispatch"}
      BY <2>6, Moved DEF Arrive, Dispatch, Connect, Refuse, Fail, Respond, CloseResponse, EndRequest
    <3> QED BY <2>1, <3>1 DEF PickInv
  <2> QED BY <1>3, <2>2, <2>3, <2>4, <2>5, <2>6 DEF RequestStep
<1>4. CASE (\E e \in Endpoints : Toggle(e)) \/ UNCHANGED vars
  <2>1. \A q \in Requests : StaysPicking(q)
    BY <1>4 DEF Toggle, vars, request, StaysPicking
  <2>2. \A q \in Requests : PickInv(q)'
    BY <1>1, <1>2, <2>1, PickStays
  <2> QED BY <2>2 DEF Scanning, Picked, PickInv
<1>5. (\A q \in Requests : PickInv(q)') => Scanning' /\ Picked'
  BY DEF Scanning, Picked, PickInv
<1> QED BY <1>3, <1>4, <1>5 DEF Next

------------------------------------------------------------------------------
LEMMA StepIInv == IInv /\ [Next]_vars => IInv'
BY TypesStep, TargetsStep, CountedStep, ReleasedStep, SentStep, PickStep DEF IInv

\* proxy.go:157-189, 206-216: each counter is the number of requests its endpoint is busy
\* with, however they end, for any number of requests and of endpoints.
THEOREM CountersCount == Spec => []InflightAccounted
<1>1. IInv => InflightAccounted
  BY DEF IInv, Counted, Busy, InflightAccounted
<1> QED BY InitIInv, StepIInv, <1>1, PTL DEF Spec

\* proxy.go:137-142, 167-169: no request is sent to two endpoints.
THEOREM NeverSentTwice == Spec => []SentToOne
<1>1. IInv => SentToOne
  <2> SUFFICES ASSUME IInv, NEW r \in Requests PROVE Cardinality(seenBy[r]) <= 1
    BY DEF SentToOne
  <2>1. CASE seenBy[r] = {}
    BY <2>1, FS_EmptySet
  <2>2. CASE \E e \in Endpoints : seenBy[r] = {e}
    <3>1. PICK e \in Endpoints : seenBy[r] = {e}
      BY <2>2
    <3>2. Cardinality({e}) = 1
      BY FS_Singleton
    <3> QED BY <3>1, <3>2
  <2> QED BY <2>1, <2>2 DEF IInv, SentOnce
<1> QED BY InitIInv, StepIInv, <1>1, PTL DEF Spec

\* proxy.go:117-135: a pick finds an endpoint that has not been tried, and, unless a counter
\* changed meanwhile, the least busy, the first after its offset among equals.
THEOREM PicksLeastBusy == Spec => []PickIsLeastBusy
<1>1. IInv => PickIsLeastBusy
  BY DEF IInv, Picked, PickOf, Preferred, Far, PickIsLeastBusy
<1> QED BY InitIInv, StepIInv, <1>1, PTL DEF Spec
==============================================================================
