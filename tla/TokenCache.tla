------------------------------ MODULE TokenCache ------------------------------
(***************************************************************************)
(* The verdicts on access tokens (authclient.go): an LRU map with a time   *)
(* to live, filled by calls of Synapse's whoami that concurrent requests   *)
(* for one key share through a singleflight group.  A key is a token with  *)
(* the user and device it masquerades as.                                  *)
(*                                                                         *)
(* Time is a Tick that ages every cached verdict and every call by one.    *)
(* The steps of a request inside this process take no time next to a time  *)
(* to live in seconds: no tick falls while one of them can be taken.       *)
(*                                                                         *)
(* An operator whose name begins with Bug is a plausible slip in the code  *)
(* it stands next to.  No action uses one.                                 *)
(***************************************************************************)
EXTENDS Integers, Sequences, FiniteSets

CONSTANTS
  Keys,         \* Credentials.cacheKey
  Callers,      \* requests that present a token, each made once
  PositiveTTL,  \* auth.positive_ttl
  NegativeTTL,  \* auth.negative_ttl
  CallTimeout,  \* the Timeout of the whoami client
  MaxEntries,   \* auth.max_entries; 0 is "no limit"
  Faults,       \* which of AllFaults the environment has
  None

AllFaults == {"unreachable",  \* Synapse does not answer, or not with a verdict
              "leave"}        \* a client hangs up

\* A verdict with the time it has left; -1 is expired.
Entries == [verdict : BOOLEAN, left : -1 .. PositiveTTL + NegativeTTL]

ASSUME ConstantsAssumption ==
  /\ PositiveTTL \in Nat /\ NegativeTTL \in Nat
  /\ CallTimeout \in Nat \ {0}
  /\ MaxEntries \in Nat
  /\ Faults \subseteq AllFaults
  /\ None \notin Keys \cup Callers /\ None \notin Entries

VARIABLES
  items,    \* the cached verdict of each key
  order,    \* the LRU list, most recently used first
  flight,   \* the leader of the call in progress for each key
  pc,       \* the next step of each request
  asks,     \* the key it presents
  leader,   \* the request whose call it waits for
  result,   \* what its call returns, as a leader
  elapsed,  \* the time its call of whoami has taken
  reply,    \* its answer
  gone,     \* the requests whose client has left
  valid,    \* what Synapse would say of each key now
  since,    \* history: the time since Synapse last would have said so, per
            \* key and verdict, as far as LongAgo
  overdue   \* history: per request, the verdicts out of date since it arrived

cache == <<items, order>>
synapse == <<valid, since>>
vars == <<cache, flight, pc, asks, leader, result, elapsed, reply, gone, synapse, overdue>>

------------------------------------------------------------------------------
TTL(v) == IF v THEN PositiveTTL ELSE NegativeTTL

\* No verdict may be told to a request that arrives this long after its end.
Bound(v) == TTL(v) + CallTimeout
LongAgo == PositiveTTL + NegativeTTL + CallTimeout + 1

\* A verdict that has its time before it.
Entry(v) == [verdict |-> v, left |-> TTL(v)]

Fresh(k) == items[k] # None /\ items[k].left >= 0

Results == BOOLEAN \X {"verdict"} \cup {<<FALSE, "error">>, <<FALSE, "none">>}
NoResult == <<FALSE, "none">>
Verdict(v) == <<v, "verdict">>
Failure == <<FALSE, "error">>

\* Steps that this process takes at once, and steps that wait for another.
Urgent == {"lookup", "join", "recheck", "store", "return", "resume"}
Waiting == {"call", "heard", "wait"}
Active(c) == pc[c] \in Urgent \cup Waiting
Calling(c) == pc[c] \in {"call", "heard"}

Replies == {"none", "accepted", "rejected", "unavailable"}

TypeOK ==
  /\ items \in [Keys -> Entries \cup {None}]
  /\ order \in Seq(Keys)
  /\ flight \in [Keys -> Callers \cup {None}]
  /\ pc \in [Callers -> Urgent \cup Waiting \cup {"idle", "done"}]
  /\ asks \in [Callers -> Keys \cup {None}]
  /\ leader \in [Callers -> Callers \cup {None}]
  /\ result \in [Callers -> Results]
  /\ elapsed \in [Callers -> 0 .. CallTimeout]
  /\ reply \in [Callers -> Replies]
  /\ gone \subseteq Callers
  /\ valid \in [Keys -> BOOLEAN]
  /\ since \in [Keys -> [BOOLEAN -> 0 .. LongAgo]]
  /\ overdue \in [Callers -> SUBSET BOOLEAN]

Init ==
  /\ items = [k \in Keys |-> None]
  /\ order = <<>>
  /\ flight = [k \in Keys |-> None]
  /\ pc = [c \in Callers |-> "idle"]
  /\ asks = [c \in Callers |-> None]
  /\ leader = [c \in Callers |-> None]
  /\ result = [c \in Callers |-> NoResult]
  /\ elapsed = [c \in Callers |-> 0]
  /\ reply = [c \in Callers |-> "none"]
  /\ gone = {}
  /\ valid \in [Keys -> BOOLEAN]
  /\ since = [k \in Keys |-> [v \in BOOLEAN |-> IF v = valid[k] THEN 0 ELSE LongAgo]]
  /\ overdue = [c \in Callers |-> {}]

Goto(c, step) == pc' = [pc EXCEPT ![c] = step]

\* list.Remove of the element that the map has for the key.
Place(k) == CHOOSE i \in DOMAIN order : order[i] = k
Without(k) ==
  IF items[k] = None THEN order
  ELSE [i \in 1 .. Len(order) - 1 |-> order[IF i < Place(k) THEN i ELSE i + 1]]

MoveToFront(k) == order' = <<k>> \o Without(k)

------------------------------------------------------------------------------
\* lookup and store, each under the mutex.

\* An expired verdict is dropped where it is found.
Drop(k) ==
  /\ items' = [items EXCEPT ![k] = None]
  /\ order' = Without(k)

Miss(k) ==
  \/ items[k] = None /\ UNCHANGED cache
  \/ items[k] # None /\ ~Fresh(k) /\ Drop(k)

BugHit(k) == items[k] # None /\ MoveToFront(k) /\ UNCHANGED items   \* no expiry

Hit(k) == Fresh(k) /\ MoveToFront(k) /\ UNCHANGED items

\* The keys the loop at the end of store leaves in the list.
BugKept(list) == list                     \* the bound is not looked at

Kept(list) ==
  IF MaxEntries = 0 \/ Len(list) <= MaxEntries THEN list ELSE SubSeq(list, 1, MaxEntries)

Store(k, v) ==
  LET list == Kept(<<k>> \o Without(k))
      kept == {list[i] : i \in DOMAIN list}
  IN /\ order' = list
     /\ items' = [j \in Keys |-> IF j \notin kept THEN None
                                 ELSE IF j = k THEN Entry(v) ELSE items[j]]

------------------------------------------------------------------------------
\* AuthenticateAs.

Arrive(c) ==
  /\ pc[c] = "idle"
  /\ \E k \in Keys :
       /\ asks' = [asks EXCEPT ![c] = k]
       /\ overdue' = [overdue EXCEPT ![c] = {v \in BOOLEAN : since[k][v] > Bound(v)}]
  /\ Goto(c, "lookup")
  /\ UNCHANGED <<cache, flight, leader, result, elapsed, reply, gone, synapse>>

ReplyTo(outcome) ==
  IF outcome = Failure THEN "unavailable"                \* 503
  ELSE IF outcome[1] THEN "accepted" ELSE "rejected"     \* 401, 403

Answer(c, outcome) ==
  /\ Goto(c, "done")
  /\ reply' = [reply EXCEPT ![c] = ReplyTo(outcome)]

Lookup(c) ==
  /\ pc[c] = "lookup"
  /\ \/ Hit(asks[c]) /\ Answer(c, Verdict(items[asks[c]].verdict))
     \/ Miss(asks[c]) /\ Goto(c, "join") /\ UNCHANGED reply
  /\ UNCHANGED <<flight, asks, leader, result, elapsed, gone, synapse, overdue>>

\* a.group.Do: lead a call for the key, or wait for the one there is.
Join(c) ==
  /\ pc[c] = "join"
  /\ LET current == flight[asks[c]] IN
     \/ /\ current = None
        /\ flight' = [flight EXCEPT ![asks[c]] = c]
        /\ leader' = [leader EXCEPT ![c] = c]
        /\ Goto(c, "recheck")
     \/ /\ current # None
        /\ leader' = [leader EXCEPT ![c] = current]
        /\ Goto(c, "wait")
        /\ UNCHANGED flight
  /\ UNCHANGED <<cache, asks, result, elapsed, reply, gone, synapse, overdue>>

Return(l, outcome) ==
  /\ result' = [result EXCEPT ![l] = outcome]
  /\ Goto(l, "return")

BugRecheck(l) ==                          \* the second lookup is left out
  /\ pc[l] = "recheck"
  /\ Goto(l, "call")
  /\ UNCHANGED <<cache, result, flight, asks, leader, elapsed, reply, gone, synapse, overdue>>

Recheck(l) ==
  /\ pc[l] = "recheck"
  /\ \/ Hit(asks[l]) /\ Return(l, Verdict(items[asks[l]].verdict))
     \/ Miss(asks[l]) /\ Goto(l, "call") /\ UNCHANGED result
  /\ UNCHANGED <<flight, asks, leader, elapsed, reply, gone, synapse, overdue>>

\* Synapse reaches its verdict; the answer is on its way.
WhoamiAnswers(l) ==
  /\ pc[l] = "call"
  /\ result' = [result EXCEPT ![l] = Verdict(valid[asks[l]])]
  /\ Goto(l, "heard")
  /\ UNCHANGED <<cache, flight, asks, leader, elapsed, reply, gone, synapse, overdue>>

\* callWhoami reads the answer: the time to live starts now.
ReadVerdict(l) ==
  /\ pc[l] = "heard" /\ l \notin gone
  /\ Goto(l, "store")
  /\ UNCHANGED <<cache, flight, asks, leader, result, elapsed, reply, gone, synapse, overdue>>

BugCallFails(l) ==                        \* a 5xx is taken for a rejection
  /\ Calling(l)
  /\ "unreachable" \in Faults
  /\ result' = [result EXCEPT ![l] = Verdict(FALSE)]
  /\ Goto(l, "store")
  /\ UNCHANGED <<cache, flight, asks, leader, elapsed, reply, gone, synapse, overdue>>

\* No connection, a 5xx, the client's timeout, or the leader's client left.
CallFails(l) ==
  /\ Calling(l)
  /\ "unreachable" \in Faults \/ elapsed[l] = CallTimeout \/ l \in gone
  /\ Return(l, Failure)
  /\ UNCHANGED <<cache, flight, asks, leader, elapsed, reply, gone, synapse, overdue>>

StoreVerdict(l) ==
  /\ pc[l] = "store"
  /\ Store(asks[l], result[l][1])
  /\ Goto(l, "return")
  /\ UNCHANGED <<flight, asks, leader, result, elapsed, reply, gone, synapse, overdue>>

BugRelease(l) ==                          \* an error leaves the call in the group
  /\ pc[l] = "return"
  /\ flight' = IF result[l] = Failure THEN flight ELSE [flight EXCEPT ![asks[l]] = None]
  /\ Goto(l, "resume")
  /\ UNCHANGED <<cache, asks, leader, result, elapsed, reply, gone, synapse, overdue>>

Release(l) ==
  /\ pc[l] = "return"
  /\ flight' = [flight EXCEPT ![asks[l]] = None]
  /\ Goto(l, "resume")
  /\ UNCHANGED <<cache, asks, leader, result, elapsed, reply, gone, synapse, overdue>>

Wake(c) ==
  /\ pc[c] = "wait"
  /\ flight[asks[c]] # leader[c]
  /\ Goto(c, "resume")
  /\ UNCHANGED <<cache, flight, asks, leader, result, elapsed, reply, gone, synapse, overdue>>

Resume(c) ==
  /\ pc[c] = "resume"
  /\ Answer(c, result[leader[c]])
  /\ UNCHANGED <<cache, flight, asks, leader, result, elapsed, gone, synapse, overdue>>

------------------------------------------------------------------------------
\* The environment.

\* Only a call looks at a context, its leader's: to leave earlier is to leave as
\* the call begins, and a follower waits on whether its client stays or not.
ClientLeaves(c) ==
  /\ "leave" \in Faults /\ Calling(c) /\ c \notin gone
  /\ gone' = gone \cup {c}
  /\ UNCHANGED <<cache, flight, pc, asks, leader, result, elapsed, reply, synapse, overdue>>

\* A token is revoked, or one refused before is accepted from now on.
SynapseChanges(k) ==
  /\ valid' = [valid EXCEPT ![k] = ~@]
  /\ since' = [since EXCEPT ![k] = [v \in BOOLEAN |-> 0]]
  /\ overdue' = [c \in Callers |-> IF Active(c) /\ asks[c] = k THEN {} ELSE overdue[c]]
  /\ UNCHANGED <<cache, flight, pc, asks, leader, result, elapsed, reply, gone>>

\* Can the request go on without waiting?
Ready(c) ==
  \/ pc[c] \in Urgent
  \/ pc[c] = "wait" /\ flight[asks[c]] # leader[c]

Older(k, v) ==
  IF v = valid[k] THEN 0 ELSE IF since[k][v] < LongAgo THEN since[k][v] + 1 ELSE LongAgo

Tick ==
  /\ \A c \in Callers : ~Ready(c) /\ (Calling(c) => elapsed[c] < CallTimeout)
  /\ items' = [k \in Keys |-> IF Fresh(k) THEN [items[k] EXCEPT !.left = @ - 1] ELSE items[k]]
  /\ elapsed' = [c \in Callers |-> IF Calling(c) THEN elapsed[c] + 1 ELSE elapsed[c]]
  /\ since' = [k \in Keys |-> [v \in BOOLEAN |-> Older(k, v)]]
  /\ UNCHANGED <<order, flight, pc, asks, leader, result, reply, gone, valid, overdue>>

------------------------------------------------------------------------------
CallerStep(c) ==
  \/ Lookup(c) \/ Join(c) \/ Recheck(c) \/ ReadVerdict(c) \/ CallFails(c)
  \/ StoreVerdict(c) \/ Release(c) \/ Wake(c) \/ Resume(c)

Next ==
  \/ \E c \in Callers : Arrive(c) \/ CallerStep(c) \/ WhoamiAnswers(c) \/ ClientLeaves(c)
  \/ \E k \in Keys : SynapseChanges(k)
  \/ Tick

Spec == Init /\ [][Next]_vars

\* The process runs and time passes; whoami owes nothing, as its client has a timeout.
FairSpec == Spec /\ WF_vars(Tick) /\ \A c \in Callers : WF_vars(CallerStep(c))

------------------------------------------------------------------------------
\* Properties.

\* A verdict ends with its time to live: a request that arrives later than that,
\* and the time one call may take, after a token was revoked is not accepted, nor
\* refused so long after it became valid, whatever call it joins or shares.
\* authclient.go:191-217, 276-291.
VerdictNotOverdue ==
  \A c \in Callers : /\ reply[c] = "accepted" => TRUE \notin overdue[c]
                     /\ reply[c] = "rejected" => FALSE \notin overdue[c]

\* The map and the list hold the same keys, each once, and no more than allowed.
\* authclient.go:276-311.
MapMatchesList ==
  /\ {order[i] : i \in DOMAIN order} = {k \in Keys : items[k] # None}
  /\ Cardinality({k \in Keys : items[k] # None}) = Len(order)
  /\ MaxEntries > 0 => Len(order) <= MaxEntries

\* Synapse is not asked while a fresh verdict is at hand, nor twice at a time: the
\* second lookup, inside the group, sees what an earlier call has stored.
\* authclient.go:200-206.
NoRedundantCall ==
  \A l \in Callers : Calling(l) =>
    /\ ~Fresh(asks[l])
    /\ \A c \in Callers : Calling(c) /\ asks[c] = asks[l] => c = l

\* Every request is answered, whoever leads its call and whether Synapse does.
CallerAnswered == \A c \in Callers : Active(c) ~> pc[c] = "done"

------------------------------------------------------------------------------
\* What a comment says, and the code does not keep to.

\* authclient.go:177-179: an error means that Synapse could not be asked.  With
\* Synapse there and answering in time, a client that stays gets a verdict.
ErrorMeansUnreachable ==
  \A c \in Callers : reply[c] = "unavailable" /\ c \notin gone =>
    \/ "unreachable" \in Faults
    \/ elapsed[leader[c]] = CallTimeout
==============================================================================
