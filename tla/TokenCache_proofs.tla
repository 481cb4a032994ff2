--------------------------- MODULE TokenCache_proofs ---------------------------
(***************************************************************************)
(* VerdictNotOverdue holds for every number of requests and keys, every    *)
(* time to live, every timeout and every bound on the cache.  The argument *)
(* is about ages: what a cached verdict has left, or what a call has       *)
(* taken, and the time since its verdict was true add up to at most        *)
(* Bound, while a verdict that is overdue for a request has been untrue    *)
(* for longer than that.  NoRedundantCall follows from who leads whom, and  *)
(* MapMatchesList from what the list's operations do to it.                *)
(***************************************************************************)
EXTENDS TokenCache, FiniteSetTheorems, TLAPS

InCall == {"recheck", "call", "heard", "store", "return"}
Sharing == InCall \cup {"wait", "resume"}

\* The part of TypeOK that the ages need: not the LRU list.
Types ==
  /\ items \in [Keys -> Entries \cup {None}]
  /\ flight \in [Keys -> Callers \cup {None}]
  /\ pc \in [Callers -> Urgent \cup Waiting \cup {"idle", "done"}]
  /\ asks \in [Callers -> Keys \cup {None}]
  /\ leader \in [Callers -> Callers \cup {None}]
  /\ result \in [Callers -> Results]
  /\ elapsed \in [Callers -> 0 .. CallTimeout]
  /\ reply \in [Callers -> Replies]
  /\ valid \in [Keys -> BOOLEAN]
  /\ since \in [Keys -> [BOOLEAN -> 0 .. LongAgo]]
  /\ overdue \in [Callers -> SUBSET BOOLEAN]

\* Who leads whom: a call in the group is its leader's, and a request shares the
\* call of a leader with the same key, in progress or over.
InGroup ==
  \A k \in Keys : flight[k] # None => pc[flight[k]] \in InCall /\ asks[flight[k]] = k

Leads(c) ==
  /\ Active(c) => asks[c] \in Keys
  /\ pc[c] \in {"idle", "lookup", "join"} => leader[c] = None
  /\ pc[c] \in InCall => leader[c] = c /\ flight[asks[c]] = c
  /\ pc[c] \in {"wait", "resume"} =>
       /\ leader[c] \in Callers
       /\ asks[leader[c]] = asks[c]
       /\ leader[leader[c]] = leader[c]
  /\ pc[c] = "wait" => pc[leader[c]] \in InCall \cup {"resume", "done"}
  /\ pc[c] = "resume" => pc[leader[c]] \in {"resume", "done"}

Given(c) == result[leader[c]]
IsVerdict(outcome) == outcome[2] = "verdict"

\* What a call has returned so far, and who has been answered.
Returned(c) ==
  /\ pc[c] \in {"idle", "lookup", "join", "wait", "recheck", "call"} => result[c] = NoResult
  /\ pc[c] \in {"heard", "store"} => IsVerdict(result[c])
  /\ leader[c] = c /\ pc[c] \in {"return", "resume", "done"} => result[c] # NoResult
  /\ pc[c] # "done" => reply[c] = "none"

CacheAge ==
  /\ \A k \in Keys : since[k][valid[k]] = 0
  /\ \A k \in Keys : Fresh(k) =>
       since[k][items[k].verdict] + items[k].left <= Bound(items[k].verdict)

HeardAge ==
  \A c \in Callers : pc[c] \in {"heard", "store"} =>
    since[asks[c]][result[c][1]] <= elapsed[c]

SharedAge ==
  \A c \in Callers : pc[c] \in Sharing /\ IsVerdict(Given(c)) =>
    since[asks[c]][Given(c)[1]] <= Bound(Given(c)[1])

OverdueAge ==
  \A c \in Callers : Active(c) => \A v \in overdue[c] : since[asks[c]][v] > Bound(v)

IInv ==
  /\ Types
  /\ InGroup
  /\ \A c \in Callers : Leads(c) /\ Returned(c)
  /\ CacheAge
  /\ HeardAge
  /\ SharedAge
  /\ OverdueAge
  /\ VerdictNotOverdue

------------------------------------------------------------------------------
\* The numbers: a call may take as long as its timeout within any bound, and what
\* is longer ago than a bound is told apart from what is not.
LEMMA Numbers ==
  /\ LongAgo \in Nat /\ CallTimeout \in Nat
  /\ \A v \in BOOLEAN : /\ TTL(v) \in Nat /\ Bound(v) \in Nat
                        /\ Bound(v) = TTL(v) + CallTimeout /\ Bound(v) < LongAgo
BY ConstantsAssumption DEF TTL, Bound, LongAgo

\* What a call may return.
LEMMA Outcomes ==
  ASSUME NEW o \in Results
  PROVE  /\ o[1] \in BOOLEAN
         /\ IsVerdict(o) <=> o = Verdict(o[1])
         /\ o = NoResult \/ o = Failure \/ IsVerdict(o)
<1>1. CASE o \in BOOLEAN \X {"verdict"}
  <2>1. o[1] \in BOOLEAN /\ o[2] = "verdict" /\ o = <<o[1], o[2]>>
    BY <1>1
  <2> QED BY <2>1 DEF Verdict, IsVerdict
<1>2. CASE o = <<FALSE, "error">>
  BY <1>2 DEF Failure, Verdict, IsVerdict
<1>3. CASE o = <<FALSE, "none">>
  BY <1>3 DEF NoResult, Verdict, IsVerdict
<1> QED BY <1>1, <1>2, <1>3 DEF Results

LEMMA VerdictIsOutcome ==
  ASSUME NEW v \in BOOLEAN
  PROVE  /\ Verdict(v) \in Results /\ Verdict(v)[1] = v
         /\ IsVerdict(Verdict(v)) /\ Verdict(v) # NoResult
BY DEF Results, Verdict, NoResult, IsVerdict

LEMMA FailureIsOutcome ==
  Failure \in Results /\ Failure # NoResult /\ ~IsVerdict(Failure) /\ ~IsVerdict(NoResult)
BY DEF Results, Failure, NoResult, IsVerdict

\* Nothing has an age at the start.
LEMMA IInvInit == Init => IInv
<1> SUFFICES ASSUME Init PROVE IInv OBVIOUS
<1>1. Types
  BY Numbers, ConstantsAssumption DEF Init, Types, Urgent, Waiting, Replies, Results, NoResult
<1>2. InGroup /\ \A c \in Callers : Leads(c) /\ Returned(c)
  BY DEF Init, InGroup, Leads, Returned, Active, Urgent, Waiting, InCall
<1>3. CacheAge /\ HeardAge /\ SharedAge /\ OverdueAge /\ VerdictNotOverdue
  BY Numbers DEF Init, CacheAge, HeardAge, SharedAge, OverdueAge, VerdictNotOverdue,
     Fresh, Sharing, InCall, Active, Urgent, Waiting
<1> QED BY <1>1, <1>2, <1>3 DEF IInv

------------------------------------------------------------------------------
\* What the steps have in common.

\* A request that shares a call has its key and its leader.
LEMMA SharesKey ==
  ASSUME IInv, NEW c \in Callers, pc[c] \in Sharing
  PROVE  /\ asks[c] \in Keys /\ leader[c] \in Callers
         /\ asks[leader[c]] = asks[c] /\ leader[leader[c]] = leader[c]
BY DEF IInv, Leads, Active, Sharing, InCall, Urgent, Waiting

\* A lookup changes no verdict: it drops one that has expired, or none.
LEMMA LookupKeeps ==
  ASSUME Types, NEW k \in Keys, Hit(k) \/ Miss(k)
  PROVE  /\ items' \in [Keys -> Entries \cup {None}]
         /\ \A j \in Keys : Fresh(j)' => Fresh(j) /\ items'[j] = items[j]
BY DEF Types, Hit, Miss, Drop, Fresh, MoveToFront, cache

\* What is found is a verdict within its bound.
LEMMA HitAge ==
  ASSUME Types, CacheAge, NEW k \in Keys, Hit(k)
  PROVE  /\ items[k].verdict \in BOOLEAN
         /\ since[k][items[k].verdict] <= Bound(items[k].verdict)
<1>1. Fresh(k) /\ items[k] \in Entries
  BY DEF Hit, Types, Fresh
<1>2. items[k].verdict \in BOOLEAN /\ items[k].left \in Int /\ items[k].left >= 0
  BY <1>1 DEF Entries, Fresh
<1>3. since[k][items[k].verdict] \in Nat
  BY <1>2, Numbers DEF Types
<1> QED BY <1>1, <1>2, <1>3, Numbers DEF CacheAge

\* A request in progress that gets a verdict within its bound is not told an
\* overdue one.
LEMMA AnswerNotOverdue ==
  ASSUME IInv, NEW c \in Callers, Active(c), NEW o \in Results, o # NoResult,
         Answer(c, o), UNCHANGED overdue,
         IsVerdict(o) => since[asks[c]][o[1]] <= Bound(o[1])
  PROVE  VerdictNotOverdue'
<1> USE DEF IInv
<1>1. /\ ReplyTo(o) = "accepted" => IsVerdict(o) /\ o[1] = TRUE
      /\ ReplyTo(o) = "rejected" => IsVerdict(o) /\ o[1] = FALSE
  BY Outcomes DEF ReplyTo
<1>2. IsVerdict(o) => o[1] \notin overdue[c]
  BY Outcomes, Numbers DEF OverdueAge, Types, Leads
<1>3. reply' = [reply EXCEPT ![c] = ReplyTo(o)]
  BY DEF Answer
<1> QED BY <1>1, <1>2, <1>3 DEF VerdictNotOverdue, Types

------------------------------------------------------------------------------
\* One lemma for each step.

\* A request that arrives notes what is overdue for it then.
LEMMA ArrivePreserves == ASSUME IInv, NEW c \in Callers, Arrive(c) PROVE IInv'
<1> USE DEF IInv, Arrive, Goto, cache, synapse
<1>0. pc[c] \notin Sharing /\ ~Active(c)
  BY DEF Sharing, InCall, Active, Urgent, Waiting
<1>1. Types'
  BY <1>0, ConstantsAssumption DEF Types, Urgent, Waiting, Replies
<1>2. InGroup'
  BY <1>0, ConstantsAssumption DEF InGroup, Leads, Types, InCall, Sharing, Active, Urgent, Waiting
<1>3. \A d \in Callers : Leads(d)' /\ Returned(d)'
  BY <1>0, ConstantsAssumption DEF Leads, Returned, InGroup, Types, InCall, Sharing, Active, Urgent, Waiting
<1>4. CacheAge'
  BY DEF CacheAge, Fresh
<1>5. HeardAge'
  BY <1>0 DEF HeardAge, Types
<1>6. SharedAge'
  BY <1>0 DEF SharedAge, Given, Types, InCall, Sharing, Active, Urgent, Waiting
<1>7. OverdueAge'
  BY <1>0, ConstantsAssumption DEF OverdueAge, Types, InCall, Sharing, Active, Urgent, Waiting
<1>8. VerdictNotOverdue'
  BY DEF VerdictNotOverdue, Types, Returned
<1> QED BY <1>1, <1>2, <1>3, <1>4, <1>5, <1>6, <1>7, <1>8

\* A request that joins a call shares what its leader has been given.
LEMMA JoinPreserves == ASSUME IInv, NEW c \in Callers, Join(c) PROVE IInv'
<1> USE DEF IInv, Join, Goto, cache, synapse
<1>0. asks[c] \in Keys
  BY DEF Leads, Active, Urgent, Waiting, InCall, Calling
<1>a. flight[asks[c]] # None =>
        /\ flight[asks[c]] \in Callers /\ pc[flight[asks[c]]] \in InCall
        /\ asks[flight[asks[c]]] = asks[c] /\ leader[flight[asks[c]]] = flight[asks[c]]
  BY <1>0 DEF Types, InGroup, Leads
<1>b. \A k \in Keys : flight[k] # None => flight[k] # c /\ flight[k] \in Callers
  <2> SUFFICES ASSUME NEW k \in Keys, flight[k] # None
               PROVE  flight[k] # c /\ flight[k] \in Callers
    OBVIOUS
  <2>1. flight[k] \in Callers
    BY DEF Types
  <2>2. pc[flight[k]] \in InCall /\ pc[c] \notin InCall
    BY DEF InGroup, InCall
  <2> QED BY <2>1, <2>2
<1>1. Types'
  <2>1. CASE flight[asks[c]] = None
    <3>1. leader' = [leader EXCEPT ![c] = c] /\ flight' = [flight EXCEPT ![asks[c]] = c]
          /\ pc' = [pc EXCEPT ![c] = "recheck"]
      BY <2>1
    <3> QED BY <1>0, <3>1 DEF Types, Urgent
  <2>2. CASE flight[asks[c]] # None
    <3>1. leader' = [leader EXCEPT ![c] = flight[asks[c]]] /\ flight' = flight
          /\ pc' = [pc EXCEPT ![c] = "wait"]
      BY <2>2
    <3> QED BY <1>0, <1>a, <2>2, <3>1 DEF Types, Waiting
  <2> QED BY <2>1, <2>2
<1>2. InGroup'
  <2>1. CASE flight[asks[c]] = None
    <3>1. flight' = [flight EXCEPT ![asks[c]] = c] /\ pc' = [pc EXCEPT ![c] = "recheck"]
      BY <2>1
      <3>2. pc'[c] \in InCall /\ asks' = asks /\ flight'[asks[c]] = c
      BY <1>0, <3>1 DEF Types, InCall
    <3>3. \A k \in Keys : k # asks[c] /\ flight'[k] # None => pc'[flight'[k]] \in InCall /\ asks[flight'[k]] = k
      BY <1>0, <1>b, <3>1 DEF InGroup, Types
    <3> QED BY <3>2, <3>3 DEF InGroup
  <2>2. CASE flight[asks[c]] # None
    <3>1. flight' = flight /\ pc' = [pc EXCEPT ![c] = "wait"]
      BY <2>2
      <3> QED BY <1>b, <3>1 DEF InGroup, Types
  <2> QED BY <2>1, <2>2
<1>3. \A d \in Callers : Leads(d)' /\ Returned(d)'
  <2>1. CASE flight[asks[c]] = None
    BY <1>0, <2>1, ConstantsAssumption DEF Leads, Returned, Types, InCall, Sharing, Active, Urgent, Waiting
  <2>2. CASE flight[asks[c]] # None
    BY <1>0, <1>a, <2>2, ConstantsAssumption DEF Leads, Returned, Types, InCall, Sharing, Active, Urgent, Waiting
  <2> QED BY <2>1, <2>2
<1>4. CacheAge'
  BY DEF CacheAge, Fresh
<1>5. HeardAge'
  BY <1>0 DEF HeardAge, Types
<1>6. SharedAge'
  <2>1. \A d \in Callers : d # c /\ pc'[d] \in Sharing => pc[d] \in Sharing /\ leader'[d] = leader[d]
    BY DEF Types
  <2>2. CASE flight[asks[c]] = None
    <3>1. leader'[c] = c /\ ~IsVerdict(result[c])
      BY <2>2, FailureIsOutcome DEF Types, Returned
    <3> QED BY <2>1, <3>1 DEF SharedAge, Given
  <2>3. CASE flight[asks[c]] # None
    <3>1. leader'[c] = flight[asks[c]]
      BY <2>3 DEF Types
    <3> QED BY <1>a, <2>1, <2>3, <3>1 DEF SharedAge, Given, Sharing
  <2> QED BY <2>2, <2>3
<1>7. OverdueAge'
  BY <1>0, ConstantsAssumption DEF OverdueAge, Types, InCall, Sharing, Active, Urgent, Waiting
<1>8. VerdictNotOverdue'
  BY DEF VerdictNotOverdue, Types
<1> QED BY <1>1, <1>2, <1>3, <1>4, <1>5, <1>6, <1>7, <1>8

\* What Synapse says is true as it says so.
LEMMA WhoamiAnswersPreserves == ASSUME IInv, NEW c \in Callers, WhoamiAnswers(c) PROVE IInv'
<1> USE DEF IInv, WhoamiAnswers, Goto, cache, synapse
<1>0. asks[c] \in Keys
  BY DEF Leads, Active, Urgent, Waiting, InCall, Calling
<1>a. valid[asks[c]] \in BOOLEAN /\ since[asks[c]][valid[asks[c]]] = 0
  BY <1>0 DEF Types, CacheAge
<1>b. leader[c] = c /\ result' = [result EXCEPT ![c] = Verdict(valid[asks[c]])]
  BY DEF Leads, InCall
<1>1. Types'
  BY VerdictIsOutcome, <1>a DEF Types, Waiting
<1>2. InGroup'
  BY <1>0, ConstantsAssumption DEF InGroup, Leads, Types, InCall, Sharing, Active, Urgent, Waiting
<1>3. \A d \in Callers : Leads(d)' /\ Returned(d)'
  BY VerdictIsOutcome, <1>a, <1>b DEF Leads, Returned, Types, InCall, Sharing, Active, Urgent, Waiting
<1>4. CacheAge'
  BY DEF CacheAge, Fresh
<1>5. HeardAge'
  BY VerdictIsOutcome, <1>0, <1>a, <1>b DEF HeardAge, Types
<1>6. SharedAge'
  <2> SUFFICES ASSUME NEW d \in Callers, pc'[d] \in Sharing, IsVerdict(Given(d))'
               PROVE  (since[asks[d]][Given(d)[1]] <= Bound(Given(d)[1]))'
    BY DEF SharedAge
  <2>1. pc[d] \in Sharing /\ leader[d] \in Callers /\ asks[leader[d]] = asks[d]
    BY SharesKey DEF Types, Sharing, InCall
  <2>2. CASE leader[d] = c
    BY <1>a, <2>1, <2>2, VerdictIsOutcome, Numbers DEF Given, Types
  <2>3. CASE leader[d] # c
    BY <2>1, <2>3 DEF SharedAge, Given, Types
  <2> QED BY <2>2, <2>3
<1>7. OverdueAge'
  BY <1>0, ConstantsAssumption DEF OverdueAge, Types, InCall, Sharing, Active, Urgent, Waiting
<1>8. VerdictNotOverdue'
  BY DEF VerdictNotOverdue, Types
<1> QED BY <1>1, <1>2, <1>3, <1>4, <1>5, <1>6, <1>7, <1>8

\* The answer is read: nothing has aged.
LEMMA ReadVerdictPreserves == ASSUME IInv, NEW c \in Callers, ReadVerdict(c) PROVE IInv'
<1> USE DEF IInv, ReadVerdict, Goto, cache, synapse
<1>0. asks[c] \in Keys
  BY DEF Leads, Active, Urgent, Waiting, InCall, Calling
<1>1. Types'
  BY <1>0, ConstantsAssumption DEF Types, Urgent, Waiting, Replies
<1>2. InGroup'
  BY <1>0, ConstantsAssumption DEF InGroup, Leads, Types, InCall, Sharing, Active, Urgent, Waiting
<1>3. \A d \in Callers : Leads(d)' /\ Returned(d)'
  BY <1>0, ConstantsAssumption DEF Leads, Returned, InGroup, Types, InCall, Sharing, Active, Urgent, Waiting
<1>4. CacheAge'
  BY DEF CacheAge, Fresh
<1>5. HeardAge'
  BY <1>0 DEF HeardAge, Types
<1>6. SharedAge'
  BY <1>0 DEF SharedAge, Given, Types, InCall, Sharing, Active, Urgent, Waiting
<1>7. OverdueAge'
  BY <1>0, ConstantsAssumption DEF OverdueAge, Types, InCall, Sharing, Active, Urgent, Waiting
<1>8. VerdictNotOverdue'
  BY DEF VerdictNotOverdue, Types
<1> QED BY <1>1, <1>2, <1>3, <1>4, <1>5, <1>6, <1>7, <1>8

\* A call that fails gives no verdict.
LEMMA CallFailsPreserves == ASSUME IInv, NEW c \in Callers, CallFails(c) PROVE IInv'
<1> USE DEF IInv, CallFails, Return, Calling, Goto, cache, synapse
<1>0. asks[c] \in Keys
  BY DEF Leads, Active, Urgent, Waiting, InCall, Calling
<1>a. leader[c] = c
  BY DEF Leads, InCall
<1>1. Types'
  BY FailureIsOutcome, <1>0, ConstantsAssumption DEF Types, Urgent, Waiting, Replies
<1>2. InGroup'
  BY <1>0, ConstantsAssumption DEF InGroup, Leads, Types, InCall, Sharing, Active, Urgent, Waiting
<1>3. \A d \in Callers : Leads(d)' /\ Returned(d)'
  BY FailureIsOutcome, <1>0, ConstantsAssumption DEF Leads, Returned, InGroup, Types, InCall, Sharing, Active, Urgent, Waiting
<1>4. CacheAge'
  BY DEF CacheAge, Fresh
<1>5. HeardAge'
  BY <1>0 DEF HeardAge, Types
<1>6. SharedAge'
  <2>1. \A d \in Callers : pc'[d] \in Sharing => pc[d] \in Sharing /\ leader[d] \in Callers
    BY SharesKey DEF Types, Sharing, InCall
  <2>2. \A d \in Callers : pc[d] \in Sharing /\ leader[d] # c => Given(d)' = Given(d)
    BY <2>1 DEF Given, Types
  <2>3. \A d \in Callers : pc[d] \in Sharing /\ leader[d] = c => ~IsVerdict(Given(d))'
    BY FailureIsOutcome DEF Given, Types, IsVerdict
  <2> QED BY <2>1, <2>2, <2>3 DEF SharedAge
<1>7. OverdueAge'
  BY <1>0, ConstantsAssumption DEF OverdueAge, Types, InCall, Sharing, Active, Urgent, Waiting
<1>8. VerdictNotOverdue'
  BY DEF VerdictNotOverdue, Types
<1> QED BY <1>1, <1>2, <1>3, <1>4, <1>5, <1>6, <1>7, <1>8

\* The call leaves the group: its key is free for another.
LEMMA ReleasePreserves == ASSUME IInv, NEW c \in Callers, Release(c) PROVE IInv'
<1> USE DEF IInv, Release, Goto, cache, synapse
<1>0. asks[c] \in Keys
  BY DEF Leads, Active, Urgent, Waiting, InCall, Calling
<1>1. Types'
  BY <1>0, ConstantsAssumption DEF Types, Urgent, Waiting, Replies
<1>2. InGroup'
  BY <1>0, ConstantsAssumption DEF InGroup, Leads, Types, InCall, Sharing, Active, Urgent, Waiting
<1>3. \A d \in Callers : Leads(d)' /\ Returned(d)'
  BY <1>0, ConstantsAssumption DEF Leads, Returned, InGroup, Types, InCall, Sharing, Active, Urgent, Waiting
<1>4. CacheAge'
  BY DEF CacheAge, Fresh
<1>5. HeardAge'
  BY <1>0 DEF HeardAge, Types
<1>6. SharedAge'
  BY <1>0 DEF SharedAge, Given, Types, InCall, Sharing, Active, Urgent, Waiting
<1>7. OverdueAge'
  BY <1>0, ConstantsAssumption DEF OverdueAge, Types, InCall, Sharing, Active, Urgent, Waiting
<1>8. VerdictNotOverdue'
  BY DEF VerdictNotOverdue, Types
<1> QED BY <1>1, <1>2, <1>3, <1>4, <1>5, <1>6, <1>7, <1>8

\* A follower goes on when its call has left the group.
LEMMA WakePreserves == ASSUME IInv, NEW c \in Callers, Wake(c) PROVE IInv'
<1> USE DEF IInv, Wake, Goto, cache, synapse
<1>0. asks[c] \in Keys
  BY DEF Leads, Active, Urgent, Waiting, InCall, Calling
<1>1. Types'
  BY <1>0, ConstantsAssumption DEF Types, Urgent, Waiting, Replies
<1>2. InGroup'
  BY <1>0, ConstantsAssumption DEF InGroup, Leads, Types, InCall, Sharing, Active, Urgent, Waiting
<1>3. \A d \in Callers : Leads(d)' /\ Returned(d)'
  BY <1>0, ConstantsAssumption DEF Leads, Returned, InGroup, Types, InCall, Sharing, Active, Urgent, Waiting
<1>4. CacheAge'
  BY DEF CacheAge, Fresh
<1>5. HeardAge'
  BY <1>0 DEF HeardAge, Types
<1>6. SharedAge'
  BY <1>0 DEF SharedAge, Given, Types, InCall, Sharing, Active, Urgent, Waiting
<1>7. OverdueAge'
  BY <1>0, ConstantsAssumption DEF OverdueAge, Types, InCall, Sharing, Active, Urgent, Waiting
<1>8. VerdictNotOverdue'
  BY DEF VerdictNotOverdue, Types
<1> QED BY <1>1, <1>2, <1>3, <1>4, <1>5, <1>6, <1>7, <1>8

\* A request answered from the cache is answered within the bound.
LEMMA LookupPreserves == ASSUME IInv, NEW c \in Callers, Lookup(c) PROVE IInv'
<1> USE DEF IInv, Lookup, Goto, synapse, Answer
<1>0. asks[c] \in Keys
  BY DEF Leads, Active, Urgent, Waiting, InCall, Calling
<1>a. /\ items' \in [Keys -> Entries \cup {None}]
      /\ \A j \in Keys : Fresh(j)' => Fresh(j) /\ items'[j] = items[j]
  BY <1>0, LookupKeeps
<1>b. Hit(asks[c]) =>
        /\ items[asks[c]].verdict \in BOOLEAN
        /\ since[asks[c]][items[asks[c]].verdict] <= Bound(items[asks[c]].verdict)
  BY <1>0, HitAge
<1>1. Types'
  <2>1. reply' \in [Callers -> Replies]
    BY DEF Types, Replies, ReplyTo, Verdict, Failure
  <2>2. pc' \in [Callers -> Urgent \cup Waiting \cup {"idle", "done"}]
    BY DEF Types, Urgent
  <2> QED BY <1>a, <2>1, <2>2 DEF Types
<1>2. InGroup'
  BY <1>0, ConstantsAssumption DEF InGroup, Leads, Types, InCall, Sharing, Active, Urgent, Waiting
<1>3. \A d \in Callers : Leads(d)' /\ Returned(d)'
  BY <1>0, ConstantsAssumption DEF Leads, Returned, InGroup, Types, InCall, Sharing, Active, Urgent, Waiting
<1>4. CacheAge'
  BY <1>a DEF CacheAge
<1>5. HeardAge'
  BY <1>0 DEF HeardAge, Types
<1>6. SharedAge'
  BY <1>0 DEF SharedAge, Given, Types, InCall, Sharing, Active, Urgent, Waiting
<1>7. OverdueAge'
  BY <1>0, ConstantsAssumption DEF OverdueAge, Types, InCall, Sharing, Active, Urgent, Waiting
<1>8. VerdictNotOverdue'
  <2>1. CASE Hit(asks[c]) /\ Answer(c, Verdict(items[asks[c]].verdict))
    <3> DEFINE v == items[asks[c]].verdict
    <3>1. Active(c)
      BY DEF Active, Urgent
    <3>2. v \in BOOLEAN /\ since[asks[c]][v] <= Bound(v)
      BY <1>b, <2>1
    <3> QED BY <2>1, <3>1, <3>2, VerdictIsOutcome, AnswerNotOverdue
  <2>2. CASE UNCHANGED reply
    BY <2>2 DEF VerdictNotOverdue, Types
  <2> QED BY <2>1, <2>2
<1> QED BY <1>1, <1>2, <1>3, <1>4, <1>5, <1>6, <1>7, <1>8

\* What the second lookup finds is shared within the bound.
LEMMA RecheckPreserves == ASSUME IInv, NEW c \in Callers, Recheck(c) PROVE IInv'
<1> USE DEF IInv, Recheck, Goto, synapse, Return
<1>0. asks[c] \in Keys
  BY DEF Leads, Active, Urgent, Waiting, InCall, Calling
<1>a. /\ items' \in [Keys -> Entries \cup {None}]
      /\ \A j \in Keys : Fresh(j)' => Fresh(j) /\ items'[j] = items[j]
  BY <1>0, LookupKeeps
<1>b. Hit(asks[c]) =>
        /\ items[asks[c]].verdict \in BOOLEAN
        /\ since[asks[c]][items[asks[c]].verdict] <= Bound(items[asks[c]].verdict)
  BY <1>0, HitAge
<1>c. leader[c] = c
  BY DEF Leads, InCall
<1>1. Types'
  <2>1. result' \in [Callers -> Results]
    BY <1>b, VerdictIsOutcome DEF Types
  <2>2. pc' \in [Callers -> Urgent \cup Waiting \cup {"idle", "done"}]
    BY DEF Types, Urgent, Waiting
  <2> QED BY <1>a, <2>1, <2>2 DEF Types
<1>2. InGroup'
  BY <1>0, ConstantsAssumption DEF InGroup, Leads, Types, InCall, Sharing, Active, Urgent, Waiting
<1>3. \A d \in Callers : Leads(d)' /\ Returned(d)'
  <2>1. CASE Hit(asks[c]) /\ Return(c, Verdict(items[asks[c]].verdict))
    BY <1>b, <1>c, <2>1, VerdictIsOutcome DEF Leads, Returned, Types, InCall, Sharing, Active, Urgent, Waiting
  <2>2. CASE Goto(c, "call") /\ UNCHANGED result
    BY <1>c, <2>2 DEF Leads, Returned, Types, InCall, Sharing, Active, Urgent, Waiting
  <2> QED BY <2>1, <2>2
<1>4. CacheAge'
  BY <1>a DEF CacheAge
<1>5. HeardAge'
  BY <1>0 DEF HeardAge, Types
<1>6. SharedAge'
  <2>1. \A d \in Callers : pc'[d] \in Sharing => pc[d] \in Sharing
    BY DEF Types, Sharing, InCall
  <2>2. CASE UNCHANGED result
    BY <2>1, <2>2 DEF SharedAge, Given
  <2>3. CASE Hit(asks[c]) /\ Return(c, Verdict(items[asks[c]].verdict))
    <3> SUFFICES ASSUME NEW d \in Callers, pc[d] \in Sharing, IsVerdict(Given(d))'
                 PROVE  (since[asks[d]][Given(d)[1]] <= Bound(Given(d)[1]))'
      BY <2>1 DEF SharedAge
    <3>1. leader[d] \in Callers /\ asks[leader[d]] = asks[d]
      BY SharesKey
    <3>2. CASE leader[d] = c
      BY <1>b, <2>3, <3>1, <3>2, VerdictIsOutcome DEF Given, Types
    <3>3. CASE leader[d] # c
      BY <2>3, <3>1, <3>3 DEF SharedAge, Given, Types
    <3> QED BY <3>2, <3>3
  <2> QED BY <2>2, <2>3
<1>7. OverdueAge'
  BY <1>0, ConstantsAssumption DEF OverdueAge, Types, InCall, Sharing, Active, Urgent, Waiting
<1>8. VerdictNotOverdue'
  BY DEF VerdictNotOverdue, Types
<1> QED BY <1>1, <1>2, <1>3, <1>4, <1>5, <1>6, <1>7, <1>8

\* A verdict is stored at most CallTimeout after it was true.
LEMMA StoreVerdictPreserves == ASSUME IInv, NEW c \in Callers, StoreVerdict(c) PROVE IInv'
<1> USE DEF IInv, StoreVerdict, Goto, synapse
<1>0. asks[c] \in Keys
  BY DEF Leads, Active, Urgent, Waiting, InCall, Calling
<1> DEFINE v == result[c][1]
<1>a. /\ v \in BOOLEAN /\ elapsed[c] \in 0 .. CallTimeout
      /\ since[asks[c]][v] \in Nat /\ since[asks[c]][v] <= elapsed[c]
  BY <1>0, Outcomes, Numbers DEF Types, Returned, HeardAge
<1>b. Entry(v) \in Entries /\ Entry(v).verdict = v /\ Entry(v).left = TTL(v)
  BY <1>a, ConstantsAssumption DEF Entry, Entries, TTL
<1>c. \A j \in Keys : items'[j] \in {None, items[j]} \/ (j = asks[c] /\ items'[j] = Entry(v))
  BY DEF Store
<1>1. Types'
  <2>1. items' \in [Keys -> Entries \cup {None}]
    <3>1. items' = [j \in Keys |-> items'[j]]
      BY DEF Store
    <3>2. \A j \in Keys : items'[j] \in Entries \cup {None}
      BY <1>b, <1>c DEF Types
    <3> QED BY <3>1, <3>2
  <2>2. pc' \in [Callers -> Urgent \cup Waiting \cup {"idle", "done"}]
    BY DEF Types, Urgent, Waiting
  <2> QED BY <2>1, <2>2 DEF Types
<1>2. InGroup'
  <2>1. \A d \in Callers : pc[d] \in InCall => pc'[d] \in InCall
    BY DEF Types, InCall
  <2>2. \A k \in Keys : flight[k] # None => flight[k] \in Callers
    BY DEF Types
  <2> QED BY <2>1, <2>2 DEF InGroup
<1>3. \A d \in Callers : Leads(d)' /\ Returned(d)'
  <2>1. leader[c] = c /\ flight[asks[c]] = c /\ result[c] # NoResult /\ reply[c] = "none"
    BY FailureIsOutcome DEF Leads, Returned, InCall
  <2>2. pc' = [pc EXCEPT ![c] = "return"] /\ UNCHANGED <<flight, asks, leader, result, reply>>
    OBVIOUS
  <2>3. Leads(c)' /\ Returned(c)'
    BY <1>0, <2>1, <2>2 DEF Leads, Returned, Types, InCall
  <2>4. ASSUME NEW d \in Callers, d # c PROVE Leads(d)' /\ Returned(d)'
    <3>1. Leads(d) /\ Returned(d) /\ pc[c] = "store" /\ Types
      OBVIOUS
    <3> HIDE DEF IInv, StoreVerdict
    <3>2. pc'[d] = pc[d]
      BY <2>2, <2>4, <3>1 DEF Types
    <3>3. \A e \in Callers : pc'[e] = pc[e] \/ (pc[e] = "store" /\ pc'[e] = "return")
      BY <2>2, <3>1 DEF Types
    <3> QED BY <2>2, <3>1, <3>2, <3>3 DEF Leads, Returned, Active, InCall
  <2> QED BY <2>3, <2>4
<1>4. CacheAge'
  <2> SUFFICES ASSUME NEW k \in Keys, Fresh(k)'
               PROVE  (since[k][items[k].verdict] + items[k].left <= Bound(items[k].verdict))'
    BY DEF CacheAge
  <2>1. CASE items'[k] = items[k]
    BY <2>1 DEF CacheAge, Fresh
  <2>2. CASE k = asks[c] /\ items'[k] = Entry(v)
    BY <1>a, <1>b, <2>2, Numbers
  <2> QED BY <1>c, <2>1, <2>2 DEF Fresh
<1>5. HeardAge'
  BY <1>0 DEF HeardAge, Types
<1>6. SharedAge'
  BY <1>0 DEF SharedAge, Given, Types, InCall, Sharing, Active, Urgent, Waiting
<1>7. OverdueAge'
  BY <1>0, ConstantsAssumption DEF OverdueAge, Types, InCall, Sharing, Active, Urgent, Waiting
<1>8. VerdictNotOverdue'
  BY DEF VerdictNotOverdue, Types
<1> QED BY <1>1, <1>2, <1>3, <1>4, <1>5, <1>6, <1>7, <1>8

\* A request is answered what its call has returned.
LEMMA ResumePreserves == ASSUME IInv, NEW c \in Callers, Resume(c) PROVE IInv'
<1> USE DEF IInv, Resume, Goto, Answer, synapse, cache
<1>0. asks[c] \in Keys
  BY DEF Leads, Active, Urgent, Waiting, InCall, Calling
<1> DEFINE o == result[leader[c]]
<1>a. o \in Results /\ o # NoResult
  BY DEF Types, Leads, Returned
<1>b. IsVerdict(o) => since[asks[c]][o[1]] <= Bound(o[1])
  BY DEF SharedAge, Given, Sharing
<1>1. Types'
  <2>1. reply' \in [Callers -> Replies]
    BY DEF Types, Replies, ReplyTo
  <2>2. pc' \in [Callers -> Urgent \cup Waiting \cup {"idle", "done"}]
    BY DEF Types
  <2> QED BY <2>1, <2>2 DEF Types
<1>2. InGroup'
  BY <1>0, ConstantsAssumption DEF InGroup, Leads, Types, InCall, Sharing, Active, Urgent, Waiting
<1>3. \A d \in Callers : Leads(d)' /\ Returned(d)'
  BY <1>a, ConstantsAssumption DEF Leads, Returned, Types, InCall, Sharing, Active, Urgent, Waiting
<1>4. CacheAge'
  BY DEF CacheAge, Fresh, cache, synapse
<1>5. HeardAge'
  BY <1>0 DEF HeardAge, Types
<1>6. SharedAge'
  BY <1>0 DEF SharedAge, Given, Types, InCall, Sharing, Active, Urgent, Waiting
<1>7. OverdueAge'
  BY <1>0, ConstantsAssumption DEF OverdueAge, Types, InCall, Sharing, Active, Urgent, Waiting
<1>8. VerdictNotOverdue'
  <2>1. Active(c)
    BY DEF Active, Urgent
  <2> QED BY <1>a, <1>b, <2>1, AnswerNotOverdue DEF Answer
<1> QED BY <1>1, <1>2, <1>3, <1>4, <1>5, <1>6, <1>7, <1>8

\* Who leaves changes nothing that is told.
LEMMA ClientLeavesPreserves == ASSUME IInv, NEW c \in Callers, ClientLeaves(c) PROVE IInv'
BY DEF IInv, ClientLeaves, cache, synapse, Types, InGroup, Leads, Active, Returned, CacheAge,
  Fresh, HeardAge, SharedAge, Given, OverdueAge, VerdictNotOverdue

\* Every verdict on a key is at its youngest as Synapse changes its mind.
LEMMA SynapseChangesPreserves == ASSUME IInv, NEW k \in Keys, SynapseChanges(k) PROVE IInv'
<1> USE DEF IInv, SynapseChanges, synapse, cache
<1>0. /\ valid' = [valid EXCEPT ![k] = ~@]
      /\ since' = [since EXCEPT ![k] = [v \in BOOLEAN |-> 0]]
  OBVIOUS
<1>a. /\ \A j \in Keys : \A v \in BOOLEAN : since'[j][v] = (IF j = k THEN 0 ELSE since[j][v])
      /\ since' \in [Keys -> [BOOLEAN -> 0 .. LongAgo]] /\ valid' \in [Keys -> BOOLEAN]
  BY <1>0, Numbers DEF Types
<1>b. \A j \in Keys : \A v \in BOOLEAN : since'[j][v] <= since[j][v]
  BY <1>a, Numbers DEF Types
<1>1. Types'
  <2>1. overdue' \in [Callers -> SUBSET BOOLEAN]
    BY DEF Types
  <2> QED BY <1>a, <2>1 DEF Types
<1>2. InGroup'
  BY DEF InGroup
<1>3. \A d \in Callers : Leads(d)' /\ Returned(d)'
  BY DEF Leads, Returned, Active
<1>4. CacheAge'
  <2>1. \A j \in Keys : since'[j][valid'[j]] = 0
    BY <1>0, <1>a DEF CacheAge, Types
  <2>2. ASSUME NEW j \in Keys, Fresh(j)
        PROVE  since'[j][items[j].verdict] + items[j].left <= Bound(items[j].verdict)
    <3>1. items[j].verdict \in BOOLEAN /\ items[j].left \in Int
      BY <2>2 DEF Fresh, Types, Entries
    <3>2. since[j][items[j].verdict] \in Nat /\ since'[j][items[j].verdict] \in Nat
      BY <1>a, <3>1, Numbers DEF Types
    <3> QED BY <1>b, <2>2, <3>1, <3>2, Numbers DEF CacheAge
  <2> QED BY <2>1, <2>2 DEF CacheAge, Fresh
<1>5. HeardAge'
  <2> SUFFICES ASSUME NEW c \in Callers, pc[c] \in {"heard", "store"}
               PROVE  since'[asks[c]][result[c][1]] <= elapsed[c]
    BY DEF HeardAge
  <2>1. asks[c] \in Keys /\ result[c][1] \in BOOLEAN /\ elapsed[c] \in Nat
    BY Outcomes, Numbers DEF Leads, Active, Urgent, Waiting, Types
  <2>2. since[asks[c]][result[c][1]] \in Nat /\ since'[asks[c]][result[c][1]] \in Nat
    BY <1>a, <2>1, Numbers DEF Types
  <2> QED BY <1>b, <2>1, <2>2 DEF HeardAge
<1>6. SharedAge'
  <2> SUFFICES ASSUME NEW c \in Callers, pc[c] \in Sharing, IsVerdict(Given(c))
               PROVE  since'[asks[c]][Given(c)[1]] <= Bound(Given(c)[1])
    BY DEF SharedAge, Given
  <2>1. asks[c] \in Keys /\ Given(c)[1] \in BOOLEAN
    BY SharesKey, Outcomes DEF Given, Types
  <2>2. since[asks[c]][Given(c)[1]] \in Nat /\ since'[asks[c]][Given(c)[1]] \in Nat
    BY <1>a, <2>1, Numbers DEF Types
  <2> QED BY <1>b, <2>1, <2>2, Numbers DEF SharedAge
<1>7. OverdueAge'
  <2> SUFFICES ASSUME NEW c \in Callers, Active(c), NEW v \in overdue'[c]
               PROVE  since'[asks[c]][v] > Bound(v)
    BY DEF OverdueAge, Active
  <2>1. asks[c] # k /\ overdue'[c] = overdue[c]
    OBVIOUS
  <2>2. asks[c] \in Keys /\ v \in BOOLEAN
    BY <2>1 DEF Leads, Types
  <2> QED BY <1>a, <2>1, <2>2 DEF OverdueAge
<1>8. VerdictNotOverdue'
  <2>1. \A c \in Callers : overdue'[c] \subseteq overdue[c]
    OBVIOUS
  <2> QED BY <2>1 DEF VerdictNotOverdue
<1> QED BY <1>1, <1>2, <1>3, <1>4, <1>5, <1>6, <1>7, <1>8

\* Who can wait as time passes: no step of this process is due.
LEMMA WaitingInTick ==
  ASSUME IInv, Tick, NEW c \in Callers, pc[c] \in Sharing
  PROVE  \/ pc[c] \in {"call", "heard"} /\ leader[c] = c
         \/ pc[c] = "wait" /\ leader[c] \in Callers /\ Calling(leader[c])
<1>1. ~Ready(c) /\ (leader[c] \in Callers => ~Ready(leader[c]))
  BY DEF Tick
<1>2. CASE pc[c] \in InCall
  BY <1>1, <1>2 DEF Ready, Urgent, InCall, IInv, Leads
<1>3. CASE pc[c] = "wait"
  <2>1. flight[asks[c]] = leader[c] /\ asks[c] \in Keys /\ leader[c] \in Callers
    BY <1>1, <1>3, SharesKey DEF Ready
  <2>2. pc[leader[c]] \in InCall /\ pc[leader[c]] \notin Urgent
    BY <1>1, <2>1, ConstantsAssumption DEF IInv, InGroup, Ready
  <2> QED BY <1>3, <2>1, <2>2 DEF InCall, Urgent, Calling
<1>4. CASE pc[c] = "resume"
  BY <1>1, <1>4 DEF Ready, Urgent
<1> QED BY <1>2, <1>3, <1>4 DEF Sharing

\* A tick takes from a cached verdict what it adds to the verdict's age, and adds
\* as much to a call; what is overdue stays so.
LEMMA TickPreserves == ASSUME IInv, Tick PROVE IInv'
<1> USE DEF IInv
<1>0. /\ UNCHANGED <<order, flight, pc, asks, leader, result, reply, gone, valid, overdue>>
      /\ items' = [k \in Keys |->
           IF Fresh(k) THEN [items[k] EXCEPT !.left = @ - 1] ELSE items[k]]
      /\ elapsed' = [c \in Callers |-> IF Calling(c) THEN elapsed[c] + 1 ELSE elapsed[c]]
      /\ since' = [k \in Keys |-> [v \in BOOLEAN |-> Older(k, v)]]
      /\ \A c \in Callers : ~Ready(c) /\ (Calling(c) => elapsed[c] < CallTimeout)
  BY DEF Tick
<1>a. \A k \in Keys : \A v \in BOOLEAN :
        /\ since[k][v] \in 0 .. LongAgo /\ since'[k][v] = Older(k, v)
        /\ Older(k, v) \in 0 .. LongAgo /\ Older(k, v) <= since[k][v] + 1
        /\ v # valid[k] /\ since[k][v] > Bound(v) => Older(k, v) > Bound(v)
  BY <1>0, Numbers DEF Types, Older
<1>b. ASSUME NEW k \in Keys, Fresh(k)
      PROVE  /\ items[k] \in Entries /\ items'[k] \in Entries
             /\ items'[k].verdict = items[k].verdict /\ items'[k].left = items[k].left - 1
  <2>1. items[k] \in Entries /\ items[k].left >= 0
    BY <1>b DEF Types, Fresh
  <2>2. items'[k] = [items[k] EXCEPT !.left = @ - 1]
    BY <1>0, <1>b
  <2> QED BY <2>1, <2>2, ConstantsAssumption DEF Entries
<1>1. Types'
  <2>1. items' \in [Keys -> Entries \cup {None}]
    <3>1. \A k \in Keys : items'[k] \in Entries \cup {None}
      BY <1>0, <1>b DEF Types
    <3> QED BY <1>0, <3>1
  <2>2. elapsed' \in [Callers -> 0 .. CallTimeout]
    BY <1>0, Numbers DEF Types
  <2>3. since' \in [Keys -> [BOOLEAN -> 0 .. LongAgo]]
    BY <1>0, <1>a
  <2> QED BY <1>0, <2>1, <2>2, <2>3 DEF Types
<1>2. InGroup'
  BY <1>0 DEF InGroup
<1>3. \A d \in Callers : Leads(d)' /\ Returned(d)'
  BY <1>0 DEF Leads, Returned, Active
<1>4. CacheAge'
  <2>1. \A k \in Keys : since'[k][valid'[k]] = 0
    BY <1>0 DEF Older, Types
  <2>2. ASSUME NEW k \in Keys, Fresh(k)'
        PROVE  since'[k][items'[k].verdict] + items'[k].left <= Bound(items'[k].verdict)
    <3>1. Fresh(k)
      BY <1>0, <2>2 DEF Fresh
    <3>2. items[k].verdict \in BOOLEAN /\ items[k].left \in Int
      BY <1>b, <3>1 DEF Entries
    <3>3. since[k][items[k].verdict] + items[k].left <= Bound(items[k].verdict)
      BY <3>1 DEF CacheAge
    <3>4. since'[k][items[k].verdict] <= since[k][items[k].verdict] + 1
      BY <1>a, <3>2
    <3>5. /\ since[k][items[k].verdict] \in Int /\ since'[k][items[k].verdict] \in Int
          /\ Bound(items[k].verdict) \in Int
      BY <1>a, <3>2, Numbers
    <3>6. items'[k].verdict = items[k].verdict /\ items'[k].left = items[k].left - 1
      BY <1>b, <3>1
    <3> QED BY <3>2, <3>3, <3>4, <3>5, <3>6
  <2> QED BY <2>1, <2>2 DEF CacheAge
<1>5. \A c \in Callers : pc[c] = "heard" =>
        /\ result[c][1] \in BOOLEAN /\ asks[c] \in Keys
        /\ since'[asks[c]][result[c][1]] <= elapsed'[c]
        /\ elapsed'[c] \in 0 .. CallTimeout
  <2> SUFFICES ASSUME NEW c \in Callers, pc[c] = "heard"
               PROVE  /\ result[c][1] \in BOOLEAN /\ asks[c] \in Keys
                      /\ since'[asks[c]][result[c][1]] <= elapsed'[c]
                      /\ elapsed'[c] \in 0 .. CallTimeout
    OBVIOUS
  <2>1. elapsed[c] \in 0 .. CallTimeout /\ elapsed'[c] = elapsed[c] + 1 /\ elapsed[c] < CallTimeout
    BY <1>0 DEF Types, Calling
  <2>2. result[c][1] \in BOOLEAN /\ asks[c] \in Keys
    BY Outcomes DEF Types, Leads, Active, Waiting
  <2>3. since[asks[c]][result[c][1]] <= elapsed[c]
    BY DEF HeardAge
  <2> QED BY <1>a, <2>1, <2>2, <2>3, Numbers
<1>6. HeardAge'
  <2>1. \A c \in Callers : pc[c] # "store"
    BY <1>0 DEF Ready, Urgent
  <2> QED BY <1>0, <1>5, <2>1 DEF HeardAge
<1>7. SharedAge'
  <2> SUFFICES ASSUME NEW c \in Callers, pc[c] \in Sharing, IsVerdict(Given(c))
               PROVE  since'[asks[c]][Given(c)[1]] <= Bound(Given(c)[1])
    BY <1>0 DEF SharedAge, Given
  <2>1. leader[c] \in Callers /\ Calling(leader[c]) /\ asks[leader[c]] = asks[c]
    BY WaitingInTick, SharesKey DEF Calling
  <2>2. pc[leader[c]] = "heard"
    BY <2>1, FailureIsOutcome DEF Calling, Returned, Given
  <2> QED BY <1>5, <1>a, <2>1, <2>2, Numbers DEF Given
<1>8. OverdueAge'
  <2> SUFFICES ASSUME NEW c \in Callers, Active(c), NEW v \in overdue[c]
               PROVE  since'[asks[c]][v] > Bound(v)
    BY <1>0 DEF OverdueAge, Active
  <2>1. asks[c] \in Keys /\ v \in BOOLEAN /\ since[asks[c]][v] > Bound(v)
    BY DEF Leads, Types, OverdueAge
  <2>2. v # valid[asks[c]]
    BY <2>1, Numbers DEF CacheAge
  <2> QED BY <1>a, <2>1, <2>2
<1>9. VerdictNotOverdue'
  BY <1>0 DEF VerdictNotOverdue
<1> QED BY <1>1, <1>2, <1>3, <1>4, <1>6, <1>7, <1>8, <1>9

------------------------------------------------------------------------------
\* Every step keeps the ages within their bounds.
LEMMA IInvStep == IInv /\ [Next]_vars => IInv'
<1> SUFFICES ASSUME IInv, [Next]_vars PROVE IInv'
  OBVIOUS
<1>1. ASSUME NEW c \in Callers, Arrive(c) PROVE IInv'
  BY <1>1, ArrivePreserves
<1>2. ASSUME NEW c \in Callers, CallerStep(c) PROVE IInv'
  BY <1>2, LookupPreserves, JoinPreserves, RecheckPreserves, ReadVerdictPreserves,
     CallFailsPreserves, StoreVerdictPreserves, ReleasePreserves, WakePreserves,
     ResumePreserves DEF CallerStep
<1>3. ASSUME NEW c \in Callers, WhoamiAnswers(c) PROVE IInv'
  BY <1>3, WhoamiAnswersPreserves
<1>4. ASSUME NEW c \in Callers, ClientLeaves(c) PROVE IInv'
  BY <1>4, ClientLeavesPreserves
<1>5. ASSUME NEW k \in Keys, SynapseChanges(k) PROVE IInv'
  BY <1>5, SynapseChangesPreserves
<1>6. CASE Tick
  BY <1>6, TickPreserves
<1>7. CASE UNCHANGED vars
  BY <1>7 DEF vars, cache, synapse, IInv, Types, InGroup, Leads, Active, Returned, CacheAge,
     Fresh, HeardAge, SharedAge, Given, OverdueAge, VerdictNotOverdue
<1> QED BY <1>1, <1>2, <1>3, <1>4, <1>5, <1>6, <1>7 DEF Next

\* The inductive invariant: ages, and who shares whose call (authclient.go:191-217).
THEOREM Invariant == Spec => []IInv
BY IInvInit, IInvStep, PTL DEF Spec

\* Whatever the times to live, the timeout, the bound on the cache and the number
\* of requests that share a call: a request is never told a verdict that ended
\* Bound before it arrived (authclient.go:191-217, 276-291).
THEOREM VerdictsExpire == Spec => []VerdictNotOverdue
<1>1. IInv => VerdictNotOverdue
  BY DEF IInv
<1> QED BY <1>1, Invariant, PTL

------------------------------------------------------------------------------
\* Who calls Synapse leads the one call for its key.
LEMMA OneCall ==
  IInv => \A l \in Callers : Calling(l) =>
    /\ asks[l] \in Keys /\ flight[asks[l]] = l
    /\ \A c \in Callers : pc[c] \in InCall /\ asks[c] = asks[l] => c = l
BY DEF IInv, Leads, Calling, InCall, Active, Waiting

\* A step of another request leaves the key of a call without a fresh verdict.
LEMMA NoRedundantStep == IInv /\ NoRedundantCall /\ [Next]_vars => NoRedundantCall'
<1> SUFFICES ASSUME IInv, NoRedundantCall, [Next]_vars PROVE NoRedundantCall'
  OBVIOUS
<1>0. \A k, c \in Callers : (Calling(k) /\ Calling(c) /\ asks[c] = asks[k] => c = k)'
  <2>1. IInv'
    BY IInvStep
  <2> QED BY <2>1 DEF IInv, Leads, Calling, InCall, Active, Waiting
<1> SUFFICES ASSUME NEW l \in Callers, Calling(l)' PROVE ~Fresh(asks[l])'
  BY <1>0 DEF NoRedundantCall, Calling, Fresh
<1>1. CASE Calling(l) /\ asks'[l] = asks[l]
  <2>1. asks[l] \in Keys /\ ~Fresh(asks[l]) /\ Types
    BY <1>1, OneCall DEF NoRedundantCall, IInv
  <2>2. CASE items' = items
    BY <1>1, <2>1, <2>2 DEF Fresh
  <2>3. ASSUME NEW c \in Callers, asks[c] \in Keys, Hit(asks[c]) \/ Miss(asks[c])
        PROVE  ~Fresh(asks[l])'
    BY <1>1, <2>1, <2>3, LookupKeeps DEF Fresh
  <2>4. ASSUME NEW c \in Callers, StoreVerdict(c) PROVE ~Fresh(asks[l])'
    <3>1. c # l /\ asks[c] # asks[l]
      BY <1>1, <2>4, OneCall DEF StoreVerdict, Calling, InCall
    <3>2. items'[asks[l]] \in {None, items[asks[l]]}
      BY <2>1, <2>4, <3>1 DEF StoreVerdict, Store
    <3> QED BY <1>1, <2>1, <3>2 DEF Fresh
  <2>5. CASE Tick
    BY <1>1, <2>1, <2>5 DEF Tick, Fresh
  <2>6. \A c \in Callers : Lookup(c) \/ Recheck(c) => asks[c] \in Keys
    BY DEF IInv, Leads, Active, Urgent, Lookup, Recheck
  <2> QED
    BY <2>2, <2>3, <2>4, <2>5, <2>6 DEF Next, CallerStep, Arrive, Lookup, Join, Recheck,
       WhoamiAnswers, ReadVerdict, CallFails, Release, Wake, Resume, ClientLeaves,
       SynapseChanges, vars, cache
<1>2. CASE ~(Calling(l) /\ asks'[l] = asks[l])
  <2> DEFINE moved(c) == \A d \in Callers : d # c => pc'[d] = pc[d]
  <2>1. \A c \in Callers : Arrive(c) => moved(c) /\ pc'[c] = "lookup" /\ \A d \in Callers : d # c => asks'[d] = asks[d]
    BY DEF Arrive, Goto, IInv, Types
  <2>2. \A c \in Callers : CallerStep(c) \/ WhoamiAnswers(c) \/ ClientLeaves(c) => asks' = asks
    BY DEF CallerStep, Lookup, Join, Recheck, WhoamiAnswers, ReadVerdict, CallFails,
       StoreVerdict, Release, Wake, Resume, ClientLeaves
  <2>3. \A c \in Callers : CallerStep(c) =>
          moved(c) /\ (pc'[c] \in {"call", "heard"} => Recheck(c) /\ Miss(asks[c]))
    BY DEF CallerStep, Lookup, Join, Recheck, ReadVerdict, CallFails, StoreVerdict, Release,
       Wake, Resume, Goto, Answer, Return, IInv, Types
  <2>4. \A c \in Callers : WhoamiAnswers(c) => moved(c) /\ pc[c] = "call"
    BY DEF WhoamiAnswers, Goto, IInv, Types
  <2>5. (\E c \in Callers : ClientLeaves(c)) \/ (\E k \in Keys : SynapseChanges(k)) \/ Tick
          \/ UNCHANGED vars => pc' = pc /\ asks' = asks
    BY DEF ClientLeaves, SynapseChanges, Tick, vars
  <2>6. Recheck(l) /\ Miss(asks[l]) /\ asks' = asks
    BY <1>2, <2>1, <2>2, <2>3, <2>4, <2>5 DEF Next, Calling
  <2> QED BY <2>6 DEF Miss, Drop, Fresh, cache, IInv, Types, Leads, Active, Recheck, Urgent
<1> QED BY <1>1, <1>2

\* However many requests share a key, Synapse is asked once at a time and never while
\* a fresh verdict is at hand (authclient.go:200-206).
THEOREM NoRedundantCalls == Spec => []NoRedundantCall
<1>1. Init => NoRedundantCall
  BY DEF Init, NoRedundantCall, Calling
<1> QED BY <1>1, Invariant, NoRedundantStep, PTL DEF Spec

------------------------------------------------------------------------------
\* The LRU list holds the cached keys, each at one place.
InList(k, list) == \E i \in DOMAIN list : list[i] = k
Distinct(list) == \A i, j \in DOMAIN list : list[i] = list[j] => i = j

ListInv ==
  /\ order \in Seq(Keys)
  /\ Distinct(order)
  /\ \A k \in Keys : InList(k, order) <=> items[k] # None
  /\ MaxEntries > 0 => Len(order) <= MaxEntries

\* The list without the element of a key.
LEMMA WithoutKey ==
  ASSUME ListInv, NEW k \in Keys
  PROVE  /\ Without(k) \in Seq(Keys)
         /\ Distinct(Without(k))
         /\ \A j \in Keys : InList(j, Without(k)) <=> j # k /\ items[j] # None
         /\ Len(Without(k)) = IF items[k] = None THEN Len(order) ELSE Len(order) - 1
<1>1. CASE items[k] = None
  BY <1>1 DEF ListInv, Without
<1>2. CASE items[k] # None
  <2> DEFINE n == Len(order)
             p == Place(k)
             rest == [i \in 1 .. n - 1 |-> order[IF i < p THEN i ELSE i + 1]]
  <2>1. n \in Nat /\ DOMAIN order = 1 .. n /\ \A i \in 1 .. n : order[i] \in Keys
    BY DEF ListInv
  <2>2. p \in 1 .. n /\ order[p] = k
    BY <1>2, <2>1 DEF ListInv, InList, Place
  <2>3. Without(k) = rest
    BY <1>2 DEF Without
  <2> HIDE DEF p
  <2>4. n - 1 \in Nat /\ \A i \in 1 .. n - 1 : rest[i] \in Keys
    BY <2>1, <2>2
  <2>5. rest \in Seq(Keys) /\ DOMAIN rest = 1 .. n - 1 /\ Len(rest) = n - 1
    BY <2>4
  <2>6. Distinct(rest)
    <3> SUFFICES ASSUME NEW i \in 1 .. n - 1, NEW j \in 1 .. n - 1, rest[i] = rest[j]
                 PROVE  i = j
      BY <2>5 DEF Distinct
    <3>1. (IF i < p THEN i ELSE i + 1) \in 1 .. n /\ (IF j < p THEN j ELSE j + 1) \in 1 .. n
      BY <2>1, <2>2
    <3>2. (IF i < p THEN i ELSE i + 1) = (IF j < p THEN j ELSE j + 1)
      BY <2>1, <3>1 DEF ListInv, Distinct
    <3> QED BY <2>2, <3>2
  <2>7. ASSUME NEW j \in Keys PROVE InList(j, rest) <=> j # k /\ items[j] # None
    <3>1. ASSUME NEW i \in 1 .. n - 1, rest[i] = j PROVE j # k /\ items[j] # None
      <4>1. /\ (IF i < p THEN i ELSE i + 1) \in 1 .. n
            /\ (IF i < p THEN i ELSE i + 1) # p
        BY <2>1, <2>2
      <4> QED BY <2>1, <2>2, <3>1, <4>1 DEF ListInv, Distinct, InList
    <3>2. ASSUME j # k, items[j] # None PROVE \E i \in 1 .. n - 1 : rest[i] = j
      <4>1. PICK q \in 1 .. n : order[q] = j
        BY <2>1, <3>2 DEF ListInv, InList
      <4>2. q # p
        BY <2>2, <3>2, <4>1
      <4>3. CASE q < p
        BY <2>1, <2>2, <4>1, <4>3
      <4>4. CASE q > p
        <5>1. q - 1 \in 1 .. n - 1 /\ ~(q - 1 < p) /\ (q - 1) + 1 = q
          BY <2>1, <2>2, <4>1, <4>4
        <5> QED BY <4>1, <5>1
      <4> QED BY <2>1, <2>2, <4>1, <4>2, <4>3, <4>4
    <3> QED BY <2>5, <3>1, <3>2 DEF InList
  <2> QED BY <1>2, <2>3, <2>5, <2>6, <2>7
<1> QED BY <1>1, <1>2

\* A key put in front of a list it is not in.
LEMMA InFront ==
  ASSUME NEW list \in Seq(Keys), Distinct(list), NEW k \in Keys, ~InList(k, list)
  PROVE  /\ <<k>> \o list \in Seq(Keys)
         /\ Distinct(<<k>> \o list)
         /\ \A j \in Keys : InList(j, <<k>> \o list) <=> j = k \/ InList(j, list)
         /\ Len(<<k>> \o list) = Len(list) + 1
         /\ (<<k>> \o list)[1] = k
<1> DEFINE n == Len(list)
           front == <<k>> \o list
<1>1. n \in Nat /\ DOMAIN list = 1 .. n /\ \A i \in 1 .. n : list[i] \in Keys
  OBVIOUS
<1>2. /\ front \in Seq(Keys) /\ Len(front) = n + 1 /\ DOMAIN front = 1 .. n + 1
      /\ front[1] = k /\ \A i \in 2 .. n + 1 : front[i] = list[i - 1]
  BY <1>1
<1> HIDE DEF front
<1>3. Distinct(front)
  <2> SUFFICES ASSUME NEW i \in 1 .. n + 1, NEW j \in 1 .. n + 1, front[i] = front[j]
               PROVE  i = j
    BY <1>2 DEF Distinct
  <2>1. \A m \in 2 .. n + 1 : front[m] # k
    BY <1>1, <1>2 DEF InList
  <2>2. CASE i = 1 \/ j = 1
    BY <1>1, <1>2, <2>1, <2>2
  <2>3. CASE i # 1 /\ j # 1
    <3>1. i - 1 \in 1 .. n /\ j - 1 \in 1 .. n /\ list[i - 1] = list[j - 1]
      BY <1>1, <1>2, <2>3
    <3>2. i - 1 = j - 1
      BY <1>1, <3>1 DEF Distinct
    <3> QED BY <3>2
  <2> QED BY <2>2, <2>3
<1>4. ASSUME NEW j \in Keys PROVE InList(j, front) <=> j = k \/ InList(j, list)
  <2>1. ASSUME NEW i \in 1 .. n + 1, front[i] = j PROVE j = k \/ InList(j, list)
    <3>1. CASE i = 1
      BY <1>2, <2>1, <3>1
    <3>2. CASE i # 1
      BY <1>1, <1>2, <2>1, <3>2 DEF InList
    <3> QED BY <3>1, <3>2
  <2>2. ASSUME NEW i \in 1 .. n, list[i] = j PROVE InList(j, front)
    <3>1. i + 1 \in 2 .. n + 1 /\ (i + 1) - 1 = i
      BY <1>1
    <3>2. front[i + 1] = j
      BY <1>2, <2>2, <3>1
    <3>3. i + 1 \in DOMAIN front
      BY <1>1, <1>2
    <3> QED BY <3>2, <3>3 DEF InList
  <2>3. j = k => InList(j, front)
    BY <1>1, <1>2 DEF InList
  <2> QED BY <1>1, <1>2, <2>1, <2>2, <2>3 DEF InList
<1> QED BY <1>2, <1>3, <1>4 DEF front

LEMMA HitKeepsList == ASSUME ListInv, NEW k \in Keys, Hit(k) PROVE ListInv'
<1>1. ~InList(k, Without(k)) /\ items[k] # None
  BY WithoutKey DEF Hit, Fresh
<1>2. order' = <<k>> \o Without(k) /\ UNCHANGED items
  BY DEF Hit, MoveToFront
<1>3. /\ order' \in Seq(Keys) /\ Distinct(order') /\ Len(order') = Len(Without(k)) + 1
      /\ \A j \in Keys : InList(j, order') <=> j = k \/ InList(j, Without(k))
  BY <1>1, <1>2, WithoutKey, InFront
<1>4. Len(order') = Len(order)
  BY <1>1, <1>3, WithoutKey DEF ListInv
<1> QED BY <1>1, <1>2, <1>3, <1>4, WithoutKey DEF ListInv

LEMMA MissKeepsList == ASSUME Types, ListInv, NEW k \in Keys, Miss(k) PROVE ListInv'
<1>1. CASE UNCHANGED cache
  BY <1>1 DEF ListInv, cache
<1>2. CASE items[k] # None /\ Drop(k)
  <2>1. order' = Without(k) /\ \A j \in Keys : items'[j] # None <=> j # k /\ items[j] # None
    BY <1>2 DEF Drop, Types
  <2>2. Len(order) \in Nat /\ Len(order') = Len(order) - 1
    BY <1>2, <2>1, WithoutKey DEF ListInv
  <2> QED BY <2>1, <2>2, WithoutKey, ConstantsAssumption DEF ListInv
<1> QED BY <1>1, <1>2 DEF Miss

\* The front of a list, as long as the bound allows.
LEMMA KeptList ==
  ASSUME NEW list \in Seq(Keys), Distinct(list), Len(list) > 0
  PROVE  /\ Kept(list) \in Seq(Keys) /\ Distinct(Kept(list))
         /\ MaxEntries > 0 => Len(Kept(list)) <= MaxEntries
         /\ \A j \in Keys : InList(j, Kept(list)) => InList(j, list)
         /\ InList(list[1], Kept(list))
<1>1. CASE MaxEntries = 0 \/ Len(list) <= MaxEntries
  BY <1>1, ConstantsAssumption DEF Kept, InList
<1>2. CASE MaxEntries # 0 /\ Len(list) > MaxEntries
  <2>1. Kept(list) = SubSeq(list, 1, MaxEntries) /\ MaxEntries \in 1 .. Len(list)
    BY <1>2, ConstantsAssumption DEF Kept
  <2>2. /\ Kept(list) \in Seq(Keys) /\ Len(Kept(list)) = MaxEntries
        /\ DOMAIN Kept(list) = 1 .. MaxEntries
        /\ \A i \in 1 .. MaxEntries : Kept(list)[i] = list[i]
    BY <2>1
  <2>3. 1 .. MaxEntries \subseteq DOMAIN list /\ 1 \in 1 .. MaxEntries
    BY <2>1
  <2> QED BY <2>2, <2>3, ConstantsAssumption DEF Distinct, InList
<1> QED BY <1>1, <1>2, ConstantsAssumption

LEMMA StoreKeepsList ==
  ASSUME Types, ListInv, NEW k \in Keys, NEW v \in BOOLEAN, Store(k, v) PROVE ListInv'
<1> DEFINE list == <<k>> \o Without(k)
<1>1. ~InList(k, Without(k))
  BY WithoutKey
<1>2. /\ list \in Seq(Keys) /\ Distinct(list) /\ Len(list) > 0 /\ list[1] = k
      /\ \A j \in Keys : InList(j, list) <=> j = k \/ items[j] # None
  BY <1>1, WithoutKey, InFront
<1> HIDE DEF list
<1>3. /\ Kept(list) \in Seq(Keys) /\ Distinct(Kept(list)) /\ InList(k, Kept(list))
      /\ MaxEntries > 0 => Len(Kept(list)) <= MaxEntries
      /\ \A j \in Keys : InList(j, Kept(list)) => j = k \/ items[j] # None
  BY <1>2, KeptList
<1>4. order' = Kept(list)
  BY DEF Store, list
<1>5. \A j \in Keys : items'[j] = IF ~InList(j, Kept(list)) THEN None
                                  ELSE IF j = k THEN Entry(v) ELSE items[j]
  BY DEF Store, list, InList
<1>6. Entry(v) # None
  BY Numbers, ConstantsAssumption DEF Entry, Entries, TTL
<1>7. \A j \in Keys : InList(j, order') <=> items'[j] # None
  BY <1>3, <1>4, <1>5, <1>6
<1> QED BY <1>3, <1>4, <1>7 DEF ListInv

LEMMA ListInvStep == ASSUME IInv, ListInv, [Next]_vars PROVE ListInv'
<1>1. ASSUME NEW c \in Callers, Lookup(c) \/ Recheck(c) \/ StoreVerdict(c) PROVE ListInv'
  <2>1. Types /\ asks[c] \in Keys
    BY <1>1 DEF IInv, Leads, Active, Urgent, Lookup, Recheck, StoreVerdict
  <2>2. CASE Hit(asks[c]) \/ Miss(asks[c])
    BY <2>1, <2>2, HitKeepsList, MissKeepsList
  <2>3. CASE StoreVerdict(c)
    <3>1. result[c][1] \in BOOLEAN
      BY <2>1, Outcomes DEF Types
    <3> QED BY <2>1, <2>3, <3>1, StoreKeepsList DEF StoreVerdict
  <2> QED BY <1>1, <2>2, <2>3 DEF Lookup, Recheck
<1>2. CASE UNCHANGED cache
  BY <1>2 DEF ListInv, cache
<1>3. CASE Tick
  <2>1. UNCHANGED order /\ \A k \in Keys : items'[k] # None <=> items[k] # None
    <3>1. ASSUME NEW k \in Keys, Fresh(k)
          PROVE  items[k] # None /\ [items[k] EXCEPT !.left = @ - 1] # None
      <4>1. items[k] \in Entries /\ items[k].left >= 0
        BY <3>1 DEF Fresh, IInv, Types
      <4>2. [items[k] EXCEPT !.left = @ - 1] \in Entries
        BY <4>1, ConstantsAssumption DEF Entries
      <4> QED BY <4>1, <4>2, ConstantsAssumption
    <3> QED BY <1>3, <3>1 DEF Tick
  <2> QED BY <2>1 DEF ListInv
<1> QED
  BY <1>1, <1>2, <1>3 DEF Next, CallerStep, Arrive, Join, WhoamiAnswers, ReadVerdict, CallFails,
     Release, Wake, Resume, ClientLeaves, SynapseChanges, vars

\* The map and the list never disagree, and the bound on the number of verdicts holds,
\* for every number of tokens and every bound (authclient.go:276-311).
THEOREM MapFollowsList == Spec => []MapMatchesList
<1>1. Init => ListInv
  <2> SUFFICES ASSUME Init PROVE ListInv
    OBVIOUS
  <2>1. order = <<>> /\ \A k \in Keys : items[k] = None
    BY DEF Init
  <2> QED BY <2>1, ConstantsAssumption DEF ListInv, Distinct, InList
<1>2. ASSUME ListInv PROVE MapMatchesList
  <2> DEFINE cached == {k \in Keys : items[k] # None}
             n == Len(order)
  <2>1. n \in Nat /\ DOMAIN order = 1 .. n /\ \A i \in 1 .. n : order[i] \in Keys
    BY <1>2 DEF ListInv
  <2>2. {order[i] : i \in DOMAIN order} = cached
    BY <1>2, <2>1 DEF ListInv, InList
  <2>3. order \in Bijection(1 .. n, cached)
    <3>1. order \in [1 .. n -> cached]
      BY <1>2, <2>1 DEF ListInv, InList
    <3>2. \A i, j \in 1 .. n : order[i] = order[j] => i = j
      BY <1>2, <2>1 DEF ListInv, Distinct
    <3>3. \A k \in cached : \E i \in 1 .. n : order[i] = k
      BY <1>2, <2>1 DEF ListInv, InList
    <3> QED BY <3>1, <3>2, <3>3 DEF Bijection, Injection, Surjection, IsInjective
  <2>4. Cardinality(cached) = n
    BY <2>1, <2>3, FS_CountingElements DEF ExistsBijection
  <2> QED BY <1>2, <2>2, <2>4 DEF MapMatchesList, ListInv
<1>3. IInv /\ ListInv /\ [Next]_vars => ListInv'
  BY ListInvStep
<1> QED BY <1>1, <1>2, <1>3, Invariant, PTL DEF Spec
==============================================================================
