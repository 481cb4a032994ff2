------------------------- MODULE ThumbnailCache_proofs -------------------------
(***************************************************************************)
(* ServedWhole, TempFollowsPut, LeastRecentlyUsed and BoundAfterSweep hold *)
(* for every number of keys, puts and readers and every limit.  The        *)
(* argument: only a rename gives a key a file, a file that is renamed is   *)
(* whole, a whole file never changes, and a name that a sweep found gone   *)
(* never leads to the file the sweep had seen there again.                 *)
(***************************************************************************)
EXTENDS ThumbnailCache, FiniteSetTheorems, WellFoundedInduction, TLAPS

Types ==
  /\ dir \in [Names -> Puts \cup {None}]
  /\ written \in [Puts -> {"nothing", "part", "whole"}]
  /\ key \in [Puts -> Keys \cup {None}]
  /\ pc \in [Puts -> {"idle", "create", "write", "rename", "cleanup", "done"}]
  /\ handle \in [Readers -> Puts \cup {None}]
  /\ wants \in [Readers -> Keys \cup {None}]
  /\ killed \subseteq Puts

\* A put that has been called has its key, and one that renames has written all.
Progress ==
  \A p \in Puts :
    /\ pc[p] \in {"create", "write", "rename"} => key[p] \in Keys
    /\ pc[p] = "rename" => written[p] = "whole"
    /\ pc[p] \in {"idle", "create"} => dir[p] = None

KeysAreWhole ==
  \A k \in Keys : dir[k] # None =>
    /\ written[dir[k]] = "whole"
    /\ key[dir[k]] = k
    /\ pc[dir[k]] \in {"cleanup", "done"}

TempIsOwn == \A p \in Puts : dir[p] \in {p, None}

HandlesAreWhole ==
  \A r \in Readers : handle[r] # None =>
    /\ written[handle[r]] = "whole"
    /\ key[handle[r]] = wants[r]
    /\ pc[handle[r]] \in {"cleanup", "done"}

IInv ==
  /\ Types
  /\ Progress
  /\ KeysAreWhole
  /\ TempIsOwn
  /\ HandlesAreWhole
  /\ TempFollowsPut

------------------------------------------------------------------------------
LEMMA InitIInv == Init => IInv
BY ConstantsAssumption
   DEF Init, IInv, Types, Progress, KeysAreWhole, TempIsOwn, HandlesAreWhole, TempFollowsPut, Names

\* The steps of the janitor and of the clock, which only take names away.
LEMMA JanitorStep ==
  ASSUME IInv,
         \/ StartSweep \/ Walked \/ EndSweep \/ Tick \/ UNCHANGED vars
         \/ \E k \in Keys : ReadDir(k)
         \/ \E n \in Names : Info(n)
         \/ \E e \in Oldest : Evict(e)
  PROVE  IInv'
<1>1. UNCHANGED <<written, key, pc, handle, wants, killed>>
  BY DEF StartSweep, Walked, EndSweep, Tick, vars, files, put, reader, ReadDir, Info, Evict
<1>2. dir' = dir \/ \E n : dir' = [dir EXCEPT ![n] = None]
  BY DEF StartSweep, Walked, EndSweep, Tick, vars, files, ReadDir, Info, Evict
<1>3. Types'
  BY <1>1, <1>2 DEF IInv, Types
<1>4. \A n \in Names : dir'[n] \in {dir[n], None}
  BY <1>2 DEF IInv, Types
<1> QED
  BY <1>1, <1>3, <1>4
     DEF IInv, Types, Progress, KeysAreWhole, TempIsOwn, HandlesAreWhole, TempFollowsPut, Names,
         InProgress

LEMMA PutStep ==
  ASSUME IInv, NEW p \in Puts,
         \/ \E k \in Keys : \E n \in Sizes : Call(p, k, n)
         \/ Create(p) \/ WritePart(p) \/ WriteRest(p) \/ WriteFails(p) \/ Rename(p) \/ Cleanup(p)
  PROVE  IInv'
<1> USE ConstantsAssumption
    DEF IInv, Types, Progress, KeysAreWhole, TempIsOwn, HandlesAreWhole, TempFollowsPut, Names,
        InProgress, Goto
<1>1. ASSUME NEW k \in Keys, NEW n \in Sizes, Call(p, k, n) PROVE IInv'
  BY <1>1 DEF Call, files, reader
<1>2. CASE Create(p)
  BY <1>2 DEF Create, reader
<1>3. CASE WritePart(p)
  BY <1>3 DEF WritePart, put, reader
<1>4. CASE WriteRest(p)
  BY <1>4 DEF WriteRest, reader
<1>5. CASE WriteFails(p)
  BY <1>5 DEF WriteFails, files, reader
<1>6. CASE Rename(p)
  <2>1. CASE dir[p] = None
    BY <1>6, <2>1 DEF Rename, reader
  <2>2. CASE dir[p] # None
    BY <1>6, <2>2 DEF Rename, reader
  <2> QED BY <2>1, <2>2
<1>7. CASE Cleanup(p)
  BY <1>7 DEF Cleanup, reader
<1> QED BY <1>1, <1>2, <1>3, <1>4, <1>5, <1>6, <1>7

LEMMA ReaderStep ==
  ASSUME IInv, NEW r \in Readers, (\E k \in Keys : Open(r, k)) \/ Close(r)
  PROVE  IInv'
<1> USE DEF IInv, Types, Progress, KeysAreWhole, TempIsOwn, HandlesAreWhole, TempFollowsPut, Names,
            InProgress
<1>1. ASSUME NEW k \in Keys, Open(r, k) PROVE IInv'
  BY <1>1 DEF Open, put
<1>2. CASE Close(r)
  BY <1>2 DEF Close, files, put
<1> QED BY <1>1, <1>2

LEMMA CrashStep ==
  ASSUME IInv, Crash
  PROVE  IInv'
BY DEF Crash, files, IInv, Types, Progress, KeysAreWhole, TempIsOwn, HandlesAreWhole,
       TempFollowsPut, Names, InProgress

LEMMA StepIInv == IInv /\ [Next]_vars => IInv'
<1> SUFFICES ASSUME IInv, [Next]_vars PROVE IInv'
  OBVIOUS
<1> QED BY JanitorStep, PutStep, ReaderStep, CrashStep DEF Next

------------------------------------------------------------------------------
\* thumbcache.go:75-77: a reader never has a truncated thumbnail open, nor another key's.
THEOREM NeverTruncated == Spec => []ServedWhole
<1>1. IInv => ServedWhole
  BY DEF IInv, HandlesAreWhole, ServedWhole
<1> QED BY InitIInv, StepIInv, <1>1, PTL DEF Spec

\* thumbcache.go:88-91: no temporary file outlives its put, unless the process was killed.
THEOREM NoTempLeft == Spec => []TempFollowsPut
<1>1. IInv => TempFollowsPut
  BY DEF IInv
<1> QED BY InitIInv, StepIInv, <1>1, PTL DEF Spec
------------------------------------------------------------------------------
\* What a sweep has seen of a file stays true of its put, so that a file it passed
\* over because it was gone does not come back.
SeenOf(f) ==
  /\ f.file \in Puts
  /\ \/ f.name = f.file /\ pc[f.file] \notin {"idle", "create"}
     \/ f.name \in Keys /\ pc[f.file] \in {"cleanup", "done"}

SeenInv ==
  /\ sweep = "walking" => kept = entries
  /\ \A f \in kept : SeenOf(f)
  /\ sweep = "evicting" => \A f \in kept \ entries : ~Present(f)

LEMMA SeenInvInit == Init => SeenInv
BY DEF Init, SeenInv

\* The steps of a put move it on, and give no name back to a file that was seen.
LEMMA PutKeepsSeen ==
  ASSUME IInv, NEW p \in Puts,
         \/ \E k \in Keys : \E n \in Sizes : Call(p, k, n)
         \/ Create(p) \/ WritePart(p) \/ WriteRest(p) \/ WriteFails(p) \/ Rename(p) \/ Cleanup(p),
         NEW f, SeenOf(f)
  PROVE  SeenOf(f)' /\ (~Present(f) => ~Present(f)')
<1> USE ConstantsAssumption DEF IInv, Types, Progress, Names, Goto, SeenOf, Present
<1>1. CASE \E k \in Keys : \E n \in Sizes : Call(p, k, n)
  BY <1>1 DEF Call, files
<1>2. CASE Create(p)
  BY <1>2 DEF Create
<1>3. CASE WritePart(p) \/ WriteRest(p) \/ WriteFails(p)
  BY <1>3 DEF WritePart, WriteRest, WriteFails, files, put
<1>4. CASE Rename(p)
  <2>1. CASE dir[p] = None
    BY <1>4, <2>1 DEF Rename
  <2>2. CASE dir[p] # None
    BY <1>4, <2>2 DEF Rename
  <2> QED BY <2>1, <2>2
<1>5. CASE Cleanup(p)
  BY <1>5 DEF Cleanup
<1> QED BY <1>1, <1>2, <1>3, <1>4, <1>5

LEMMA InfoSees ==
  ASSUME IInv, NEW n \in Names, dir[n] # None, NEW f, f.name = n, f.file = dir[n]
  PROVE  SeenOf(f)
BY DEF IInv, Types, Progress, KeysAreWhole, TempIsOwn, Names, SeenOf

LEMMA EvictPasses ==
  ASSUME IInv, SeenInv, NEW e \in Oldest, Evict(e)
  PROVE  SeenInv'
<1>1. /\ sweep = "evicting" /\ e \in entries /\ UNCHANGED <<sweep, pc>>
      /\ entries' = entries \ {e}
      /\ \/ dir[e.name] = None /\ UNCHANGED <<dir, kept>>
         \/ dir' = [dir EXCEPT ![e.name] = None] /\ kept' = kept \ {e}
  BY DEF Evict, Oldest, put
<1>2. \A f \in kept : SeenOf(f)' /\ f.file # None /\ f.name \in Names
  BY <1>1, ConstantsAssumption DEF SeenInv, SeenOf, Names
<1>3. \A f \in kept \ entries : ~Present(f)'
  <2>1. \A n \in Names : dir'[n] \in {dir[n], None}
    BY <1>1 DEF IInv, Types
  <2> QED BY <1>1, <1>2, <2>1 DEF SeenInv, Present
<1>4. \A f \in kept' \ entries' : ~Present(f)'
  BY <1>1, <1>2, <1>3 DEF Present
<1> QED BY <1>1, <1>2, <1>4 DEF SeenInv

LEMMA SeenInvStep == ASSUME IInv, SeenInv, [Next]_vars PROVE SeenInv'
<1>1. ASSUME NEW p \in Puts,
             \/ \E k \in Keys : \E n \in Sizes : Call(p, k, n)
             \/ Create(p) \/ WritePart(p) \/ WriteRest(p) \/ WriteFails(p) \/ Rename(p)
             \/ Cleanup(p)
      PROVE  SeenInv'
  <2>1. UNCHANGED janitor
    BY <1>1 DEF Call, Create, WritePart, WriteRest, WriteFails, Rename, Cleanup
  <2>2. \A f : SeenOf(f) => SeenOf(f)' /\ (~Present(f) => ~Present(f)')
    BY <1>1, PutKeepsSeen
  <2> QED BY <2>1, <2>2 DEF SeenInv, janitor
<1>2. CASE \/ \E r \in Readers : (\E k \in Keys : Open(r, k)) \/ Close(r)
           \/ Tick \/ UNCHANGED vars \/ \E k \in Keys : ReadDir(k)
  <2>1. UNCHANGED <<sweep, entries, kept, pc, dir>>
    BY <1>2 DEF Open, Close, Tick, vars, ReadDir, files, put, janitor
  <2> QED BY <2>1 DEF SeenInv, SeenOf, Present
<1>3. CASE StartSweep \/ Walked \/ EndSweep \/ Crash
  BY <1>3 DEF StartSweep, Walked, EndSweep, Crash, SeenInv, SeenOf, put
<1>4. ASSUME NEW n \in Names, Info(n) PROVE SeenInv'
  <2>1. /\ sweep = "walking" /\ UNCHANGED <<sweep, pc, dir>> /\ kept = entries
        /\ \/ UNCHANGED <<entries, kept>>
           \/ /\ dir[n] # None /\ kept' = entries'
              /\ entries' = entries \cup {[name |-> n, file |-> dir[n], size |-> SizeOf(dir[n]),
                                           atime |-> atime[dir[n]]]}
    BY <1>4 DEF Info, files, put, SeenInv
  <2>2. \A f \in kept' : SeenOf(f)
    BY <2>1, InfoSees DEF SeenInv
  <2> QED BY <2>1, <2>2 DEF SeenInv, SeenOf
<1> QED BY <1>1, <1>2, <1>3, <1>4, EvictPasses DEF Next

\* thumbcache.go:147-150: whatever is put, read, replaced or lost while a sweep runs, it
\* removes no file while one it saw as used longer ago is still where it saw it.
THEOREM EvictionIsLRU == Spec => LeastRecentlyUsed
<1>1. ASSUME SeenInv, Next, sweep = "evicting", NEW e \in kept \ kept', NEW f \in kept',
             Present(f)
      PROVE  e.atime <= f.atime
  <2>1. PICK o \in Oldest : Evict(o)
    BY <1>1 DEF Next, Call, Create, WritePart, WriteRest, WriteFails, Rename, Cleanup, Open,
                Close, StartSweep, Walked, EndSweep, ReadDir, Info, Crash, Tick, janitor
  <2>2. kept' = kept \ {o} /\ e = o
    BY <1>1, <2>1 DEF Evict
  <2>3. f \in entries
    BY <1>1, <2>2 DEF SeenInv
  <2> QED BY <2>2, <2>3 DEF Oldest
<1>2. SeenInv /\ [Next]_vars =>
        [sweep = "evicting" =>
           \A e \in kept \ kept' : \A f \in kept' : Present(f) => e.atime <= f.atime]_vars
  BY <1>1
<1>3. IInv /\ SeenInv /\ [Next]_vars => SeenInv'
  BY SeenInvStep
<1> QED
  BY <1>2, <1>3, InitIInv, StepIInv, SeenInvInit, PTL DEF Spec, LeastRecentlyUsed
------------------------------------------------------------------------------
\* The sum of the sizes of a finite set of entries.  It is defined by recursion over
\* subsets; each induction is by a smallest set for which the statement fails.
Bytes(S) == MapThenSumSet(LAMBDA e : e.size, S)

Sized(S) == IsFiniteSet(S) /\ \A e \in S : e.size \in Nat

Some(s) == CHOOSE x \in s : TRUE
Rest(s) == s \ {Some(s)}

SumsOver(g, S) ==
  g = [s \in SUBSET S |-> IF s = {} THEN 0 ELSE Some(s).size + g[Rest(s)]]

TheSums(S) == CHOOSE g : SumsOver(g, S)

LEMMA BytesIsSum == \A S : Bytes(S) = TheSums(S)[S]
BY DEF Bytes, MapThenSumSet, MapThenFoldSet, TheSums, SumsOver, Some, Rest

LEMMA SomeIn == \A s : s # {} => Some(s) \in s
BY DEF Some

\* A family of subsets of a finite set has a smallest member.
LEMMA Smallest ==
  ASSUME NEW S, IsFiniteSet(S), NEW T, T \subseteq SUBSET S, T # {}
  PROVE  \E s \in T : \A r \in T : r \subseteq s => r = s
<1>1. IsWellFoundedOn(StrictSubsetOrdering(S), SUBSET S)
  BY FS_StrictSubsetOrderingWellFounded, FS_FiniteSubsetsOfFinite
<1>2. PICK s \in T : \A r \in T : <<r, s>> \notin StrictSubsetOrdering(S)
  BY <1>1, WFMin
<1>3. \A r \in T : r \subseteq s => r = s
  BY <1>2 DEF StrictSubsetOrdering
<1> QED BY <1>3

LEMMA SumsUnique ==
  ASSUME NEW S, IsFiniteSet(S), NEW g, NEW h, SumsOver(g, S), SumsOver(h, S)
  PROVE  g = h
<1> DEFINE Bad == {s \in SUBSET S : g[s] # h[s]}
<1>1. ASSUME Bad # {} PROVE FALSE
  <2>0. Bad \subseteq SUBSET S
    OBVIOUS
  <2>1. PICK s \in Bad : \A r \in Bad : r \subseteq s => r = s
    <3> HIDE DEF Bad
    <3> QED BY <1>1, <2>0, Smallest
  <2>2. s # {}
    BY <2>1 DEF SumsOver
  <2>3. Rest(s) \subseteq s /\ Rest(s) # s /\ Rest(s) \in SUBSET S
    BY <2>1, <2>2, SomeIn DEF Rest
  <2>4. g[Rest(s)] = h[Rest(s)]
    BY <2>1, <2>3
  <2>5. g[s] = Some(s).size + g[Rest(s)] /\ h[s] = Some(s).size + h[Rest(s)]
    BY <2>1, <2>2 DEF SumsOver
  <2> QED BY <2>1, <2>4, <2>5
<1>2. \A s \in SUBSET S : g[s] = h[s]
  BY <1>1
<1>3. /\ g = [s \in SUBSET S |-> g[s]]
      /\ h = [s \in SUBSET S |-> h[s]]
  BY DEF SumsOver
<1> QED BY <1>2, <1>3

\* The sums over a set are the sums over its subsets.
LEMMA SumsOfPart ==
  ASSUME NEW S, NEW g, SumsOver(g, S), NEW R \in SUBSET S
  PROVE  SumsOver([s \in SUBSET R |-> g[s]], R)
<1> DEFINE h == [s \in SUBSET R |-> g[s]]
<1>1. \A s \in SUBSET R : s # {} => g[s] = Some(s).size + h[Rest(s)]
  BY DEF SumsOver, Rest
<1>2. \A s \in SUBSET R : s = {} => g[s] = 0
  BY DEF SumsOver
<1>3. h = [s \in SUBSET R |-> IF s = {} THEN 0 ELSE Some(s).size + h[Rest(s)]]
  BY <1>1, <1>2
<1> QED BY <1>3 DEF SumsOver

LEMMA SumsExist ==
  ASSUME NEW S, IsFiniteSet(S)
  PROVE  SumsOver(TheSums(S), S)
<1> DEFINE Bad == {s \in SUBSET S : ~ \E g : SumsOver(g, s)}
<1>1. ASSUME Bad # {} PROVE FALSE
  <2>0. Bad \subseteq SUBSET S
    OBVIOUS
  <2>1. PICK s \in Bad : \A r \in Bad : r \subseteq s => r = s
    <3> HIDE DEF Bad
    <3> QED BY <1>1, <2>0, Smallest
  <2>2. \A r \in SUBSET s : r # s => SumsOver(TheSums(r), r) /\ IsFiniteSet(r)
    BY <2>1, FS_Subset DEF TheSums
  <2> DEFINE val(r) == TheSums(r)[r]
             g == [r \in SUBSET s |-> IF r = {} THEN 0 ELSE Some(r).size + val(Rest(r))]
  <2>3. ASSUME NEW r \in SUBSET s, r # {} PROVE g[Rest(r)] = val(Rest(r))
    <3> DEFINE u == Rest(r)
    <3>1. u \in SUBSET s /\ u # s
      BY <2>3, SomeIn DEF Rest
    <3>2. SumsOver(TheSums(u), u) /\ IsFiniteSet(u)
      BY <2>2, <3>1
    <3>3. CASE u = {}
      <4>1. val(u) = 0
        BY <3>2, <3>3 DEF SumsOver
      <4> QED BY <3>1, <3>3, <4>1
    <3>4. CASE u # {}
      <4> HIDE DEF u
      <4>1. Rest(u) \in SUBSET u /\ Rest(u) # s
        BY <3>1, <3>4, SomeIn DEF Rest
      <4>2. SumsOver([t \in SUBSET Rest(u) |-> TheSums(u)[t]], Rest(u))
        BY <3>2, <4>1, SumsOfPart
      <4>3. SumsOver(TheSums(Rest(u)), Rest(u)) /\ IsFiniteSet(Rest(u))
        BY <2>2, <3>1, <4>1
      <4>4. TheSums(Rest(u)) = [t \in SUBSET Rest(u) |-> TheSums(u)[t]]
        BY <4>2, <4>3, SumsUnique
      <4>5. val(Rest(u)) = TheSums(u)[Rest(u)]
        BY <4>4
      <4>6. val(u) = Some(u).size + TheSums(u)[Rest(u)]
        BY <3>2, <3>4 DEF SumsOver
      <4> QED BY <3>1, <3>4, <4>5, <4>6 DEF u
    <3> QED BY <3>3, <3>4
  <2>4. g = [r \in SUBSET s |-> IF r = {} THEN 0 ELSE Some(r).size + g[Rest(r)]]
    BY <2>3
  <2>5. SumsOver(g, s)
    BY <2>4 DEF SumsOver
  <2> QED BY <2>1, <2>5
<1>2. \E g : SumsOver(g, S)
  BY <1>1
<1> QED BY <1>2 DEF TheSums

LEMMA BytesEmpty == Bytes({}) = 0
BY BytesIsSum, SumsExist, FS_EmptySet DEF SumsOver

LEMMA BytesStep ==
  ASSUME NEW S, IsFiniteSet(S), S # {}
  PROVE  Bytes(S) = Some(S).size + Bytes(Rest(S))
<1>1. SumsOver(TheSums(S), S)
  BY SumsExist
<1>2. Rest(S) \in SUBSET S /\ IsFiniteSet(Rest(S))
  BY FS_Subset DEF Rest
<1>3. SumsOver([s \in SUBSET Rest(S) |-> TheSums(S)[s]], Rest(S))
  BY <1>1, <1>2, SumsOfPart
<1>4. TheSums(Rest(S)) = [s \in SUBSET Rest(S) |-> TheSums(S)[s]]
  BY <1>2, <1>3, SumsExist, SumsUnique
<1>5. Bytes(Rest(S)) = TheSums(S)[Rest(S)]
  BY <1>4, BytesIsSum
<1>6. TheSums(S)[S] = Some(S).size + TheSums(S)[Rest(S)]
  BY <1>1 DEF SumsOver
<1> QED BY <1>5, <1>6, BytesIsSum

\* Any entry may be the one that is added last.
LEMMA BytesRemove ==
  ASSUME NEW S, Sized(S)
  PROVE  /\ Bytes(S) \in Nat
         /\ \A x \in S : Bytes(S) = Bytes(S \ {x}) + x.size
<1> DEFINE Good(s) == Bytes(s) \in Nat /\ \A x \in s : Bytes(s) = Bytes(s \ {x}) + x.size
           Bad == {s \in SUBSET S : ~Good(s)}
<1>1. ASSUME Bad # {} PROVE FALSE
  <2>0. Bad \subseteq SUBSET S
    OBVIOUS
  <2>1. PICK s \in Bad : \A r \in Bad : r \subseteq s => r = s
    <3> HIDE DEF Bad
    <3> QED BY <1>1, <2>0, Smallest DEF Sized
  <2>2. \A r \in SUBSET s : r # s => Good(r)
    BY <2>1
  <2>3. s # {}
    BY <2>1, BytesEmpty
  <2>4. IsFiniteSet(s) /\ \A x \in s : x.size \in Nat
    BY <2>1, FS_Subset DEF Sized
  <2> DEFINE c == Some(s)
  <2>5. c \in s /\ Bytes(s) = c.size + Bytes(s \ {c})
    BY <2>3, <2>4, SomeIn, BytesStep DEF Rest
  <2> HIDE DEF c, Good
  <2>6. \A x \in s : Good(s \ {x})
    BY <2>2
  <2>7. Bytes(s) \in Nat
    BY <2>4, <2>5, <2>6 DEF Good
  <2>8. ASSUME NEW x \in s, x # c PROVE Bytes(s) = Bytes(s \ {x}) + x.size
    <3>1. Bytes(s \ {c}) = Bytes((s \ {c}) \ {x}) + x.size
      BY <2>5, <2>6, <2>8 DEF Good
    <3>2. Bytes(s \ {x}) = Bytes((s \ {x}) \ {c}) + c.size
      BY <2>5, <2>6, <2>8 DEF Good
    <3>3. (s \ {c}) \ {x} = (s \ {x}) \ {c}
      OBVIOUS
    <3>4. Good((s \ {c}) \ {x})
      BY <2>2, <2>5
    <3> DEFINE b == Bytes((s \ {c}) \ {x})
    <3>5. b \in Nat /\ c.size \in Nat /\ x.size \in Nat
      BY <2>4, <2>5, <3>4 DEF Good
    <3>6. Bytes(s \ {c}) = b + x.size /\ Bytes(s \ {x}) = b + c.size
      BY <3>1, <3>2, <3>3
    <3> HIDE DEF b
    <3> QED BY <2>5, <3>5, <3>6
  <2>9. Bytes(s) = Bytes(s \ {c}) + c.size
    BY <2>4, <2>5, <2>6 DEF Good
  <2>10. Good(s)
    BY <2>7, <2>8, <2>9 DEF Good
  <2> QED BY <2>1, <2>10
<1>2. Good(S)
  BY <1>1
<1> QED BY <1>2

LEMMA BytesOfPart ==
  ASSUME NEW S, Sized(S), NEW R \in SUBSET S
  PROVE  Bytes(R) <= Bytes(S)
<1> DEFINE Bad == {s \in SUBSET S : ~(R \subseteq s => Bytes(R) <= Bytes(s))}
<1>1. ASSUME Bad # {} PROVE FALSE
  <2>0. Bad \subseteq SUBSET S
    OBVIOUS
  <2>1. PICK s \in Bad : \A r \in Bad : r \subseteq s => r = s
    <3> HIDE DEF Bad
    <3> QED BY <1>1, <2>0, Smallest DEF Sized
  <2>2. Sized(R) /\ Sized(s)
    BY <2>1, FS_Subset DEF Sized
  <2>3. R # s
    <3>1. Bytes(R) <= Bytes(R)
      BY <2>2, BytesRemove
    <3> QED BY <2>1, <3>1
  <2>4. PICK x \in s : x \notin R
    BY <2>1, <2>3
  <2> DEFINE r == s \ {x}
  <2>5. Bytes(R) <= Bytes(r)
    BY <2>1, <2>4
  <2>6. Sized(r) /\ x.size \in Nat
    BY <2>2, FS_Subset DEF Sized
  <2>7. Bytes(R) \in Nat /\ Bytes(r) \in Nat /\ Bytes(s) = Bytes(r) + x.size
    BY <2>2, <2>6, BytesRemove
  <2> HIDE DEF r
  <2>8. Bytes(R) <= Bytes(s)
    BY <2>5, <2>6, <2>7
  <2> QED BY <2>1, <2>8
<1> QED BY <1>1

------------------------------------------------------------------------------
\* What a sweep adds up is at least what it has yet to look at or has passed over, and
\* what it passed over is not where it saw it.
Left == {e \in kept : Present(e)}

BoundInv ==
  /\ size \in [Puts -> Nat]
  /\ Sized(kept) /\ entries \subseteq kept
  /\ sweep # "waiting" => total \in Int /\ Bytes(entries) <= total
  /\ sweep = "waiting" => Bytes(Left) <= MaxBytes

LEMMA BoundInit == Init => BoundInv
<1> SUFFICES ASSUME Init PROVE BoundInv
  OBVIOUS
<1>1. size \in [Puts -> Nat] /\ kept = {} /\ entries = {} /\ sweep = "waiting" /\ Left = {}
  BY DEF Init, Left
<1> QED BY <1>1, BytesEmpty, FS_EmptySet, ConstantsAssumption DEF BoundInv, Sized

\* A step that leaves the janitor alone, and brings no file back that it saw.
LEMMA OthersKeepBound ==
  ASSUME BoundInv, UNCHANGED janitor, size' \in [Puts -> Nat], Left' \subseteq Left
  PROVE  BoundInv'
<1>1. UNCHANGED <<sweep, entries, total, kept>>
  BY DEF janitor
<1>2. Sized(Left)
  BY FS_Subset DEF BoundInv, Sized, Left
<1>3. Sized(Left') /\ Bytes(Left') <= Bytes(Left)
  BY <1>2, BytesOfPart, FS_Subset DEF Sized
<1>4. Bytes(Left) \in Nat /\ Bytes(Left') \in Nat
  BY <1>2, <1>3, BytesRemove
<1>5. Bytes(Left) <= MaxBytes => Bytes(Left') <= MaxBytes
  BY <1>3, <1>4, ConstantsAssumption
<1> QED BY <1>1, <1>5 DEF BoundInv

LEMMA InfoAdds ==
  ASSUME Types, SeenInv, BoundInv, NEW n \in Names, Info(n)
  PROVE  BoundInv'
<1>1. /\ sweep = "walking" /\ sweep' = "walking" /\ kept = entries /\ size' = size
  BY DEF Info, SeenInv, put
<1>2. CASE dir[n] = None
  BY <1>1, <1>2 DEF Info, BoundInv
<1>3. CASE dir[n] # None
  <2> DEFINE x == [name |-> n, file |-> dir[n], size |-> SizeOf(dir[n]),
                   atime |-> atime[dir[n]]]
  <2>1. entries' = entries \cup {x} /\ kept' = entries' /\ total' = total + x.size
    BY <1>3 DEF Info
  <2>2. x.size \in Nat
    BY <1>3 DEF Types, BoundInv, SizeOf
  <2> HIDE DEF x
  <2>3. Sized(entries')
    BY <1>1, <2>1, <2>2, FS_AddElement DEF BoundInv, Sized
  <2>4. Bytes(entries) \in Nat /\ Bytes(entries') \in Nat
    BY <1>1, <2>3, BytesRemove DEF BoundInv
  <2>5. CASE x \in entries
    <3>1. entries' = entries /\ Bytes(entries') = Bytes(entries)
      BY <2>1, <2>5
    <3>2. total \in Int /\ Bytes(entries) <= total
      BY <1>1 DEF BoundInv
    <3>3. total' \in Int /\ Bytes(entries') <= total'
      BY <2>1, <2>2, <2>4, <3>1, <3>2
    <3> QED BY <1>1, <2>1, <2>3, <3>3 DEF BoundInv
  <2>6. CASE x \notin entries
    <3>1. entries' \ {x} = entries /\ x \in entries'
      BY <2>1, <2>6
    <3>2. Bytes(entries') = Bytes(entries) + x.size
      BY <2>3, <3>1, BytesRemove
    <3> QED BY <1>1, <2>1, <2>2, <2>3, <2>4, <3>2 DEF BoundInv
  <2> QED BY <2>5, <2>6
<1> QED BY <1>2, <1>3

LEMMA EvictSubtracts ==
  ASSUME BoundInv, NEW e \in Oldest, Evict(e)
  PROVE  BoundInv'
<1>1. /\ sweep = "evicting" /\ sweep' = "evicting" /\ size' = size /\ e \in entries
      /\ entries' = entries \ {e}
      /\ \/ kept' = kept /\ total' = total
         \/ kept' = kept \ {e} /\ total' = total - e.size
  BY DEF Evict, Oldest, put
<1>2. Sized(kept') /\ entries' \subseteq kept' /\ Sized(entries)
  BY <1>1, FS_Subset DEF BoundInv, Sized
<1>3. Sized(entries')
  BY <1>1, <1>2, FS_Subset DEF Sized
<1>4. /\ Bytes(entries) \in Nat /\ Bytes(entries') \in Nat /\ e.size \in Nat
      /\ Bytes(entries) = Bytes(entries') + e.size
  BY <1>1, <1>2, <1>3, BytesRemove DEF Sized
<1>5. total \in Int /\ Bytes(entries) <= total
  BY <1>1 DEF BoundInv
<1>6. total' \in Int /\ Bytes(entries') <= total'
  BY <1>1, <1>4, <1>5
<1> QED BY <1>1, <1>2, <1>6 DEF BoundInv

LEMMA EndKeepsBound ==
  ASSUME SeenInv, BoundInv, EndSweep
  PROVE  BoundInv'
<1>1. /\ sweep = "evicting" /\ sweep' = "waiting" /\ entries' = {} /\ kept' = kept
      /\ size' = size /\ Left' = Left /\ (total <= MaxBytes \/ entries = {})
  BY DEF EndSweep, files, put, Left, Present
<1>2. Left \subseteq entries
  BY <1>1 DEF SeenInv, Left
<1>3. Sized(entries) /\ Sized(Left)
  BY <1>2, FS_Subset DEF BoundInv, Sized
<1>4. Bytes(Left) \in Nat /\ Bytes(entries) \in Nat /\ Bytes(Left) <= Bytes(entries)
  BY <1>2, <1>3, BytesRemove, BytesOfPart
<1>5. CASE entries = {}
  <2>1. Left = {}
    BY <1>2, <1>5
  <2>2. Bytes(Left) <= MaxBytes
    BY <2>1, BytesEmpty, ConstantsAssumption
  <2> QED BY <1>1, <2>2 DEF BoundInv
<1>6. CASE total <= MaxBytes
  <2>1. total \in Int /\ Bytes(entries) <= total
    BY <1>1 DEF BoundInv
  <2>2. Bytes(Left) <= MaxBytes
    BY <1>4, <1>6, <2>1, ConstantsAssumption
  <2> QED BY <1>1, <2>2 DEF BoundInv
<1> QED BY <1>1, <1>5, <1>6

LEMMA BoundStep == ASSUME IInv, SeenInv, BoundInv, [Next]_vars PROVE BoundInv'
<1>1. ASSUME NEW p \in Puts,
             \/ \E k \in Keys : \E n \in Sizes : Call(p, k, n)
             \/ Create(p) \/ WritePart(p) \/ WriteRest(p) \/ WriteFails(p) \/ Rename(p)
             \/ Cleanup(p)
      PROVE  BoundInv'
  <2>1. UNCHANGED janitor
    BY <1>1 DEF Call, Create, WritePart, WriteRest, WriteFails, Rename, Cleanup
  <2>2. size' \in [Puts -> Nat]
    BY <1>1, ConstantsAssumption
       DEF Call, Create, WritePart, WriteRest, WriteFails, Rename, Cleanup, put, BoundInv
  <2>3. \A f : SeenOf(f) => (~Present(f) => ~Present(f)')
    BY <1>1, PutKeepsSeen
  <2>4. Left' \subseteq Left
    BY <2>1, <2>3 DEF SeenInv, Left, janitor
  <2> QED BY <2>1, <2>2, <2>4, OthersKeepBound
<1>2. CASE \/ \E r \in Readers : (\E k \in Keys : Open(r, k)) \/ Close(r)
           \/ Tick \/ UNCHANGED vars
  <2>1. UNCHANGED <<janitor, dir, size>>
    BY <1>2 DEF Open, Close, Tick, vars, files, put
  <2>2. Left' = Left
    BY <2>1 DEF Left, Present, janitor
  <2> QED BY <2>1, <2>2, OthersKeepBound DEF BoundInv
<1>3. CASE Walked \/ \E k \in Keys : ReadDir(k)
  <2>1. /\ UNCHANGED <<entries, total, kept, size>> /\ sweep = "walking" /\ sweep' # "waiting"
    BY <1>3 DEF Walked, ReadDir, put
  <2> QED BY <2>1 DEF BoundInv
<1>4. CASE StartSweep \/ Crash
  <2>1. kept' = {} /\ entries' = {} /\ total' = 0 /\ size' = size /\ Left' = {}
    BY <1>4 DEF StartSweep, Crash, put, Left
  <2> QED BY <2>1, BytesEmpty, FS_EmptySet, ConstantsAssumption DEF BoundInv, Sized
<1>5. ASSUME NEW n \in Names, Info(n) PROVE BoundInv'
  BY <1>5, InfoAdds DEF IInv
<1>6. ASSUME NEW e \in Oldest, Evict(e) PROVE BoundInv'
  BY <1>6, EvictSubtracts
<1>7. CASE EndSweep
  BY <1>7, EndKeepsBound
<1> QED BY <1>1, <1>2, <1>3, <1>4, <1>5, <1>6, <1>7 DEF Next

\* thumbcache.go:122-124: when a sweep ends, what it saw and left is within the limit; its
\* total never falls below what is left, whatever vanished or was replaced meanwhile.
THEOREM SweepKeepsBound == Spec => []BoundAfterSweep
<1>1. BoundInv => BoundAfterSweep
  BY DEF BoundInv, BoundAfterSweep, Bytes, Left
<1>2. IInv /\ SeenInv /\ [Next]_vars => SeenInv'
  BY SeenInvStep
<1>3. IInv /\ SeenInv /\ BoundInv /\ [Next]_vars => BoundInv'
  BY BoundStep
<1> QED
  BY <1>1, <1>2, <1>3, InitIInv, StepIInv, SeenInvInit, BoundInit, PTL DEF Spec
==============================================================================
