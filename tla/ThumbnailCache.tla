---------------------------- MODULE ThumbnailCache ----------------------------
(***************************************************************************)
(* The worker's own thumbnail store (thumbcache.go): files written beside  *)
(* their place and renamed into it, read by requests, and evicted by a     *)
(* janitor that lists one directory after another, looks at one file after *)
(* another and removes the least recently used ones.  There is no index:   *)
(* the directory is all the state there is, and puts, reads and crashes    *)
(* come between any two of the janitor's steps.                            *)
(*                                                                         *)
(* A file is named by the put that writes it, and so is its temporary      *)
(* name.  Every key has a directory of its own.                            *)
(*                                                                         *)
(* An operator whose name begins with Bug is a plausible slip in the code  *)
(* it stands next to.  No action uses one.                                 *)
(***************************************************************************)
EXTENDS Integers, FiniteSetsExt

CONSTANTS
  Keys,      \* cache keys
  Puts,      \* calls of Put, each made once
  Readers,   \* requests that open a cached file
  Sizes,     \* the sizes a thumbnail may have
  MaxBytes,  \* cache.max_bytes
  MaxTime,   \* bound on the clock
  MaxSweeps, \* bound on the ticks of the janitor
  None

ASSUME ConstantsAssumption ==
  /\ Keys \cap Puts = {} /\ None \notin Puts
  /\ Sizes \subseteq Nat \ {0}
  /\ MaxBytes \in Nat \ {0}
  /\ MaxTime \in Nat /\ MaxSweeps \in Nat

Names == Keys \cup Puts    \* a key's path and a put's temporary name
Time == 0 .. MaxTime

VARIABLES
  clock,
  dir,      \* the file each name leads to
  written,  \* what has been written of a file
  atime,    \* when it was last accessed
  key,      \* Put's arguments: where the data belongs
  size,     \* and its length
  pc,       \* the next step of each put
  handle,   \* the file a reader has open
  wants,    \* the key it asked for
  sweep,    \* the next step of the janitor
  unread,   \* WalkDir: directories it has not read
  listed,   \* names it has read but not looked at
  entries,  \* Sweep's entries: the ones not yet passed by its loop
  total,    \* its total
  sweeps,   \* sweeps begun
  kept,     \* history: the entries that no sweep step has removed
  killed    \* history: the puts whose process died

files == <<dir, written, atime>>
put == <<key, size, pc>>
reader == <<handle, wants>>
janitor == <<sweep, unread, listed, entries, total, sweeps, kept>>
vars == <<clock, files, put, reader, janitor, killed>>

------------------------------------------------------------------------------
Entries == [name : Names, file : Puts, size : Nat, atime : Time]

TypeOK ==
  /\ clock \in Time
  /\ dir \in [Names -> Puts \cup {None}]
  /\ written \in [Puts -> {"nothing", "part", "whole"}]
  /\ atime \in [Puts -> Time]
  /\ key \in [Puts -> Keys \cup {None}]
  /\ size \in [Puts -> Sizes \cup {0}]
  /\ pc \in [Puts -> {"idle", "create", "write", "rename", "cleanup", "done"}]
  /\ handle \in [Readers -> Puts \cup {None}]
  /\ wants \in [Readers -> Keys \cup {None}]
  /\ sweep \in {"waiting", "walking", "evicting"}
  /\ unread \subseteq Keys
  /\ listed \subseteq Names
  /\ entries \subseteq Entries
  /\ total \in Int
  /\ sweeps \in 0 .. MaxSweeps
  /\ kept \subseteq Entries
  /\ killed \subseteq Puts

Init ==
  /\ clock = 0
  /\ dir = [n \in Names |-> None]
  /\ written = [p \in Puts |-> "nothing"]
  /\ atime = [p \in Puts |-> 0]
  /\ key = [p \in Puts |-> None]
  /\ size = [p \in Puts |-> 0]
  /\ pc = [p \in Puts |-> "idle"]
  /\ handle = [r \in Readers |-> None]
  /\ wants = [r \in Readers |-> None]
  /\ sweep = "waiting"
  /\ unread = {}
  /\ listed = {}
  /\ entries = {}
  /\ total = 0
  /\ sweeps = 0
  /\ kept = {}
  /\ killed = {}

Goto(p, step) == pc' = [pc EXCEPT ![p] = step]

------------------------------------------------------------------------------
\* Put.
Call(p, k, n) ==
  /\ pc[p] = "idle"
  /\ key' = [key EXCEPT ![p] = k]
  /\ size' = [size EXCEPT ![p] = n]
  /\ Goto(p, "create")
  /\ UNCHANGED <<clock, files, reader, janitor, killed>>

\* os.CreateTemp, in the key's directory.
BugCreate(p) ==    \* writes in place
  /\ pc[p] = "create"
  /\ dir' = [dir EXCEPT ![key[p]] = p]
  /\ atime' = [atime EXCEPT ![p] = clock]
  /\ Goto(p, "write")
  /\ UNCHANGED <<clock, written, key, size, reader, janitor, killed>>

Create(p) ==
  /\ pc[p] = "create"
  /\ dir' = [dir EXCEPT ![p] = p]
  /\ atime' = [atime EXCEPT ![p] = clock]
  /\ Goto(p, "write")
  /\ UNCHANGED <<clock, written, key, size, reader, janitor, killed>>

\* tmp.Write and tmp.Close, which go on when the name has been removed.
WritePart(p) ==
  /\ pc[p] = "write"
  /\ written[p] = "nothing"
  /\ written' = [written EXCEPT ![p] = "part"]
  /\ UNCHANGED <<clock, dir, atime, put, reader, janitor, killed>>

WriteRest(p) ==
  /\ pc[p] = "write"
  /\ written[p] = "part"
  /\ written' = [written EXCEPT ![p] = "whole"]
  /\ Goto(p, "rename")
  /\ UNCHANGED <<clock, dir, atime, key, size, reader, janitor, killed>>

BugWriteFails(p) ==    \* returns before the deferred os.Remove is set up
  /\ pc[p] = "write"
  /\ Goto(p, "done")
  /\ UNCHANGED <<clock, files, key, size, reader, janitor, killed>>

WriteFails(p) ==
  /\ pc[p] = "write"
  /\ Goto(p, "cleanup")
  /\ UNCHANGED <<clock, files, key, size, reader, janitor, killed>>

\* os.Rename, which fails if the janitor has removed the temporary file.
Rename(p) ==
  /\ pc[p] = "rename"
  /\ dir' = IF dir[p] = None THEN dir ELSE [dir EXCEPT ![key[p]] = p, ![p] = None]
  /\ Goto(p, "cleanup")
  /\ UNCHANGED <<clock, written, atime, key, size, reader, janitor, killed>>

\* The deferred os.Remove(tmpName).
Cleanup(p) ==
  /\ pc[p] = "cleanup"
  /\ dir' = [dir EXCEPT ![p] = None]
  /\ Goto(p, "done")
  /\ UNCHANGED <<clock, written, atime, key, size, reader, janitor, killed>>

------------------------------------------------------------------------------
\* Open, and what is then read of the file.  A mount with relatime may leave atime alone.
Open(r, k) ==
  /\ handle[r] = None
  /\ dir[k] # None
  /\ handle' = [handle EXCEPT ![r] = dir[k]]
  /\ wants' = [wants EXCEPT ![r] = k]
  /\ \/ atime' = [atime EXCEPT ![dir[k]] = clock]
     \/ UNCHANGED atime
  /\ UNCHANGED <<clock, dir, written, put, janitor, killed>>

Close(r) ==
  /\ handle[r] # None
  /\ handle' = [handle EXCEPT ![r] = None]
  /\ wants' = [wants EXCEPT ![r] = None]
  /\ UNCHANGED <<clock, files, put, janitor, killed>>

------------------------------------------------------------------------------
\* RunJanitor's ticker: Sweep begins to walk.
StartSweep ==
  /\ sweep = "waiting"
  /\ sweeps < MaxSweeps
  /\ sweep' = "walking"
  /\ unread' = Keys
  /\ listed' = {}
  /\ entries' = {}
  /\ total' = 0
  /\ sweeps' = sweeps + 1
  /\ kept' = {}
  /\ UNCHANGED <<clock, files, put, reader, killed>>

\* The names in a key's directory: the cached file and those in progress.
Listing(k) == {n \in {k} \cup {p \in Puts : key[p] = k} : dir[n] # None}

ReadDir(k) ==
  /\ sweep = "walking"
  /\ k \in unread
  /\ listed = {}
  /\ listed' = Listing(k)
  /\ unread' = unread \ {k}
  /\ UNCHANGED <<clock, files, put, reader, sweep, entries, total, sweeps, kept, killed>>

SizeOf(p) == CASE written[p] = "nothing" -> 0
               [] written[p] = "part" -> 1
               [] written[p] = "whole" -> size[p]

\* d.Info(): a file that is gone is skipped.
Info(n) ==
  /\ sweep = "walking"
  /\ n \in listed
  /\ listed' = listed \ {n}
  /\ LET p == dir[n]
     IN  IF p = None
           THEN UNCHANGED <<entries, total, kept>>
           ELSE /\ entries' = entries \cup {[name |-> n, file |-> p, size |-> SizeOf(p),
                                            atime |-> atime[p]]}
                /\ total' = total + SizeOf(p)
                /\ kept' = entries'
  /\ UNCHANGED <<clock, files, put, reader, sweep, unread, sweeps, killed>>

Walked ==
  /\ sweep = "walking"
  /\ unread = {} /\ listed = {}
  /\ sweep' = "evicting"
  /\ UNCHANGED <<clock, files, put, reader, unread, listed, entries, total, sweeps, kept, killed>>

BugOldest == {e \in entries : \A f \in entries : e.atime >= f.atime}

\* The order of the sort; of two with one atime either may come first.
Oldest == {e \in entries : \A f \in entries : e.atime <= f.atime}

\* os.Remove, of whatever is at the path by now; total stays when nothing is.
BugEvict(e) ==    \* gives the sweep up at the first file it cannot remove
  /\ sweep = "evicting"
  /\ total > MaxBytes
  /\ e \in Oldest
  /\ IF dir[e.name] = None
       THEN /\ entries' = {}
            /\ UNCHANGED <<dir, total, kept>>
       ELSE /\ dir' = [dir EXCEPT ![e.name] = None]
            /\ entries' = entries \ {e}
            /\ total' = total - e.size
            /\ kept' = kept \ {e}
  /\ UNCHANGED <<clock, written, atime, put, reader, sweep, unread, listed, sweeps, killed>>

Evict(e) ==
  /\ sweep = "evicting"
  /\ total > MaxBytes
  /\ e \in Oldest
  /\ entries' = entries \ {e}
  /\ IF dir[e.name] = None
       THEN UNCHANGED <<dir, total, kept>>
       ELSE /\ dir' = [dir EXCEPT ![e.name] = None]
            /\ total' = total - e.size
            /\ kept' = kept \ {e}
  /\ UNCHANGED <<clock, written, atime, put, reader, sweep, unread, listed, sweeps, killed>>

EndSweep ==
  /\ sweep = "evicting"
  /\ total <= MaxBytes \/ entries = {}
  /\ sweep' = "waiting"
  /\ entries' = {} /\ total' = 0
  /\ UNCHANGED <<clock, files, put, reader, unread, listed, sweeps, kept, killed>>

------------------------------------------------------------------------------
InProgress(p) == pc[p] \notin {"idle", "done"}

\* The process dies: its puts and its sweep end where they are, its readers are gone.
Crash ==
  /\ killed' = killed \cup {p \in Puts : InProgress(p)}
  /\ pc' = [p \in Puts |-> IF InProgress(p) THEN "done" ELSE pc[p]]
  /\ handle' = [r \in Readers |-> None]
  /\ wants' = [r \in Readers |-> None]
  /\ sweep' = "waiting"
  /\ unread' = {} /\ listed' = {} /\ entries' = {} /\ total' = 0 /\ kept' = {}
  /\ UNCHANGED <<clock, files, key, size, sweeps>>

Tick ==
  /\ clock < MaxTime
  /\ clock' = clock + 1
  /\ UNCHANGED <<files, put, reader, janitor, killed>>

Next ==
  \/ \E p \in Puts :
       \/ \E k \in Keys : \E n \in Sizes : Call(p, k, n)
       \/ Create(p) \/ WritePart(p) \/ WriteRest(p) \/ WriteFails(p) \/ Rename(p) \/ Cleanup(p)
  \/ \E r \in Readers : (\E k \in Keys : Open(r, k)) \/ Close(r)
  \/ StartSweep \/ Walked \/ EndSweep
  \/ \E k \in Keys : ReadDir(k)
  \/ \E n \in Names : Info(n)
  \/ \E e \in Oldest : Evict(e)
  \/ Crash
  \/ Tick

Spec == Init /\ [][Next]_vars

------------------------------------------------------------------------------
\* thumbcache.go:75-77: what a reader has open is a whole thumbnail of the key it asked
\* for, whatever puts, evictions and crashes there are while it reads.
ServedWhole ==
  \A r \in Readers : handle[r] # None =>
    written[handle[r]] = "whole" /\ key[handle[r]] = wants[r]

Present(e) == dir[e.name] = e.file

\* thumbcache.go:122-124: when a sweep has ended, what it saw and left in place is within
\* the limit, also if files vanished or were replaced while it ran.
BoundAfterSweep ==
  sweep = "waiting" => MapThenSumSet(LAMBDA e : e.size, {e \in kept : Present(e)}) <= MaxBytes

\* thumbcache.go:147-150: no file is evicted that had been used later than one the sweep
\* saw beside it and left in place.
LeastRecentlyUsed ==
  [][sweep = "evicting" =>
       \A e \in kept \ kept' : \A f \in kept' : Present(f) => e.atime <= f.atime]_vars

\* thumbcache.go:88-91: a temporary file is its put's, which is at work on it or was killed.
TempFollowsPut ==
  \A p \in Puts : dir[p] # None => InProgress(p) \/ p \in killed

=============================================================================
