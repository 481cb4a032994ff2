----------------------------- MODULE MediaPaths -----------------------------
(***************************************************************************)
(* Where media lie in the store, and where the worker may write            *)
(* (paths.go).  A string is the sequence of its characters' codes.  A path *)
(* is its top-level directory and the sequence of names below it.          *)
(*                                                                         *)
(* join calls filepath.Clean and checks that the result has not left the   *)
(* store.  Both leave a path alone that has no empty name, no "." and no   *)
(* ".." (IsClean); the paths of all IDs that this program or Synapse makes *)
(* are such, which LocalMedia_proofs shows, and join is modelled for them. *)
(***************************************************************************)
EXTENDS Integers, Sequences

Letters == (65 .. 90) \cup (97 .. 122)
Digits == 48 .. 57
Dot == 46
Hyphen == 45
Underscore == 95

Strings == Seq(Int)

\* The letters, the digits and _ - . [ ] : in any order.
validPathComponentChar(r) ==
  r \in Letters \cup Digits \cup {Underscore, Hyphen, Dot, 91, 93, 58}

Special == {<<>>, <<Dot>>, <<Dot, Dot>>}

validatePathComponent(component) ==
  /\ component \notin Special
  /\ \A j \in 1 .. Len(component) : validPathComponentChar(component[j])

\* random_string: letters only, 24 of them.  shard takes any from 5 on.
IDs == {id \in Seq(Letters) : Len(id) >= 5}

\* random_string after a date and an underscore.  newFormatIDRe is the date.
IsDated(id) ==
  /\ Len(id) >= 10
  /\ \A j \in {1, 2, 3, 4, 6, 7, 9, 10} : id[j] \in Digits
  /\ id[5] = Hyphen /\ id[8] = Hyphen

DatedIDs ==
  {id \in Strings : IsDated(id) /\ Len(id) >= 12 /\ id[11] = Underscore
                    /\ \A j \in 12 .. Len(id) : id[j] \in Letters}

Components == {c \in Strings : validatePathComponent(c)}

------------------------------------------------------------------------------
\* The two-two-rest directories of an ID.
shard(id) == <<SubSeq(id, 1, 2), SubSeq(id, 3, 4), SubSeq(id, 5, Len(id))>>

\* The date, and what follows the character after it.
dated(id) == <<SubSeq(id, 1, 10), SubSeq(id, 12, Len(id))>>

join(top, names) == [top |-> top, names |-> names]

LocalMedia(id) == join("local_content", shard(id))

\* A thumbnail's name comes from thumbnailFileName or legacyThumbnailFileName,
\* which return a valid component.
LocalThumbnail(id, name) == join("local_thumbnails", shard(id) \o <<name>>)

RemoteMedia(serverName, id) == join("remote_content", <<serverName>> \o shard(id))

RemoteThumbnail(serverName, id, name) ==
  join("remote_thumbnail", <<serverName>> \o shard(id) \o <<name>>)

URLCache(id) == join("url_cache", IF IsDated(id) THEN dated(id) ELSE shard(id))

URLCacheThumbnail(id, name) ==
  join("url_cache_thumbnails", (IF IsDated(id) THEN dated(id) ELSE shard(id)) \o <<name>>)

------------------------------------------------------------------------------
writablePrefixes(uploadsAllowed) ==
  {"remote_content", "remote_thumbnail"}
    \cup IF uploadsAllowed THEN {"local_content", "local_thumbnails"} ELSE {}

WritablePath(path, uploadsAllowed) == path.top \in writablePrefixes(uploadsAllowed)

tempDirName == <<Dot, 116, 109, 112>>    \* .tmp

\* What CreateTemp asks of the final path, and the directory it uses.
MayCreateTemp(final, uploadsAllowed) ==
  WritablePath(final, uploadsAllowed) /\ final.names # <<>>

TempDirFor(final) == join(final.top, <<tempDirName>>)

TempDirs(uploadsAllowed) == {join(top, <<tempDirName>>) : top \in writablePrefixes(uploadsAllowed)}

------------------------------------------------------------------------------
\* filepath.Clean has nothing to do, and the path stays in the store.
IsClean(path) == \A j \in 1 .. Len(path.names) : path.names[j] \notin Special

\* Whether a path lies in a directory.
Within(path, dir) ==
  /\ path.top = dir.top
  /\ Len(path.names) >= Len(dir.names)
  /\ \A j \in 1 .. Len(dir.names) : path.names[j] = dir.names[j]

\* The paths of what is there to be served, the ones of thumbnails included.  No server
\* has a name that begins with a dot.
ServerNames == {s \in Components : s[1] # Dot}

MediaFiles ==
  {LocalMedia(id) : id \in IDs}
    \cup {LocalThumbnail(id, name) : id \in IDs, name \in Components}
    \cup {RemoteMedia(s, id) : s \in ServerNames, id \in IDs}
    \cup {RemoteThumbnail(s, id, name) : s \in ServerNames, id \in IDs, name \in Components}
    \cup {URLCache(id) : id \in IDs \cup DatedIDs}
    \cup {URLCacheThumbnail(id, name) : id \in IDs \cup DatedIDs, name \in Components}

=============================================================================
