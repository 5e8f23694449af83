------------------------------- MODULE Trash -------------------------------
(***************************************************************************)
(* The delete tool (hx-tools trash.rs) on the local host (hx-remote        *)
(* local.rs): a free name is looked for in the trash's two directories,    *)
(* the record is written under it, and the file is moved there without     *)
(* replacing, by a link or, where there can be none, by a copy.            *)
(*                                                                         *)
(* The deletions of several runs go on at once, files come back under the  *)
(* paths they were deleted from, and the daemon can die at any step.  All  *)
(* paths end in the same name, so the names in the trash are numbers: 1 is *)
(* <name>, 2 is <name>.2.  A directory is a file that cannot be linked and *)
(* whose copy fails.                                                       *)
(***************************************************************************)
EXTENDS Integers, FiniteSets, FiniteSetsExt

CONSTANTS
    Deletes,      \* the calls, one each
    Paths,        \* what they may name
    MaxName,      \* the 9999 of free_name
    MaxFiles,     \* bound on the files that ever exist
    None

VARIABLES
    home,         \* of each path: the file there
    files, info,  \* the trash: of each name its file, and the path on its record
    pc,           \* of each deletion: where it is
    path,         \*   what it was asked to delete
    taken,        \*   the names it has seen in use
    dest,         \*   the name it chose
    holds,        \*   the file it linked or opened
    born,         \* how many files have existed
    swept         \* history: files a deletion unlinked in place of the one it moved

disk == <<home, files, info>>
vars == <<disk, pc, path, taken, dest, holds, born, swept>>

Names == 1..MaxName
Partial == 0     \* what an unfinished copy has left; files are numbered from 1

Init ==
    /\ home = CHOOSE h \in [Paths -> 1..Cardinality(Paths)] : \A p, q \in Paths : h[p] = h[q] => p = q
    /\ \/ /\ born = Cardinality(Paths)
          /\ files = [n \in Names |-> None] /\ info = [n \in Names |-> None]
       \/ /\ born = Cardinality(Paths) + 1
          /\ files = [n \in Names |-> IF n = 1 THEN born ELSE None]
          /\ \E p \in Paths : info = [n \in Names |-> IF n = 1 THEN p ELSE None]
    /\ pc = [d \in Deletes |-> "idle"] /\ path = [d \in Deletes |-> None]
    /\ taken = [d \in Deletes |-> {}] /\ dest = [d \in Deletes |-> None]
    /\ holds = [d \in Deletes |-> None] /\ swept = {}

Goto(d, l) == pc' = [pc EXCEPT ![d] = l]

\* entry_of: a path that is not there, or cannot be listed, or is a directory the
\* call did not mean, ends the call.
Look(d, p) ==
    /\ pc[d] = "idle"
    /\ path' = [path EXCEPT ![d] = p]
    /\ \/ home[p] # None /\ Goto(d, "files")
       \/ Goto(d, "failed")
    /\ UNCHANGED <<disk, taken, dest, holds, born, swept>>

\* free_name: a directory that cannot be listed counts as empty.
ListFiles(d) ==
    /\ pc[d] = "files"
    /\ Goto(d, "info")
    /\ \E seen \in {{n \in Names : files[n] # None}, {}} : taken' = [taken EXCEPT ![d] = seen]
    /\ UNCHANGED <<disk, path, dest, holds, born, swept>>

ListInfo(d) ==
    /\ pc[d] = "info"
    /\ \E seen \in {{n \in Names : info[n] # None}, {}} :
           LET free == Names \ (taken[d] \cup seen)
           IN IF free = {} THEN Goto(d, "failed") /\ UNCHANGED dest
              ELSE Goto(d, "record") /\ dest' = [dest EXCEPT ![d] = Min(free)]
    /\ UNCHANGED <<disk, path, taken, holds, born, swept>>

\* The record first, over whatever is there.
WriteRecord(d) ==
    /\ pc[d] = "record"
    /\ \/ Goto(d, "link") /\ info' = [info EXCEPT ![dest[d]] = path[d]]
       \/ Goto(d, "failed") /\ UNCHANGED info
    /\ UNCHANGED <<home, files, path, taken, dest, holds, born, swept>>

\* Mutant of Link: rename(2), which replaces.
LinkReplacing(d) ==
    /\ pc[d] = "link" /\ home[path[d]] # None
    /\ files' = [files EXCEPT ![dest[d]] = home[path[d]]]
    /\ holds' = [holds EXCEPT ![d] = home[path[d]]]
    /\ Goto(d, "unlink")
    /\ UNCHANGED <<home, info, path, taken, dest, born, swept>>

\* link(2) makes the name and refuses one that is there, in one step.  A link the
\* file system will not make, for whatever other reason, is a copy.
Link(d) ==
    /\ pc[d] = "link"
    /\ \/ /\ home[path[d]] # None /\ files[dest[d]] = None
          /\ files' = [files EXCEPT ![dest[d]] = home[path[d]]]
          /\ holds' = [holds EXCEPT ![d] = home[path[d]]]
          /\ Goto(d, "unlink")
       \/ \E l \in {"failed", "open"} : Goto(d, l) /\ UNCHANGED <<files, holds>>
    /\ UNCHANGED <<home, info, path, taken, dest, born, swept>>

\* copy_without_replacing, where no link can be made: the source is opened ...
OpenSource(d) ==
    /\ pc[d] = "open"
    /\ \/ /\ home[path[d]] # None
          /\ Goto(d, "create") /\ holds' = [holds EXCEPT ![d] = home[path[d]]]
       \/ Goto(d, "failed") /\ UNCHANGED holds
    /\ UNCHANGED <<disk, path, taken, dest, born, swept>>

\* ... the destination created, unless it is there ...
CreateNew(d) ==
    /\ pc[d] = "create"
    /\ \/ /\ files[dest[d]] = None
          /\ Goto(d, "copy") /\ files' = [files EXCEPT ![dest[d]] = Partial]
       \/ Goto(d, "failed") /\ UNCHANGED files
    /\ UNCHANGED <<home, info, path, taken, dest, holds, born, swept>>

\* ... and filled, or removed again if that can be done.
Copy(d) ==
    /\ pc[d] = "copy"
    /\ \/ Goto(d, "unlink") /\ files' = [files EXCEPT ![dest[d]] = holds[d]]
       \/ \E left \in {None, Partial} : Goto(d, "failed") /\ files' = [files EXCEPT ![dest[d]] = left]
    /\ UNCHANGED <<home, info, path, taken, dest, holds, born, swept>>

\* The original goes, by its name; if it will not, the file is in both places.
Unlink(d) ==
    /\ pc[d] = "unlink"
    /\ \/ /\ home[path[d]] # None
          /\ home' = [home EXCEPT ![path[d]] = None]
          /\ swept' = IF home[path[d]] = holds[d] THEN swept ELSE swept \cup {home[path[d]]}
          /\ Goto(d, "ok")
       \/ Goto(d, "failed") /\ UNCHANGED <<home, swept>>
    /\ UNCHANGED <<files, info, path, taken, dest, holds, born>>

\* Somebody writes a file where there is none.
Create(p) ==
    /\ home[p] = None /\ born < MaxFiles
    /\ born' = born + 1
    /\ home' = [home EXCEPT ![p] = born + 1]
    /\ UNCHANGED <<files, info, pc, path, taken, dest, holds, swept>>

\* The daemon dies under its deletions.
Crash ==
    /\ \E d \in Deletes : pc[d] \notin {"idle", "ok", "failed", "dead"}
    /\ pc' = [d \in Deletes |-> IF pc[d] \in {"idle", "ok", "failed"} THEN pc[d] ELSE "dead"]
    /\ UNCHANGED <<disk, path, taken, dest, holds, born, swept>>

Next ==
    \/ \E d \in Deletes :
           \/ \E p \in Paths : Look(d, p)
           \/ ListFiles(d) \/ ListInfo(d) \/ WriteRecord(d) \/ Link(d) \/ OpenSource(d)
           \/ CreateNew(d) \/ Copy(d) \/ Unlink(d)
    \/ \E p \in Paths : Create(p)
    \/ Crash

Spec == Init /\ [][Next]_vars

-----------------------------------------------------------------------------
\* "Nothing was destroyed": a file that ever existed is where it was, or whole in the
\* trash under a name with a record, except a file written to a path while a
\* deletion of it was about to unlink the one before; and what a call says it
\* moved stays where the call says, through concurrent deletions, failed copies
\* and a daemon that dies.
NothingDestroyed ==
    /\ \A c \in (1..born) \ swept :
           \/ \E p \in Paths : home[p] = c
           \/ \E n \in Names : files[n] = c /\ info[n] # None
    /\ \A d \in Deletes : pc[d] = "ok" => files[dest[d]] = holds[d]

=============================================================================
