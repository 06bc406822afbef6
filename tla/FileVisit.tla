----------------------------- MODULE FileVisit -----------------------------
(***************************************************************************)
(* How quire.rs comes to hold a file: open, stamp, read.  A small file is  *)
(* read whole at once; a large one is scanned once for its char and line   *)
(* index and then read a page at a time through an LRU cache for as long   *)
(* as it is visited.  Meanwhile writers replace the file (a new inode, as  *)
(* every atomic save does) or rewrite a page of it in place.               *)
(***************************************************************************)
EXTENDS Integers, Sequences, SequencesExt

CONSTANTS
  Page,       \* the pages of the file
  Paged,      \* TRUE: at or over IN_MEMORY_LIMIT, read on demand
  CachePages, \* CACHE_PAGES, the resident pages
  MaxWrite    \* bound: writes by others

ASSUME FileVisitAssumption ==
  /\ IsFiniteSet(Page)
  /\ CachePages \in Nat \ {0}
  /\ MaxWrite \in Nat

VARIABLES
  data,     \* data[i][p]: the write that put page p of inode i there
  path,     \* [ino, mtime]: what a stat of the visited path returns
  written,  \* the last write
  fd,       \* the inode the open handle reads
  stamp,    \* the FileStamp captured at open
  index,    \* index[p]: the content of page p that was read at open, which
            \* the char and line totals describe
  cache,    \* cache[p]: the content of each resident page
  lru,      \* the resident pages, least recently used first
  drifted,  \* PagedFile::drifted, sticky
  statted,  \* PagedFile::statted: the read call in flight has statted
  todo,     \* pages the read in flight still wants, in order
  place     \* "closed", "opened", "loading", "ready", "reading"

visitVars == <<data, path, written, fd, stamp, index, cache, lru,
              drifted, statted, todo, place>>

held == <<fd, stamp, index, cache, lru, drifted, statted, todo, place>>

Inode == 0..MaxWrite

(* FileStamp::check. *)
Moved == path # stamp

(* store_is_stale *)
Stale == drifted \/ Moved

VisitInit ==
  /\ data = [i \in Inode |-> [p \in Page |-> 0]]
  /\ path = [ino |-> 0, mtime |-> 0]
  /\ written = 0
  /\ fd = 0
  /\ stamp = path
  /\ index = <<>>
  /\ cache = <<>>
  /\ lru = <<>>
  /\ drifted = FALSE
  /\ statted = FALSE
  /\ todo = <<>>
  /\ place = "closed"

-----------------------------------------------------------------------------
(* Other writers.  Every write moves the modification time. *)
ReplaceFile ==
  /\ written < MaxWrite
  /\ written' = written + 1
  /\ path' = [ino |-> written', mtime |-> written']
  /\ data' = [data EXCEPT ![written'] = [p \in Page |-> written']]
  /\ UNCHANGED held

RewritePage ==
  /\ written < MaxWrite
  /\ written' = written + 1
  /\ path' = [path EXCEPT !.mtime = written']
  /\ \E p \in Page : data' = [data EXCEPT ![path.ino][p] = written']
  /\ UNCHANGED held

-----------------------------------------------------------------------------
(* Quire::open_with_limit *)
OpenFile ==
  /\ place = "closed"
  /\ fd' = path.ino
  /\ place' = "opened"
  /\ UNCHANGED <<data, path, written, stamp, index, cache, lru, drifted,
                 statted, todo>>

CaptureStamp ==
  /\ place = "opened"
  /\ stamp' = path
  /\ todo' = SetToSeq(Page)
  /\ index' = <<>>
  /\ place' = "loading"
  /\ UNCHANGED <<data, path, written, fd, cache, lru, drifted, statted>>

(* Mutant: the stamp is taken when the last page has been read. *)
LoadPageThenStamp ==
  /\ place = "loading"
  /\ todo # <<>>
  /\ index' = [p \in DOMAIN index \cup {Head(todo)} |->
                 IF p = Head(todo) THEN data[fd][p] ELSE index[p]]
  /\ todo' = Tail(todo)
  /\ stamp' = path
  /\ place' = IF todo' = <<>> THEN "ready" ELSE "loading"
  /\ UNCHANGED <<data, path, written, fd, cache, lru, drifted, statted>>

(* read_whole, or the fused validate_and_count pass, which streams past    *)
(* the cache and does not stat.                                            *)
LoadPage ==
  /\ place = "loading"
  /\ todo # <<>>
  /\ index' = [p \in DOMAIN index \cup {Head(todo)} |->
                 IF p = Head(todo) THEN data[fd][p] ELSE index[p]]
  /\ todo' = Tail(todo)
  /\ place' = IF todo' = <<>> THEN "ready" ELSE "loading"
  /\ UNCHANGED <<data, path, written, fd, stamp, cache, lru, drifted, statted>>

-----------------------------------------------------------------------------
(* PagedFile::for_bytes over some pages, in order. *)
BeginRead ==
  /\ Paged
  /\ place = "ready"
  /\ \E ps \in SUBSET Page \ {{}} : todo' = SetToSeq(ps)
  /\ statted' = FALSE
  /\ place' = "reading"
  /\ UNCHANGED <<data, path, written, fd, stamp, index, cache, lru, drifted>>

Touch(p) == Append(SelectSeq(lru, LAMBDA q : q # p), p)

(* Mutant: a page served from the cache stays wanted. *)
ServeResidentAgain ==
  /\ place = "reading"
  /\ todo # <<>>
  /\ Head(todo) \in DOMAIN cache
  /\ lru' = Touch(Head(todo))
  /\ UNCHANGED <<data, path, written, fd, stamp, index, cache, drifted,
                 statted, todo, place>>

(* The next page is resident: no system call at all. *)
ServeResident ==
  /\ place = "reading"
  /\ todo # <<>>
  /\ Head(todo) \in DOMAIN cache
  /\ lru' = Touch(Head(todo))
  /\ todo' = Tail(todo)
  /\ UNCHANGED <<data, path, written, fd, stamp, index, cache, drifted,
                 statted, place>>

(* A miss.  The first one of a call stats the path before any page of the  *)
(* call is read, and latches the drift it sees.                            *)
CheckDrift ==
  /\ place = "reading"
  /\ todo # <<>>
  /\ Head(todo) \notin DOMAIN cache
  /\ ~statted
  /\ statted' = TRUE
  /\ drifted' = Stale
  /\ UNCHANGED <<data, path, written, fd, stamp, index, cache, lru, todo, place>>

(* The page is read and cached; a full cache drops the page used longest   *)
(* ago.                                                                    *)
ReadPage ==
  LET p == Head(todo)
      full == Len(lru) >= CachePages
      kept == IF full THEN DOMAIN cache \ {Head(lru)} ELSE DOMAIN cache
  IN
  /\ place = "reading"
  /\ todo # <<>>
  /\ p \notin DOMAIN cache
  /\ statted
  /\ cache' = [q \in kept \cup {p} |-> IF q = p THEN data[fd][p] ELSE cache[q]]
  /\ lru' = Append(IF full THEN Tail(lru) ELSE lru, p)
  /\ todo' = Tail(todo)
  /\ UNCHANGED <<data, path, written, fd, stamp, index, drifted, statted, place>>

EndRead ==
  /\ place = "reading"
  /\ todo = <<>>
  /\ place' = "ready"
  /\ UNCHANGED <<data, path, written, fd, stamp, index, cache, lru, drifted,
                 statted, todo>>

(* revert_in_place opens the file again, as a store of its own. *)
RevertInPlace ==
  /\ place = "ready"
  /\ fd' = path.ino
  /\ cache' = <<>>
  /\ lru' = <<>>
  /\ drifted' = FALSE
  /\ place' = "opened"
  /\ UNCHANGED <<data, path, written, stamp, index, statted, todo>>

VisitNext ==
  \/ ReplaceFile \/ RewritePage
  \/ OpenFile \/ CaptureStamp \/ LoadPage \/ RevertInPlace
  \/ BeginRead \/ ServeResident \/ CheckDrift \/ ReadPage \/ EndRead

(* A read that was begun runs to its end: nothing in it waits. *)
VisitFairness == WF_visitVars(ServeResident \/ CheckDrift \/ ReadPage \/ EndRead)

VisitSpec == VisitInit /\ [][VisitNext]_visitVars /\ VisitFairness

-----------------------------------------------------------------------------
VisitTypeOK ==
  /\ data \in [Inode -> [Page -> 0..MaxWrite]]
  /\ path \in [ino : Inode, mtime : 0..MaxWrite]
  /\ stamp \in [ino : Inode, mtime : 0..MaxWrite]
  /\ written \in 0..MaxWrite
  /\ fd \in Inode
  /\ DOMAIN index \subseteq Page
  /\ DOMAIN cache \subseteq Page
  /\ place \in {"closed", "opened", "loading", "ready", "reading"}
  /\ drifted \in BOOLEAN /\ statted \in BOOLEAN

Held == place \in {"ready", "reading"}

(* What a visit holds is one whole state of one file unless it is flagged  *)
(* stale: pages read at different times never pass for a document.         *)
FreshVisitIsWhole ==
  Held /\ ~Stale =>
    /\ index = data[fd]
    /\ \A p \in DOMAIN cache : cache[p] = index[p]

(* Every read call comes to an end whatever the writers do, however small  *)
(* the cache: a page it evicts on the way is never wanted again.           *)
ReadsEnd == place = "reading" ~> place = "ready"
=============================================================================
