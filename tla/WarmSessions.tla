---------------------------- MODULE WarmSessions ----------------------------
(***************************************************************************)
(* The warm sessions of one workspace (mcp.rs): which session a call       *)
(* addresses, opening and replacing sessions, the cap and the eviction of  *)
(* clean ones, saves and copies across sessions, closing several at once,  *)
(* and replace_in_files, which edits many files or none.  A writer outside *)
(* mime changes the files between calls and between the steps of a batch.  *)
(*                                                                         *)
(* What happens inside one session is the matter of module Session.  Here  *)
(* a text only tells whether the batch's pattern occurs in it.             *)
(***************************************************************************)
EXTENDS Integers, Sequences, SequencesExt, Eviction

CONSTANTS
  Name,       \* session ids a client chooses
  File,       \* canonical paths; also the ids of sessions opened by path
  None,       \* no file, no session
  Cap,        \* SESSION_CAP
  MaxBatch,   \* bound: files one replace_in_files names
  MaxStamp    \* bound: writes of files

ASSUME WarmSessionsAssumption ==
  /\ None \notin Name \cup File
  /\ Name \cap File = {}
  /\ Cap \in Nat \ {0}
  /\ MaxBatch \in Nat \ {0}
  /\ MaxStamp \in Nat \ {0}

VARIABLES
  disk,      \* disk[f]: [text, stamp]
  clock,     \* the last stamp given out
  sessions,  \* the map: a function from the warm ids to their sessions
  recency,   \* the warm ids, least recently used first (last_used)
  batch      \* the replace_in_files under way, or None

vars == <<disk, clock, sessions, recency, batch>>

Id == Name \cup File

(* "old" holds what the batch replaces, "new" is what becomes of it and    *)
(* matches too, "other" does not match.                                    *)
Text == {"old", "new", "other"}

Replaced(t) == IF t = "old" THEN "new" ELSE t

(* A file that does not exist has one stamp of its own.                    *)
Absent == "absent"

AbsentStamp == 0

(* A warm session: its visited file, text, whether it is unmodified since  *)
(* its load or save, the stamp of that, and whether it is read-only.       *)
Workspace == [file : File \cup {None}, text : Text, clean : BOOLEAN,
              stamp : Nat, ro : BOOLEAN]

(* A map of sessions, every one a workspace. *)
Sessions == UNION {[ids -> Workspace] : ids \in SUBSET Id}

Stale(ws) == ws.file # None /\ ws.stamp # disk[ws.file].stamp

(* Files visited by some session other than id that holds unsaved edits. *)
UnsavedElsewhere(id) ==
  {sessions[i].file : i \in {j \in DOMAIN sessions \ {id} : ~sessions[j].clean}}

-----------------------------------------------------------------------------
(* The map and its recency order, as one value. *)

Warm == [map |-> sessions, order |-> recency]

Used(order, id) == Append(SelectSeq(order, LAMBDA i : i # id), id)

Put(w, id, ws) ==
  [map |-> [i \in DOMAIN w.map \cup {id} |-> IF i = id THEN ws ELSE w.map[i]],
   order |-> Used(w.order, id)]

(* A change of a session that does not count as a use of it. *)
Set(w, id, ws) == [w EXCEPT !.map[id] = ws]

Drop(w, ids) ==
  [map |-> [i \in DOMAIN w.map \ ids |-> w.map[i]],
   order |-> SelectSeq(w.order, LAMBDA i : i \notin ids)]

(* Mutant: a session is judged by its file, so scratch buffers go too. *)
EvictScratchForRoom(w) ==
  Drop(w, Victims(w.order,
                  {i \in DOMAIN w.map : w.map[i].clean \/ w.map[i].file = None},
                  Cap))

(* evict_for_room: clean sessions go, least recently used first, until one *)
(* more fits or none is left.                                              *)
EvictForRoom(w) ==
  Drop(w, Victims(w.order, {i \in DOMAIN w.map : w.map[i].clean}, Cap))

Opened(f, ro) == [file |-> f, text |-> disk[f].text, clean |-> TRUE,
                  stamp |-> disk[f].stamp, ro |-> ro]

(* auto_revert_if_clean *)
Reread(ws) ==
  IF Stale(ws) /\ ws.clean /\ ~ws.ro /\ disk[ws.file].text # Absent
  THEN Opened(ws.file, FALSE)
  ELSE ws

(* resolve_session: the id a call addresses, None when it is refused.  A   *)
(* path names the session keyed by it, else the one session that visits    *)
(* it, else a new session.                                                 *)
Address == [by : {"session"}, of : Id] \cup [by : {"path"}, of : File]

Visiting(w, f) == {i \in DOMAIN w.map : w.map[i].file = f}

Resolve(w, a) ==
  IF a.of \in DOMAIN w.map THEN [warm |-> w, id |-> a.of]
  ELSE IF a.by = "session" THEN [warm |-> w, id |-> None]
  ELSE IF Visiting(w, a.of) # {}
       THEN [warm |-> w,
             id |-> IF Cardinality(Visiting(w, a.of)) = 1
                    THEN CHOOSE i \in Visiting(w, a.of) : TRUE ELSE None]
  ELSE IF disk[a.of].text = Absent THEN [warm |-> w, id |-> None]
  ELSE [warm |-> Put(EvictForRoom(w), a.of, Opened(a.of, FALSE)), id |-> a.of]

-----------------------------------------------------------------------------
(* The writer outside mime. *)
Outside ==
  /\ clock < MaxStamp
  /\ clock' = clock + 1
  /\ \E f \in File :
       \/ \E t \in Text :
            disk' = [disk EXCEPT ![f] = [text |-> t, stamp |-> clock']]
       \/ /\ disk[f].text # Absent
          /\ disk' = [disk EXCEPT ![f] = [text |-> Absent, stamp |-> AbsentStamp]]
  /\ UNCHANGED <<sessions, recency, batch>>

Become(w) == sessions' = w.map /\ recency' = w.order

Write(f, t) ==
  /\ clock < MaxStamp
  /\ clock' = clock + 1
  /\ disk' = [disk EXCEPT ![f] = [text |-> t, stamp |-> clock']]

-----------------------------------------------------------------------------
(* tool_open_file, create included, and tool_open_text.  A session of that *)
(* name is replaced whatever it holds.                                     *)
OpenFile(id, f, ro) ==
  /\ batch = None
  /\ LET found == IF disk[f].text = Absent
                  THEN [Opened(f, ro) EXCEPT !.text = "other"]
                  ELSE Opened(f, ro)
     IN Become(Put(EvictForRoom(Warm), id, found))
  /\ UNCHANGED <<disk, clock, batch>>

OpenText(id, t, ro) ==
  /\ batch = None
  /\ Become(Put(EvictForRoom(Warm), id,
                [file |-> None, text |-> t, clean |-> TRUE, stamp |-> 0,
                 ro |-> ro]))
  /\ UNCHANGED <<disk, clock, batch>>

CanSave(ws) == ws.file # None /\ ~Stale(ws)

(* save_to on the visited file: refused when it drifted. *)
SaveTo(w, id) ==
  LET ws == w.map[id] IN
  IF CanSave(ws)
  THEN /\ Write(ws.file, ws.text)
       /\ Become(Set(w, id, [ws EXCEPT !.clean = TRUE, !.stamp = clock']))
  ELSE Become(w) /\ UNCHANGED <<disk, clock>>

(* save_visited, whose parse check of the saved buffer counts as a use. *)
SaveVisited(w, id) ==
  SaveTo(IF CanSave(w.map[id]) THEN Put(w, id, w.map[id]) ELSE w, id)

(* An edit tool, or run_program: the session is served, the program leaves *)
(* some text, and the call saves always, never, or when it changed the     *)
(* text of a buffer that has a file.                                       *)
Edit(a, t, save) ==
  LET r == Resolve(Warm, a)
      served == Reread(r.warm.map[r.id])
      changed == t # served.text
      w == Put(r.warm, r.id,
               [served EXCEPT !.text = t, !.clean = served.clean /\ ~changed])
  IN
  /\ batch = None
  /\ IF r.id = None THEN Become(r.warm) /\ UNCHANGED <<disk, clock>>
     ELSE IF served.ro /\ changed
     THEN Become(Put(r.warm, r.id, served)) /\ UNCHANGED <<disk, clock>>
     ELSE IF save = "always" \/ (save = "changed" /\ changed)
     THEN SaveVisited(w, r.id)
     ELSE Become(w) /\ UNCHANGED <<disk, clock>>
  /\ UNCHANGED batch

(* save_buffer to another file.  A session with no file of its own writes  *)
(* there and counts as saved; it is not bound to the file, and neither the *)
(* file's stamp nor the sessions that visit it are asked.  A session bound *)
(* to its own file writes a copy, unless that is the unsaved file of       *)
(* another session.                                                        *)
CopyTo(w, id, to) ==
  IF w.map[id].file = None
  THEN /\ Write(to, w.map[id].text)
       /\ Become(Set(w, id, [w.map[id] EXCEPT !.clean = TRUE]))
  ELSE IF to \in UnsavedElsewhere(id)
  THEN Become(w) /\ UNCHANGED <<disk, clock>>
  ELSE Write(to, w.map[id].text) /\ Become(w)

(* tool_save_buffer.  A clean buffer whose file drifted is re-read. *)
SaveBuffer(a, to) ==
  LET r == Resolve(Warm, a)
      ws == r.warm.map[r.id]
  IN
  /\ batch = None
  /\ IF r.id = None THEN Become(r.warm) /\ UNCHANGED <<disk, clock>>
     ELSE IF to \in {None, ws.file} /\ ws.clean /\ ~ws.ro /\ Stale(ws)
     THEN Become(Set(r.warm, r.id, Reread(ws))) /\ UNCHANGED <<disk, clock>>
     ELSE IF to = None THEN SaveVisited(r.warm, r.id)
     ELSE IF to = ws.file THEN SaveTo(r.warm, r.id)
     ELSE CopyTo(r.warm, r.id, to)
  /\ UNCHANGED batch

(* tool_close_session: every target or none.  An unsaved file-backed       *)
(* target needs force; a scratch buffer has no file to save to.            *)
Close(targets, force) ==
  /\ batch = None
  /\ targets \subseteq DOMAIN sessions
  /\ \A i \in targets : force \/ sessions[i].clean \/ sessions[i].file = None
  /\ Become(Drop(Warm, targets))
  /\ UNCHANGED <<disk, clock, batch>>

-----------------------------------------------------------------------------
(* tool_replace_files, one file at a time. *)

Mode == {"rehearse", "save", "hold"}

(* What a batch remembers of a session it edits, and of the edit.          *)
Mark == [id : Id, ws : Workspace]
Done == [id : Id, changed : BOOLEAN]

(* A batch: the files to come, what is done, and, for the reader only, the *)
(* sessions it found.                                                      *)
BatchType == [todo : Seq(File), mode : Mode, phase : {"edit", "save"},
              done : Seq(Done), marks : Seq(Mark), found : Sessions]

ASSUME NoBatchAssumption == None \notin BatchType

BeginBatch(files, mode) ==
  /\ batch = None
  /\ batch' = [todo |-> files, mode |-> mode, phase |-> "edit",
               done |-> <<>>, marks |-> <<>>, found |-> sessions]
  /\ UNCHANGED <<disk, clock, sessions, recency>>

MarksOf(marks, i) == {k \in DOMAIN marks : marks[k].id = i}

(* Mutant: a session edited twice ends at its last mark. *)
UndoneLast(w, marks) ==
  [w EXCEPT !.map = [i \in DOMAIN w.map |->
     IF MarksOf(marks, i) = {} THEN w.map[i]
     ELSE marks[Max(MarksOf(marks, i))].ws]]

(* roll_back_files: newest first, so a session ends at its first mark; one *)
(* that was evicted is passed over.                                        *)
Undone(w, marks) ==
  [w EXCEPT !.map = [i \in DOMAIN w.map |->
     IF MarksOf(marks, i) = {} THEN w.map[i]
     ELSE marks[Min(MarksOf(marks, i))].ws]]

GiveUp(w, marks) == Become(Undone(w, marks)) /\ batch' = None

(* The next file is resolved, its session marked and edited; a file that   *)
(* cannot be, undoes them all.                                             *)
EditNext ==
  LET r == Resolve(Warm, [by |-> "path", of |-> Head(batch.todo)])
      ws == Reread(r.warm.map[r.id])
      marks == Append(batch.marks, [id |-> r.id, ws |-> ws])
      changed == Replaced(ws.text) # ws.text
      edited == [ws EXCEPT !.text = Replaced(ws.text),
                           !.clean = ws.clean /\ ~changed]
  IN
  /\ batch # None
  /\ batch.phase = "edit"
  /\ batch.todo # <<>>
  /\ IF r.id = None THEN GiveUp(r.warm, batch.marks)
     ELSE IF ws.text = "other" \/ (ws.ro /\ changed)
     THEN GiveUp(Put(r.warm, r.id, ws), marks)
     ELSE /\ Become(Put(r.warm, r.id, edited))
          /\ batch' = [batch EXCEPT
               !.todo = Tail(batch.todo),
               !.marks = marks,
               !.done = Append(batch.done, [id |-> r.id, changed |-> changed])]
  /\ UNCHANGED <<disk, clock>>

(* Every file was edited.  A rehearsal is undone; files that drifted under *)
(* edits to be saved undo the batch before any is written.                 *)
EndEdits ==
  LET drifted == \E i \in DOMAIN batch.done :
        LET d == batch.done[i] IN
        /\ d.changed
        /\ d.id \in DOMAIN sessions
        /\ Stale(sessions[d.id])
  IN
  /\ batch # None
  /\ batch.phase = "edit"
  /\ batch.todo = <<>>
  /\ IF batch.mode = "rehearse" \/ (batch.mode = "save" /\ drifted)
     THEN GiveUp(Warm, batch.marks)
     ELSE /\ batch' = IF batch.mode = "save"
                      THEN [batch EXCEPT !.phase = "save"] ELSE None
          /\ UNCHANGED <<sessions, recency>>
  /\ UNCHANGED <<disk, clock>>

(* The changed files are saved in turn.  A save that is refused after all  *)
(* ends the call: the files before it are on disk, the rest stay warm.     *)
SaveNext ==
  LET d == Head(batch.done) IN
  /\ batch # None
  /\ batch.phase = "save"
  /\ batch.done # <<>>
  /\ IF d.id \notin DOMAIN sessions \/ ~d.changed
     THEN /\ batch' = [batch EXCEPT !.done = Tail(batch.done)]
          /\ UNCHANGED <<disk, clock, sessions, recency>>
     ELSE /\ SaveVisited(Warm, d.id)
          /\ batch' = IF Stale(sessions[d.id]) THEN None
                      ELSE [batch EXCEPT !.done = Tail(batch.done)]

EndBatch ==
  /\ batch # None
  /\ batch.phase = "save"
  /\ batch.done = <<>>
  /\ batch' = None
  /\ UNCHANGED <<disk, clock, sessions, recency>>

-----------------------------------------------------------------------------
Init ==
  /\ disk \in [File -> [text : Text, stamp : {1}]
                         \cup [text : {Absent}, stamp : {AbsentStamp}]]
  /\ clock = 1
  /\ sessions = <<>>
  /\ recency = <<>>
  /\ batch = None

Batches == UNION {[1..n -> File] : n \in 1..MaxBatch}

Batch == EditNext \/ EndEdits \/ SaveNext \/ EndBatch

Next ==
  \/ Outside
  \/ \E id \in Name, f \in File, ro \in BOOLEAN : OpenFile(id, f, ro)
  \/ \E id \in Name, t \in Text, ro \in BOOLEAN : OpenText(id, t, ro)
  \/ \E a \in Address, t \in Text, save \in {"always", "changed", "never"} : Edit(a, t, save)
  \/ \E a \in Address, to \in File \cup {None} : SaveBuffer(a, to)
  \/ \E targets \in SUBSET Id, force \in BOOLEAN : Close(targets, force)
  \/ \E files \in Batches, mode \in Mode : BeginBatch(files, mode)
  \/ Batch

Spec == Init /\ [][Next]_vars

-----------------------------------------------------------------------------
TypeOK ==
  /\ disk \in [File -> [text : Text \cup {Absent}, stamp : 0..MaxStamp]]
  /\ clock \in 1..MaxStamp
  /\ DOMAIN sessions \subseteq Id
  /\ \A i \in DOMAIN sessions : sessions[i] \in Workspace
  /\ ToSet(recency) = DOMAIN sessions /\ IsInjective(recency)
  /\ batch = None \/ batch.phase \in {"edit", "save"}

Unsaved(i) == i \in DOMAIN sessions /\ ~sessions[i].clean

Gone(i) == i \in DOMAIN sessions /\ i \notin DOMAIN sessions'

(* "Boundedness must not cost edits": a session with unsaved edits leaves  *)
(* the map only when the client closes it by name (evict_for_room).        *)
EvictionSparesEdits ==
  [][\A i \in Id : Unsaved(i) /\ Gone(i) =>
       \E targets \in SUBSET Id, force \in BOOLEAN :
         i \in targets /\ Close(targets, force)]_vars

(* A batch that fails, or was only rehearsed, leaves every session with    *)
(* unsaved edits exactly as it found it, and no session with edits that    *)
(* had none, however many sessions came and went on the way; and it writes *)
(* no file (tool_replace_files, roll_back_files).                          *)
GivesUp ==
  /\ batch # None /\ batch' = None
  /\ batch.phase = "edit"
  /\ batch.todo = <<>> => batch.mode # "hold"

BatchUndoesEverything ==
  [][GivesUp =>
       /\ disk' = disk
       /\ \A i \in DOMAIN batch.found \cup DOMAIN sessions' :
            IF i \in DOMAIN batch.found /\ ~batch.found[i].clean
            THEN i \in DOMAIN sessions' /\ sessions'[i] = batch.found[i]
            ELSE i \in DOMAIN sessions' => sessions'[i].clean]_vars

(* A batch that gets as far as saving has every changed file's session     *)
(* still warm, whatever its own opens evicted, so no edit goes unsaved     *)
(* ("only a clean session is evicted, so its file already holds its text").*)
BatchLosesNoFile ==
  batch # None /\ batch.phase = "save" =>
    \A k \in DOMAIN batch.done :
      batch.done[k].changed => Unsaved(batch.done[k].id)

(* A batch is all or nothing, while it runs and when it gives up.          *)
BatchesAreWhole == []BatchLosesNoFile /\ BatchUndoesEverything
=============================================================================
