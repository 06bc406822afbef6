------------------------------ MODULE Session ------------------------------
(***************************************************************************)
(* One warm editing session bound to one file: the Workspace of engine.rs  *)
(* and the tool calls of mcp.rs that drive it, with a writer outside mime  *)
(* that rewrites or deletes the file whenever it likes.                    *)
(*                                                                         *)
(* A program is a sequence of builtins that ends well, dies, or was only   *)
(* rehearsed.  What matters about a builtin is whether it replaces text,   *)
(* re-reads the file, takes or restores a checkpoint, or opens, leaves or  *)
(* aborts a transaction.  A call holds the session exclusively, so calls   *)
(* never overlap; the outside writer interleaves with every step of one.   *)
(***************************************************************************)
EXTENDS Integers, Sequences, FiniteSets

CONSTANTS
  Text,            \* the texts a buffer or a file may hold
  Absent,          \* what the disk holds when the file does not exist
  None,            \* no guard, no mark, no transaction
  ReadOnly,        \* Workspace::read_only, fixed when the session opens
  UndoCap,         \* UNDO_RING_CAP
  MaxCheckpoints,  \* bound: named checkpoints a session keeps
  MaxVersion,      \* bound: content versions handed out
  MaxStamp         \* bound: changes of the file on disk

VARIABLES
  disk,     \* [text, stamp, ext]: the file, its identity, and (history) the
            \* outside change its text derives from
  clock,    \* the last file identity given out
  buffer,   \* the current TextStore: [text, ver, stamp, base]; base is a
            \* history field, the disk.ext of the read its text derives from
  version,  \* the last content version given out (store.rs next_version)
  synced,   \* Session::synced_version
  gen,      \* Session::reread_generation
  ring,     \* Workspace::undo_ring, oldest first
  cps,      \* Session::checkpoints, oldest first
  pc,       \* "idle", or what the running call does next
  guard,    \* the step and the snapshots of run_value_undoable and
            \* run_value_with, while their program runs
  mark,     \* RehearsalMark, while a rehearsal runs
  txn       \* the snapshot an open with-transaction holds

vars == <<disk, clock, buffer, version, synced, gen, ring, cps, pc,
          guard, mark, txn>>

session == <<buffer, version, synced, gen, ring, cps, pc, guard, mark, txn>>

-----------------------------------------------------------------------------
(* The shapes of the state. *)

Disk == [text : Text \cup {Absent}, stamp : Nat, ext : Nat]
Store == [text : Text, ver : Nat, stamp : Nat, base : Nat]
Checkpoint == [snap : Store, gen : Nat]
Guard == [buf : Store, gen : Nat, synced : Nat, keep : BOOLEAN]
Mark == [buf : Store, gen : Nat, synced : Nat,
         ring : Seq(Checkpoint), cps : Seq(Checkpoint)]

ASSUME SessionAssumption ==
  /\ Absent \notin Text
  /\ None \notin Store \cup Guard \cup Mark
  /\ ReadOnly \in BOOLEAN
  /\ UndoCap \in Nat \ {0}
  /\ MaxCheckpoints \in Nat
  /\ MaxVersion \in Nat \ {0}
  /\ MaxStamp \in Nat \ {0}

(* A file that does not exist has the absent stamp (safety.rs              *)
(* FileStamp::absent), so visiting a new file is fresh until it appears.   *)
AbsentStamp == 0

-----------------------------------------------------------------------------
(* The questions the code asks of a buffer. *)

Stale(b) == b.stamp # disk.stamp           \* store_is_stale

Modified == buffer.ver # synced            \* Workspace::is_modified

Changed(b, old) == b.ver # old.ver /\ b.text # old.text   \* report.dirty

(* Checkpoint::capture and Checkpoint::restore.  A restore takes the       *)
(* current buffer's stamp unless the file was re-read since the capture.   *)
Capture(b, g) == [snap |-> b, gen |-> g]

Restore(c, b, g) ==
  IF c.gen = g THEN [c.snap EXCEPT !.stamp = b.stamp] ELSE c.snap

(* Mutant: a re-read takes no version of its own. *)
LoadSameVersion == [text |-> disk.text, ver |-> version,
                    stamp |-> disk.stamp, base |-> disk.ext]

(* What Quire::open yields on the file as it is now. *)
Load == [text |-> disk.text, ver |-> version + 1,
         stamp |-> disk.stamp, base |-> disk.ext]

(* A checkpoint pushed on the undo ring drops the oldest over the cap. *)
Push(r, c) ==
  LET s == Append(r, c) IN IF Len(s) > UndoCap THEN Tail(s) ELSE s

(* Workspace::auto_revert_if_clean: a clean drifted buffer is re-read      *)
(* before a call is served; a re-read that fails leaves it as it was.      *)
CanAutoRevert ==
  /\ ~ReadOnly
  /\ ~Modified
  /\ Stale(buffer)
  /\ disk.text # Absent

(* The session as a call finds it once the auto-revert has had its turn. *)
Served ==
  IF CanAutoRevert
  THEN [buf |-> Load, ver |-> version + 1, synced |-> version + 1,
        gen |-> gen + 1, ring |-> <<>>]
  ELSE [buf |-> buffer, ver |-> version, synced |-> synced,
        gen |-> gen, ring |-> ring]

Serve ==
  /\ Served.ver <= MaxVersion
  /\ buffer' = Served.buf
  /\ version' = Served.ver
  /\ synced' = Served.synced
  /\ gen' = Served.gen

-----------------------------------------------------------------------------
(* The writer outside mime. *)

ExternalWrite ==
  /\ clock < MaxStamp
  /\ clock' = clock + 1
  /\ \E t \in Text : disk' = [text |-> t, stamp |-> clock', ext |-> clock']
  /\ UNCHANGED session

ExternalDelete ==
  /\ clock < MaxStamp
  /\ disk.text # Absent
  /\ clock' = clock + 1
  /\ disk' = [text |-> Absent, stamp |-> AbsentStamp, ext |-> clock']
  /\ UNCHANGED session

-----------------------------------------------------------------------------
(* A call starts. *)

(* run_or_rehearse without rehearse: run_value_undoable's undo step and    *)
(* run_value_with's guard snapshot are the same state.                     *)
BeginRun(keep) ==
  /\ pc = "idle"
  /\ Serve
  /\ ring' = Served.ring
  /\ guard' = [buf |-> Served.buf, gen |-> Served.gen,
               synced |-> Served.synced, keep |-> keep]
  /\ pc' = "program"
  /\ UNCHANGED <<disk, clock, cps, mark, txn>>

TakeMark ==
  mark' = [buf |-> Served.buf, gen |-> Served.gen, synced |-> Served.synced,
           ring |-> Served.ring, cps |-> cps]

(* rehearse_value: a mark, no guard, no undo step. *)
BeginRehearse ==
  /\ pc = "idle"
  /\ Serve
  /\ ring' = Served.ring
  /\ TakeMark
  /\ pc' = "program"
  /\ UNCHANGED <<disk, clock, cps, guard, txn>>

(* mcp.rs rehearsed: an edit tool called under a mark.  The tool runs its  *)
(* program as any run does, undo step included, with saving off.           *)
BeginPreview ==
  /\ pc = "idle"
  /\ Serve
  /\ ring' = Served.ring
  /\ TakeMark
  /\ guard' = [buf |-> Served.buf, gen |-> Served.gen,
               synced |-> Served.synced, keep |-> FALSE]
  /\ pc' = "program"
  /\ UNCHANGED <<disk, clock, cps, txn>>

-----------------------------------------------------------------------------
(* What a program may do. *)

(* Any run of edits, identity edits included: a new text, a new version. *)
Edit ==
  /\ pc = "program"
  /\ version < MaxVersion
  /\ version' = version + 1
  /\ \E t \in Text : buffer' = [buffer EXCEPT !.text = t, !.ver = version']
  /\ UNCHANGED <<disk, clock, synced, gen, ring, cps, pc, guard, mark, txn>>

(* revert_in_place: drift is judged after the read. *)
RevertBuffer ==
  /\ pc = "program"
  /\ disk.text # Absent
  /\ version < MaxVersion
  /\ version' = version + 1
  /\ buffer' = Load
  /\ synced' = version'
  /\ gen' = IF Stale(buffer) THEN gen + 1 ELSE gen
  /\ UNCHANGED <<disk, clock, ring, cps, pc, guard, mark, txn>>

TakeCheckpoint ==
  /\ pc = "program"
  /\ Len(cps) < MaxCheckpoints
  /\ cps' = Append(cps, Capture(buffer, gen))
  /\ UNCHANGED <<disk, clock, buffer, version, synced, gen, ring, pc,
                 guard, mark, txn>>

RestoreCheckpoint ==
  /\ pc = "program"
  /\ \E i \in DOMAIN cps : buffer' = Restore(cps[i], buffer, gen)
  /\ UNCHANGED <<disk, clock, version, synced, gen, ring, cps, pc,
                 guard, mark, txn>>

BeginTransaction ==
  /\ pc = "program"
  /\ txn = None
  /\ txn' = buffer
  /\ UNCHANGED <<disk, clock, buffer, version, synced, gen, ring, cps, pc,
                 guard, mark>>

LeaveTransaction ==
  /\ pc = "program"
  /\ txn # None
  /\ txn' = None
  /\ UNCHANGED <<disk, clock, buffer, version, synced, gen, ring, cps, pc,
                 guard, mark>>

(* An error leaves the transaction and the program catches it.  Only the   *)
(* buffer comes back: the baseline and the generation stay.                *)
AbortTransaction ==
  /\ pc = "program"
  /\ txn # None
  /\ buffer' = txn
  /\ txn' = None
  /\ UNCHANGED <<disk, clock, version, synced, gen, ring, cps, pc,
                 guard, mark>>

-----------------------------------------------------------------------------
(* A program ends. *)

(* Mutant: a re-read leaves the ring as it is. *)
RingKept(g, changed) ==
  IF changed THEN Push(ring, Capture(guard.buf, guard.gen)) ELSE ring

(* The undo ring after a run: emptied when the run re-read a file changed  *)
(* on disk, one step longer when the run changed the text.                 *)
RingAfter(g, changed) ==
  IF g # guard.gen THEN <<>>
  ELSE IF changed THEN Push(ring, Capture(guard.buf, guard.gen))
  ELSE ring

(* Mutants: the restored buffer is taken for the file's text; it is given  *)
(* the stamp of the buffer it replaces; only an open transaction is undone. *)
RollBackClean ==
  /\ buffer' = guard.buf
  /\ gen' = guard.gen
  /\ synced' = guard.buf.ver

RollBackRestamped ==
  /\ buffer' = [guard.buf EXCEPT !.stamp = buffer.stamp]
  /\ gen' = guard.gen
  /\ synced' = IF synced = guard.buf.ver THEN synced ELSE guard.synced

RollBackTransaction ==
  /\ buffer' = IF txn # None THEN txn ELSE guard.buf
  /\ gen' = guard.gen
  /\ synced' = IF synced = guard.buf.ver THEN synced ELSE guard.synced

(* rollback_session.  The baseline stays when it already describes the     *)
(* restored buffer.                                                        *)
RollBackRun ==
  /\ buffer' = guard.buf
  /\ gen' = guard.gen
  /\ synced' = IF synced = guard.buf.ver THEN synced ELSE guard.synced

AfterRun(next) == IF mark # None THEN "roll_back" ELSE next

(* The program returns.  A read-only session refuses a run that changed    *)
(* the text; a run that changed nothing keeps a clean buffer clean.  save  *)
(* says whether the call saves (save_after_edit).                          *)
FinishOk(save) ==
  LET changed == Changed(buffer, guard.buf)
      refused == ReadOnly /\ changed
      wasClean == guard.buf.ver = guard.synced
  IN
  /\ pc = "program"
  /\ guard # None
  /\ txn = None
  /\ save => mark = None
  /\ IF refused
     THEN RollBackRun /\ ring' = ring
     ELSE /\ synced' = IF wasClean /\ ~changed /\ synced = guard.synced
                       THEN buffer.ver ELSE synced
          /\ ring' = RingAfter(gen, changed)
          /\ UNCHANGED <<buffer, gen>>
  /\ pc' = AfterRun(IF save /\ ~refused THEN "save" ELSE "idle")
  /\ guard' = None
  /\ UNCHANGED <<disk, clock, version, cps, mark, txn>>

(* The buffer a program leaves when it dies: an error that unwinds out of  *)
(* a transaction first puts the transaction's snapshot back.               *)
Unwound == IF txn # None THEN txn ELSE buffer

(* The program dies.  Its edits are rolled back unless the caller keeps    *)
(* them, and a death that changed no text rolls nothing back.              *)
FinishErr ==
  LET changed == Changed(Unwound, guard.buf)
      back == changed /\ (ReadOnly \/ ~guard.keep)
  IN
  /\ pc = "program"
  /\ guard # None
  /\ IF back
     THEN RollBackRun /\ ring' = ring
     ELSE /\ buffer' = Unwound
          /\ ring' = RingAfter(gen, changed)
          /\ UNCHANGED <<gen, synced>>
  /\ pc' = AfterRun("idle")
  /\ guard' = None
  /\ txn' = None
  /\ UNCHANGED <<disk, clock, version, cps, mark>>

(* Mutant: checkpoints taken in a rehearsal stay. *)
PutBackKeepingCheckpoints ==
  /\ buffer' = mark.buf
  /\ gen' = mark.gen
  /\ synced' = mark.synced
  /\ cps' = cps
  /\ ring' = mark.ring

(* Workspace::roll_back *)
PutBack ==
  /\ buffer' = mark.buf
  /\ gen' = mark.gen
  /\ synced' = mark.synced
  /\ cps' = SubSeq(cps, 1, Len(mark.cps))
  /\ ring' = mark.ring

(* A rehearsed program ended, or the previewed tool returned. *)
RollBack ==
  /\ \/ pc = "program" /\ guard = None
     \/ pc = "roll_back"
  /\ mark # None
  /\ PutBack
  /\ pc' = "idle"
  /\ mark' = None
  /\ txn' = None
  /\ UNCHANGED <<disk, clock, version, guard>>

-----------------------------------------------------------------------------
(* Saves and rewinds. *)

(* save_to on the visited file.  A stale buffer is refused.  A rebase that *)
(* fails leaves the stamp of the file the save replaced.                   *)
SaveVisited(rebased) ==
  IF Stale(buffer)
  THEN UNCHANGED <<disk, clock, buffer, synced>>
  ELSE /\ clock < MaxStamp
       /\ clock' = clock + 1
       /\ disk' = [text |-> buffer.text, stamp |-> clock', ext |-> buffer.base]
       /\ buffer' = IF rebased THEN [buffer EXCEPT !.stamp = clock'] ELSE buffer
       /\ synced' = buffer.ver

(* The save an edit tool ends with. *)
SaveAfterEdit ==
  /\ pc = "save"
  /\ \E rebased \in BOOLEAN : SaveVisited(rebased)
  /\ pc' = "idle"
  /\ UNCHANGED <<version, gen, ring, cps, guard, mark, txn>>

(* tool_save_buffer back to the visited file.  A clean buffer whose file   *)
(* drifted has nothing to save: it is re-read, or left when it cannot be.  *)
SaveBuffer ==
  /\ pc = "idle"
  /\ IF ~ReadOnly /\ ~Modified /\ Stale(buffer)
     THEN /\ Serve
          /\ ring' = Served.ring
          /\ UNCHANGED <<disk, clock>>
     ELSE /\ \E rebased \in BOOLEAN : SaveVisited(rebased)
          /\ UNCHANGED <<version, gen, ring>>
  /\ UNCHANGED <<cps, pc, guard, mark, txn>>

(* The steps of the ring that would change the buffer: undo_last pops the  *)
(* ones on top that hold the version it already has.                       *)
Rewinds(r, b) == {i \in DOMAIN r : \A j \in i..Len(r) : r[j].snap.ver = b.ver}

Live(r, b) == SubSeq(r, 1, Len(r) - Cardinality(Rewinds(r, b)))

(* tool_undo_last, which saves the rewound text unless told not to. *)
UndoLast(save) ==
  LET live == Live(Served.ring, Served.buf) IN
  /\ pc = "idle"
  /\ Served.ver <= MaxVersion
  /\ version' = Served.ver
  /\ synced' = Served.synced
  /\ gen' = Served.gen
  /\ IF live = <<>>
     THEN buffer' = Served.buf /\ ring' = <<>> /\ pc' = "idle"
     ELSE /\ buffer' = Restore(live[Len(live)], Served.buf, Served.gen)
          /\ ring' = SubSeq(live, 1, Len(live) - 1)
          /\ pc' = IF save THEN "save" ELSE "idle"
  /\ UNCHANGED <<disk, clock, cps, guard, mark, txn>>

-----------------------------------------------------------------------------
(* open_file on an existing file, or on a new one with create: an empty    *)
(* buffer, here any text, visiting the absent file.                        *)
Init ==
  /\ \E t \in Text :
       /\ \/ disk = [text |-> t, stamp |-> 1, ext |-> 1]
          \/ disk = [text |-> Absent, stamp |-> AbsentStamp, ext |-> 1]
       /\ buffer = [text |-> t, ver |-> 1, stamp |-> disk.stamp, base |-> 1]
  /\ clock = 1
  /\ version = 1
  /\ synced = 1
  /\ gen = 0
  /\ ring = <<>>
  /\ cps = <<>>
  /\ pc = "idle"
  /\ guard = None
  /\ mark = None
  /\ txn = None

External == ExternalWrite \/ ExternalDelete

Builtin ==
  \/ Edit
  \/ RevertBuffer
  \/ TakeCheckpoint
  \/ RestoreCheckpoint
  \/ BeginTransaction
  \/ LeaveTransaction
  \/ AbortTransaction

Call ==
  \/ \E keep \in BOOLEAN : BeginRun(keep)
  \/ BeginRehearse
  \/ BeginPreview
  \/ \E save \in BOOLEAN : FinishOk(save)
  \/ FinishErr
  \/ RollBack
  \/ SaveAfterEdit
  \/ SaveBuffer
  \/ \E save \in BOOLEAN : UndoLast(save)

Next == External \/ Builtin \/ Call

Spec == Init /\ [][Next]_vars

-----------------------------------------------------------------------------
(* Every store the session could still put back in the buffer. *)
RangeOf(s) == {s[i] : i \in DOMAIN s}

Snapshots ==
  {buffer}
    \cup {c.snap : c \in RangeOf(ring) \cup RangeOf(cps)}
    \cup (IF guard = None THEN {} ELSE {guard.buf})
    \cup (IF txn = None THEN {} ELSE {txn})
    \cup (IF mark = None THEN {}
          ELSE {mark.buf}
                 \cup {c.snap : c \in RangeOf(mark.ring) \cup RangeOf(mark.cps)})

TypeOK ==
  /\ disk \in Disk
  /\ clock \in 1..MaxStamp
  /\ disk.stamp <= clock
  /\ buffer \in Store
  /\ version \in 1..MaxVersion
  /\ synced \in 1..version
  /\ gen \in Nat
  /\ ring \in Seq(Checkpoint) /\ Len(ring) <= UndoCap
  /\ cps \in Seq(Checkpoint) /\ Len(cps) <= MaxCheckpoints
  /\ pc \in {"idle", "program", "save", "roll_back"}
  /\ guard \in Guard \cup {None}
  /\ mark \in Mark \cup {None}
  /\ txn \in Store \cup {None}

(* Equal versions mean equal text, across every snapshot held anywhere:    *)
(* what lets report.dirty, is_modified and the parse cache compare         *)
(* versions instead of documents (store.rs TextStore::version).            *)
EqualVersionsEqualText ==
  \A a, b \in Snapshots : a.ver = b.ver => a.text = b.text

(* A buffer that reads as unmodified and not stale holds the text that is  *)
(* on the disk.  Eviction, auto-revert and close_session throw away        *)
(* buffers on the strength of this.                                        *)
CleanMatchesDisk ==
  ~Modified /\ ~Stale(buffer) /\ disk.text # Absent => buffer.text = disk.text

(* A save never replaces an outside writer's text that the saved buffer    *)
(* does not derive from: the promise of the stale-read guard and of the    *)
(* re-read generation (Checkpoint::restore, save_to).                      *)
NoLostUpdate ==
  [][disk'.text # disk.text /\ disk.text # Absent /\ ~External
       => buffer.base = disk.ext]_vars

(* Between calls every step of the undo ring was taken since the last      *)
(* re-read, so a rewind hands on the stamp of the buffer it replaces and   *)
(* never turns a buffer that could be saved into one that cannot.          *)
RewindStaysSavable ==
  pc = "idle" => \A i \in DOMAIN ring : ring[i].gen = gen

(* A program that must not change the session does not: one that fails     *)
(* without keep_partial, or any in a read-only session, leaves the text it *)
(* found.                                                                  *)
RefusedRunKeepsText ==
  [][guard # None /\ guard' = None /\ (ReadOnly \/ (FinishErr /\ ~guard.keep))
       => buffer'.text = guard.buf.text]_vars

(* A rehearsal leaves no trace: the same checkpoints and undo steps are    *)
(* there, each would restore to what it restored to before, and the buffer *)
(* stands towards its file as it did when the rehearsal began (roll_back). *)
RehearsalLeavesNoTrace ==
  [][RollBack =>
       /\ cps' = mark.cps /\ ring' = mark.ring
       /\ \A c \in RangeOf(cps') \cup RangeOf(ring') :
            Restore(c, buffer', gen') = Restore(c, mark.buf, mark.gen)
       /\ (buffer'.ver = synced') = (mark.buf.ver = mark.synced)]_vars
=============================================================================
