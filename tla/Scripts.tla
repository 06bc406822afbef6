------------------------------- MODULE Scripts -------------------------------
(***************************************************************************)
(* A trusted program: it has the buffers of a session, files and arguments *)
(* at its command (register_orchestration in builtins.rs, Session and      *)
(* Workspace in engine.rs).  The stepper runs it form by form, steps back  *)
(* by running it again from the start, and writes the buffer it was opened *)
(* over when it is done (tui_step.rs, tui.rs); the command line runs it    *)
(* whole (run_local in cli.rs).                                            *)
(*                                                                         *)
(* A text is a sequence of lines; an insertion is one more line.  Other    *)
(* programs write files between the forms.                                 *)
(***************************************************************************)
EXTENDS Integers, Sequences, SequencesExt

CONSTANTS
  Starts,    \* what may be run: [mode, script, file]
  FirstDisk, \* file -> the lines in it, or Missing
  Base,      \* file -> its name without the directory
  Missing,
  MaxOthers  \* bound: writes by other programs

VARIABLES
  session,   \* [bufs, io, value]: the buffers, the current one first, the
             \* others in their order; disk_io; what the interpreter keeps
  files,     \* file -> [lines, at]: what is on disk, and its stamp
  start,     \* what is run
  next,      \* forms run
  outcome,   \* of the last form: "none", "ok" or "failed"
  phase,     \* "running", "written" or "discarded"
  others,    \* writes by other programs
  missed     \* history: a form was refused a file and io does not say so

scriptVars == <<session, files, start, next, outcome, phase, others, missed>>

-----------------------------------------------------------------------------
(* Lines on disk may end in CR LF; the file's coding says so.              *)
Line(w) == [say |-> w, cr |-> FALSE]
IsDos(lines) == lines # <<>> /\ lines[1].cr
WithCr(lines, cr) == [i \in 1..Len(lines) |-> [lines[i] EXCEPT !.cr = cr]]
Decoded(lines) == IF IsDos(lines) THEN WithCr(lines, FALSE) ELSE lines
Encoded(b) == IF b.dos THEN WithCr(b.lines, TRUE) ELSE b.lines

(* Buffers go by name: a base name and, from 2, the number that makes it   *)
(* unique.                                                                 *)
NoFile == "no file"
Scratch(name) == [name |-> name, lines |-> <<>>, file |-> NoFile, stamp |-> 0, dos |-> FALSE, opened |-> FALSE]
Visit(disk, f) ==
  [name |-> <<Base[f], 1>>, lines |-> Decoded(disk[f].lines), file |-> f, stamp |-> disk[f].at,
   dos |-> IsDos(disk[f].lines), opened |-> FALSE]

HasBuffer(bufs, name) == \E i \in 1..Len(bufs) : bufs[i].name = name
IndexOf(bufs, name) == CHOOSE i \in 1..Len(bufs) : bufs[i].name = name
Swap(bufs, i) == [bufs EXCEPT ![1] = bufs[i], ![i] = bufs[1]]
UniqueName(bufs, name) ==
  IF ~HasBuffer(bufs, name) THEN name
  ELSE CHOOSE n \in {<<name[1], k>> : k \in 2..Len(bufs) + 2} :
         ~HasBuffer(bufs, n) /\ \A k \in 2..n[2] - 1 : HasBuffer(bufs, <<name[1], k>>)
Visiting(bufs, f) == SelectSeq([i \in 1..Len(bufs) |-> i], LAMBDA i : bufs[i].file = f)

(***************************************************************************)
(* What a form does, one call after the other.  e is [bufs, io, value,     *)
(* disk, now, missed, ok]; a failure ends the form.                        *)
(***************************************************************************)
Failed(e) == [e EXCEPT !.ok = FALSE]
Denied(e) == [e EXCEPT !.ok = FALSE, !.missed = TRUE]
Exists(e, f) == e.disk[f].lines # Missing
Insert(e, lines) == [e EXCEPT !.bufs[1].lines = @ \o lines]
OnDisk(e, f, lines) ==
  [e EXCEPT !.now = @ + 1, !.disk[f] = [lines |-> lines, at |-> e.now + 1], !.io = TRUE]

GenerateNewBuffer(e, name) == [e EXCEPT !.bufs = Append(@, Scratch(UniqueName(@, name)))]
SetBuffer(e, name) ==
  IF HasBuffer(e.bufs, name) THEN [e EXCEPT !.bufs = Swap(@, IndexOf(@, name))] ELSE Failed(e)
KillBuffer(e, name) ==
  IF HasBuffer(Tail(e.bufs), name) THEN [e EXCEPT !.bufs = SelectSeq(@, LAMBDA b : b.name # name)] ELSE Failed(e)

(* find_file_buffer: a buffer that visits the file is used again. *)
FindFile(e, f, select) ==
  LET there == Visiting(e.bufs, f)
      b == Visit(e.disk, f)
      fresh == [b EXCEPT !.name = UniqueName(e.bufs, @)]
  IN  IF there # <<>> THEN [e EXCEPT !.bufs = IF select THEN Swap(@, there[1]) ELSE @]
      ELSE IF ~Exists(e, f) THEN Denied(e)
      ELSE [e EXCEPT !.io = TRUE,
                     !.bufs = IF select THEN <<fresh>> \o Tail(@) \o <<@[1]>> ELSE Append(@, fresh)]

(* Mutant: the read is not noted. *)
InsertContentsUnnoted(e, f) == IF Exists(e, f) THEN Insert(e, e.disk[f].lines) ELSE Denied(e)

(* insert-file-contents: the lines as they are on disk. *)
InsertContents(e, f) ==
  IF Exists(e, f) THEN [Insert(e, e.disk[f].lines) EXCEPT !.io = TRUE] ELSE Denied(e)

(* write-file: over the file the buffer visits only while nobody else has  *)
(* changed it, and then the buffer takes the stamp of what it wrote.       *)
WriteFile(e, f) ==
  LET b == e.bufs[1]
      own == b.file = f
      there == OnDisk(e, f, Encoded(b))
  IN  IF own /\ e.disk[f].at # b.stamp THEN Denied(e)
      ELSE IF own THEN [there EXCEPT !.bufs[1].stamp = there.now] ELSE there

WriteRegion(e, f) == OnDisk(e, f, e.bufs[1].lines)

DirectoryFiles(e) ==
  [e EXCEPT !.io = TRUE, !.value = Len(SelectSeq(SetToSeq(DOMAIN e.disk), LAMBDA f : Exists(e, f)))]

RECURSIVE Eval(_, _)
Call(e, op) ==
  CASE op.do = "insert" -> Insert(e, <<Line(op.what)>>)
    [] op.do = "insert value" -> Insert(e, <<Line(e.value)>>)
    [] op.do = "setq" -> [e EXCEPT !.value = @ + 1]
    [] op.do = "error" -> Failed(e)
    [] op.do = "generate-new-buffer" -> GenerateNewBuffer(e, op.name)
    [] op.do = "set-buffer" -> SetBuffer(e, op.name)
    [] op.do = "kill-buffer" -> KillBuffer(e, op.name)
    [] op.do = "find-file" -> FindFile(e, op.file, TRUE)
    [] op.do = "find-file-noselect" -> FindFile(e, op.file, FALSE)
    [] op.do = "insert-file-contents" -> InsertContents(e, op.file)
    [] op.do = "write-file" -> WriteFile(e, op.file)
    [] op.do = "write-region" -> WriteRegion(e, op.file)
    [] op.do = "directory-files" -> DirectoryFiles(e)
    [] op.do = "with-current-buffer" ->
         LET before == e.bufs[1].name
             there == SetBuffer(e, op.name)
             after == Eval(there, op.body)
             back == SetBuffer(after, before)
         IN  IF there.ok THEN [back EXCEPT !.ok = after.ok /\ back.ok] ELSE there
    [] op.do = "condition-case" -> [Eval(e, op.body) EXCEPT !.ok = TRUE]
Eval(e, ops) == FoldLeft(LAMBDA st, op : IF st.ok THEN Call(st, op) ELSE st, e, ops)

(***************************************************************************)
(* run_value_with: a form that fails changes no buffer.                    *)
(***************************************************************************)
SessionChanged(before, after) ==
  \/ Len(before) # Len(after)
  \/ \E i \in 1..Len(before) :
       \/ ~HasBuffer(after, before[i].name)
       \/ after[IndexOf(after, before[i].name)].lines # before[i].lines

(* rollback_session: what kept its text stays, the rest comes back; the    *)
(* last of the other buffers moves to the front of them (swap_remove).     *)
RollBack(before, after) ==
  LET kept(b) == HasBuffer(after, b.name) /\ after[IndexOf(after, b.name)].lines = b.lines
      restored == [i \in 1..Len(before) |->
                     IF kept(before[i]) THEN after[IndexOf(after, before[i].name)] ELSE before[i]]
  IN  IF Len(before) <= 2 THEN restored
      ELSE <<restored[1], Last(restored)>> \o SubSeq(restored, 2, Len(restored) - 1)

Run(e, form) ==
  LET after == Eval(e, form) IN
  IF after.ok \/ ~SessionChanged(e.bufs, after.bufs) THEN after
  ELSE [after EXCEPT !.bufs = RollBack(e.bufs, @)]

(* The buffer of that name, or the current one when it was killed. *)
PrimaryBuffer(bufs, name) == IF HasBuffer(bufs, name) THEN bufs[IndexOf(bufs, name)] ELSE bufs[1]

-----------------------------------------------------------------------------
OpenedOver(disk) == [Visit(disk, start.file) EXCEPT !.opened = TRUE]
Env(s, disk, now) ==
  [bufs |-> s.bufs, io |-> s.io, value |-> s.value, disk |-> disk, now |-> now, missed |-> FALSE, ok |-> TRUE]
Fresh(origin) == [bufs |-> <<origin>>, io |-> FALSE, value |-> 0]
Of(e) == [bufs |-> e.bufs, io |-> e.io, value |-> e.value]
Now == CHOOSE n \in {files[f].at : f \in DOMAIN files} : \A f \in DOMAIN files : files[f].at <= n
FirstFiles == [f \in DOMAIN FirstDisk |-> [lines |-> FirstDisk[f], at |-> 0]]
Origin == OpenedOver(FirstFiles)
Primary == <<Base[start.file], 1>>

ScriptInit ==
  /\ start \in Starts
  /\ files = FirstFiles
  /\ session = Fresh(Origin)
  /\ next = 0 /\ others = 0
  /\ outcome = "none" /\ phase = "running" /\ missed = FALSE

Take(e, n) ==
  /\ session' = Of(e)
  /\ files' = e.disk
  /\ missed' = (missed \/ e.missed)
  /\ next' = n

(* Stepper::step *)
Step ==
  /\ phase = "running" /\ start.mode = "tui" /\ next < Len(start.script)
  /\ LET e == Run(Env(session, files, Now), start.script[next + 1])
     IN  Take(e, next + 1) /\ outcome' = IF e.ok THEN "ok" ELSE "failed"
  /\ UNCHANGED <<start, phase, others>>

(* restart and step_back: a new workspace over the store as it was opened, *)
(* and the forms before run again, from 1 up to n; refused once a form has *)
(* done file I/O (replay_blocked).                                         *)
Replayed(n) ==
  FoldLeft(LAMBDA e, form : [Run(e, form) EXCEPT !.ok = TRUE],
           Env(Fresh(Origin), files, Now), SubSeq(start.script, 1, n))
GoBack ==
  /\ phase = "running" /\ start.mode = "tui" /\ next > 0 /\ ~session.io
  /\ \E n \in {0, next - 1} : Take(Replayed(n), n)
  /\ outcome' = "none"
  /\ UNCHANGED <<start, phase, others>>

(* tui::run: after the last form the user may write the primary buffer; or *)
(* leaves.                                                                 *)
WriteBack(disk, lines) == [disk EXCEPT ![start.file] = [lines |-> lines, at |-> Now + 1]]
Quit ==
  /\ phase = "running" /\ start.mode = "tui"
  /\ \/ phase' = "discarded" /\ UNCHANGED files
     \/ /\ next = Len(start.script)
        /\ phase' = "written"
        /\ files' = WriteBack(files, PrimaryBuffer(session.bufs, Primary).lines)
  /\ UNCHANGED <<session, start, next, outcome, others, missed>>

(* run_local: the script is one program.  With --write, what it changed of *)
(* the primary buffer is written; a rehearsal writes nothing of its own.   *)
RunLocal ==
  /\ phase = "running" /\ start.mode \in {"run", "rehearse"} /\ next = 0
  /\ LET e == Run(Env(session, files, Now), FlattenSeq(start.script))
         final == PrimaryBuffer(e.bufs, Primary).lines
         writes == e.ok /\ start.mode = "run" /\ final # session.bufs[1].lines
     IN  /\ session' = IF start.mode = "run" THEN Of(e) ELSE [Of(e) EXCEPT !.bufs[1] = session.bufs[1]]
         /\ files' = IF writes THEN [e.disk EXCEPT ![start.file] = [lines |-> final, at |-> e.now + 1]] ELSE e.disk
         /\ missed' = e.missed
         /\ outcome' = IF e.ok THEN "ok" ELSE "failed"
         /\ phase' = IF writes THEN "written" ELSE "discarded"
  /\ next' = Len(start.script)
  /\ UNCHANGED <<start, others>>

(* Another program writes a file. *)
OtherWrites ==
  /\ phase = "running" /\ start.mode = "tui" /\ others < MaxOthers
  /\ \E f \in DOMAIN files : files' = [files EXCEPT ![f] = [lines |-> <<Line("theirs")>>, at |-> Now + 1]]
  /\ others' = others + 1
  /\ UNCHANGED <<session, start, next, outcome, phase, missed>>

ScriptNext == Step \/ GoBack \/ Quit \/ RunLocal \/ OtherWrites
ScriptSpec == ScriptInit /\ [][ScriptNext]_scriptVars

-----------------------------------------------------------------------------
(* A form leaves the current buffer current unless it says so outside      *)
(* every with-current-buffer.                                              *)
Comes(ops) == \A i \in 1..Len(ops) : ops[i].do \notin {"set-buffer", "find-file", "condition-case"}

(* The names are distinct and no file is visited twice; a rehearsal puts   *)
(* back the buffer that was current in front of all others, and ends.      *)
BuffersAreDistinct ==
  start.mode # "rehearse" => \A i, j \in 1..Len(session.bufs) : i # j =>
    /\ session.bufs[i].name # session.bufs[j].name
    /\ session.bufs[i].file = session.bufs[j].file => session.bufs[i].file = NoFile

(* Wherever the stepper stands it holds what the script's first forms,     *)
(* each run once over what was opened, leave: also after stepping back     *)
(* while other programs write.                                             *)
ReplayIsFaithful ==
  (start.mode = "tui" /\ ~session.io /\ ~missed) =>
    session = Of(FoldLeft(LAMBDA e, form : [Run(e, form) EXCEPT !.ok = TRUE],
                          Env(Fresh(Origin), FirstFiles, 0), SubSeq(start.script, 1, next)))

(* A failed form leaves every buffer, its text and the file it visits, and *)
(* no other; stepping back touches no file; and what is written over the   *)
(* file is the text of the buffer that was opened from it, if it is still  *)
(* there, whichever buffer the script ended in.                            *)
StepsKeepTheirPromises ==
  /\ outcome' = "failed" /\ session' # session =>
       LET same(b, c) == b.name = c.name /\ b.lines = c.lines /\ b.file = c.file IN
       /\ Len(session.bufs) = Len(session'.bufs)
       /\ \A i \in 1..Len(session.bufs) : \E j \in 1..Len(session.bufs) : same(session.bufs[i], session'.bufs[j])
  /\ outcome' = "ok" /\ next' = next + 1 /\ Comes(start.script[next']) =>
       session'.bufs[1].name = session.bufs[1].name
  /\ next' < next => files' = files
  /\ (phase' = "written" /\ phase # "written") =>
       \A i \in 1..Len(session'.bufs) :
         session'.bufs[i].opened => Decoded(files'[start.file].lines) = session'.bufs[i].lines

(* Writing a file back keeps its coding: line ends are restored as they    *)
(* were found (coding.rs, its header).                                     *)
WriteBackKeepsCoding ==
  phase = "written" /\ others = 0 =>
    IsDos(files[start.file].lines) = IsDos(FirstDisk[start.file])
=============================================================================
