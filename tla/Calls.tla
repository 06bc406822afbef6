-------------------------------- MODULE Calls --------------------------------
(***************************************************************************)
(* mime call (cli.rs): tool calls from the shell, one, or one per line of  *)
(* a script, in one warm workspace that ends with the process.  Other      *)
(* programs may write the files between two calls.                         *)
(*                                                                         *)
(* A text is a sequence of marks, one for each edit that is in it.         *)
(***************************************************************************)
EXTENDS Integers, Sequences, FiniteSets, SequencesExt

CONSTANTS
  Inputs,     \* sequences of lines: "comment", "bad" or "call" in is; a call
              \* has tool, file, mark (of an edit, or NoMark when its pattern
              \* is not there), save, force
  FirstTexts, \* file -> text
  NoMark,
  Theirs,     \* the mark another program leaves
  MaxWrites   \* bound: writes of other programs

VARIABLES
  input,   \* the lines
  todo,    \* the calls still to be run
  warm,    \* file -> [text, stamp, clean], of the files that are open
  onDisk,  \* file -> [text, stamp]
  allOk,   \* no call failed so far
  exit,    \* 0, 1 or 2 once the process is gone
  lost,    \* the files whose edits it said are discarded
  writes,
  made     \* history: [file, mark] of the edits made, which no call has
           \* thrown away since

callsVars == <<input, todo, warm, onDisk, allOk, exit, lost, writes, made>>

Running == 3

-----------------------------------------------------------------------------
(* parse_call_args and parse_call_script: all of it is read before         *)
(* anything runs; <<>> when it is not to be run.                           *)
ParseCallScript(ls) ==
  LET real == SelectSeq(ls, LAMBDA l : l.is # "comment")
  IN  IF \E i \in 1..Len(real) : real[i].is = "bad" THEN <<>> ELSE real

-----------------------------------------------------------------------------
(* What a call makes of the buffers and files, and whether it fails.       *)
Open(f) == [text |-> onDisk[f].text, stamp |-> onDisk[f].stamp, clean |-> TRUE]
Found(f) == IF f \in DOMAIN warm THEN warm[f] ELSE Open(f)
Stale(f, b) == b.stamp # onDisk[f].stamp
Keeping(f, b) == [x \in DOMAIN warm \cup {f} |-> IF x = f THEN b ELSE warm[x]]
Result(open, files, ok) == [warm |-> open, onDisk |-> files, ok |-> ok]

(* save_visited: refused over a file that has drifted. *)
Saved(f, b) ==
  LET now == onDisk[f].stamp + 1
  IN  IF Stale(f, b) THEN Result(Keeping(f, b), onDisk, FALSE)
      ELSE Result(Keeping(f, [b EXCEPT !.stamp = now, !.clean = TRUE]),
                  [onDisk EXCEPT ![f] = [text |-> b.text, stamp |-> now]], TRUE)

(* An edit tool, and the save it ends with: the edit stays in the buffer   *)
(* when that is refused.  A clean buffer is re-read first.                 *)
Edit(c) ==
  LET b == IF Found(c.file).clean THEN Open(c.file) ELSE Found(c.file)
      edited == [b EXCEPT !.text = Append(@, c.mark), !.clean = FALSE]
  IN  IF c.mark = NoMark THEN Result(Keeping(c.file, b), onDisk, FALSE)
      ELSE IF c.save THEN Saved(c.file, edited) ELSE Result(Keeping(c.file, edited), onDisk, TRUE)

SaveBuffer(c) ==
  LET b == Found(c.file)
  IN  IF b.clean /\ Stale(c.file, b) THEN Result(Keeping(c.file, Open(c.file)), onDisk, TRUE) ELSE Saved(c.file, b)

CloseSession(c) ==
  IF c.file \notin DOMAIN warm \/ (~warm[c.file].clean /\ ~c.force) THEN Result(warm, onDisk, FALSE)
  ELSE Result([x \in DOMAIN warm \ {c.file} |-> warm[x]], onDisk, TRUE)

CallTool(c) ==
  CASE c.tool = "edit" -> Edit(c) [] c.tool = "save_buffer" -> SaveBuffer(c) [] c.tool = "close_session" -> CloseSession(c)

-----------------------------------------------------------------------------
CallsInit ==
  /\ input \in Inputs
  /\ todo = <<>> /\ warm = <<>> /\ allOk = TRUE /\ exit = Running /\ lost = {} /\ writes = 0 /\ made = {}
  /\ onDisk = [f \in DOMAIN FirstTexts |-> [text |-> FirstTexts[f], stamp |-> 0]]

(* run_call: exit 2 on a script that cannot be parsed, or has no calls.    *)
RunCall ==
  /\ exit = Running /\ input # <<>>
  /\ todo' = ParseCallScript(input)
  /\ exit' = IF todo' = <<>> THEN 2 ELSE Running
  /\ input' = <<>>
  /\ UNCHANGED <<warm, onDisk, allOk, lost, writes, made>>

(* call_tools: a failed call does not stop the script.                     *)
NextCall ==
  /\ exit = Running /\ todo # <<>>
  /\ LET c == Head(todo)
         r == CallTool(c)
     IN  /\ warm' = r.warm /\ onDisk' = r.onDisk
         /\ allOk' = (allOk /\ r.ok)
         /\ made' = CASE c.tool = "edit" /\ c.mark # NoMark -> made \cup {[file |-> c.file, mark |-> c.mark]}
                      [] c.tool = "close_session" /\ r.ok ->
                           {e \in made : e.file # c.file \/ e.mark \in ToSet(onDisk[e.file].text)}
                      [] OTHER -> made
  /\ todo' = Tail(todo)
  /\ UNCHANGED <<input, exit, lost, writes>>

(* The process ends, and its buffers with it.                              *)
Finish ==
  /\ exit = Running /\ input = <<>> /\ todo = <<>>
  /\ lost' = {f \in DOMAIN warm : ~warm[f].clean}
  /\ exit' = IF allOk THEN 0 ELSE 1
  /\ warm' = <<>>
  /\ UNCHANGED <<input, todo, onDisk, allOk, writes, made>>

(* Another program edits a file, which keeps what is in it.                *)
OtherProgram ==
  /\ exit = Running /\ writes < MaxWrites
  /\ \E f \in DOMAIN onDisk :
       onDisk' = [onDisk EXCEPT ![f] = [text |-> Append(@.text, Theirs), stamp |-> @.stamp + 1]]
  /\ writes' = writes + 1
  /\ UNCHANGED <<input, todo, warm, allOk, exit, lost, made>>

CallsNext == RunCall \/ NextCall \/ Finish \/ OtherProgram
CallsSpec == CallsInit /\ [][CallsNext]_callsVars

-----------------------------------------------------------------------------
(* A malformed line anywhere leaves nothing behind (parse_call_script).    *)
(* Once the process is gone, every edit that was made is in its file, also *)
(* one whose save was refused, or the file was named as one whose edits    *)
(* are lost (call_tools), or a later call threw the edit away unsaved; and *)
(* what another program wrote is still there.                              *)
CallsKeepTheirWord ==
  /\ exit = 2 => \A f \in DOMAIN onDisk : ToSet(onDisk[f].text) \subseteq ToSet(FirstTexts[f]) \cup {Theirs}
  /\ exit # Running => \A e \in made : e.file \in lost \/ e.mark \in ToSet(onDisk[e.file].text)
  /\ LET theirs(f) == {i \in 1..Len(onDisk[f].text) : onDisk[f].text[i] = Theirs}
     IN  writes = FoldSet(LAMBDA f, n : n + Cardinality(theirs(f)), 0, DOMAIN onDisk)
=============================================================================
