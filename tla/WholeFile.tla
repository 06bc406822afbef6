----------------------------- MODULE WholeFile -----------------------------
(***************************************************************************)
(* What an atomic save promises about one file that several processes      *)
(* write: a save puts the whole of its text in place at one moment and     *)
(* reports success, or never touches the file and reports failure.  A      *)
(* process that dies in the middle reports nothing.                        *)
(***************************************************************************)
CONSTANTS
  Process,  \* the processes that save the file
  Text,     \* what may be saved
  Absent    \* the file does not exist

VARIABLES
  file,     \* what a reader of the file sees
  want,     \* the text each process saves
  state     \* how far each process is, and what its last save reported

vars == <<file, want, state>>

Phase == {"idle", "saving", "replaced", "ok", "failed", "dead"}

Init ==
  /\ file \in Text \cup {Absent}
  /\ want \in [Process -> Text]
  /\ state = [p \in Process |-> "idle"]

(* Anyone else may rewrite or delete the file, one whole text at a time. *)
Outside ==
  /\ file' \in Text \cup {Absent}
  /\ UNCHANGED <<want, state>>

(* A process edits its buffer between saves. *)
Prepare(p) ==
  /\ state[p] \in {"idle", "ok", "failed"}
  /\ \E t \in Text : want' = [want EXCEPT ![p] = t]
  /\ state' = [state EXCEPT ![p] = "idle"]
  /\ UNCHANGED file

(* A save is taken up, or refused at once. *)
Begin(p) ==
  /\ state[p] = "idle"
  /\ \E s \in {"saving", "failed"} : state' = [state EXCEPT ![p] = s]
  /\ UNCHANGED <<file, want>>

Replace(p) ==
  /\ state[p] = "saving"
  /\ file' = want[p]
  /\ state' = [state EXCEPT ![p] = "replaced"]
  /\ UNCHANGED want

(* Success is reported after the replacement and never without it. *)
Report(p) ==
  /\ \/ state[p] = "saving" /\ state' = [state EXCEPT ![p] = "failed"]
     \/ state[p] = "replaced" /\ state' = [state EXCEPT ![p] = "ok"]
  /\ UNCHANGED <<file, want>>

(* Any number of processes die at once when the machine does. *)
Die ==
  /\ \E dead \in SUBSET Process :
       state' = [p \in Process |-> IF p \in dead THEN "dead" ELSE state[p]]
  /\ UNCHANGED <<file, want>>

Next ==
  \/ Outside
  \/ Die
  \/ \E p \in Process :
       Prepare(p) \/ Begin(p) \/ Replace(p) \/ Report(p)

Spec == Init /\ [][Next]_vars
=============================================================================
