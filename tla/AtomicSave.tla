----------------------------- MODULE AtomicSave -----------------------------
(***************************************************************************)
(* Workspace::save_to one system call at a time: the stale check, the      *)
(* sibling temporary file of safety.rs write_atomic_with, the rename over  *)
(* the visited file, and the rebase of quire.rs that re-opens what was     *)
(* just written.  Several mime processes may visit the same file, writers  *)
(* outside mime replace it, calls fail, and a process or the machine dies  *)
(* between any two steps.                                                  *)
(***************************************************************************)
EXTENDS Integers

CONSTANTS
  Process,   \* mime processes that visit the file; each has its own pid
  Text,      \* whole texts
  Absent,    \* no such file
  Torn,      \* the contents of a file only part of which was written
  MaxStamp   \* bound: changes of the visited file

ASSUME AtomicSaveAssumption ==
  /\ Absent \notin Text /\ Torn \notin Text /\ Absent # Torn
  /\ MaxStamp \in Nat \ {0}

VARIABLES
  disk,    \* [text, stamp, synced]: the visited file, its identity, and
           \* whether its data has reached the platter
  clock,   \* the last identity given out
  tmp,     \* each process's ".name.tmp.<pid>": [text, synced]
  buf,     \* each process's buffer: [text, saved, stamp]; saved is the text
           \* its content version stands for
  probe,   \* the stamp rebase_to took before it opened the saved file
  pc       \* each process's place in save_to

vars == <<disk, clock, tmp, buf, probe, pc>>

Contents == Text \cup {Absent, Torn}

AbsentStamp == 0

(* The places of save_to: before the check, after each of its calls, and   *)
(* what it returned.                                                       *)
Place == {"idle", "checked", "created", "written", "synced", "renamed",
          "stamped", "ok", "failed", "dead"}

(* A buffer read from the file, or an empty one that will create it. *)
Init ==
  /\ \E t \in Text :
       /\ \/ disk = [text |-> t, stamp |-> 1, synced |-> TRUE]
          \/ disk = [text |-> Absent, stamp |-> AbsentStamp, synced |-> TRUE]
       /\ buf = [p \in Process |->
                   [text |-> t, saved |-> t, stamp |-> disk.stamp]]
  /\ clock = 1
  /\ tmp = [p \in Process |-> [text |-> Absent, synced |-> TRUE]]
  /\ probe = [p \in Process |-> AbsentStamp]
  /\ pc = [p \in Process |-> "idle"]

Go(p, place) == pc' = [pc EXCEPT ![p] = place]

-----------------------------------------------------------------------------
(* The process edits its buffer, perhaps to the same text, and will save.  *)
Edit(p) ==
  /\ pc[p] \in {"idle", "ok", "failed"}
  /\ \E t \in Text :
       buf' = [buf EXCEPT ![p].text = t, ![p].saved = t]
  /\ Go(p, "idle")
  /\ UNCHANGED <<disk, clock, tmp, probe>>

(* revert_in_place: the file as it is now, and its stamp. *)
Reopen(p) ==
  /\ pc[p] \in {"idle", "ok", "failed"}
  /\ disk.text \in Text
  /\ buf' = [buf EXCEPT ![p] = [text |-> disk.text, saved |-> disk.text,
                               stamp |-> disk.stamp]]
  /\ Go(p, "idle")
  /\ UNCHANGED <<disk, clock, tmp, probe>>

(* stale_visit: FileStamp::check against the file as it is now. *)
Check(p) ==
  /\ pc[p] = "idle"
  /\ Go(p, IF buf[p].stamp = disk.stamp THEN "checked" ELSE "failed")
  /\ UNCHANGED <<disk, clock, tmp, buf, probe>>

(* File::create truncates whatever an earlier process of this pid left. *)
CreateTmp(p) ==
  /\ pc[p] = "checked"
  /\ tmp' = [tmp EXCEPT ![p] = [text |-> Torn, synced |-> FALSE]]
  /\ Go(p, "created")
  /\ UNCHANGED <<disk, clock, buf, probe>>

WriteTmp(p) ==
  /\ pc[p] = "created"
  /\ tmp' = [tmp EXCEPT ![p].text = buf[p].text]
  /\ Go(p, "written")
  /\ UNCHANGED <<disk, clock, buf, probe>>

SyncTmp(p) ==
  /\ pc[p] = "written"
  /\ tmp' = [tmp EXCEPT ![p].synced = TRUE]
  /\ Go(p, "synced")
  /\ UNCHANGED <<disk, clock, buf, probe>>

Rename(p) ==
  /\ pc[p] = "synced"
  /\ clock < MaxStamp
  /\ clock' = clock + 1
  /\ disk' = [text |-> tmp[p].text, stamp |-> clock', synced |-> tmp[p].synced]
  /\ tmp' = [tmp EXCEPT ![p].text = Absent]
  /\ Go(p, "renamed")
  /\ UNCHANGED <<buf, probe>>

(* Mutants: a failed save leaves its temporary file; a save that replaced  *)
(* the file reports failure all the same.                                  *)
FailSaveLittering(p) ==
  /\ pc[p] \in {"checked", "created", "written", "synced"}
  /\ Go(p, "failed")
  /\ UNCHANGED <<disk, clock, tmp, buf, probe>>

FailSaveAfterwards(p) ==
  /\ pc[p] \in {"checked", "created", "written", "synced", "renamed"}
  /\ tmp' = [tmp EXCEPT ![p].text = Absent]
  /\ Go(p, "failed")
  /\ UNCHANGED <<disk, clock, buf, probe>>

(* Any of the calls above fails: the temporary file is removed and the     *)
(* error goes to the caller.  A create that fails left nothing to remove.  *)
FailSave(p) ==
  /\ pc[p] \in {"checked", "created", "written", "synced"}
  /\ tmp' = [tmp EXCEPT ![p].text = Absent]
  /\ Go(p, "failed")
  /\ UNCHANGED <<disk, clock, buf, probe>>

(* rebase_to stamps the file before it opens it.  Its failures are ignored *)
(* by save_to, which has already saved; they leave the old stamp, which    *)
(* the replaced file no longer has.                                        *)
RebaseStamp(p) ==
  /\ pc[p] = "renamed"
  /\ Go(p, IF disk.text = Absent THEN "ok" ELSE "stamped")
  /\ probe' = [probe EXCEPT ![p] = disk.stamp]
  /\ UNCHANGED <<disk, clock, tmp, buf>>

(* The bytes found become the buffer's original; its version stays. *)
RebaseRead(p) ==
  /\ pc[p] = "stamped"
  /\ disk.text # Absent
  /\ buf' = [buf EXCEPT ![p].text = disk.text, ![p].stamp = probe[p]]
  /\ Go(p, "ok")
  /\ UNCHANGED <<disk, clock, tmp, probe>>

(* Mutant: a rebase that fails keeps the stamp it took. *)
RebaseFailsRestamped(p) ==
  /\ pc[p] = "stamped"
  /\ buf' = [buf EXCEPT ![p].stamp = probe[p]]
  /\ Go(p, "ok")
  /\ UNCHANGED <<disk, clock, tmp, probe>>

(* The file is gone, unreadable, or changed length while it was read. *)
RebaseFails(p) ==
  /\ pc[p] = "stamped"
  /\ Go(p, "ok")
  /\ UNCHANGED <<disk, clock, tmp, buf, probe>>

-----------------------------------------------------------------------------
(* Another program replaces or deletes the file. *)
Outside ==
  /\ clock < MaxStamp
  /\ clock' = clock + 1
  /\ \/ \E t \in Text :
          disk' = [text |-> t, stamp |-> clock', synced |-> TRUE]
     \/ disk' = [text |-> Absent, stamp |-> AbsentStamp, synced |-> TRUE]
  /\ UNCHANGED <<tmp, buf, probe, pc>>

(* A process is killed: its temporary file stays behind. *)
Kill(p) ==
  /\ pc[p] # "dead"
  /\ Go(p, "dead")
  /\ UNCHANGED <<disk, clock, tmp, buf, probe>>

(* The machine stops.  Data that was not synced may come back in part. *)
AfterPowerLoss(f) ==
  IF f.text = Absent \/ f.synced THEN f
  ELSE [f EXCEPT !.text = Torn, !.synced = TRUE]

PowerLoss ==
  /\ \E p \in Process : pc[p] # "dead"
  /\ pc' = [p \in Process |-> "dead"]
  /\ disk' = AfterPowerLoss(disk)
  /\ tmp' = [p \in Process |-> AfterPowerLoss(tmp[p])]
  /\ UNCHANGED <<clock, buf, probe>>

Save(p) ==
  \/ Check(p) \/ CreateTmp(p) \/ WriteTmp(p) \/ SyncTmp(p) \/ Rename(p)
  \/ FailSave(p) \/ RebaseStamp(p) \/ RebaseRead(p) \/ RebaseFails(p)

Next ==
  \/ \E p \in Process : Edit(p) \/ Reopen(p) \/ Save(p) \/ Kill(p)
  \/ Outside
  \/ PowerLoss

Spec == Init /\ [][Next]_vars

-----------------------------------------------------------------------------
TypeOK ==
  /\ disk \in [text : Contents, stamp : 0..MaxStamp, synced : BOOLEAN]
  /\ clock \in 1..MaxStamp
  /\ tmp \in [Process -> [text : Contents, synced : BOOLEAN]]
  /\ buf \in [Process -> [text : Text, saved : Text, stamp : 0..MaxStamp]]
  /\ probe \in [Process -> 0..MaxStamp]
  /\ pc \in [Process -> Place]

(* "A reader sees the whole old file or the whole new one", whatever       *)
(* fails, dies or loses power, and whichever processes save at once        *)
(* (write_atomic_with).                                                    *)
NeverTorn == disk.text # Torn

(* Only a process that died leaves its temporary file beside the visited   *)
(* one; every other path, errors included, cleans it up.                   *)
LitterOnlyOfTheDead ==
  \A p \in Process : pc[p] \in {"idle", "ok", "failed"} => tmp[p].text = Absent

(* A buffer fresh from a save that still matches the file's stamp shows    *)
(* the text on the disk, even when another writer slipped in while it was  *)
(* rebased: the stamp is taken before the bytes are read (rebase_to).      *)
SavedBufferIsCurrent ==
  \A p \in Process :
    pc[p] = "ok" /\ buf[p].stamp = disk.stamp /\ disk.text # Absent
      => buf[p].text = disk.text

(* A save as its caller sees it: the text it is to put in place, and how   *)
(* far it is.                                                              *)
Wanted == [p \in Process |-> buf[p].saved]

PhaseOf(place) ==
  IF place \in {"checked", "created", "written", "synced"} THEN "saving"
  ELSE IF place \in {"renamed", "stamped"} THEN "replaced"
  ELSE place

Progress == [p \in Process |-> PhaseOf(pc[p])]

(* Every save is all or nothing and reports which: the steps above         *)
(* implement WholeFile.                                                    *)
Whole == INSTANCE WholeFile WITH
  file <- disk.text, want <- Wanted, state <- Progress

SavesAreWhole == Whole!Spec
=============================================================================
