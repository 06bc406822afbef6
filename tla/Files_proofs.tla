---------------------------- MODULE Files_proofs ----------------------------
(***************************************************************************)
(* Theorems about the file one path names: AtomicSave, for any number of   *)
(* processes and any texts (its invariants, and that it implements         *)
(* WholeFile), and FileVisit, for every file, cache and number of writes.  *)
(*                                                                         *)
(* A save: the argument follows the temporary file through it.  It is      *)
(* whole once written, and safe from a power loss once synced, so the file *)
(* the rename puts in place is whole and stays so.  A visit: why its       *)
(* pages, read at different times, make up one state of the file.          *)
(***************************************************************************)
EXTENDS AtomicSave, FileVisit, FiniteSetTheorems, TLAPS

(* Where a process of its own accord has no temporary file. *)
Clean == {"idle", "ok", "failed", "checked", "renamed", "stamped"}

(* What each place of save_to guarantees about the temporary file and the  *)
(* buffer.                                                                 *)
PlaceInv ==
  \A p \in Process :
    /\ pc[p] \in {"written", "synced"} => tmp[p].text = buf[p].text
    /\ pc[p] = "synced" => tmp[p].synced
    /\ pc[p] \in Clean => tmp[p].text = Absent
    /\ pc[p] \notin {"ok", "dead"} => buf[p].text = buf[p].saved

(* The visited file is whole and its data has reached the platter. *)
DiskInv == disk.text # Torn /\ disk.synced

(* No stamp is newer than the last change, and a buffer whose save has     *)
(* replaced the file keeps an older one until it is rebased.               *)
StampInv ==
  /\ disk.stamp <= clock
  /\ \A p \in Process :
       /\ buf[p].stamp <= clock /\ probe[p] <= clock
       /\ pc[p] \in {"renamed", "stamped"} /\ disk.text # Absent =>
            buf[p].stamp < disk.stamp

Inv == TypeOK /\ PlaceInv /\ DiskInv /\ StampInv /\ SavedBufferIsCurrent

-----------------------------------------------------------------------------
(* The records the state is made of. *)
File == [text : Contents, stamp : 0..MaxStamp, synced : BOOLEAN]
Tmp == [text : Contents, synced : BOOLEAN]
Buf == [text : Text, saved : Text, stamp : 0..MaxStamp]

(* A buffer just read, or an empty one, starts right. *)
LEMMA InitInv == Init => Inv
<1> SUFFICES ASSUME Init PROVE Inv
  OBVIOUS
<1>1. PICK t \in Text :
        /\ \/ disk = [text |-> t, stamp |-> 1, synced |-> TRUE]
           \/ disk = [text |-> Absent, stamp |-> AbsentStamp, synced |-> TRUE]
        /\ buf = [p \in Process |->
                   [text |-> t, saved |-> t, stamp |-> disk.stamp]]
  BY DEF Init
<1>2. 1 \in 1..MaxStamp /\ 0 \in 0..MaxStamp /\ 1 \in 0..MaxStamp
  BY AtomicSaveAssumption
<1>3. /\ disk \in File /\ disk.stamp \in {0, 1} /\ DiskInv
      /\ disk.text # Absent => disk.text = t
  <2>1. t # Torn /\ Absent # Torn /\ t \in Contents /\ Absent \in Contents
    BY AtomicSaveAssumption DEF Contents
  <2>2. CASE disk = [text |-> t, stamp |-> 1, synced |-> TRUE]
    BY <1>2, <2>1, <2>2 DEF File, DiskInv
  <2>3. CASE disk = [text |-> Absent, stamp |-> AbsentStamp, synced |-> TRUE]
    BY <1>2, <2>1, <2>3 DEF File, DiskInv, AbsentStamp
  <2> QED
    BY <1>1, <2>2, <2>3
<1>4. buf \in [Process -> Buf]
  BY <1>1, <1>2, <1>3 DEF Buf
<1>5. tmp \in [Process -> Tmp] /\ pc \in [Process -> Place]
      /\ probe \in [Process -> 0..MaxStamp]
  BY <1>2 DEF Init, Tmp, Contents, Place, AbsentStamp
<1>6. TypeOK
  BY <1>2, <1>3, <1>4, <1>5 DEF Init, TypeOK, File, Tmp, Buf
<1>7. PlaceInv /\ StampInv /\ SavedBufferIsCurrent
  BY <1>1, <1>3 DEF Init, PlaceInv, StampInv, SavedBufferIsCurrent, AbsentStamp
<1> QED
  BY <1>3, <1>6, <1>7 DEF Inv

(* Every step keeps the types. *)
LEMMA TypeStep ==
  ASSUME TypeOK, DiskInv, Next
  PROVE  TypeOK'
<1>1. /\ disk \in File /\ clock \in 1..MaxStamp /\ MaxStamp \in Nat
      /\ tmp \in [Process -> Tmp] /\ buf \in [Process -> Buf]
      /\ probe \in [Process -> 0..MaxStamp] /\ pc \in [Process -> Place]
      /\ disk.stamp \in 0..MaxStamp
  BY AtomicSaveAssumption DEF TypeOK, File, Tmp, Buf
<1> SUFFICES /\ disk' \in File /\ clock' \in 1..MaxStamp
             /\ tmp' \in [Process -> Tmp] /\ buf' \in [Process -> Buf]
             /\ probe' \in [Process -> 0..MaxStamp] /\ pc' \in [Process -> Place]
  BY DEF TypeOK, File, Tmp, Buf
<1> DEFINE Typed == /\ disk' \in File /\ clock' \in 1..MaxStamp
                    /\ tmp' \in [Process -> Tmp] /\ buf' \in [Process -> Buf]
                    /\ probe' \in [Process -> 0..MaxStamp]
                    /\ pc' \in [Process -> Place]
<1>2. ASSUME NEW p \in Process, NEW where \in Place, Go(p, where)
      PROVE  pc' \in [Process -> Place]
  BY <1>1, <1>2 DEF Go
<1>3. ASSUME NEW p \in Process, Edit(p)
      PROVE  Typed
  <2>1. PICK t \in Text : buf' = [buf EXCEPT ![p].text = t, ![p].saved = t]
    BY <1>3 DEF Edit
  <2>2. buf' \in [Process -> Buf]
    BY <1>1, <2>1 DEF Buf
  <2> QED
    BY <1>1, <1>2, <1>3, <2>2 DEF Edit, Place
<1>4. ASSUME NEW p \in Process, Reopen(p)
      PROVE  Typed
  <2>1. [text |-> disk.text, saved |-> disk.text, stamp |-> disk.stamp] \in Buf
    BY <1>1, <1>4 DEF Reopen, Buf
  <2>2. buf' \in [Process -> Buf]
    BY <1>1, <1>4, <2>1 DEF Reopen
  <2> QED
    BY <1>1, <1>2, <1>4, <2>2 DEF Reopen, Place
<1>5. ASSUME NEW p \in Process, Check(p)
      PROVE  Typed
  BY <1>1, <1>2, <1>5 DEF Check, Place
<1>6. ASSUME NEW p \in Process, CreateTmp(p) \/ WriteTmp(p) \/ SyncTmp(p) \/ FailSave(p)
      PROVE  Typed
  <2>1. buf[p].text \in Contents /\ Torn \in Contents /\ Absent \in Contents
    BY <1>1 DEF Buf, Contents
  <2>2. tmp' \in [Process -> Tmp]
    <3>1. CASE CreateTmp(p)
      BY <1>1, <2>1, <3>1 DEF CreateTmp, Tmp
    <3>2. CASE WriteTmp(p)
      BY <1>1, <2>1, <3>2 DEF WriteTmp, Tmp
    <3>3. CASE SyncTmp(p)
      BY <1>1, <2>1, <3>3 DEF SyncTmp, Tmp
    <3>4. CASE FailSave(p)
      BY <1>1, <2>1, <3>4 DEF FailSave, Tmp
    <3> QED
      BY <1>6, <3>1, <3>2, <3>3, <3>4
  <2>3. pc' \in [Process -> Place]
    BY <1>2, <1>6 DEF CreateTmp, WriteTmp, SyncTmp, FailSave, Place
  <2> QED
    BY <1>1, <1>6, <2>2, <2>3 DEF CreateTmp, WriteTmp, SyncTmp, FailSave
<1>7. ASSUME NEW p \in Process, Rename(p)
      PROVE  Typed
  <2>1. clock' \in 1..MaxStamp /\ clock' \in 0..MaxStamp
    BY <1>1, <1>7 DEF Rename
  <2>2. disk' \in File
    BY <1>1, <1>7, <2>1 DEF Rename, File, Tmp
  <2>3. tmp' \in [Process -> Tmp]
    BY <1>1, <1>7 DEF Rename, Tmp, Contents
  <2> QED
    BY <1>1, <1>2, <1>7, <2>1, <2>2, <2>3 DEF Rename, Place
<1>8. ASSUME NEW p \in Process, RebaseStamp(p) \/ RebaseFails(p) \/ Kill(p)
      PROVE  Typed
  BY <1>1, <1>2, <1>8 DEF RebaseStamp, RebaseFails, Kill, Place
<1>9. ASSUME NEW p \in Process, RebaseRead(p)
      PROVE  Typed
  <2>1. disk.text \in Text
    BY <1>1, <1>9 DEF RebaseRead, DiskInv, File, Contents
  <2>2. buf' = [buf EXCEPT ![p].text = disk.text, ![p].stamp = probe[p]]
    BY <1>9 DEF RebaseRead
  <2>3. buf' \in [Process -> Buf]
    BY <1>1, <2>1, <2>2 DEF Buf
  <2> QED
    BY <1>1, <1>2, <1>9, <2>3 DEF RebaseRead, Place
<1>10. CASE Outside
  <2>1. clock' \in 1..MaxStamp /\ clock' \in 0..MaxStamp /\ 0 \in 0..MaxStamp
    BY <1>1, <1>10 DEF Outside
  <2>2. disk' \in File
    <3>1. ASSUME NEW t \in Text \cup {Absent}, NEW k \in 0..MaxStamp
          PROVE  [text |-> t, stamp |-> k, synced |-> TRUE] \in File
      BY DEF File, Contents
    <3> QED
      BY <1>10, <2>1, <3>1 DEF Outside, AbsentStamp
  <2> QED
    BY <1>1, <1>10, <2>1, <2>2 DEF Outside
<1>11. ASSUME NEW f, f \in File \/ f \in Tmp
       PROVE  (f \in File => AfterPowerLoss(f) \in File)
              /\ (f \in Tmp => AfterPowerLoss(f) \in Tmp)
  BY DEF AfterPowerLoss, File, Tmp, Contents
<1>12. CASE PowerLoss
  BY <1>1, <1>11, <1>12 DEF PowerLoss, Place
<1> QED
  BY <1>3, <1>4, <1>5, <1>6, <1>7, <1>8, <1>9, <1>10, <1>12 DEF Next, Save

-----------------------------------------------------------------------------
(* What one process does, it does to itself. *)
Step(p) == Edit(p) \/ Reopen(p) \/ Save(p) \/ Kill(p)

LEMMA Frame ==
  ASSUME TypeOK, NEW p \in Process, Step(p), NEW q \in Process \ {p}
  PROVE  /\ tmp'[q] = tmp[q] /\ buf'[q] = buf[q]
         /\ probe'[q] = probe[q] /\ pc'[q] = pc[q]
<1>1. /\ DOMAIN tmp = Process /\ DOMAIN buf = Process
      /\ DOMAIN probe = Process /\ DOMAIN pc = Process
  BY DEF TypeOK
<1>2. CASE Edit(p) \/ Reopen(p) \/ Kill(p)
  BY <1>1, <1>2 DEF Edit, Reopen, Kill, Go
<1>3. CASE Check(p) \/ CreateTmp(p) \/ WriteTmp(p) \/ SyncTmp(p)
  BY <1>1, <1>3 DEF Check, CreateTmp, WriteTmp, SyncTmp, Go
<1>4. CASE Rename(p) \/ FailSave(p)
  BY <1>1, <1>4 DEF Rename, FailSave, Go
<1>5. CASE RebaseStamp(p) \/ RebaseRead(p) \/ RebaseFails(p)
  BY <1>1, <1>5 DEF RebaseStamp, RebaseRead, RebaseFails, Go
<1> QED
  BY <1>2, <1>3, <1>4, <1>5 DEF Step, Save

(* Every step of a save hands on what the next one relies on.              *)
LEMMA PlaceStep ==
  ASSUME TypeOK, PlaceInv, Next
  PROVE  PlaceInv'
<1> DEFINE At(p) ==
  /\ pc[p] \in {"written", "synced"} => tmp[p].text = buf[p].text
  /\ pc[p] = "synced" => tmp[p].synced
  /\ pc[p] \in Clean => tmp[p].text = Absent
  /\ pc[p] \notin {"ok", "dead"} => buf[p].text = buf[p].saved
<1>1. /\ tmp \in [Process -> Tmp] /\ buf \in [Process -> Buf]
      /\ pc \in [Process -> Place]
      /\ \A p \in Process : At(p)
  BY DEF TypeOK, Tmp, Buf, PlaceInv
<1>2. ASSUME NEW p \in Process, Step(p)
      PROVE  At(p)'
  <2>1. CASE Edit(p)
    <3>1. PICK t \in Text : buf' = [buf EXCEPT ![p].text = t, ![p].saved = t]
      BY <2>1 DEF Edit
    <3>2. buf'[p].text = t /\ buf'[p].saved = t
      BY <1>1, <3>1 DEF Buf
    <3> QED
      BY <1>1, <2>1, <3>2 DEF Edit, Go, Clean
  <2>2. CASE Reopen(p)
    BY <1>1, <2>2 DEF Clean, Reopen, Go
  <2>3. CASE Kill(p)
    BY <1>1, <2>3 DEF Clean, Kill, Go
  <2>4. CASE Check(p)
    BY <1>1, <2>4 DEF Clean, Check, Go
  <2>5. CASE CreateTmp(p)
    BY <1>1, <2>5 DEF Clean, CreateTmp, Go
  <2>6. CASE WriteTmp(p)
    BY <1>1, <2>6 DEF Clean, WriteTmp, Go, Tmp
  <2>7. CASE SyncTmp(p)
    BY <1>1, <2>7 DEF Clean, SyncTmp, Go, Tmp
  <2>8. CASE Rename(p)
    BY <1>1, <2>8 DEF Clean, Rename, Go
  <2>9. CASE FailSave(p)
    BY <1>1, <2>9 DEF Clean, FailSave, Go, Tmp
  <2>10. CASE RebaseStamp(p)
    BY <1>1, <2>10 DEF Clean, RebaseStamp, Go
  <2>11. CASE RebaseRead(p) \/ RebaseFails(p)
    BY <1>1, <2>11 DEF Clean, RebaseRead, RebaseFails, Go
  <2> QED
    BY <1>2, <2>1, <2>2, <2>3, <2>4, <2>5, <2>6, <2>7, <2>8, <2>9, <2>10, <2>11
       DEF Step, Save
<1>3. CASE \E p \in Process : Step(p)
  <2>1. PICK p \in Process : Step(p)
    BY <1>3
  <2>2. ASSUME NEW q \in Process, q # p
        PROVE  At(q)'
    BY <1>1, <2>1, <2>2, Frame
  <2>3. \A q \in Process : At(q)'
    BY <1>2, <2>1, <2>2
  <2> QED
    BY <2>3 DEF PlaceInv
<1>4. CASE Outside
  BY <1>4 DEF Outside, PlaceInv
<1>5. CASE PowerLoss
  BY <1>5 DEF PowerLoss, PlaceInv, Clean
<1> QED
  BY <1>3, <1>4, <1>5 DEF Next, Step

(* Only a whole and synced temporary file is renamed over the visited one. *)
LEMMA DiskStep ==
  ASSUME TypeOK, PlaceInv, DiskInv, Next
  PROVE  DiskInv'
<1>1. ASSUME NEW p \in Process, Step(p)
      PROVE  DiskInv'
  <2>1. CASE Rename(p)
    <3>1. tmp[p].text = buf[p].text /\ tmp[p].synced /\ buf[p].text # Torn
      BY <2>1, AtomicSaveAssumption DEF Rename, PlaceInv, TypeOK
    <3> QED
      BY <2>1, <3>1 DEF Rename, DiskInv
  <2>2. CASE ~Rename(p)
    BY <1>1, <2>2 DEF Step, Edit, Reopen, Kill, Save, Check, CreateTmp, WriteTmp,
       SyncTmp, FailSave, RebaseStamp, RebaseRead, RebaseFails, DiskInv
  <2> QED
    BY <2>1, <2>2
<1>2. CASE Outside
  BY <1>2, AtomicSaveAssumption DEF Outside, DiskInv
<1>3. CASE PowerLoss
  BY <1>3 DEF PowerLoss, AfterPowerLoss, DiskInv
<1> QED
  BY <1>1, <1>2, <1>3 DEF Next, Step

(* Stamps only grow older, except the one the rebase takes.                *)
LEMMA StampStep ==
  ASSUME TypeOK, StampInv, Next
  PROVE  StampInv'
<1> DEFINE At(p) ==
  /\ buf[p].stamp <= clock /\ probe[p] <= clock
  /\ pc[p] \in {"renamed", "stamped"} /\ disk.text # Absent =>
       buf[p].stamp < disk.stamp
<1>1. /\ clock \in Nat /\ disk.stamp \in Nat /\ disk.stamp <= clock
      /\ buf \in [Process -> Buf] /\ probe \in [Process -> Nat]
      /\ pc \in [Process -> Place]
      /\ \A p \in Process : At(p) /\ buf[p].stamp \in Nat
  BY DEF TypeOK, Buf, StampInv
<1>2. ASSUME NEW p \in Process, Step(p)
      PROVE  At(p)'
  <2>1. CASE Edit(p)
    <3>1. PICK t \in Text : buf' = [buf EXCEPT ![p].text = t, ![p].saved = t]
      BY <2>1 DEF Edit
    <3>2. buf'[p].stamp = buf[p].stamp
      BY <1>1, <3>1 DEF Buf
    <3> QED
      BY <1>1, <2>1, <3>2 DEF Edit, Go
  <2>2. CASE Reopen(p)
    BY <1>1, <2>2 DEF Reopen, Go
  <2>3. CASE Kill(p)
    BY <1>1, <2>3 DEF Kill, Go
  <2>4. CASE Check(p)
    BY <1>1, <2>4 DEF Check, Go
  <2>5. CASE CreateTmp(p) \/ WriteTmp(p) \/ SyncTmp(p) \/ FailSave(p)
    BY <1>1, <2>5 DEF CreateTmp, WriteTmp, SyncTmp, FailSave, Go
  <2>6. CASE Rename(p)
    BY <1>1, <2>6 DEF Rename, Go
  <2>7. CASE RebaseStamp(p)
    BY <1>1, <2>7 DEF RebaseStamp, Go
  <2>8. CASE RebaseRead(p)
    <3>1. buf' = [buf EXCEPT ![p].text = disk.text, ![p].stamp = probe[p]]
      BY <2>8 DEF RebaseRead
    <3>2. buf'[p].stamp = probe[p]
      BY <1>1, <3>1 DEF Buf
    <3> QED
      BY <1>1, <2>8, <3>2 DEF RebaseRead, Go
  <2>9. CASE RebaseFails(p)
    BY <1>1, <2>9 DEF RebaseFails, Go
  <2> QED
    BY <1>2, <2>1, <2>2, <2>3, <2>4, <2>5, <2>6, <2>7, <2>8, <2>9 DEF Step, Save
<1>3. CASE \E p \in Process : Step(p)
  <2>1. PICK p \in Process : Step(p)
    BY <1>3
  <2>2. ASSUME NEW q \in Process, q # p
        PROVE  At(q)'
    <3>1. buf'[q] = buf[q] /\ probe'[q] = probe[q] /\ pc'[q] = pc[q]
      BY <2>1, <2>2, Frame
    <3>2. At(q) /\ buf[q].stamp \in Nat /\ probe[q] \in Nat
      BY <1>1
    <3>3. \/ UNCHANGED <<disk, clock>>
          \/ clock' = clock + 1 /\ (disk'.stamp = clock' \/ disk'.text = Absent)
      BY <2>1 DEF Step, Edit, Reopen, Kill, Save, Check, CreateTmp, WriteTmp,
         SyncTmp, Rename, FailSave, RebaseStamp, RebaseRead, RebaseFails
    <3> QED
      BY <1>1, <3>1, <3>2, <3>3
  <2>3. disk'.stamp <= clock'
    BY <1>1, <2>1 DEF Step, Edit, Reopen, Kill, Save, Check, CreateTmp, WriteTmp,
       SyncTmp, Rename, FailSave, RebaseStamp, RebaseRead, RebaseFails
  <2> QED
    BY <1>2, <2>1, <2>2, <2>3 DEF StampInv
<1>4. CASE Outside
  <2>1. clock' = clock + 1 /\ UNCHANGED <<buf, probe, pc>>
    BY <1>4 DEF Outside
  <2>2. disk'.stamp = clock' \/ (disk'.text = Absent /\ disk'.stamp = 0)
    BY <1>4 DEF Outside, AbsentStamp
  <2> QED
    BY <1>1, <2>1, <2>2 DEF StampInv
<1>5. CASE PowerLoss
  <2>1. /\ disk'.stamp = disk.stamp
        /\ UNCHANGED <<clock, buf, probe>>
        /\ \A p \in Process : pc'[p] = "dead"
    <3>1. disk \in File
      BY DEF TypeOK, File
    <3> QED
      BY <1>5, <3>1 DEF PowerLoss, AfterPowerLoss, File
  <2> QED
    BY <1>1, <2>1 DEF StampInv
<1> QED
  BY <1>3, <1>4, <1>5 DEF Next, Step

(* A save that matches the file shows the file, whoever writes meanwhile. *)
LEMMA CurrentStep ==
  ASSUME TypeOK, StampInv, SavedBufferIsCurrent, Next
  PROVE  SavedBufferIsCurrent'
<1> DEFINE At(p) == pc[p] = "ok" /\ buf[p].stamp = disk.stamp /\ disk.text # Absent
                      => buf[p].text = disk.text
<1>1. /\ clock \in Nat
      /\ buf \in [Process -> Buf] /\ pc \in [Process -> Place]
      /\ \A p \in Process : /\ At(p) /\ buf[p].stamp \in Nat
                            /\ buf[p].stamp <= clock
  BY DEF TypeOK, Buf, StampInv, SavedBufferIsCurrent
<1>2. ASSUME NEW p \in Process, Step(p)
      PROVE  At(p)'
  <2>1. CASE Edit(p) \/ Reopen(p) \/ Kill(p)
    BY <1>1, <2>1 DEF Edit, Reopen, Kill, Go
  <2>2. CASE Check(p) \/ CreateTmp(p) \/ WriteTmp(p) \/ SyncTmp(p)
    BY <1>1, <2>2 DEF Check, CreateTmp, WriteTmp, SyncTmp, Go
  <2>3. CASE Rename(p) \/ FailSave(p)
    BY <1>1, <2>3 DEF Rename, FailSave, Go
  <2>4. CASE RebaseStamp(p)
    BY <1>1, <2>4 DEF RebaseStamp, Go
  <2>5. CASE RebaseRead(p)
    <3>1. buf' = [buf EXCEPT ![p].text = disk.text, ![p].stamp = probe[p]]
      BY <2>5 DEF RebaseRead
    <3>2. buf'[p].text = disk.text /\ disk' = disk
      BY <1>1, <2>5, <3>1 DEF RebaseRead, Buf
    <3> QED
      BY <3>2
  <2>6. CASE RebaseFails(p)
    BY <1>1, <2>6 DEF RebaseFails, StampInv
  <2> QED
    BY <1>2, <2>1, <2>2, <2>3, <2>4, <2>5, <2>6 DEF Step, Save
<1>3. CASE \E p \in Process : Step(p)
  <2>1. PICK p \in Process : Step(p)
    BY <1>3
  <2>2. disk' = disk \/ (disk'.stamp = clock + 1)
    BY <2>1 DEF Step, Edit, Reopen, Kill, Save, Check, CreateTmp, WriteTmp,
       SyncTmp, Rename, FailSave, RebaseStamp, RebaseRead, RebaseFails
  <2>3. ASSUME NEW q \in Process, q # p
        PROVE  At(q)'
    BY <1>1, <2>1, <2>2, <2>3, Frame
  <2> QED
    BY <1>2, <2>1, <2>3 DEF SavedBufferIsCurrent
<1>4. CASE Outside
  <2>1. UNCHANGED <<buf, pc>> /\ (disk'.stamp = clock + 1 \/ disk'.text = Absent)
    BY <1>4 DEF Outside
  <2> QED
    BY <1>1, <2>1 DEF SavedBufferIsCurrent
<1>5. CASE PowerLoss
  BY <1>5 DEF PowerLoss, SavedBufferIsCurrent
<1> QED
  BY <1>3, <1>4, <1>5 DEF Next, Step

(* Whatever fails, dies or loses power, and whichever processes save at    *)
(* once, the invariants hold (write_atomic_with, save_to, rebase_to).      *)
THEOREM SaveInvariant == Spec => []Inv
<1>1. Inv /\ Next => Inv'
  BY TypeStep, PlaceStep, DiskStep, StampStep, CurrentStep DEF Inv
<1>2. Inv /\ UNCHANGED vars => Inv'
  BY DEF Inv, vars, TypeOK, PlaceInv, DiskInv, StampInv, SavedBufferIsCurrent
<1> QED
  BY <1>1, <1>2, InitInv, PTL DEF Spec

(* A reader of the visited file never sees a part of a text. *)
THEOREM FileNeverTorn == Spec => []NeverTorn
<1>1. Inv => NeverTorn
  BY DEF Inv, DiskInv, NeverTorn
<1> QED
  BY <1>1, SaveInvariant, PTL

(* A process that lives leaves no temporary file behind. *)
THEOREM OnlyTheDeadLitter == Spec => []LitterOnlyOfTheDead
<1>1. Inv => LitterOnlyOfTheDead
  BY DEF Inv, PlaceInv, Clean, LitterOnlyOfTheDead
<1> QED
  BY <1>1, SaveInvariant, PTL

(* A saved buffer that matches the file's stamp shows the file. *)
THEOREM SavedIsCurrent == Spec => []SavedBufferIsCurrent
  BY SaveInvariant, PTL DEF Inv

-----------------------------------------------------------------------------
(* save_to implements WholeFile. *)

(* A visit of a file, or of one to be created, is an idle WholeFile. *)
LEMMA InitWhole == Init => Whole!Init
<1> SUFFICES ASSUME Init PROVE Whole!Init
  OBVIOUS
<1>1. disk.text \in Text \cup {Absent}
  BY DEF Init
<1>2. Wanted \in [Process -> Text]
  BY DEF Init, Wanted
<1>3. Progress = [p \in Process |-> "idle"]
  BY DEF Init, Progress, PhaseOf
<1> QED
  BY <1>1, <1>2, <1>3 DEF Whole!Init

(* Every system call is a step of WholeFile or invisible in it. *)
LEMMA StepWhole ==
  ASSUME Inv, Next
  PROVE  Whole!Next \/ UNCHANGED <<disk.text, Wanted, Progress>>
<1>1. /\ buf \in [Process -> Buf] /\ pc \in [Process -> Place]
      /\ disk \in File /\ tmp \in [Process -> Tmp]
      /\ \A p \in Process : Progress[p] = PhaseOf(pc[p])
  BY DEF Inv, TypeOK, Buf, File, Tmp, Progress
<1>2. ASSUME NEW p \in Process, NEW where, Go(p, where)
      PROVE  Progress' = [Progress EXCEPT ![p] = PhaseOf(where)]
  BY <1>1, <1>2 DEF Go, Progress
<1>3. ASSUME NEW p \in Process, NEW where, Go(p, where),
             PhaseOf(where) = PhaseOf(pc[p])
      PROVE  UNCHANGED Progress
  BY <1>1, <1>2, <1>3 DEF Progress
<1>4. ASSUME UNCHANGED buf
      PROVE  UNCHANGED Wanted
  BY <1>4 DEF Wanted
<1>5. ASSUME NEW p \in Process, NEW t \in Text, buf'[p].saved = t,
             buf' \in [Process -> Buf], \A q \in Process \ {p} : buf'[q] = buf[q]
      PROVE  Wanted' = [Wanted EXCEPT ![p] = t]
  BY <1>5 DEF Wanted
<1>6. ASSUME NEW p \in Process, Edit(p) \/ Reopen(p)
      PROVE  Whole!Prepare(p)
  <2>1. Progress' = [Progress EXCEPT ![p] = "idle"]
    BY <1>2, <1>6 DEF Edit, Reopen, PhaseOf
  <2>2. Progress[p] \in {"idle", "ok", "failed"}
    BY <1>1, <1>6 DEF Edit, Reopen, PhaseOf
  <2>3. buf' \in [Process -> Buf]
    BY TypeStep DEF Inv, TypeOK, Buf
  <2>4. buf'[p].saved \in Text
    BY <2>3 DEF Buf
  <2>5. \A q \in Process \ {p} : buf'[q] = buf[q]
    BY <1>6, Frame DEF Inv, Step
  <2>6. \E t \in Text : Wanted' = [Wanted EXCEPT ![p] = t]
    BY <1>5, <2>3, <2>4, <2>5
  <2>7. disk' = disk
    BY <1>6 DEF Edit, Reopen
  <2> QED
    BY <2>1, <2>2, <2>6, <2>7 DEF Whole!Prepare
<1>7. ASSUME NEW p \in Process, Check(p)
      PROVE  Whole!Begin(p)
  <2>1. Progress[p] = "idle" /\ UNCHANGED <<disk, Wanted>>
    BY <1>1, <1>4, <1>7 DEF Check, PhaseOf
  <2>2. \E s \in {"saving", "failed"} : Progress' = [Progress EXCEPT ![p] = s]
    BY <1>2, <1>7 DEF Check, PhaseOf
  <2> QED
    BY <2>1, <2>2 DEF Whole!Begin
<1>8. ASSUME NEW p \in Process, CreateTmp(p) \/ WriteTmp(p) \/ SyncTmp(p)
      PROVE  UNCHANGED <<disk.text, Wanted, Progress>>
  <2>1. UNCHANGED <<disk, Wanted>>
    BY <1>4, <1>8 DEF CreateTmp, WriteTmp, SyncTmp
  <2>2. UNCHANGED Progress
    BY <1>3, <1>8 DEF CreateTmp, WriteTmp, SyncTmp, PhaseOf
  <2> QED
    BY <2>1, <2>2
<1>9. ASSUME NEW p \in Process, Rename(p)
      PROVE  Whole!Replace(p)
  <2>1. Progress[p] = "saving" /\ Progress' = [Progress EXCEPT ![p] = "replaced"]
    BY <1>1, <1>2, <1>9 DEF Rename, PhaseOf
  <2>2. disk'.text = Wanted[p]
    BY <1>9 DEF Rename, Wanted, Inv, PlaceInv
  <2>3. UNCHANGED Wanted
    BY <1>4, <1>9 DEF Rename
  <2> QED
    BY <2>1, <2>2, <2>3 DEF Whole!Replace
<1>10. ASSUME NEW p \in Process, FailSave(p)
       PROVE  Whole!Report(p)
  <2>1. Progress[p] = "saving" /\ Progress' = [Progress EXCEPT ![p] = "failed"]
    BY <1>1, <1>2, <1>10 DEF FailSave, PhaseOf
  <2>2. UNCHANGED <<disk, Wanted>>
    BY <1>4, <1>10 DEF FailSave
  <2> QED
    BY <2>1, <2>2 DEF Whole!Report
<1>11. ASSUME NEW p \in Process, RebaseStamp(p)
       PROVE  Whole!Report(p) \/ UNCHANGED <<disk.text, Wanted, Progress>>
  <2>1. UNCHANGED <<disk, Wanted>> /\ Progress[p] = "replaced"
    BY <1>1, <1>4, <1>11 DEF RebaseStamp, PhaseOf
  <2>2. CASE disk.text = Absent
    <3>1. Progress' = [Progress EXCEPT ![p] = "ok"]
      BY <1>2, <1>11, <2>2 DEF RebaseStamp, PhaseOf
    <3> QED
      BY <2>1, <3>1 DEF Whole!Report
  <2>3. CASE disk.text # Absent
    <3>1. UNCHANGED Progress
      BY <1>3, <1>11, <2>3 DEF RebaseStamp, PhaseOf
    <3> QED
      BY <2>1, <3>1
  <2> QED
    BY <2>2, <2>3
<1>12. ASSUME NEW p \in Process, RebaseRead(p) \/ RebaseFails(p)
       PROVE  Whole!Report(p)
  <2>1. Progress[p] = "replaced" /\ Progress' = [Progress EXCEPT ![p] = "ok"]
    BY <1>1, <1>2, <1>12 DEF RebaseRead, RebaseFails, PhaseOf
  <2>2. UNCHANGED Wanted
    <3>1. CASE RebaseFails(p)
      BY <1>4, <3>1 DEF RebaseFails
    <3>2. CASE RebaseRead(p)
      <4>1. buf' = [buf EXCEPT ![p].text = disk.text, ![p].stamp = probe[p]]
        BY <3>2 DEF RebaseRead
      <4>2. \A q \in Process : buf'[q].saved = buf[q].saved
        BY <1>1, <4>1 DEF Buf
      <4> QED
        BY <4>2 DEF Wanted
    <3> QED
      BY <1>12, <3>1, <3>2
  <2>3. UNCHANGED disk
    BY <1>12 DEF RebaseRead, RebaseFails
  <2> QED
    BY <2>1, <2>2, <2>3 DEF Whole!Report
<1>13. CASE Outside
  <2>1. disk'.text \in Text \cup {Absent} /\ UNCHANGED <<Wanted, pc>>
    BY <1>4, <1>13 DEF Outside
  <2> QED
    BY <2>1 DEF Whole!Next, Whole!Outside, Progress
<1>14. ASSUME NEW p \in Process, Kill(p)
       PROVE  Whole!Die
  <2>1. Progress' = [Progress EXCEPT ![p] = "dead"]
    BY <1>2, <1>14 DEF Kill, PhaseOf
  <2>2. Progress' = [q \in Process |-> IF q \in {p} THEN "dead" ELSE Progress[q]]
    BY <2>1 DEF Progress
  <2>3. UNCHANGED <<disk, Wanted>>
    BY <1>4, <1>14 DEF Kill
  <2> QED
    BY <2>2, <2>3 DEF Whole!Die
<1>15. CASE PowerLoss
  <2>1. Progress' = [q \in Process |-> IF q \in Process THEN "dead" ELSE Progress[q]]
    BY <1>15 DEF PowerLoss, Progress, PhaseOf
  <2>2. disk' = disk /\ UNCHANGED Wanted
    BY <1>4, <1>15 DEF PowerLoss, AfterPowerLoss, Inv, DiskInv
  <2> QED
    BY <2>1, <2>2 DEF Whole!Next, Whole!Die
<1> QED
  BY <1>6, <1>7, <1>8, <1>9, <1>10, <1>11, <1>12, <1>13, <1>14, <1>15
     DEF Next, Save, Whole!Next

(* Every save is all or nothing and reports which, for any number of       *)
(* processes: save_to implements WholeFile.                                *)
THEOREM SavesAreAtomic == Spec => SavesAreWhole
<1>1. Inv /\ [Next]_vars => [Whole!Next]_<<disk.text, Wanted, Progress>>
  <2>1. UNCHANGED vars => UNCHANGED <<disk.text, Wanted, Progress>>
    BY DEF vars, Wanted, Progress
  <2> QED
    BY <2>1, StepWhole
<1> QED
  BY <1>1, InitWhole, SaveInvariant, PTL
     DEF Spec, SavesAreWhole, Whole!Spec, Whole!vars
-----------------------------------------------------------------------------

(* The order in which a finite set of pages is read names each of them.     *)
LEMMA PagesInOrder ==
  ASSUME NEW S, IsFiniteSet(S)
  PROVE  /\ SetToSeq(S) \in Seq(S)
         /\ ToSet(SetToSeq(S)) = S
<1> DEFINE n == Cardinality(S)
           s == SetToSeq(S)
<1>1. n \in Nat /\ ExistsBijection(1..n, S)
  BY FS_CardinalityType
<1>2. PICK b : b \in Bijection(1..n, S)
  BY <1>1 DEF ExistsBijection
<1>3. b \in [1..n -> S] /\ IsInjective(b)
  BY <1>2 DEF Bijection, Injection
<1>4. s \in [1..n -> S] /\ IsInjective(s)
  BY <1>3 DEF SetToSeq
<1>5. s \in Injection(1..n, S)
  BY <1>4 DEF Injection
<1>6. Cardinality(1..n) = n
  BY <1>1, FS_Interval
<1>7. s \in Surjection(1..n, S)
  BY <1>5, <1>6, FS_Injection
<1>8. \A x \in S : \E i \in 1..n : s[i] = x
  BY <1>7 DEF Surjection
<1>9. s \in Seq(S) /\ Len(s) = n /\ DOMAIN s = 1..n
  BY <1>4, <1>1
<1> HIDE DEF n, s
<1>10. ToSet(s) = S
  BY <1>4, <1>8, <1>9 DEF ToSet
<1> QED
  BY <1>9, <1>10 DEF s

(* A sequence that is not empty holds its head and what its tail holds.     *)
LEMMA HeadAndTail ==
  ASSUME NEW S, NEW s \in Seq(S), s # <<>>
  PROVE  /\ Head(s) \in S
         /\ Tail(s) \in Seq(S)
         /\ ToSet(s) = {Head(s)} \cup ToSet(Tail(s))
<1>1. Len(s) \in Nat /\ Len(s) > 0 /\ Head(s) = s[1] /\ Tail(s) \in Seq(S)
  OBVIOUS
<1>2. Len(Tail(s)) = Len(s) - 1 /\ \A i \in 1..Len(s) - 1 : Tail(s)[i] = s[i + 1]
  OBVIOUS
<1>3. DOMAIN s = 1..Len(s) /\ DOMAIN Tail(s) = 1..Len(s) - 1
  BY <1>1, <1>2
<1>4. ToSet(s) = {Head(s)} \cup ToSet(Tail(s))
  <2>1. ASSUME NEW i \in 1..Len(s), i # 1
        PROVE  s[i] \in ToSet(Tail(s))
    <3>1. i - 1 \in 1..Len(s) - 1 /\ Tail(s)[i - 1] = s[i]
      BY <1>1, <1>2, <2>1
    <3> QED
      BY <1>3, <3>1 DEF ToSet
  <2>2. ASSUME NEW i \in 1..Len(s) - 1
        PROVE  Tail(s)[i] \in ToSet(s)
    <3>1. i + 1 \in 1..Len(s) /\ Tail(s)[i] = s[i + 1]
      BY <1>1, <1>2
    <3> QED
      BY <1>3, <3>1 DEF ToSet
  <2>3. Head(s) \in ToSet(s)
    BY <1>1, <1>3 DEF ToSet
  <2> QED
    BY <1>1, <1>3, <2>1, <2>2, <2>3 DEF ToSet
<1> QED
  BY <1>1, <1>4

(* What a path, its stamp and what is read are made of.                     *)
VisitTypes ==
  /\ data \in [Inode -> [Page -> 0..MaxWrite]]
  /\ path \in [ino : Inode, mtime : 0..MaxWrite]
  /\ stamp \in [ino : Inode, mtime : 0..MaxWrite]
  /\ written \in 0..MaxWrite
  /\ fd \in Inode

(* Every write moves the time of the path on, past every stamp there is.    *)
TimesAdvance ==
  /\ path.mtime = written
  /\ stamp.mtime <= written

(* Each page is still wanted or has been read, and nothing is cached before *)
(* the whole file has been.                                                 *)
PagesAccountedFor ==
  /\ place \in {"closed", "opened", "loading"} => cache = <<>>
  /\ place \in {"loading", "ready", "reading"} => index = [p \in DOMAIN index |-> index[p]]
  /\ place = "loading" => todo \in Seq(Page) /\ DOMAIN index \cup ToSet(todo) = Page
  /\ Held => DOMAIN index = Page
  /\ place = "reading" => todo \in Seq(Page)

(* While the path bears the stamp of the open, the inode that was opened    *)
(* has not been written since, so a page reads now as it did then.          *)
ReadsAgreeWithTheInode ==
  place \in {"loading", "ready", "reading"} /\ path = stamp =>
    /\ \A p \in DOMAIN index : index[p] = data[fd][p]
    /\ \A p \in DOMAIN cache : p \in Page /\ cache[p] = data[fd][p]

VisitInvariant ==
  VisitTypes /\ TimesAdvance /\ PagesAccountedFor /\ ReadsAgreeWithTheInode

-----------------------------------------------------------------------------
LEMMA VisitStarts == VisitInit => VisitInvariant
<1> SUFFICES ASSUME VisitInit
             PROVE  VisitInvariant
  OBVIOUS
<1>1. 0 \in Inode /\ 0 \in 0..MaxWrite
  BY FileVisitAssumption DEF Inode
<1>2. VisitTypes
  BY <1>1 DEF VisitInit, VisitTypes
<1>3. TimesAdvance
  BY DEF VisitInit, TimesAdvance
<1>4. PagesAccountedFor /\ ReadsAgreeWithTheInode
  BY DEF VisitInit, PagesAccountedFor, ReadsAgreeWithTheInode, Held
<1> QED
  BY <1>2, <1>3, <1>4 DEF VisitInvariant

(* Whoever writes the file puts the path past the stamp: what has been read *)
(* is stale from here on, and nothing is claimed of it.                     *)
LEMMA WritersMakeStale ==
  ASSUME VisitInvariant, ReplaceFile \/ RewritePage
  PROVE  VisitInvariant'
<1> USE DEF VisitInvariant
<1>1. /\ MaxWrite \in Nat /\ written \in 0..MaxWrite /\ written < MaxWrite
      /\ written' = written + 1 /\ path'.mtime = written' /\ UNCHANGED held
  BY FileVisitAssumption DEF ReplaceFile, RewritePage, VisitTypes
<1>2. written' \in 0..MaxWrite /\ written' \in Inode
  BY <1>1 DEF Inode
<1>3. VisitTypes'
  <2>1. CASE ReplaceFile
    <3>1. path' \in [ino : Inode, mtime : 0..MaxWrite]
      BY <1>2, <2>1 DEF ReplaceFile
    <3>2. data' \in [Inode -> [Page -> 0..MaxWrite]]
      BY <1>2, <2>1 DEF ReplaceFile, VisitTypes
    <3> QED
      BY <1>1, <1>2, <3>1, <3>2 DEF VisitTypes, held
  <2>2. CASE RewritePage
    <3>1. path' \in [ino : Inode, mtime : 0..MaxWrite]
      BY <1>2, <2>2 DEF RewritePage, VisitTypes
    <3>2. PICK p \in Page : data' = [data EXCEPT ![path.ino][p] = written']
      BY <2>2 DEF RewritePage
    <3>3. data' \in [Inode -> [Page -> 0..MaxWrite]]
      BY <1>2, <3>2 DEF VisitTypes
    <3> QED
      BY <1>1, <1>2, <3>1, <3>3 DEF VisitTypes, held
  <2> QED
    BY <2>1, <2>2
<1>4. TimesAdvance'
  BY <1>1 DEF TimesAdvance, VisitTypes, held
<1>5. PagesAccountedFor'
  BY <1>1 DEF PagesAccountedFor, Held, held
<1>6. path' # stamp'
  BY <1>1 DEF TimesAdvance, VisitTypes, held
<1>7. ReadsAgreeWithTheInode'
  BY <1>6 DEF ReadsAgreeWithTheInode
<1> QED
  BY <1>3, <1>4, <1>5, <1>7

(* Opening the file, again or for the first time, forgets what was read.    *)
LEMMA OpeningStartsOver ==
  ASSUME VisitInvariant, OpenFile \/ CaptureStamp \/ RevertInPlace
  PROVE  VisitInvariant'
<1> USE DEF VisitInvariant
<1>1. VisitTypes' /\ TimesAdvance'
  BY DEF VisitTypes, TimesAdvance, OpenFile, CaptureStamp, RevertInPlace
<1>2. CASE OpenFile \/ RevertInPlace
  <2>1. place' = "opened" /\ cache' = <<>>
    BY <1>2 DEF OpenFile, RevertInPlace, PagesAccountedFor
  <2>2. PagesAccountedFor' /\ ReadsAgreeWithTheInode'
    BY <2>1 DEF PagesAccountedFor, ReadsAgreeWithTheInode, Held
  <2> QED
    BY <1>1, <2>2
<1>3. CASE CaptureStamp
  <2>1. place' = "loading" /\ cache' = <<>> /\ index' = <<>> /\ todo' = SetToSeq(Page)
    BY <1>3 DEF CaptureStamp, PagesAccountedFor
  <2>2. todo' \in Seq(Page) /\ ToSet(todo') = Page
    BY <2>1, PagesInOrder, FileVisitAssumption
  <2>3. DOMAIN index' = {} /\ index' = [p \in DOMAIN index' |-> index'[p]]
    BY <2>1
  <2>4. PagesAccountedFor'
    BY <2>1, <2>2, <2>3 DEF PagesAccountedFor, Held
  <2>5. ReadsAgreeWithTheInode'
    BY <2>1, <2>3 DEF ReadsAgreeWithTheInode
  <2> QED
    BY <1>1, <2>4, <2>5
<1> QED
  BY <1>2, <1>3

(* The scan of a file that is opened takes its pages one after the other.   *)
LEMMA LoadingReadsOn ==
  ASSUME VisitInvariant, LoadPage
  PROVE  VisitInvariant'
<1> USE DEF VisitInvariant
<1> DEFINE h == Head(todo)
<1>1. /\ place = "loading" /\ todo # <<>> /\ todo \in Seq(Page)
      /\ DOMAIN index \cup ToSet(todo) = Page /\ cache = <<>>
  BY DEF LoadPage, PagesAccountedFor
<1>2. /\ h \in Page /\ Tail(todo) \in Seq(Page)
      /\ ToSet(todo) = {h} \cup ToSet(Tail(todo))
  BY <1>1, HeadAndTail
<1> HIDE DEF h
<1>3. /\ index' = [p \in DOMAIN index \cup {h} |-> IF p = h THEN data[fd][p] ELSE index[p]]
      /\ todo' = Tail(todo) /\ place' = (IF todo' = <<>> THEN "ready" ELSE "loading")
      /\ UNCHANGED <<data, path, written, fd, stamp, cache>>
  BY DEF LoadPage, h
<1>4. DOMAIN index' = DOMAIN index \cup {h}
  BY <1>3
<1>5. DOMAIN index' \cup ToSet(todo') = Page
  BY <1>1, <1>2, <1>3, <1>4
<1>6. todo' = <<>> => ToSet(todo') = {}
  BY DEF ToSet
<1>7. VisitTypes' /\ TimesAdvance'
  BY <1>3 DEF VisitTypes, TimesAdvance
<1>8. index' = [p \in DOMAIN index' |-> index'[p]]
  BY <1>3
<1>9. PagesAccountedFor'
  BY <1>1, <1>2, <1>3, <1>5, <1>6, <1>8 DEF PagesAccountedFor, Held
<1>10. ReadsAgreeWithTheInode'
  <2> SUFFICES ASSUME path = stamp
               PROVE  ReadsAgreeWithTheInode'
    BY <1>3 DEF ReadsAgreeWithTheInode
  <2>1. \A p \in DOMAIN index : index[p] = data[fd][p]
    BY <1>1 DEF ReadsAgreeWithTheInode
  <2>2. \A p \in DOMAIN index' : index'[p] = data'[fd'][p]
    BY <1>3, <1>4, <2>1
  <2> QED
    BY <1>1, <1>3, <2>2 DEF ReadsAgreeWithTheInode
<1> QED
  BY <1>7, <1>9, <1>10

(* A read call takes from the cache, looks whether the file drifted, and    *)
(* reads what it misses; a page it reads late is one more page of the inode *)
(* that was opened.                                                         *)
LEMMA ReadingReadsOn ==
  ASSUME VisitInvariant,
         BeginRead \/ ServeResident \/ CheckDrift \/ ReadPage \/ EndRead
  PROVE  VisitInvariant'
<1> USE DEF VisitInvariant
<1>1. UNCHANGED <<data, path, written, fd, stamp, index>>
  BY DEF BeginRead, ServeResident, CheckDrift, ReadPage, EndRead
<1>2. VisitTypes' /\ TimesAdvance'
  BY <1>1 DEF VisitTypes, TimesAdvance
<1>3. place \in {"ready", "reading"} /\ place' \in {"ready", "reading"}
  BY DEF BeginRead, ServeResident, CheckDrift, ReadPage, EndRead
<1>4. place' = "reading" => todo' \in Seq(Page)
  <2>1. CASE BeginRead
    <3>1. PICK ps \in SUBSET Page : todo' = SetToSeq(ps)
      BY <2>1 DEF BeginRead
    <3>2. IsFiniteSet(ps)
      BY FS_Subset, FileVisitAssumption
    <3>3. todo' \in Seq(ps)
      BY <3>1, <3>2, PagesInOrder
    <3> QED
      BY <3>3
  <2>2. CASE ServeResident \/ ReadPage
    <3>1. place = "reading" /\ todo # <<>> /\ todo' = Tail(todo)
      BY <2>2 DEF ServeResident, ReadPage
    <3>2. todo \in Seq(Page)
      BY <3>1 DEF PagesAccountedFor
    <3> QED
      BY <3>1, <3>2, HeadAndTail
  <2>3. CASE CheckDrift \/ EndRead
    BY <2>3 DEF CheckDrift, EndRead, PagesAccountedFor
  <2> QED
    BY <2>1, <2>2, <2>3
<1>5. PagesAccountedFor'
  BY <1>1, <1>3, <1>4 DEF PagesAccountedFor, Held
<1>6. ReadsAgreeWithTheInode'
  <2> SUFFICES ASSUME path = stamp
               PROVE  \A p \in DOMAIN cache' : p \in Page /\ cache'[p] = data[fd][p]
    BY <1>1, <1>3 DEF ReadsAgreeWithTheInode
  <2>1. \A p \in DOMAIN cache : p \in Page /\ cache[p] = data[fd][p]
    BY <1>3 DEF ReadsAgreeWithTheInode
  <2>2. CASE ReadPage
    <3> DEFINE h == Head(todo)
               left == IF Len(lru) >= CachePages THEN DOMAIN cache \ {Head(lru)}
                       ELSE DOMAIN cache
    <3>1. place = "reading" /\ todo # <<>>
      BY <2>2 DEF ReadPage
    <3>2. h \in Page
      BY <3>1, HeadAndTail DEF PagesAccountedFor
    <3>3. cache' = [q \in left \cup {h} |-> IF q = h THEN data[fd][q] ELSE cache[q]]
      BY <2>2 DEF ReadPage
    <3>4. left \subseteq DOMAIN cache
      OBVIOUS
    <3> HIDE DEF h, left
    <3> QED
      BY <2>1, <3>2, <3>3, <3>4
  <2>3. CASE BeginRead \/ ServeResident \/ CheckDrift \/ EndRead
    BY <2>1, <2>3 DEF BeginRead, ServeResident, CheckDrift, EndRead
  <2> QED
    BY <2>2, <2>3
<1> QED
  BY <1>2, <1>5, <1>6

-----------------------------------------------------------------------------
(* A visit that is not flagged stale holds one whole state of one file,     *)
(* however large the file, however small the cache and however many writes  *)
(* came between its reads (Quire::open_with_limit, PagedFile::for_bytes).   *)
THEOREM FreshVisitsAreWhole == VisitSpec => []FreshVisitIsWhole
<1>1. VisitInit => VisitInvariant
  BY VisitStarts
<1>2. VisitInvariant /\ [VisitNext]_visitVars => VisitInvariant'
  <2> SUFFICES ASSUME VisitInvariant, [VisitNext]_visitVars
               PROVE  VisitInvariant'
    OBVIOUS
  <2>1. CASE UNCHANGED visitVars
    BY <2>1 DEF visitVars, VisitInvariant, VisitTypes, TimesAdvance,
                PagesAccountedFor, ReadsAgreeWithTheInode, Held
  <2>2. CASE VisitNext
    BY <2>2, WritersMakeStale, OpeningStartsOver, LoadingReadsOn, ReadingReadsOn DEF VisitNext
  <2> QED
    BY <2>1, <2>2
<1>3. VisitInvariant => FreshVisitIsWhole
  <2> SUFFICES ASSUME VisitInvariant, Held, ~Stale
               PROVE  index = data[fd] /\ \A p \in DOMAIN cache : cache[p] = index[p]
    BY DEF FreshVisitIsWhole
  <2>1. path = stamp /\ place \in {"ready", "reading"}
    BY DEF Stale, Moved, Held
  <2>2. /\ DOMAIN index = Page /\ index = [p \in DOMAIN index |-> index[p]]
        /\ \A p \in DOMAIN index : index[p] = data[fd][p]
        /\ \A p \in DOMAIN cache : p \in Page /\ cache[p] = data[fd][p]
    BY <2>1 DEF VisitInvariant, PagesAccountedFor, ReadsAgreeWithTheInode
  <2>3. data[fd] \in [Page -> 0..MaxWrite]
    BY DEF VisitInvariant, VisitTypes
  <2> QED
    BY <2>2, <2>3
<1> QED
  BY <1>1, <1>2, <1>3, PTL DEF VisitSpec
=============================================================================
