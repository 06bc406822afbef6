--------------------------- MODULE Session_proofs ---------------------------
(***************************************************************************)
(* Theorems about Session, for every set of texts and every bound.         *)
(*                                                                         *)
(* The argument: whatever a call does, the snapshots the session holds     *)
(* afterwards are ones it held before plus its buffer, and that buffer     *)
(* either repeats the content of a snapshot or carries a version never     *)
(* given out before.                                                       *)
(***************************************************************************)
EXTENDS Session, TLAPS, SequenceTheorems, FiniteSetTheorems

(* Every version in use was given out, and a rehearsal's mark can be put   *)
(* back: without this a roll-back could leave the types.                   *)
VersionsGiven ==
  /\ \A s \in Snapshots : s.ver \in 1..version
  /\ guard # None => guard.synced \in 1..version
  /\ mark # None => /\ mark.synced \in 1..version
                    /\ Len(mark.ring) <= UndoCap
                    /\ Len(mark.cps) <= Len(cps)

TypeInv == TypeOK /\ VersionsGiven

-----------------------------------------------------------------------------
(* Sequences of checkpoints. *)

(* Taking a checkpoint adds its snapshot to those a sequence holds and no  *)
(* other.                                                                  *)
LEMMA AppendHolds ==
  ASSUME NEW r \in Seq(Checkpoint), NEW c \in Checkpoint
  PROVE  /\ Append(r, c) \in Seq(Checkpoint)
         /\ Len(Append(r, c)) = Len(r) + 1
         /\ RangeOf(Append(r, c)) = RangeOf(r) \cup {c}
<1> DEFINE s == Append(r, c)
<1>1. /\ s \in Seq(Checkpoint)
      /\ Len(s) = Len(r) + 1
      /\ \A i \in 1..Len(r) : s[i] = r[i]
      /\ s[Len(r) + 1] = c
  BY AppendProperties
<1>2. DOMAIN r = 1..Len(r) /\ DOMAIN s = 1..(Len(r) + 1) /\ Len(r) \in Nat
  BY <1>1, LenProperties
<1> HIDE DEF s
<1>3. RangeOf(s) \subseteq RangeOf(r) \cup {c}
  <2> SUFFICES ASSUME NEW i \in 1..(Len(r) + 1)
               PROVE  s[i] \in RangeOf(r) \cup {c}
    BY <1>2 DEF RangeOf
  <2>1. CASE i = Len(r) + 1
    BY <1>1, <2>1
  <2>2. CASE i \in 1..Len(r)
    BY <1>1, <1>2, <2>2 DEF RangeOf
  <2> QED
    BY <1>2, <2>1, <2>2
<1>4. RangeOf(r) \subseteq RangeOf(s)
  <2> SUFFICES ASSUME NEW i \in 1..Len(r)
               PROVE  r[i] \in RangeOf(s)
    BY <1>2 DEF RangeOf
  <2>1. i \in DOMAIN s /\ s[i] = r[i]
    BY <1>1, <1>2
  <2> QED
    BY <2>1 DEF RangeOf
<1>5. c \in RangeOf(s)
  <2>1. Len(r) + 1 \in DOMAIN s
    BY <1>2
  <2> QED
    BY <1>1, <2>1 DEF RangeOf
<1>6. RangeOf(s) = RangeOf(r) \cup {c}
  BY <1>3, <1>4, <1>5
<1> QED
  BY <1>1, <1>6 DEF s

(* Pushing on the undo ring keeps it within its cap and holds nothing but  *)
(* what it held and the step pushed (engine.rs run_value_with).            *)
LEMMA PushHolds ==
  ASSUME NEW r \in Seq(Checkpoint), NEW c \in Checkpoint, Len(r) <= UndoCap
  PROVE  /\ Push(r, c) \in Seq(Checkpoint)
         /\ Len(Push(r, c)) <= UndoCap
         /\ RangeOf(Push(r, c)) \subseteq RangeOf(r) \cup {c}
<1> DEFINE s == Append(r, c)
<1>1. /\ s \in Seq(Checkpoint)
      /\ Len(s) = Len(r) + 1
      /\ RangeOf(s) = RangeOf(r) \cup {c}
  BY AppendHolds
<1>2. UndoCap \in Nat \ {0}
  BY SessionAssumption
<1>3. CASE Len(s) > UndoCap
  <2>1. /\ Tail(s) \in Seq(Checkpoint)
        /\ Len(Tail(s)) = Len(s) - 1
        /\ \A i \in 1..Len(Tail(s)) : Tail(s)[i] = s[i + 1]
    BY <1>1, <1>2, <1>3, HeadTailProperties
  <2>2. RangeOf(Tail(s)) \subseteq RangeOf(s)
    BY <1>1, <2>1 DEF RangeOf
  <2> QED
    BY <1>1, <1>2, <1>3, <2>1, <2>2 DEF Push
<1>4. CASE ~(Len(s) > UndoCap)
  BY <1>1, <1>2, <1>4 DEF Push
<1> QED
  BY <1>3, <1>4

(* A prefix of a sequence of checkpoints is one, and holds no more. *)
LEMMA PrefixHolds ==
  ASSUME NEW r \in Seq(Checkpoint), NEW n \in Nat, n <= Len(r)
  PROVE  /\ SubSeq(r, 1, n) \in Seq(Checkpoint)
         /\ Len(SubSeq(r, 1, n)) = n
         /\ \A i \in 1..n : SubSeq(r, 1, n)[i] = r[i]
         /\ RangeOf(SubSeq(r, 1, n)) \subseteq RangeOf(r)
<1>1. \A i \in 1..n : r[i] \in Checkpoint
  OBVIOUS
<1>2. /\ SubSeq(r, 1, n) \in Seq(Checkpoint)
      /\ Len(SubSeq(r, 1, n)) = IF 1 <= n THEN n - 1 + 1 ELSE 0
      /\ \A i \in 1..(n - 1 + 1) : SubSeq(r, 1, n)[i] = r[1 + i - 1]
  BY <1>1, SubSeqProperties
<1> QED
  BY <1>2 DEF RangeOf

(* What undo_last leaves of the ring after the steps it discards is a      *)
(* prefix of it.                                                           *)
LEMMA LiveIsPrefix ==
  ASSUME NEW r \in Seq(Checkpoint), NEW b
  PROVE  \E n \in Nat : n <= Len(r) /\ Live(r, b) = SubSeq(r, 1, n)
<1>1. DOMAIN r = 1..Len(r) /\ Len(r) \in Nat
  OBVIOUS
<1>2. IsFiniteSet(1..Len(r)) /\ Cardinality(1..Len(r)) = Len(r)
  <2>1. Cardinality(1..Len(r)) = IF 1 > Len(r) THEN 0 ELSE Len(r) - 1 + 1
    BY <1>1, FS_Interval
  <2> QED
    BY <1>1, <2>1, FS_Interval
<1>3. Rewinds(r, b) \in SUBSET (1..Len(r))
  BY <1>1 DEF Rewinds
<1>4. IsFiniteSet(Rewinds(r, b)) /\ Cardinality(Rewinds(r, b)) <= Len(r)
  BY <1>2, <1>3, FS_Subset
<1>5. Cardinality(Rewinds(r, b)) \in Nat
  BY <1>4, FS_CardinalityType
<1>6. Len(r) - Cardinality(Rewinds(r, b)) \in Nat
  BY <1>1, <1>4, <1>5
<1> QED
  BY <1>1, <1>4, <1>5, <1>6 DEF Live

-----------------------------------------------------------------------------
(* What a call finds, and what it may put in the buffer. *)

(* Loading the file yields a buffer with a version never given out. *)
LEMMA LoadType ==
  ASSUME TypeInv, disk.text # Absent
  PROVE  /\ Load \in Store
         /\ Load.ver = version + 1
         /\ version + 1 \in Nat
  BY DEF TypeInv, TypeOK, Load, Store, Disk

(* Serving a call keeps the buffer or loads the file, and shrinks the ring *)
(* at most (auto_revert_if_clean).                                         *)
LEMMA ServedType ==
  ASSUME TypeInv
  PROVE  /\ Served.buf \in Store
         /\ Served.ver \in {version, version + 1}
         /\ Served.buf = buffer \/ (Served.ver = version + 1 /\ Served.buf.ver = Served.ver)
         /\ Served.buf.ver \in 1..Served.ver
         /\ Served.synced \in 1..Served.ver
         /\ Served.gen \in Nat
         /\ Served.ring \in Seq(Checkpoint)
         /\ Len(Served.ring) <= UndoCap
         /\ RangeOf(Served.ring) \subseteq RangeOf(ring)
<1>1. version \in Nat \ {0} /\ synced \in 1..version /\ gen \in Nat
  BY DEF TypeInv, TypeOK
<1>2. buffer \in Store /\ buffer.ver \in 1..version
  BY DEF TypeInv, TypeOK, VersionsGiven, Snapshots
<1>3. ring \in Seq(Checkpoint) /\ Len(ring) <= UndoCap
  BY DEF TypeInv, TypeOK
<1>4. CASE CanAutoRevert
  <2>1. Load \in Store /\ Load.ver = version + 1
    BY <1>4, LoadType DEF CanAutoRevert
  <2>2. /\ <<>> \in Seq(Checkpoint) /\ Len(<<>>) = 0
        /\ RangeOf(<<>>) = {}
    BY DEF RangeOf
  <2>3. Len(<<>>) <= UndoCap
    BY <2>2, SessionAssumption
  <2> QED
    BY <1>1, <1>4, <2>1, <2>2, <2>3 DEF Served
<1>5. CASE ~CanAutoRevert
  BY <1>1, <1>2, <1>3, <1>5 DEF Served
<1> QED
  BY <1>4, <1>5

(* Restoring a checkpoint brings back its text and its version, under some *)
(* stamp (Checkpoint::restore).                                            *)
LEMMA RestoreType ==
  ASSUME NEW c \in Checkpoint, NEW b \in Store, NEW g \in Nat
  PROVE  /\ Restore(c, b, g) \in Store
         /\ Restore(c, b, g).ver = c.snap.ver
         /\ Restore(c, b, g).text = c.snap.text
  BY DEF Restore, Checkpoint, Store

-----------------------------------------------------------------------------
(* The heart of the matter: every step of the session, seen through the    *)
(* snapshots it holds.                                                     *)

(* No call conjures up a snapshot: what the session holds after a step is  *)
(* its buffer and things it held before.                                   *)
LEMMA SnapshotsGrow ==
  ASSUME TypeInv, Next
  PROVE  Snapshots' \subseteq Snapshots \cup {buffer'}
<1>1. ring \in Seq(Checkpoint) /\ cps \in Seq(Checkpoint) /\ Len(ring) <= UndoCap
  BY DEF TypeInv, TypeOK
<1>2. guard # None => guard \in Guard
  BY DEF TypeInv, TypeOK
<1>3. mark # None => mark \in Mark
  BY DEF TypeInv, TypeOK
<1>4. RangeOf(Served.ring) \subseteq RangeOf(ring)
  BY ServedType
<1>5. CASE External
  BY <1>5 DEF External, ExternalWrite, ExternalDelete, session, Snapshots
<1>6. CASE Edit \/ RevertBuffer
  BY <1>6 DEF Edit, RevertBuffer, Snapshots
<1>7. CASE TakeCheckpoint
  <2>1. buffer \in Store /\ gen \in Nat
    BY DEF TypeInv, TypeOK
  <2>2. Capture(buffer, gen) \in Checkpoint /\ Capture(buffer, gen).snap = buffer
    BY <2>1 DEF Capture, Checkpoint
  <2>3. RangeOf(cps') = RangeOf(cps) \cup {Capture(buffer, gen)}
    BY <1>1, <1>7, <2>2, AppendHolds DEF TakeCheckpoint
  <2> QED
    BY <1>7, <2>2, <2>3 DEF TakeCheckpoint, Snapshots
<1>8. CASE RestoreCheckpoint
  BY <1>8 DEF RestoreCheckpoint, Snapshots
<1>9. CASE BeginTransaction
  BY <1>9 DEF BeginTransaction, Snapshots
<1>10. CASE LeaveTransaction \/ AbortTransaction
  BY <1>10 DEF LeaveTransaction, AbortTransaction, Snapshots
<1>11. ASSUME NEW keep \in BOOLEAN, BeginRun(keep)
       PROVE  Snapshots' \subseteq Snapshots \cup {buffer'}
  BY <1>4, <1>11 DEF BeginRun, Serve, Snapshots
<1>12. CASE BeginRehearse
  BY <1>4, <1>12 DEF BeginRehearse, TakeMark, Serve, Snapshots
<1>13. CASE BeginPreview
  BY <1>4, <1>13 DEF BeginPreview, TakeMark, Serve, Snapshots
<1>14. ASSUME NEW changed \in BOOLEAN, guard # None
       PROVE  \A c \in RangeOf(RingAfter(gen, changed)) :
                c \in RangeOf(ring) \/ c.snap = guard.buf
  <2>1. /\ Capture(guard.buf, guard.gen) \in Checkpoint
        /\ Capture(guard.buf, guard.gen).snap = guard.buf
    BY <1>2, <1>14 DEF Guard, Capture, Checkpoint
  <2>2. RangeOf(Push(ring, Capture(guard.buf, guard.gen)))
          \subseteq RangeOf(ring) \cup {Capture(guard.buf, guard.gen)}
    BY <1>1, <2>1, PushHolds
  <2>3. RangeOf(<<>>) = {}
    BY DEF RangeOf
  <2> QED
    BY <2>1, <2>2, <2>3 DEF RingAfter
<1>15. ASSUME NEW save \in BOOLEAN, FinishOk(save)
       PROVE  Snapshots' \subseteq Snapshots \cup {buffer'}
  <2>1. \A c \in RangeOf(ring') : c \in RangeOf(ring) \/ c.snap = guard.buf
    BY <1>14, <1>15 DEF FinishOk, Changed
  <2>2. /\ guard # None /\ guard' = None
        /\ UNCHANGED <<cps, mark, txn>>
    BY <1>15 DEF FinishOk
  <2> QED
    BY <2>1, <2>2 DEF Snapshots
<1>16. CASE FinishErr
  <2>1. \A c \in RangeOf(ring') : c \in RangeOf(ring) \/ c.snap = guard.buf
    BY <1>14, <1>16 DEF FinishErr, Changed
  <2>2. /\ guard # None /\ guard' = None /\ txn' = None
        /\ UNCHANGED <<cps, mark>>
    BY <1>16 DEF FinishErr
  <2> QED
    BY <2>1, <2>2 DEF Snapshots
<1>17. CASE RollBack
  <2>1. Len(mark.cps) \in Nat /\ Len(mark.cps) <= Len(cps)
    BY <1>3, <1>17 DEF RollBack, PutBack, TypeInv, VersionsGiven, Mark
  <2>2. RangeOf(cps') \subseteq RangeOf(cps)
    BY <1>1, <1>17, <2>1, PrefixHolds DEF RollBack, PutBack
  <2> QED
    BY <1>17, <2>2 DEF RollBack, PutBack, Snapshots
<1>18. CASE SaveAfterEdit
  BY <1>18 DEF SaveAfterEdit, Snapshots
<1>19. CASE SaveBuffer
  <2>1. UNCHANGED <<cps, guard, mark, txn>>
    BY <1>19 DEF SaveBuffer
  <2>2. RangeOf(ring') \subseteq RangeOf(ring)
    BY <1>4, <1>19 DEF SaveBuffer
  <2> QED
    BY <2>1, <2>2 DEF Snapshots
<1>20. ASSUME NEW save \in BOOLEAN, UndoLast(save)
       PROVE  Snapshots' \subseteq Snapshots \cup {buffer'}
  <2> DEFINE live == Live(Served.ring, Served.buf)
  <2>1. PICK n \in Nat : n <= Len(Served.ring) /\ live = SubSeq(Served.ring, 1, n)
    BY ServedType, LiveIsPrefix
  <2>2. live \in Seq(Checkpoint) /\ RangeOf(live) \subseteq RangeOf(ring)
    BY <1>4, <2>1, ServedType, PrefixHolds
  <2> HIDE DEF live
  <2>3. CASE live = <<>>
    <3>1. ring' = <<>>
      BY <1>20, <2>3 DEF UndoLast, live
    <3>2. RangeOf(ring') = {}
      BY <3>1 DEF RangeOf
    <3> QED
      BY <1>20, <3>2 DEF UndoLast, Snapshots
  <2>4. CASE live # <<>>
    <3>1. ring' = SubSeq(live, 1, Len(live) - 1)
      BY <1>20, <2>4 DEF UndoLast, live
    <3>2. Len(live) - 1 \in Nat /\ Len(live) - 1 <= Len(live)
      BY <2>2, <2>4
    <3>3. RangeOf(ring') \subseteq RangeOf(ring)
      BY <2>2, <3>1, <3>2, PrefixHolds
    <3> QED
      BY <1>20, <3>3 DEF UndoLast, Snapshots
  <2> QED
    BY <2>3, <2>4
<1> QED
  BY <1>5, <1>6, <1>7, <1>8, <1>9, <1>10, <1>11, <1>12, <1>13, <1>15, <1>16,
     <1>17, <1>18, <1>19, <1>20 DEF Next, Builtin, Call

(* The content of the buffer after a step is that of a snapshot held       *)
(* before it, or comes with a version never given out.                     *)
NewOrHeld ==
  \/ \E s \in Snapshots : buffer'.ver = s.ver /\ buffer'.text = s.text
  \/ version' = version + 1 /\ buffer'.ver = version'

(* Every store a call puts in the buffer is of that kind.                  *)
LEMMA BufferStep ==
  ASSUME TypeInv, Next
  PROVE  /\ buffer' \in Store
         /\ version' \in {version, version + 1}
         /\ version' <= MaxVersion
         /\ NewOrHeld
<1>1. /\ buffer \in Store /\ buffer \in Snapshots
      /\ version \in Nat \ {0} /\ version <= MaxVersion
      /\ MaxVersion \in Nat
  BY SessionAssumption DEF TypeInv, TypeOK, Snapshots
<1>2. /\ guard # None => guard \in Guard /\ guard.buf \in Store /\ guard.buf \in Snapshots
      /\ mark # None => mark \in Mark /\ mark.buf \in Store /\ mark.buf \in Snapshots
      /\ txn # None => txn \in Store /\ txn \in Snapshots
  BY DEF TypeInv, TypeOK, Snapshots, Guard, Mark
<1> DEFINE Goal == /\ buffer' \in Store
                   /\ version' \in {version, version + 1}
                   /\ version' <= MaxVersion
                   /\ NewOrHeld
<1>3. CASE Serve
  BY <1>1, <1>3, ServedType DEF Serve, NewOrHeld
<1>4. CASE External
  BY <1>1, <1>4 DEF External, ExternalWrite, ExternalDelete, session, NewOrHeld
<1>5. CASE Edit
  <2>1. PICK t \in Text : buffer' = [buffer EXCEPT !.text = t, !.ver = version']
    BY <1>5 DEF Edit
  <2>2. version' = version + 1 /\ version' \in Nat /\ version' <= MaxVersion
    BY <1>1, <1>5 DEF Edit
  <2>3. buffer' \in Store /\ buffer'.ver = version'
    BY <1>1, <2>1, <2>2 DEF Store
  <2> QED
    BY <2>2, <2>3 DEF NewOrHeld
<1>6. CASE RevertBuffer
  BY <1>1, <1>6, LoadType DEF RevertBuffer, NewOrHeld
<1>7. CASE RestoreCheckpoint
  <2>1. PICK i \in DOMAIN cps : buffer' = Restore(cps[i], buffer, gen)
    BY <1>7 DEF RestoreCheckpoint
  <2>2. /\ cps \in Seq(Checkpoint) /\ gen \in Nat
        /\ version' = version
    BY <1>7 DEF RestoreCheckpoint, TypeInv, TypeOK
  <2>3. cps[i] \in Checkpoint /\ cps[i].snap \in Snapshots
    BY <2>2 DEF Snapshots, RangeOf
  <2> QED
    BY <1>1, <2>1, <2>2, <2>3, RestoreType DEF NewOrHeld
<1>8. CASE AbortTransaction
  BY <1>1, <1>2, <1>8 DEF AbortTransaction, NewOrHeld
<1>9. CASE TakeCheckpoint \/ BeginTransaction \/ LeaveTransaction
  BY <1>1, <1>9 DEF TakeCheckpoint, BeginTransaction, LeaveTransaction, NewOrHeld
<1>10. ASSUME NEW keep \in BOOLEAN, BeginRun(keep)
       PROVE  Goal
  BY <1>3, <1>10 DEF BeginRun
<1>11. CASE BeginRehearse \/ BeginPreview
  BY <1>3, <1>11 DEF BeginRehearse, BeginPreview
<1>12. ASSUME NEW save \in BOOLEAN, FinishOk(save)
       PROVE  Goal
  BY <1>1, <1>2, <1>12 DEF FinishOk, RollBackRun, NewOrHeld
<1>13. CASE FinishErr
  BY <1>1, <1>2, <1>13 DEF FinishErr, RollBackRun, Unwound, NewOrHeld
<1>14. CASE RollBack
  BY <1>1, <1>2, <1>14 DEF RollBack, PutBack, NewOrHeld
<1>15. ASSUME NEW rebased \in BOOLEAN, SaveVisited(rebased)
       PROVE  /\ buffer' \in Store
              /\ buffer'.ver = buffer.ver /\ buffer'.text = buffer.text
  <2>1. clock' \in Nat \/ buffer' = buffer
    BY <1>15 DEF SaveVisited, TypeInv, TypeOK
  <2> QED
    BY <1>1, <1>15, <2>1 DEF SaveVisited, Store
<1>16. CASE SaveAfterEdit
  <2>1. PICK rebased \in BOOLEAN : SaveVisited(rebased)
    BY <1>16 DEF SaveAfterEdit
  <2> QED
    BY <1>1, <1>15, <1>16, <2>1 DEF SaveAfterEdit, NewOrHeld
<1>17. CASE SaveBuffer
  <2>1. Serve \/ (version' = version /\ \E rebased \in BOOLEAN : SaveVisited(rebased))
    BY <1>17 DEF SaveBuffer
  <2> QED
    BY <1>1, <1>3, <1>15, <2>1 DEF NewOrHeld
<1>18. ASSUME NEW save \in BOOLEAN, UndoLast(save)
       PROVE  Goal
  <2> DEFINE live == Live(Served.ring, Served.buf)
  <2>1. PICK n \in Nat : n <= Len(Served.ring) /\ live = SubSeq(Served.ring, 1, n)
    BY ServedType, LiveIsPrefix
  <2>2. live \in Seq(Checkpoint) /\ RangeOf(live) \subseteq RangeOf(ring)
    BY <2>1, ServedType, PrefixHolds
  <2>3. version' = Served.ver /\ Served.ver <= MaxVersion
    BY <1>18 DEF UndoLast
  <2> HIDE DEF live
  <2>4. CASE live = <<>>
    <3>1. buffer' = Served.buf
      BY <1>18, <2>4 DEF UndoLast, live
    <3> QED
      BY <1>1, <2>3, <3>1, ServedType DEF NewOrHeld
  <2>5. CASE live # <<>>
    <3> DEFINE c == live[Len(live)]
    <3>1. buffer' = Restore(c, Served.buf, Served.gen)
      BY <1>18, <2>5 DEF UndoLast, live
    <3>2. c \in Checkpoint /\ c \in RangeOf(live)
      BY <2>2, <2>5 DEF RangeOf
    <3>3. c.snap \in Snapshots
      BY <2>2, <3>2 DEF Snapshots
    <3> HIDE DEF c
    <3>4. /\ buffer' \in Store
          /\ buffer'.ver = c.snap.ver /\ buffer'.text = c.snap.text
      BY <3>1, <3>2, ServedType, RestoreType
    <3> QED
      BY <1>1, <2>3, <3>3, <3>4, ServedType DEF NewOrHeld
  <2> QED
    BY <2>4, <2>5
<1> QED
  BY <1>4, <1>5, <1>6, <1>7, <1>8, <1>9, <1>10, <1>11, <1>12, <1>13, <1>14,
     <1>16, <1>17, <1>18 DEF Next, Builtin, Call

-----------------------------------------------------------------------------
(* Type correctness. *)

(* The part of TypeInv that is not about the buffer and its version. *)
RestTyped ==
  /\ disk \in Disk
  /\ clock \in 1..MaxStamp /\ disk.stamp <= clock
  /\ synced \in 1..version
  /\ gen \in Nat
  /\ ring \in Seq(Checkpoint) /\ Len(ring) <= UndoCap
  /\ cps \in Seq(Checkpoint) /\ Len(cps) <= MaxCheckpoints
  /\ pc \in {"idle", "program", "save", "roll_back"}
  /\ guard \in Guard \cup {None}
  /\ mark \in Mark \cup {None}
  /\ txn \in Store \cup {None}
  /\ guard # None => guard.synced \in 1..version
  /\ mark # None => /\ mark.synced \in 1..version
                    /\ Len(mark.ring) <= UndoCap
                    /\ Len(mark.cps) <= Len(cps)

(* A session opens in its types. *)
LEMMA InitTyped == Init => TypeInv
<1> SUFFICES ASSUME Init PROVE TypeInv
  OBVIOUS
<1>1. PICK t \in Text :
        /\ \/ disk = [text |-> t, stamp |-> 1, ext |-> 1]
           \/ disk = [text |-> Absent, stamp |-> AbsentStamp, ext |-> 1]
        /\ buffer = [text |-> t, ver |-> 1, stamp |-> disk.stamp, base |-> 1]
  BY DEF Init
<1>2. /\ disk \in Disk /\ disk.stamp \in {0, 1}
      /\ buffer \in Store /\ buffer.ver = 1
  BY <1>1 DEF Disk, Store, AbsentStamp
<1>3. /\ <<>> \in Seq(Checkpoint) /\ Len(<<>>) = 0
      /\ RangeOf(<<>>) = {}
  BY DEF RangeOf
<1>4. Snapshots = {buffer}
  BY <1>3 DEF Init, Snapshots
<1> QED
  BY <1>2, <1>3, <1>4, SessionAssumption DEF Init, TypeInv, TypeOK, VersionsGiven

(* Every step keeps the types. *)
LEMMA NextTyped ==
  ASSUME TypeInv, Next
  PROVE  TypeInv'
<1>1. /\ buffer' \in Store /\ version' \in {version, version + 1}
      /\ version' <= MaxVersion /\ NewOrHeld
  BY BufferStep
<1>2. /\ version \in Nat \ {0} /\ MaxVersion \in Nat
      /\ \A s \in Snapshots : s.ver \in 1..version
  BY SessionAssumption DEF TypeInv, TypeOK, VersionsGiven
<1>3. /\ version' \in 1..MaxVersion /\ version' \in 1..version'
      /\ \A v \in 1..version : v \in 1..version'
  BY <1>1, <1>2
<1>4. buffer'.ver \in 1..version'
  BY <1>1, <1>2, <1>3 DEF NewOrHeld
<1>5. \A s \in Snapshots' : s.ver \in 1..version'
  BY <1>2, <1>3, <1>4, SnapshotsGrow
<1> SUFFICES RestTyped'
  BY <1>1, <1>3, <1>5 DEF TypeInv, TypeOK, VersionsGiven, RestTyped
<1>6. /\ RestTyped
      /\ buffer \in Store /\ buffer.ver \in 1..version
      /\ guard # None => guard.buf \in Store /\ guard.buf.ver \in 1..version
      /\ mark # None => mark.buf \in Store
      /\ MaxStamp \in Nat /\ MaxCheckpoints \in Nat /\ UndoCap \in Nat \ {0}
  BY SessionAssumption
     DEF TypeInv, TypeOK, VersionsGiven, RestTyped, Snapshots, Guard, Mark
<1>7. CASE ExternalWrite
  <2>1. clock' = clock + 1 /\ clock' \in 1..MaxStamp
    BY <1>6, <1>7 DEF ExternalWrite, RestTyped
  <2>2. disk' \in Disk /\ disk'.stamp = clock'
    BY <1>6, <1>7, <2>1 DEF ExternalWrite, Disk
  <2> QED
    BY <1>6, <1>7, <2>1, <2>2 DEF ExternalWrite, session, RestTyped
<1>8. CASE ExternalDelete
  <2>1. clock' = clock + 1 /\ clock' \in 1..MaxStamp
    BY <1>6, <1>8 DEF ExternalDelete, RestTyped
  <2>2. disk' \in Disk /\ disk'.stamp = 0
    BY <1>6, <1>8, <2>1 DEF ExternalDelete, Disk, AbsentStamp
  <2> QED
    BY <1>6, <1>8, <2>1, <2>2 DEF ExternalDelete, session, RestTyped
<1>9. CASE Edit
  BY <1>3, <1>6, <1>9 DEF Edit, RestTyped
<1>10. CASE RevertBuffer
  BY <1>3, <1>6, <1>10 DEF RevertBuffer, RestTyped
<1>11. CASE TakeCheckpoint
  <2>1. Capture(buffer, gen) \in Checkpoint
    BY <1>6 DEF Capture, Checkpoint, RestTyped
  <2>2. cps' \in Seq(Checkpoint) /\ Len(cps') = Len(cps) + 1 /\ Len(cps) \in Nat
    BY <1>6, <1>11, <2>1, AppendHolds DEF TakeCheckpoint, RestTyped
  <2>3. mark # None => Len(mark.cps) \in Nat
    BY <1>6 DEF RestTyped, Mark
  <2> QED
    BY <1>3, <1>6, <1>11, <2>2, <2>3 DEF TakeCheckpoint, RestTyped
<1>12. CASE RestoreCheckpoint
  BY <1>6, <1>12 DEF RestoreCheckpoint, RestTyped
<1>13. CASE BeginTransaction \/ LeaveTransaction \/ AbortTransaction
  BY <1>6, <1>13
     DEF BeginTransaction, LeaveTransaction, AbortTransaction, RestTyped
<1>14. ASSUME NEW keep \in BOOLEAN, BeginRun(keep)
       PROVE  RestTyped'
  <2>1. /\ synced' \in 1..version' /\ gen' \in Nat
        /\ ring' \in Seq(Checkpoint) /\ Len(ring') <= UndoCap
        /\ guard' \in Guard /\ guard'.synced \in 1..version'
    <3>1. Served.synced \in Nat
      BY <1>2, ServedType
    <3> QED
      BY <1>14, <3>1, ServedType DEF BeginRun, Serve, Guard
  <2> QED
    BY <1>3, <1>6, <1>14, <2>1 DEF BeginRun, RestTyped
<1>15. ASSUME Serve, ring' = Served.ring, TakeMark, UNCHANGED cps
       PROVE  /\ synced' \in 1..version' /\ gen' \in Nat
              /\ ring' \in Seq(Checkpoint) /\ Len(ring') <= UndoCap
              /\ mark' \in Mark /\ mark'.synced \in 1..version'
              /\ Len(mark'.ring) <= UndoCap /\ Len(mark'.cps) <= Len(cps')
  <2>1. Served.synced \in Nat
    BY <1>2, ServedType
  <2>2. cps \in Seq(Checkpoint) /\ Len(cps) \in Nat
    BY <1>6 DEF RestTyped
  <2> QED
    BY <1>15, <2>1, <2>2, ServedType DEF Serve, TakeMark, Mark
<1>16. CASE BeginRehearse
  BY <1>3, <1>6, <1>15, <1>16 DEF BeginRehearse, RestTyped
<1>17. CASE BeginPreview
  <2>1. guard' \in Guard /\ guard'.synced \in 1..version'
    <3>1. Served.synced \in Nat
      BY <1>2, ServedType
    <3> QED
      BY <1>17, <3>1, ServedType DEF BeginPreview, Serve, Guard
  <2> QED
    BY <1>3, <1>6, <1>15, <1>17, <2>1 DEF BeginPreview, RestTyped
<1>18. ASSUME NEW changed \in BOOLEAN, guard # None
       PROVE  /\ RingAfter(gen, changed) \in Seq(Checkpoint)
              /\ Len(RingAfter(gen, changed)) <= UndoCap
  <2>1. Capture(guard.buf, guard.gen) \in Checkpoint
    BY <1>6, <1>18 DEF RestTyped, Guard, Capture, Checkpoint
  <2>2. /\ Push(ring, Capture(guard.buf, guard.gen)) \in Seq(Checkpoint)
        /\ Len(Push(ring, Capture(guard.buf, guard.gen))) <= UndoCap
    BY <1>6, <2>1, PushHolds DEF RestTyped
  <2>3. <<>> \in Seq(Checkpoint) /\ Len(<<>>) <= UndoCap
    BY <1>6
  <2> QED
    BY <1>6, <2>2, <2>3 DEF RingAfter, RestTyped
<1>19. ASSUME guard # None, RollBackRun, version' = version
       PROVE  gen' \in Nat /\ synced' \in 1..version'
  BY <1>6, <1>19 DEF RollBackRun, RestTyped, Guard
<1>20. ASSUME NEW save \in BOOLEAN, FinishOk(save)
       PROVE  RestTyped'
  <2>1. /\ guard # None /\ guard' = None /\ pc' \in {"idle", "save", "roll_back"}
        /\ UNCHANGED <<disk, clock, version, cps, mark, txn>>
    BY <1>20 DEF FinishOk, AfterRun
  <2>2. ring' \in Seq(Checkpoint) /\ Len(ring') <= UndoCap
    BY <1>6, <1>18, <1>20 DEF FinishOk, Changed, RestTyped
  <2>3. gen' \in Nat /\ synced' \in 1..version'
    BY <1>6, <1>19, <1>20, <2>1 DEF FinishOk, RestTyped
  <2> QED
    BY <1>6, <2>1, <2>2, <2>3 DEF RestTyped
<1>21. CASE FinishErr
  <2>1. /\ guard # None /\ guard' = None /\ pc' \in {"idle", "roll_back"}
        /\ txn' = None
        /\ UNCHANGED <<disk, clock, version, cps, mark>>
    BY <1>21 DEF FinishErr, AfterRun
  <2>2. ring' \in Seq(Checkpoint) /\ Len(ring') <= UndoCap
    BY <1>6, <1>18, <1>21 DEF FinishErr, Changed, RestTyped
  <2>3. gen' \in Nat /\ synced' \in 1..version'
    BY <1>6, <1>19, <1>21, <2>1 DEF FinishErr, RestTyped
  <2> QED
    BY <1>6, <2>1, <2>2, <2>3 DEF RestTyped
<1>22. CASE RollBack
  <2>1. mark \in Mark /\ mark # None
    BY <1>6, <1>22 DEF RollBack, PutBack, RestTyped
  <2>2. Len(mark.cps) \in Nat /\ Len(mark.cps) <= Len(cps)
    BY <1>6, <2>1 DEF RestTyped, Mark
  <2>3. cps' \in Seq(Checkpoint) /\ Len(cps') <= MaxCheckpoints
    BY <1>6, <1>22, <2>2, PrefixHolds DEF RollBack, PutBack, RestTyped
  <2>4. gen' \in Nat /\ synced' \in 1..version'
        /\ ring' \in Seq(Checkpoint) /\ Len(ring') <= UndoCap
    BY <1>6, <1>22, <2>1 DEF RollBack, PutBack, RestTyped, Mark
  <2> QED
    BY <1>6, <1>22, <2>3, <2>4 DEF RollBack, PutBack, RestTyped
<1>23. ASSUME NEW rebased \in BOOLEAN, SaveVisited(rebased), version' = version
       PROVE  /\ disk' \in Disk
              /\ clock' \in 1..MaxStamp /\ clock <= clock'
              /\ disk'.stamp <= clock'
              /\ synced' \in 1..version'
  <2>1. CASE Stale(buffer)
    BY <1>6, <1>23, <2>1 DEF SaveVisited, RestTyped
  <2>2. CASE ~Stale(buffer)
    <3>1. clock' = clock + 1 /\ clock' \in 1..MaxStamp
      BY <1>6, <1>23, <2>2 DEF SaveVisited, RestTyped
    <3>2. disk' = [text |-> buffer.text, stamp |-> clock', ext |-> buffer.base]
      BY <1>23, <2>2 DEF SaveVisited
    <3>3. disk' \in Disk /\ disk'.stamp = clock'
      <4>1. buffer.text \in Text /\ buffer.base \in Nat /\ clock' \in Nat
        BY <1>6, <3>1 DEF Store
      <4> QED
        BY <3>2, <4>1 DEF Disk
    <3> QED
      BY <1>6, <1>23, <2>2, <3>1, <3>3 DEF SaveVisited, RestTyped
  <2> QED
    BY <2>1, <2>2
<1>24. CASE SaveAfterEdit
  BY <1>6, <1>23, <1>24 DEF SaveAfterEdit, RestTyped
<1>25. CASE SaveBuffer
  <2>1. CASE ~ReadOnly /\ ~Modified /\ Stale(buffer)
    <3>1. /\ synced' \in 1..version' /\ gen' \in Nat
          /\ ring' \in Seq(Checkpoint) /\ Len(ring') <= UndoCap
      BY <1>25, <2>1, ServedType DEF SaveBuffer, Serve
    <3> QED
      BY <1>3, <1>6, <1>25, <2>1, <3>1 DEF SaveBuffer, RestTyped
  <2>2. CASE ~(~ReadOnly /\ ~Modified /\ Stale(buffer))
    BY <1>6, <1>23, <1>25, <2>2 DEF SaveBuffer, RestTyped
  <2> QED
    BY <2>1, <2>2
<1>26. ASSUME NEW save \in BOOLEAN, UndoLast(save)
       PROVE  RestTyped'
  <2> DEFINE live == Live(Served.ring, Served.buf)
  <2>1. PICK n \in Nat : n <= Len(Served.ring) /\ live = SubSeq(Served.ring, 1, n)
    BY ServedType, LiveIsPrefix
  <2>2. live \in Seq(Checkpoint) /\ Len(live) <= UndoCap
    BY <1>6, <2>1, ServedType, PrefixHolds
  <2> HIDE DEF live
  <2>3. ring' \in Seq(Checkpoint) /\ Len(ring') <= UndoCap
    <3>1. CASE live = <<>>
      BY <1>6, <1>26, <3>1 DEF UndoLast, live
    <3>2. CASE live # <<>>
      <4>1. ring' = SubSeq(live, 1, Len(live) - 1)
        BY <1>26, <3>2 DEF UndoLast, live
      <4>2. Len(live) - 1 \in Nat /\ Len(live) - 1 <= Len(live)
        BY <2>2, <3>2
      <4> QED
        BY <1>6, <2>2, <4>1, <4>2, PrefixHolds
    <3> QED
      BY <3>1, <3>2
  <2>4. synced' \in 1..version' /\ gen' \in Nat
    BY <1>26, ServedType DEF UndoLast
  <2>5. pc' \in {"idle", "save"} /\ UNCHANGED <<disk, clock, cps, guard, mark, txn>>
    BY <1>26 DEF UndoLast
  <2> QED
    BY <1>3, <1>6, <2>3, <2>4, <2>5 DEF RestTyped
<1> QED
  BY <1>7, <1>8, <1>9, <1>10, <1>11, <1>12, <1>13, <1>14, <1>16, <1>17, <1>20,
     <1>21, <1>22, <1>24, <1>25, <1>26 DEF Next, External, Builtin, Call

(* Every variable of a session keeps its type, and a roll-back always      *)
(* finds versions and a ring it can put back.                              *)
THEOREM TypeCorrect == Spec => []TypeInv
<1>1. TypeInv /\ UNCHANGED vars => TypeInv'
  BY DEF vars, TypeInv, TypeOK, VersionsGiven, Snapshots, Disk, Store
<1> QED
  BY <1>1, InitTyped, NextTyped, PTL DEF Spec

(* The type invariant of a session. *)
THEOREM SessionTypeOK == Spec => []TypeOK
  BY TypeCorrect, PTL DEF TypeInv

-----------------------------------------------------------------------------
(* Versions identify text. *)

(* One step keeps EqualVersionsEqualText: a held content agrees with every *)
(* other held content, and a new version equals none that was given out.   *)
LEMMA VersionsStep ==
  ASSUME TypeInv, EqualVersionsEqualText, Next
  PROVE  EqualVersionsEqualText'
<1>1. version \in Nat /\ \A s \in Snapshots : s.ver \in 1..version
  BY DEF TypeInv, TypeOK, VersionsGiven
<1>2. Snapshots' \subseteq Snapshots \cup {buffer'}
  BY SnapshotsGrow
<1>3. ASSUME NEW s \in Snapshots, s.ver = buffer'.ver
      PROVE  s.text = buffer'.text
  <2>1. CASE \E r \in Snapshots : buffer'.ver = r.ver /\ buffer'.text = r.text
    BY <1>3, <2>1 DEF EqualVersionsEqualText
  <2>2. CASE version' = version + 1 /\ buffer'.ver = version'
    BY <1>1, <1>3, <2>2
  <2> QED
    BY <2>1, <2>2, BufferStep DEF NewOrHeld
<1> QED
  BY <1>2, <1>3 DEF EqualVersionsEqualText

(* Two snapshots of one version hold one text, wherever in the session     *)
(* they are kept: comparing versions is comparing documents (store.rs).    *)
THEOREM VersionsIdentifyText == Spec => []EqualVersionsEqualText
<1>1. Init => EqualVersionsEqualText
  <2> SUFFICES ASSUME Init PROVE Snapshots = {buffer}
    BY DEF EqualVersionsEqualText
  <2>1. RangeOf(<<>>) = {}
    BY DEF RangeOf
  <2> QED
    BY <2>1 DEF Init, Snapshots
<1>2. EqualVersionsEqualText /\ UNCHANGED vars => EqualVersionsEqualText'
  BY DEF vars, EqualVersionsEqualText, Snapshots
<1> QED
  BY <1>1, <1>2, VersionsStep, TypeCorrect, PTL DEF Spec

(***************************************************************************)
(* What undo, re-reads and saves promise of a Session, for every set of    *)
(* texts and every bound.                                                  *)
(*                                                                         *)
(* The steps of the undo ring all belong to one era: they were taken since *)
(* the last re-read of a changed file.  So a rewind may hand the buffer's  *)
(* stamp to an older text, and the save that follows replaces only text    *)
(* the session has read.                                                   *)
(***************************************************************************)

(* The steps of r were taken in generation g. *)
OfEra(r, g) == \A c \in RangeOf(r) : c.gen = g

(* The steps of r derive from the outside text b derives from. *)
OfBase(r, b) == \A c \in RangeOf(r) : c.snap.base = b.base

(* Between calls the ring is of the session's era; while a program runs    *)
(* under a guard it is of the guard's, and a rehearsal's mark keeps one of *)
(* its own.                                                                *)
Eras ==
  /\ pc \in {"idle", "save"} => guard = None /\ mark = None /\ OfEra(ring, gen)
  /\ pc = "roll_back" => guard = None /\ mark # None
  /\ pc = "program" => guard # None \/ mark # None
  /\ pc # "program" => txn = None
  /\ guard # None => OfEra(ring, guard.gen)
  /\ mark # None => OfEra(mark.ring, mark.gen)

(* Within an era everything derives from the text last read, and whatever  *)
(* still matches the file derives from the text the file derives from.     *)
Bases ==
  /\ \A s \in Snapshots :
       /\ s.stamp <= clock
       /\ s.stamp = disk.stamp /\ disk.text # Absent => s.base = disk.ext
  /\ pc \in {"idle", "save"} => OfBase(ring, buffer)
  /\ guard # None =>
       /\ guard.gen <= gen
       /\ OfBase(ring, guard.buf)
       /\ gen = guard.gen =>
            /\ buffer.base = guard.buf.base
            /\ txn # None => txn.base = guard.buf.base
  /\ mark # None => OfBase(mark.ring, mark.buf)

-----------------------------------------------------------------------------
(* The ring after a program: emptied by a re-read, or of the guard's era   *)
(* (run_value_with).                                                       *)
LEMMA RingAfterHolds ==
  ASSUME TypeInv, guard # None, NEW changed \in BOOLEAN
  PROVE  /\ gen # guard.gen => RingAfter(gen, changed) = <<>>
         /\ \A c \in RangeOf(RingAfter(gen, changed)) :
              c \in RangeOf(ring) \/ (c.snap = guard.buf /\ c.gen = guard.gen)
<1>1. ring \in Seq(Checkpoint) /\ Len(ring) <= UndoCap /\ guard \in Guard
  BY DEF TypeInv, TypeOK
<1>2. /\ Capture(guard.buf, guard.gen) \in Checkpoint
      /\ Capture(guard.buf, guard.gen).snap = guard.buf
      /\ Capture(guard.buf, guard.gen).gen = guard.gen
  BY <1>1 DEF Guard, Capture, Checkpoint
<1>3. RangeOf(Push(ring, Capture(guard.buf, guard.gen)))
        \subseteq RangeOf(ring) \cup {Capture(guard.buf, guard.gen)}
  BY <1>1, <1>2, PushHolds
<1>4. RangeOf(<<>>) = {}
  BY DEF RangeOf
<1> QED
  BY <1>2, <1>3, <1>4 DEF RingAfter

(* What undo_last leaves: nothing, or the steps under the one it restored, *)
(* which is one of the ring's.                                             *)
LEMMA UndoHolds ==
  ASSUME TypeInv, NEW save \in BOOLEAN, UndoLast(save)
  PROVE  /\ ring' \in Seq(Checkpoint)
         /\ RangeOf(ring') \subseteq RangeOf(Served.ring)
         /\ \/ ring' = <<>> /\ buffer' = Served.buf
            \/ \E c \in RangeOf(Served.ring) :
                 buffer' = Restore(c, Served.buf, Served.gen)
<1> DEFINE live == Live(Served.ring, Served.buf)
<1>1. PICK n \in Nat : n <= Len(Served.ring) /\ live = SubSeq(Served.ring, 1, n)
  BY ServedType, LiveIsPrefix
<1>2. live \in Seq(Checkpoint) /\ RangeOf(live) \subseteq RangeOf(Served.ring)
  BY <1>1, ServedType, PrefixHolds
<1> HIDE DEF live
<1>3. CASE live = <<>>
  <2>1. ring' = <<>> /\ buffer' = Served.buf
    BY <1>3 DEF UndoLast, live
  <2>2. RangeOf(<<>>) = {} /\ <<>> \in Seq(Checkpoint)
    BY DEF RangeOf
  <2> QED
    BY <2>1, <2>2
<1>4. CASE live # <<>>
  <2>1. /\ ring' = SubSeq(live, 1, Len(live) - 1)
        /\ buffer' = Restore(live[Len(live)], Served.buf, Served.gen)
    BY <1>4 DEF UndoLast, live
  <2>2. Len(live) - 1 \in Nat /\ Len(live) - 1 <= Len(live)
    BY <1>2, <1>4
  <2>3. live[Len(live)] \in RangeOf(live)
    BY <1>2, <1>4 DEF RangeOf
  <2>4. ring' \in Seq(Checkpoint) /\ RangeOf(ring') \subseteq RangeOf(live)
    BY <1>2, <2>1, <2>2, PrefixHolds
  <2> QED
    BY <1>2, <2>1, <2>3, <2>4
<1> QED
  BY <1>3, <1>4

(* The guard and the mark a call takes are really there: no record is      *)
(* None.                                                                   *)
LEMMA TakenIsThere ==
  ASSUME TypeInv
  PROVE  /\ \A keep \in BOOLEAN :
              [buf |-> Served.buf, gen |-> Served.gen,
               synced |-> Served.synced, keep |-> keep] # None
         /\ [buf |-> Served.buf, gen |-> Served.gen, synced |-> Served.synced,
             ring |-> Served.ring, cps |-> cps] # None
<1>1. Served.synced \in Nat /\ Served.ring \in Seq(Checkpoint)
  <2>1. version \in Nat
    BY DEF TypeInv, TypeOK
  <2> QED
    BY <2>1, ServedType
<1>2. cps \in Seq(Checkpoint) /\ Served.buf \in Store /\ Served.gen \in Nat
  BY ServedType DEF TypeInv, TypeOK
<1>3. \A keep \in BOOLEAN :
        [buf |-> Served.buf, gen |-> Served.gen,
         synced |-> Served.synced, keep |-> keep] \in Guard
  BY <1>1, <1>2 DEF Guard
<1>4. [buf |-> Served.buf, gen |-> Served.gen, synced |-> Served.synced,
       ring |-> Served.ring, cps |-> cps] \in Mark
  BY <1>1, <1>2 DEF Mark
<1> QED
  BY <1>3, <1>4, SessionAssumption

(* A session opens with an empty ring, in its first era. *)
LEMMA InitEras == Init => Eras
<1>1. RangeOf(<<>>) = {}
  BY DEF RangeOf
<1> QED
  BY <1>1 DEF Init, Eras, OfEra

(* No step leaves a ring with steps of two eras. *)
LEMMA ErasStep ==
  ASSUME TypeInv, Eras, Next
  PROVE  Eras'
<1>1. RangeOf(<<>>) = {}
  BY DEF RangeOf
<1>2. pc = "idle" => OfEra(Served.ring, Served.gen)
  <2>1. CASE CanAutoRevert
    BY <1>1, <2>1 DEF Served, OfEra
  <2>2. CASE ~CanAutoRevert
    BY <2>2 DEF Served, Eras
  <2> QED
    BY <2>1, <2>2
<1>3. CASE External
  BY <1>3 DEF External, ExternalWrite, ExternalDelete, session, Eras, OfEra
<1>4. CASE Builtin
  BY <1>4 DEF Builtin, Edit, RevertBuffer, TakeCheckpoint, RestoreCheckpoint,
     BeginTransaction, LeaveTransaction, AbortTransaction, Eras, OfEra
<1>5. ASSUME NEW keep \in BOOLEAN, BeginRun(keep)
      PROVE  Eras'
  <2>1. guard' # None /\ guard'.gen = Served.gen
    BY <1>5, TakenIsThere DEF BeginRun
  <2> QED
    BY <1>2, <1>5, <2>1 DEF BeginRun, Eras, OfEra
<1>6. ASSUME TakeMark
      PROVE  mark' # None /\ mark'.gen = Served.gen /\ mark'.ring = Served.ring
  BY <1>6, TakenIsThere DEF TakeMark
<1>7. CASE BeginRehearse
  BY <1>2, <1>6, <1>7 DEF BeginRehearse, Eras, OfEra
<1>8. CASE BeginPreview
  <2>1. guard' # None /\ guard'.gen = Served.gen
    BY <1>8, TakenIsThere DEF BeginPreview
  <2> QED
    BY <1>2, <1>6, <1>8, <2>1 DEF BeginPreview, Eras, OfEra
<1>9. ASSUME guard # None, NEW changed \in BOOLEAN, ring' = RingAfter(gen, changed)
      PROVE  OfEra(ring', gen)
  <2>1. CASE gen # guard.gen
    BY <1>1, <1>9, <2>1, RingAfterHolds DEF OfEra
  <2>2. CASE gen = guard.gen
    BY <1>9, <2>2, RingAfterHolds DEF Eras, OfEra
  <2> QED
    BY <2>1, <2>2
<1>10. ASSUME guard # None, RollBackRun, ring' = ring
       PROVE  OfEra(ring', gen')
  BY <1>10 DEF RollBackRun, Eras, OfEra
<1>11. ASSUME NEW save \in BOOLEAN, FinishOk(save)
       PROVE  Eras'
  <2>1. /\ guard # None /\ guard' = None /\ txn' = None /\ UNCHANGED mark
        /\ mark # None => pc' = "roll_back"
        /\ mark = None => pc' \in {"idle", "save"}
    BY <1>11 DEF FinishOk, AfterRun
  <2>2. OfEra(ring', gen')
    BY <1>9, <1>10, <1>11 DEF FinishOk, Changed, OfEra
  <2> QED
    BY <2>1, <2>2 DEF Eras
<1>12. CASE FinishErr
  <2>1. /\ guard # None /\ guard' = None /\ txn' = None /\ UNCHANGED mark
        /\ mark # None => pc' = "roll_back"
        /\ mark = None => pc' = "idle"
    BY <1>12 DEF FinishErr, AfterRun
  <2>2. OfEra(ring', gen')
    BY <1>9, <1>10, <1>12 DEF FinishErr, Changed, OfEra
  <2> QED
    BY <2>1, <2>2 DEF Eras
<1>13. CASE RollBack
  BY <1>13 DEF RollBack, PutBack, Eras, OfEra
<1>14. CASE SaveAfterEdit
  BY <1>14 DEF SaveAfterEdit, Eras, OfEra
<1>15. CASE SaveBuffer
  <2>1. (ring' = Served.ring /\ gen' = Served.gen) \/ UNCHANGED <<ring, gen>>
    BY <1>15 DEF SaveBuffer, Serve
  <2> QED
    BY <1>2, <1>15, <2>1 DEF SaveBuffer, Eras, OfEra
<1>16. ASSUME NEW save \in BOOLEAN, UndoLast(save)
       PROVE  Eras'
  <2>1. OfEra(ring', gen')
    BY <1>2, <1>16, UndoHolds DEF UndoLast, OfEra
  <2> QED
    BY <1>16, <2>1 DEF UndoLast, Eras
<1> QED
  BY <1>3, <1>4, <1>5, <1>7, <1>8, <1>11, <1>12, <1>13, <1>14, <1>15, <1>16
     DEF Next, Call

(* The steps of the ring always belong to one era. *)
THEOREM OneEra == Spec => []Eras
<1>1. Eras /\ UNCHANGED vars => Eras'
  BY DEF vars, Eras, OfEra
<1> QED
  BY <1>1, InitEras, ErasStep, TypeCorrect, PTL DEF Spec

(* Between calls no step of the undo ring predates a re-read, so a rewind  *)
(* never turns a buffer that could be saved into one that cannot           *)
(* (undo_last, Checkpoint::restore).                                       *)
THEOREM UndoStaysSavable == Spec => []RewindStaysSavable
<1>1. Eras => RewindStaysSavable
  BY DEF Eras, OfEra, RangeOf, RewindStaysSavable
<1> QED
  BY <1>1, OneEra, PTL

-----------------------------------------------------------------------------
(* A program that must not change the session does not. *)

(* "Not changed" is judged by versions before texts, and that is sound     *)
(* because versions identify text (run_value_with, report.dirty).          *)
LEMMA UnchangedKeepsText ==
  ASSUME TypeInv, EqualVersionsEqualText, guard # None,
         NEW b \in {buffer, Unwound}, ~Changed(b, guard.buf)
  PROVE  b.text = guard.buf.text
<1>1. b \in Snapshots /\ guard.buf \in Snapshots
  BY DEF Snapshots, Unwound
<1> QED
  BY <1>1 DEF Changed, EqualVersionsEqualText

(* A failed run without keep_partial, and any run of a read-only session,  *)
(* leaves the text it found (run_value_with, rollback_session).            *)
THEOREM RefusedRunsKeepText == Spec => RefusedRunKeepsText
<1> DEFINE Keeps == guard # None /\ guard' = None
                      /\ (ReadOnly \/ (FinishErr /\ ~guard.keep))
                      => buffer'.text = guard.buf.text
<1>1. ASSUME TypeInv, EqualVersionsEqualText, Next
      PROVE  Keeps
  <2> SUFFICES ASSUME guard # None, guard' = None,
                      ReadOnly \/ (FinishErr /\ ~guard.keep)
               PROVE  buffer'.text = guard.buf.text
    OBVIOUS
  <2>1. CASE FinishErr
    <3>1. Changed(Unwound, guard.buf) \/ Unwound.text = guard.buf.text
      BY <1>1, UnchangedKeepsText
    <3> QED
      BY <2>1, <3>1 DEF FinishErr, RollBackRun
  <2>2. ASSUME ReadOnly, NEW save \in BOOLEAN, FinishOk(save)
        PROVE  buffer'.text = guard.buf.text
    <3>1. Changed(buffer, guard.buf) \/ buffer.text = guard.buf.text
      BY <1>1, UnchangedKeepsText
    <3> QED
      BY <2>2, <3>1 DEF FinishOk, RollBackRun
  <2>3. ~External /\ ~Builtin
    BY DEF External, ExternalWrite, ExternalDelete, session, Builtin, Edit,
       RevertBuffer, TakeCheckpoint, RestoreCheckpoint, BeginTransaction,
       LeaveTransaction, AbortTransaction
  <2>4. ~BeginPreview /\ \A keep \in BOOLEAN : ~BeginRun(keep)
    BY <1>1, TakenIsThere DEF BeginPreview, BeginRun
  <2>5. /\ ~BeginRehearse /\ ~RollBack /\ ~SaveAfterEdit /\ ~SaveBuffer
        /\ \A save \in BOOLEAN : ~UndoLast(save)
    BY DEF BeginRehearse, RollBack, SaveAfterEdit, SaveBuffer, UndoLast
  <2> QED
    BY <1>1, <2>1, <2>2, <2>3, <2>4, <2>5 DEF Next, Call
<1>2. UNCHANGED vars => Keeps
  BY DEF vars
<1> QED
  BY <1>1, <1>2, TypeCorrect, VersionsIdentifyText, PTL
     DEF Spec, RefusedRunKeepsText

-----------------------------------------------------------------------------
(* No lost update, for a session that takes no named checkpoint. *)

(* A store matches the file when it carries its stamp; one that does may   *)
(* be saved, so it must derive from what the file derives from.            *)
Standing(s) ==
  /\ s.stamp <= clock
  /\ s.stamp = disk.stamp /\ disk.text # Absent => s.base = disk.ext

(* The buffer a call is served with stands well, and the ring with it.     *)
LEMMA ServedStanding ==
  ASSUME TypeInv, Bases, pc \in {"idle", "save"}
  PROVE  /\ Standing(Served.buf)
         /\ OfBase(Served.ring, Served.buf)
<1>1. RangeOf(<<>>) = {}
  BY DEF RangeOf
<1>2. CASE CanAutoRevert
  BY <1>1, <1>2 DEF Served, Load, Standing, OfBase, TypeInv, TypeOK
<1>3. CASE ~CanAutoRevert
  BY <1>3 DEF Served, Standing, OfBase, Bases, Snapshots
<1> QED
  BY <1>2, <1>3

(* Without checkpoints there is none to restore. *)
LEMMA NoCheckpoints ==
  ASSUME TypeInv, MaxCheckpoints = 0
  PROVE  cps = <<>> /\ RangeOf(cps) = {} /\ ~RestoreCheckpoint /\ ~TakeCheckpoint
<1>1. cps \in Seq(Checkpoint) /\ Len(cps) <= 0
  BY DEF TypeInv, TypeOK
<1>2. cps = <<>>
  BY <1>1, EmptySeq
<1> QED
  BY <1>2 DEF RangeOf, RestoreCheckpoint, TakeCheckpoint

(* The buffer a step leaves stands well towards the file it leaves. *)
LEMMA BufferStanding ==
  ASSUME TypeInv, Eras, Bases, Next, MaxCheckpoints = 0
  PROVE  Standing(buffer)'
<1>1. /\ Standing(buffer)
      /\ guard # None => Standing(guard.buf)
      /\ txn # None => Standing(txn)
      /\ mark # None => Standing(mark.buf)
  BY DEF Standing, Bases, Snapshots
<1>2. /\ clock \in Nat /\ disk \in Disk /\ disk.stamp <= clock
      /\ buffer \in Store /\ buffer.stamp \in Nat
  BY DEF TypeInv, TypeOK, Store
<1>3. ~RestoreCheckpoint /\ ~TakeCheckpoint
  BY NoCheckpoints
<1>4. ASSUME Serve, pc = "idle", UNCHANGED <<disk, clock>>
      PROVE  Standing(buffer)'
  BY <1>4, ServedStanding DEF Serve, Standing
<1>5. CASE External
  BY <1>1, <1>2, <1>5
     DEF External, ExternalWrite, ExternalDelete, session, Standing
<1>6. CASE Edit
  <2>1. PICK t \in Text : buffer' = [buffer EXCEPT !.text = t, !.ver = version']
    BY <1>6 DEF Edit
  <2>2. buffer'.stamp = buffer.stamp /\ buffer'.base = buffer.base
    BY <1>2, <2>1 DEF Store
  <2> QED
    BY <1>1, <1>6, <2>2 DEF Edit, Standing
<1>7. CASE RevertBuffer
  BY <1>2, <1>7 DEF RevertBuffer, Load, Standing
<1>8. CASE BeginTransaction \/ LeaveTransaction \/ AbortTransaction
  BY <1>1, <1>8
     DEF BeginTransaction, LeaveTransaction, AbortTransaction, Standing
<1>9. ASSUME NEW keep \in BOOLEAN, BeginRun(keep)
      PROVE  Standing(buffer)'
  BY <1>4, <1>9 DEF BeginRun
<1>10. CASE BeginRehearse \/ BeginPreview
  BY <1>4, <1>10 DEF BeginRehearse, BeginPreview
<1>11. ASSUME NEW save \in BOOLEAN, FinishOk(save)
       PROVE  Standing(buffer)'
  BY <1>1, <1>11 DEF FinishOk, RollBackRun, Standing
<1>12. CASE FinishErr
  BY <1>1, <1>12 DEF FinishErr, RollBackRun, Unwound, Standing
<1>13. CASE RollBack
  BY <1>1, <1>13 DEF RollBack, PutBack, Standing
<1>14. ASSUME NEW rebased \in BOOLEAN, SaveVisited(rebased)
       PROVE  Standing(buffer)'
  <2>1. CASE Stale(buffer)
    BY <1>1, <1>14, <2>1 DEF SaveVisited, Standing
  <2>2. CASE ~Stale(buffer)
    <3>1. /\ clock' = clock + 1
          /\ disk' = [text |-> buffer.text, stamp |-> clock', ext |-> buffer.base]
          /\ buffer' = buffer \/ buffer' = [buffer EXCEPT !.stamp = clock']
      BY <1>14, <2>2 DEF SaveVisited
    <3>2. /\ disk'.stamp = clock' /\ disk'.ext = buffer.base
          /\ buffer'.base = buffer.base
          /\ buffer'.stamp \in {buffer.stamp, clock'}
      BY <1>2, <3>1 DEF Store
    <3> QED
      BY <1>1, <1>2, <3>1, <3>2 DEF Standing
  <2> QED
    BY <2>1, <2>2
<1>15. CASE SaveAfterEdit
  BY <1>14, <1>15 DEF SaveAfterEdit
<1>16. CASE SaveBuffer
  BY <1>4, <1>14, <1>16 DEF SaveBuffer
<1>17. ASSUME NEW save \in BOOLEAN, UndoLast(save)
       PROVE  Standing(buffer)'
  <2>1. pc = "idle" /\ UNCHANGED <<disk, clock>>
    BY <1>17 DEF UndoLast
  <2>2. OfEra(Served.ring, Served.gen)
    <3>1. RangeOf(<<>>) = {}
      BY DEF RangeOf
    <3> QED
      BY <2>1, <3>1 DEF Eras, OfEra, Served
  <2>3. CASE buffer' = Served.buf
    BY <2>1, <2>3, ServedStanding DEF Standing
  <2>4. ASSUME NEW c \in RangeOf(Served.ring),
               buffer' = Restore(c, Served.buf, Served.gen)
        PROVE  Standing(buffer)'
    <3>1. c \in Checkpoint /\ c.gen = Served.gen
      BY <2>2, ServedType DEF OfEra, RangeOf
    <3>2. c.snap.base = Served.buf.base
      BY <2>1, ServedStanding DEF OfBase
    <3>3. buffer'.stamp = Served.buf.stamp /\ buffer'.base = Served.buf.base
      BY <2>4, <3>1, <3>2 DEF Restore, Checkpoint, Store
    <3> QED
      BY <2>1, <3>3, ServedStanding DEF Standing
  <2> QED
    BY <1>17, <2>3, <2>4, UndoHolds
<1> QED
  BY <1>3, <1>5, <1>6, <1>7, <1>8, <1>9, <1>10, <1>11, <1>12, <1>13, <1>15,
     <1>16, <1>17 DEF Next, Builtin, Call

(* Every snapshot a session holds is a store. *)
LEMMA SnapshotsTyped ==
  ASSUME TypeInv
  PROVE  Snapshots \subseteq Store
<1>1. /\ ring \in Seq(Checkpoint) /\ cps \in Seq(Checkpoint) /\ buffer \in Store
      /\ guard # None => guard.buf \in Store
      /\ txn # None => txn \in Store
      /\ mark # None => /\ mark.buf \in Store
                        /\ mark.ring \in Seq(Checkpoint)
                        /\ mark.cps \in Seq(Checkpoint)
  BY DEF TypeInv, TypeOK, Guard, Mark
<1>2. ASSUME NEW r \in Seq(Checkpoint), NEW c \in RangeOf(r)
      PROVE  c.snap \in Store
  <2>1. c \in Checkpoint
    BY <1>2 DEF RangeOf
  <2> QED
    BY <2>1 DEF Checkpoint
<1> QED
  BY <1>1, <1>2 DEF Snapshots

(* A step moves the file on to a new stamp, deletes it, or leaves it. *)
LEMMA FileStep ==
  ASSUME Next
  PROVE  \/ UNCHANGED <<disk, clock>>
         \/ clock' = clock + 1 /\ (disk'.stamp = clock' \/ disk'.text = Absent)
<1>1. CASE External
  BY <1>1 DEF External, ExternalWrite, ExternalDelete
<1>2. CASE Builtin
  BY <1>2 DEF Builtin, Edit, RevertBuffer, TakeCheckpoint, RestoreCheckpoint,
     BeginTransaction, LeaveTransaction, AbortTransaction
<1>3. ASSUME NEW rebased \in BOOLEAN, SaveVisited(rebased)
      PROVE  \/ UNCHANGED <<disk, clock>>
             \/ clock' = clock + 1 /\ disk'.stamp = clock'
  BY <1>3 DEF SaveVisited
<1>4. CASE SaveAfterEdit \/ SaveBuffer
  BY <1>3, <1>4 DEF SaveAfterEdit, SaveBuffer
<1>5. ASSUME NEW b \in BOOLEAN, BeginRun(b) \/ FinishOk(b) \/ UndoLast(b)
      PROVE  UNCHANGED <<disk, clock>>
  BY <1>5 DEF BeginRun, FinishOk, UndoLast
<1>6. CASE BeginRehearse \/ BeginPreview \/ FinishErr \/ RollBack
  BY <1>6 DEF BeginRehearse, BeginPreview, FinishErr, RollBack, PutBack
<1> QED
  BY <1>1, <1>2, <1>4, <1>5, <1>6 DEF Next, Call

(* A step that moves the file on leaves no older snapshot that matches it. *)
LEMMA HeldStanding ==
  ASSUME TypeInv, Bases, Next, NEW s \in Snapshots
  PROVE  Standing(s)'
<1>1. Standing(s) /\ s.stamp \in Nat /\ clock \in Nat
  <2>1. s \in Store
    BY SnapshotsTyped
  <2> QED
    BY <2>1 DEF Bases, Standing, TypeInv, TypeOK, Store
<1> QED
  BY <1>1, FileStep DEF Standing

(* The part of Bases that is about eras rather than about the file. *)
OneBase ==
  /\ pc \in {"idle", "save"} => OfBase(ring, buffer)
  /\ guard # None =>
       /\ guard.gen <= gen
       /\ OfBase(ring, guard.buf)
       /\ gen = guard.gen =>
            /\ buffer.base = guard.buf.base
            /\ txn # None => txn.base = guard.buf.base
  /\ mark # None => OfBase(mark.ring, mark.buf)

(* Nothing but a re-read of a changed file changes what the session's      *)
(* texts derive from, and that starts a new era.                           *)
LEMMA OneBaseStep ==
  ASSUME TypeInv, Eras, Bases, Next, MaxCheckpoints = 0
  PROVE  OneBase'
<1>1. /\ RangeOf(<<>>) = {}
      /\ gen \in Nat
      /\ buffer \in Store
      /\ guard # None => guard \in Guard /\ guard.gen \in Nat
      /\ OneBase
  BY DEF RangeOf, TypeInv, TypeOK, Guard, Bases, OneBase
<1>2. CASE External
  BY <1>1, <1>2
     DEF External, ExternalWrite, ExternalDelete, session, OneBase, OfBase
<1>3. CASE Edit
  <2>1. PICK t \in Text : buffer' = [buffer EXCEPT !.text = t, !.ver = version']
    BY <1>3 DEF Edit
  <2>2. buffer'.base = buffer.base
    BY <1>1, <2>1 DEF Store
  <2> QED
    BY <1>1, <1>3, <2>2 DEF Edit, OneBase, OfBase
<1>4. CASE RevertBuffer
  <2>1. CASE Stale(buffer)
    <3>1. gen' = gen + 1
      BY <1>4, <2>1 DEF RevertBuffer
    <3> QED
      BY <1>1, <1>4, <3>1 DEF RevertBuffer, OneBase, OfBase
  <2>2. CASE ~Stale(buffer)
    <3>1. buffer.base = disk.ext
      BY <1>4, <2>2 DEF RevertBuffer, Stale, Bases, Snapshots
    <3>2. buffer'.base = buffer.base /\ gen' = gen
      BY <1>4, <2>2, <3>1 DEF RevertBuffer, Load
    <3> QED
      BY <1>1, <1>4, <3>2 DEF RevertBuffer, OneBase, OfBase
  <2> QED
    BY <2>1, <2>2
<1>5. CASE BeginTransaction \/ LeaveTransaction \/ AbortTransaction
  BY <1>1, <1>5
     DEF BeginTransaction, LeaveTransaction, AbortTransaction, OneBase, OfBase
<1>6. ~RestoreCheckpoint /\ ~TakeCheckpoint
  BY NoCheckpoints
<1>7. pc = "idle" => /\ OfBase(Served.ring, Served.buf)
                     /\ guard = None /\ mark = None
                     /\ Served.gen \in Nat
  BY ServedStanding, ServedType DEF Eras
<1>8. pc # "program" => txn = None
  BY DEF Eras
<1>9. ASSUME NEW keep \in BOOLEAN, BeginRun(keep)
      PROVE  OneBase'
  <2>1. guard' # None /\ guard'.gen = Served.gen /\ guard'.buf = Served.buf
    BY <1>9, TakenIsThere DEF BeginRun
  <2> QED
    BY <1>7, <1>8, <1>9, <2>1 DEF BeginRun, Serve, OneBase, OfBase
<1>10. ASSUME TakeMark
       PROVE  mark'.buf = Served.buf /\ mark'.ring = Served.ring
  BY <1>10 DEF TakeMark
<1>11. CASE BeginRehearse
  BY <1>7, <1>10, <1>11 DEF BeginRehearse, OneBase, OfBase
<1>12. CASE BeginPreview
  <2>1. guard' # None /\ guard'.gen = Served.gen /\ guard'.buf = Served.buf
    BY <1>12, TakenIsThere DEF BeginPreview
  <2> QED
    BY <1>7, <1>8, <1>10, <1>12, <2>1 DEF BeginPreview, Serve, OneBase, OfBase
<1>13. ASSUME guard # None, NEW changed \in BOOLEAN, ring' = RingAfter(gen, changed),
              buffer' \in {buffer, Unwound}
       PROVE  OfBase(ring', buffer')
  <2>1. CASE gen # guard.gen
    BY <1>1, <1>13, <2>1, RingAfterHolds DEF OfBase
  <2>2. CASE gen = guard.gen
    <3>1. buffer'.base = guard.buf.base
      BY <1>1, <1>13, <2>2 DEF OneBase, Unwound
    <3>2. \A c \in RangeOf(ring') : c.snap.base = guard.buf.base
      BY <1>1, <1>13, RingAfterHolds DEF OneBase, OfBase
    <3> QED
      BY <3>1, <3>2 DEF OfBase
  <2> QED
    BY <2>1, <2>2
<1>14. ASSUME guard # None, RollBackRun, ring' = ring
       PROVE  OfBase(ring', buffer')
  BY <1>1, <1>14 DEF RollBackRun, OneBase, OfBase
<1>15. ASSUME NEW save \in BOOLEAN, FinishOk(save)
       PROVE  OneBase'
  <2>1. guard # None /\ guard' = None /\ UNCHANGED mark
    BY <1>15 DEF FinishOk
  <2>2. OfBase(ring', buffer')
    BY <1>13, <1>14, <1>15 DEF FinishOk, Changed
  <2> QED
    BY <1>1, <2>1, <2>2 DEF OneBase, OfBase
<1>16. CASE FinishErr
  <2>1. guard # None /\ guard' = None /\ UNCHANGED mark
    BY <1>16 DEF FinishErr
  <2>2. OfBase(ring', buffer')
    BY <1>13, <1>14, <1>16 DEF FinishErr, Changed
  <2> QED
    BY <1>1, <2>1, <2>2 DEF OneBase, OfBase
<1>17. CASE RollBack
  <2>1. mark # None /\ mark' = None /\ ring' = mark.ring /\ buffer' = mark.buf
    BY <1>17 DEF RollBack, PutBack
  <2>2. guard' = None
    BY <1>17 DEF RollBack, PutBack, Eras
  <2> QED
    BY <1>1, <2>1, <2>2 DEF OneBase, OfBase
<1>18. ASSUME NEW rebased \in BOOLEAN, SaveVisited(rebased)
       PROVE  buffer'.base = buffer.base
  BY <1>1, <1>18 DEF SaveVisited, Store
<1>19. CASE SaveAfterEdit
  <2>1. buffer'.base = buffer.base
    BY <1>18, <1>19 DEF SaveAfterEdit
  <2> QED
    BY <1>1, <1>19, <2>1 DEF SaveAfterEdit, Eras, OneBase, OfBase
<1>20. CASE SaveBuffer
  <2>1. pc = "idle" /\ UNCHANGED <<pc, guard, mark, txn>>
    BY <1>20 DEF SaveBuffer
  <2>2. OfBase(ring', buffer')
    <3>1. CASE buffer' = Served.buf /\ ring' = Served.ring
      BY <1>7, <2>1, <3>1
    <3>2. CASE buffer'.base = buffer.base /\ ring' = ring
      BY <1>1, <2>1, <3>2 DEF OneBase, OfBase
    <3> QED
      BY <1>18, <1>20, <3>1, <3>2 DEF SaveBuffer, Serve
  <2> QED
    BY <1>7, <2>1, <2>2 DEF OneBase
<1>21. ASSUME NEW save \in BOOLEAN, UndoLast(save)
       PROVE  OneBase'
  <2>1. pc = "idle" /\ UNCHANGED <<guard, mark>>
    BY <1>21 DEF UndoLast
  <2>2. RangeOf(ring') \subseteq RangeOf(Served.ring)
    BY <1>21, UndoHolds
  <2>3. buffer'.base = Served.buf.base
    <3>1. ASSUME NEW c \in RangeOf(Served.ring),
                 buffer' = Restore(c, Served.buf, Served.gen)
          PROVE  buffer'.base = Served.buf.base
      <4>1. c \in Checkpoint
        BY ServedType DEF RangeOf
      <4>2. buffer'.base = c.snap.base
        BY <3>1, <4>1 DEF Restore, Checkpoint, Store
      <4> QED
        BY <1>7, <2>1, <4>2 DEF OfBase
    <3> QED
      BY <1>21, <3>1, UndoHolds
  <2> QED
    BY <1>7, <2>1, <2>2, <2>3 DEF OneBase, OfBase
<1> QED
  BY <1>2, <1>3, <1>4, <1>5, <1>6, <1>9, <1>11, <1>12, <1>15, <1>16, <1>17,
     <1>19, <1>20, <1>21 DEF Next, Builtin, Call

(* Init and every step keep Bases. *)
LEMMA InitBases == Init => Bases
<1> SUFFICES ASSUME Init PROVE Bases
  OBVIOUS
<1>1. RangeOf(<<>>) = {}
  BY DEF RangeOf
<1>2. Snapshots = {buffer}
  BY <1>1 DEF Init, Snapshots
<1>3. buffer.stamp <= clock /\ (disk.text # Absent => buffer.base = disk.ext)
  BY DEF Init, AbsentStamp
<1> QED
  BY <1>1, <1>2, <1>3 DEF Init, Bases, OfBase

LEMMA BasesStep ==
  ASSUME TypeInv, Eras, Bases, Next, MaxCheckpoints = 0
  PROVE  Bases'
<1>1. \A s \in Snapshots' : Standing(s)'
  BY SnapshotsGrow, BufferStanding, HeldStanding DEF Standing
<1> QED
  BY <1>1, OneBaseStep DEF Bases, OneBase, Standing

(* A session that takes no named checkpoint never overwrites outside text  *)
(* it has not read, whatever it runs, rehearses, rolls back, re-reads and  *)
(* rewinds (save_to, store_is_stale, Checkpoint::restore).  With named     *)
(* checkpoints the code does: see SessionLostUpdate.cfg.                   *)
THEOREM NoLostUpdateWithoutCheckpoints ==
  ASSUME MaxCheckpoints = 0
  PROVE  Spec => NoLostUpdate
<1> DEFINE Keeps == disk'.text # disk.text /\ disk.text # Absent /\ ~External
                      => buffer.base = disk.ext
<1>1. Bases /\ UNCHANGED vars => Bases'
  BY DEF vars, Bases, OfBase, Snapshots
<1>2. TypeInv /\ Eras /\ Bases /\ Next => Bases'
  BY BasesStep
<1>3. ASSUME TypeInv, Bases, Next
      PROVE  Keeps
  <2>1. ASSUME NEW rebased \in BOOLEAN, SaveVisited(rebased)
        PROVE  Keeps
    BY <1>3, <2>1 DEF SaveVisited, Stale, Bases, Snapshots
  <2>2. CASE SaveAfterEdit \/ SaveBuffer
    BY <2>1, <2>2 DEF SaveAfterEdit, SaveBuffer
  <2>3. CASE Builtin
    BY <2>3 DEF Builtin, Edit, RevertBuffer, TakeCheckpoint, RestoreCheckpoint,
       BeginTransaction, LeaveTransaction, AbortTransaction
  <2>4. ASSUME NEW b \in BOOLEAN, BeginRun(b) \/ FinishOk(b) \/ UndoLast(b)
        PROVE  Keeps
    BY <2>4 DEF BeginRun, FinishOk, UndoLast
  <2>5. CASE BeginRehearse \/ BeginPreview \/ FinishErr \/ RollBack
    BY <2>5 DEF BeginRehearse, BeginPreview, FinishErr, RollBack, PutBack
  <2> QED
    BY <1>3, <2>2, <2>3, <2>4, <2>5 DEF Next, Call
<1>4. UNCHANGED vars => Keeps
  BY DEF vars
<1> QED
  BY <1>1, <1>2, <1>3, <1>4, InitBases, TypeCorrect, OneEra, PTL DEF Spec, NoLostUpdate

-----------------------------------------------------------------------------
(* A clean buffer holds what is on the disk. *)

(* A store under some stamp, judged by a baseline: what reads as           *)
(* unmodified and not stale is what the file holds.                        *)
Truthful(s, baseline, stamp) ==
  stamp = disk.stamp /\ disk.text # Absent /\ s.ver = baseline => s.text = disk.text

AllTruthful(r, baseline, stamp) ==
  \A c \in RangeOf(r) : Truthful(c.snap, baseline, stamp)

(* Whatever can be put back in the buffer is truthful with the baseline    *)
(* and the stamp it would come back under.  A program that re-read nothing *)
(* has the baseline and the stamp it began with; one that did has a        *)
(* baseline no older store can match.                                      *)
Truths ==
  /\ Truthful(buffer, synced, buffer.stamp)
  /\ txn # None => Truthful(txn, synced, txn.stamp)
  /\ pc \in {"idle", "save"} => AllTruthful(ring, synced, buffer.stamp)
  /\ guard # None =>
       /\ Truthful(guard.buf, guard.synced, guard.buf.stamp)
       /\ AllTruthful(ring, guard.synced, guard.buf.stamp)
       /\ guard.buf.ver = synced => synced = guard.synced
       /\ \A c \in RangeOf(ring) : c.snap.ver = synced => synced = guard.synced
       /\ synced = guard.synced => gen = guard.gen
       /\ gen = guard.gen => /\ buffer.stamp = guard.buf.stamp
                             /\ txn # None => txn.stamp = guard.buf.stamp
  /\ mark # None => /\ Truthful(mark.buf, mark.synced, mark.buf.stamp)
                    /\ AllTruthful(mark.ring, mark.synced, mark.buf.stamp)

(* Every stamp in the session was given out. *)
LEMMA StampsGiven ==
  ASSUME TypeInv, Bases
  PROVE  \A s \in Snapshots : s \in Store /\ s.stamp \in Nat /\ s.stamp <= clock
BY SnapshotsTyped DEF Bases, Store

(* The buffer a call is served with, and the ring with it. *)
LEMMA ServedTruthful ==
  ASSUME TypeInv, Truths, pc = "idle"
  PROVE  /\ Truthful(Served.buf, Served.synced, Served.buf.stamp)
         /\ AllTruthful(Served.ring, Served.synced, Served.buf.stamp)
<1>1. RangeOf(<<>>) = {}
  BY DEF RangeOf
<1>2. CASE CanAutoRevert
  <2>1. /\ Served.buf = Load /\ Served.ring = <<>>
    BY <1>2 DEF Served
  <2>2. Load.text = disk.text
    BY DEF Load
  <2> QED
    BY <1>1, <2>1, <2>2 DEF Truthful, AllTruthful
<1>3. CASE ~CanAutoRevert
  BY <1>3 DEF Served, Truths
<1> QED
  BY <1>2, <1>3

(* The file moves on under a session: nothing held matches it any more.    *)
LEMMA OutsideTruthful ==
  ASSUME TypeInv, Bases, Truths, External
  PROVE  Truths'
<1>1. /\ UNCHANGED session
      /\ clock' = clock + 1 /\ (disk'.stamp = clock' \/ disk'.text = Absent)
  BY DEF External, ExternalWrite, ExternalDelete
<1>2. ASSUME NEW s, NEW y, NEW b \in Snapshots, Truthful(s, y, b.stamp)
      PROVE  Truthful(s, y, b.stamp)'
  <2>1. b.stamp \in Nat /\ b.stamp <= clock
    BY StampsGiven
  <2>2. b.stamp # disk'.stamp \/ disk'.text = Absent
    BY <1>1, <2>1 DEF TypeInv, TypeOK
  <2> QED
    BY <2>2 DEF Truthful
<1> QED
  BY <1>1, <1>2 DEF Truths, AllTruthful, Truthful, session, Snapshots

(* A program's builtins: a new version matches no baseline, a re-read      *)
(* makes a baseline of its own, and a transaction keeps its stamp.         *)
LEMMA BuiltinTruthful ==
  ASSUME TypeInv, Eras, Bases, Truths, Builtin, MaxCheckpoints = 0
  PROVE  Truths'
<1>1. /\ version \in Nat /\ synced \in 1..version /\ gen \in Nat
      /\ \A s \in Snapshots : s.ver \in 1..version
      /\ guard # None => guard.synced \in 1..version /\ guard.gen \in Nat /\ guard.gen <= gen
      /\ buffer \in Store
  BY DEF TypeInv, TypeOK, VersionsGiven, Bases, Guard
<1>2. ~RestoreCheckpoint /\ ~TakeCheckpoint
  BY NoCheckpoints
<1>3. CASE Edit
  <2>1. PICK t \in Text : buffer' = [buffer EXCEPT !.text = t, !.ver = version']
    BY <1>3 DEF Edit
  <2>2. /\ version' = version + 1 /\ pc = "program"
        /\ UNCHANGED <<disk, clock, synced, gen, ring, cps, pc, guard, mark, txn>>
    BY <1>3 DEF Edit
  <2>3. buffer'.stamp = buffer.stamp /\ buffer'.ver = version'
    BY <1>1, <2>1 DEF Store
  <2>4. buffer'.ver # synced'
    BY <1>1, <2>2, <2>3
  <2> QED
    BY <1>1, <2>2, <2>3, <2>4 DEF Truths, AllTruthful, Truthful
<1>4. CASE RevertBuffer
  <2>1. /\ version' = version + 1 /\ synced' = version' /\ pc = "program"
        /\ gen' = IF Stale(buffer) THEN gen + 1 ELSE gen
        /\ buffer' = Load
        /\ UNCHANGED <<disk, clock, ring, cps, pc, guard, mark, txn>>
    BY <1>4 DEF RevertBuffer
  <2>2. buffer'.text = disk'.text /\ buffer'.stamp = disk.stamp
    BY <2>1 DEF Load
  <2>3. synced' = version + 1 /\ \A s \in Snapshots : s.ver # synced'
    BY <1>1, <2>1
  <2>4. /\ txn # None => txn \in Snapshots
        /\ guard # None => guard.buf \in Snapshots
        /\ \A c \in RangeOf(ring) : c.snap \in Snapshots
    BY DEF Snapshots
  <2>5. guard # None => synced' # guard.synced
    BY <1>1, <2>3
  <2>6. guard # None /\ gen' = guard.gen => buffer'.stamp = buffer.stamp /\ gen = guard.gen
    BY <1>1, <2>1, <2>2 DEF Stale
  <2> QED
    BY <1>1, <2>1, <2>2, <2>3, <2>4, <2>5, <2>6 DEF Truths, AllTruthful, Truthful
<1>5. CASE BeginTransaction \/ LeaveTransaction \/ AbortTransaction
  BY <1>5 DEF BeginTransaction, LeaveTransaction, AbortTransaction,
     Truths, AllTruthful, Truthful
<1> QED
  BY <1>2, <1>3, <1>4, <1>5 DEF Builtin

(* A call begins with a guard, a mark or both of what it was served with.  *)
LEMMA BeginTruthful ==
  ASSUME TypeInv, Eras, Bases, Truths,
         BeginRehearse \/ BeginPreview \/ \E keep \in BOOLEAN : BeginRun(keep)
  PROVE  Truths'
<1>1. /\ pc = "idle" /\ pc' = "program" /\ UNCHANGED <<disk, clock>> /\ txn' = txn
      /\ buffer' = Served.buf /\ synced' = Served.synced /\ gen' = Served.gen
      /\ ring' = Served.ring
  BY DEF BeginRehearse, BeginPreview, BeginRun, Serve
<1>2. /\ Truthful(Served.buf, Served.synced, Served.buf.stamp)
      /\ AllTruthful(Served.ring, Served.synced, Served.buf.stamp)
  BY <1>1, ServedTruthful
<1>3. txn' = None /\ guard = None /\ mark = None
  BY <1>1 DEF Eras
<1>4. /\ guard' # None => /\ guard'.buf = Served.buf /\ guard'.synced = Served.synced
                           /\ guard'.gen = Served.gen
      /\ mark' # None => /\ mark'.buf = Served.buf /\ mark'.synced = Served.synced
                          /\ mark'.ring = Served.ring
  BY <1>3 DEF BeginRehearse, BeginPreview, BeginRun, TakeMark
<1> QED
  BY <1>1, <1>2, <1>3, <1>4 DEF Truths, AllTruthful, Truthful

(* What the program leaves, kept or rolled back. *)
LEMMA FinishTruthful ==
  ASSUME TypeInv, EqualVersionsEqualText, Truths,
         FinishErr \/ \E save \in BOOLEAN : FinishOk(save)
  PROVE  Truths'
<1>1. /\ guard # None /\ guard' = None /\ txn' = None
      /\ UNCHANGED <<disk, clock, version, cps, mark>>
  BY DEF FinishErr, FinishOk
<1>2. RangeOf(<<>>) = {}
  BY DEF RangeOf
<1>3. /\ \A c \in RangeOf(ring) : c.snap \in Snapshots
      /\ buffer \in Snapshots /\ guard.buf \in Snapshots
  BY <1>1 DEF Snapshots
<1> SUFFICES /\ Truthful(buffer, synced, buffer.stamp)'
             /\ AllTruthful(ring, synced, buffer.stamp)'
  BY <1>1 DEF Truths, Truthful, AllTruthful
<1>4. CASE RollBackRun /\ ring' = ring
  <2>1. buffer' = guard.buf /\ synced' = guard.synced
    BY <1>1, <1>4 DEF RollBackRun, Truths
  <2> QED
    BY <1>1, <1>4, <2>1 DEF Truths, Truthful, AllTruthful
<1>5. ASSUME NEW changed \in BOOLEAN, ring' = RingAfter(gen, changed),
             buffer' \in {buffer, Unwound}, synced' = synced
      PROVE  /\ Truthful(buffer, synced, buffer.stamp)'
             /\ AllTruthful(ring, synced, buffer.stamp)'
  <2>1. Truthful(buffer, synced, buffer.stamp)'
    BY <1>1, <1>5 DEF Truths, Truthful, Unwound
  <2>2. CASE gen # guard.gen
    BY <1>1, <1>2, <1>5, <2>1, <2>2, RingAfterHolds DEF AllTruthful
  <2>3. CASE gen = guard.gen
    <3>1. buffer'.stamp = guard.buf.stamp
      BY <1>1, <1>5, <2>3 DEF Truths, Unwound
    <3>2. \A c \in RangeOf(ring') : Truthful(c.snap, synced, guard.buf.stamp)
      <4> SUFFICES ASSUME NEW c \in RangeOf(ring')
                   PROVE  Truthful(c.snap, synced, guard.buf.stamp)
        OBVIOUS
      <4>1. c \in RangeOf(ring) \/ c.snap = guard.buf
        BY <1>1, <1>5, RingAfterHolds
      <4> QED
        BY <1>1, <4>1 DEF Truths, Truthful, AllTruthful
    <3> QED
      BY <1>1, <1>5, <2>1, <3>1, <3>2 DEF Truthful, AllTruthful
  <2> QED
    BY <2>2, <2>3
<1>6. CASE FinishErr
  BY <1>4, <1>5, <1>6 DEF FinishErr, Changed
<1>7. ASSUME NEW save \in BOOLEAN, FinishOk(save)
      PROVE  /\ Truthful(buffer, synced, buffer.stamp)'
             /\ AllTruthful(ring, synced, buffer.stamp)'
  <2> DEFINE changed == Changed(buffer, guard.buf)
  <2>1. \/ RollBackRun /\ ring' = ring
        \/ /\ ring' = RingAfter(gen, changed) /\ UNCHANGED <<buffer, gen>>
           /\ \/ synced' = synced
              \/ /\ synced' = buffer.ver /\ ~changed
                 /\ guard.buf.ver = guard.synced /\ synced = guard.synced
    BY <1>7 DEF FinishOk
  <2>2. changed \in BOOLEAN
    BY DEF Changed
  <2>3. CASE /\ ring' = RingAfter(gen, changed) /\ UNCHANGED <<buffer, gen>>
             /\ synced' = buffer.ver /\ ~changed
             /\ guard.buf.ver = guard.synced /\ synced = guard.synced
    <3>1. gen = guard.gen /\ buffer.stamp = guard.buf.stamp
      BY <1>1, <2>3 DEF Truths
    <3>2. ring' = ring
      BY <2>3, <3>1 DEF RingAfter
    <3>3. buffer.text = guard.buf.text
      BY <1>3, <2>3 DEF Changed, EqualVersionsEqualText
    <3>4. buffer.stamp = disk.stamp /\ disk.text # Absent => buffer.text = disk.text
      BY <1>1, <2>3, <3>1, <3>3 DEF Truths, Truthful
    <3>5. \A c \in RangeOf(ring) : c.snap.ver = buffer.ver => c.snap.text = buffer.text
      BY <1>3 DEF EqualVersionsEqualText
    <3> QED
      BY <1>1, <2>3, <3>2, <3>4, <3>5 DEF Truthful, AllTruthful
  <2> HIDE DEF changed
  <2> QED
    BY <1>4, <1>5, <2>1, <2>2, <2>3
<1> QED
  BY <1>6, <1>7

(* A save makes the buffer's version the baseline, and its text the file's. *)
LEMMA SaveTruthful ==
  ASSUME TypeInv, EqualVersionsEqualText, Eras, Bases, Truths,
         pc \in {"idle", "save"}, NEW rebased \in BOOLEAN, SaveVisited(rebased),
         UNCHANGED <<ring, guard, mark, txn>>
  PROVE  Truths'
<1>1. guard' = None /\ mark' = None /\ txn' = None
  BY DEF Eras
<1> SUFFICES /\ Truthful(buffer, synced, buffer.stamp)'
             /\ AllTruthful(ring, synced, buffer.stamp)'
  BY <1>1 DEF Truths
<1>2. CASE Stale(buffer)
  BY <1>2 DEF SaveVisited, Truths, Truthful, AllTruthful
<1>3. CASE ~Stale(buffer)
  <2>1. /\ disk' = [text |-> buffer.text, stamp |-> clock', ext |-> buffer.base]
        /\ buffer' = IF rebased THEN [buffer EXCEPT !.stamp = clock'] ELSE buffer
        /\ synced' = buffer.ver
    BY <1>3 DEF SaveVisited
  <2>2. buffer \in Store
    BY DEF TypeInv, TypeOK
  <2>3. buffer'.ver = buffer.ver /\ buffer'.text = buffer.text /\ disk'.text = buffer.text
    BY <2>1, <2>2 DEF Store
  <2>4. \A c \in RangeOf(ring) : c.snap.ver = buffer.ver => c.snap.text = buffer.text
    BY DEF EqualVersionsEqualText, Snapshots
  <2> QED
    BY <2>1, <2>3, <2>4 DEF Truthful, AllTruthful
<1> QED
  BY <1>2, <1>3

(* A rewind brings a step back under the stamp it is truthful with.        *)
LEMMA UndoTruthful ==
  ASSUME TypeInv, Eras, Truths, NEW save \in BOOLEAN, UndoLast(save)
  PROVE  Truths'
<1>1. /\ pc = "idle" /\ synced' = Served.synced /\ guard' = None /\ mark' = None
      /\ txn' = None /\ UNCHANGED <<disk, clock>>
  BY DEF UndoLast, Eras
<1>2. /\ Truthful(Served.buf, Served.synced, Served.buf.stamp)
      /\ AllTruthful(Served.ring, Served.synced, Served.buf.stamp)
  BY <1>1, ServedTruthful
<1>3. OfEra(Served.ring, Served.gen)
  <2>1. RangeOf(<<>>) = {}
    BY DEF RangeOf
  <2> QED
    BY <1>1, <2>1 DEF Eras, OfEra, Served
<1>4. RangeOf(ring') \subseteq RangeOf(Served.ring)
  BY UndoHolds
<1>5. /\ buffer'.stamp = Served.buf.stamp
      /\ Truthful(buffer', Served.synced, Served.buf.stamp)
  <2>1. CASE buffer' = Served.buf
    BY <1>2, <2>1
  <2>2. ASSUME NEW c \in RangeOf(Served.ring), buffer' = Restore(c, Served.buf, Served.gen)
        PROVE  /\ buffer'.stamp = Served.buf.stamp
               /\ Truthful(buffer', Served.synced, Served.buf.stamp)
    <3>1. c \in Checkpoint /\ c.gen = Served.gen
      BY <1>3, ServedType DEF OfEra, RangeOf
    <3>2. /\ buffer'.stamp = Served.buf.stamp /\ buffer'.ver = c.snap.ver
          /\ buffer'.text = c.snap.text
      BY <2>2, <3>1 DEF Restore, Checkpoint, Store
    <3> QED
      BY <1>2, <3>2 DEF AllTruthful, Truthful
  <2> QED
    BY <2>1, <2>2, UndoHolds
<1> QED
  BY <1>1, <1>2, <1>4, <1>5 DEF Truths, Truthful, AllTruthful

LEMMA TruthsStep ==
  ASSUME TypeInv, EqualVersionsEqualText, Eras, Bases, Truths, Next, MaxCheckpoints = 0
  PROVE  Truths'
<1>1. CASE RollBack
  <2>1. /\ buffer' = mark.buf /\ synced' = mark.synced /\ ring' = mark.ring
        /\ mark # None /\ mark' = None /\ guard' = None /\ txn' = None
        /\ UNCHANGED <<disk, clock>>
    BY <1>1 DEF RollBack, PutBack, Eras
  <2> QED
    BY <2>1 DEF Truths, Truthful, AllTruthful
<1>2. CASE SaveAfterEdit
  BY <1>2, SaveTruthful DEF SaveAfterEdit
<1>3. CASE SaveBuffer
  <2>1. /\ pc = "idle" /\ UNCHANGED <<pc, guard, mark, txn>>
        /\ \/ Serve /\ ring' = Served.ring /\ UNCHANGED <<disk, clock>>
           \/ UNCHANGED ring /\ \E rebased \in BOOLEAN : SaveVisited(rebased)
    BY <1>3 DEF SaveBuffer
  <2>2. CASE Serve /\ ring' = Served.ring /\ UNCHANGED <<disk, clock>>
    <3>1. buffer' = Served.buf /\ synced' = Served.synced
      BY <2>2 DEF Serve
    <3>2. guard' = None /\ mark' = None /\ txn' = None
      BY <2>1 DEF Eras
    <3> QED
      BY <2>1, <2>2, <3>1, <3>2, ServedTruthful DEF Truths, Truthful, AllTruthful
  <2> QED
    BY <2>1, <2>2, SaveTruthful
<1> QED
  BY <1>1, <1>2, <1>3, OutsideTruthful, BuiltinTruthful, BeginTruthful, FinishTruthful,
     UndoTruthful DEF Next, Call

(* A session that takes no named checkpoint is clean and not stale only    *)
(* when its buffer is what the file holds, so eviction, close_session and  *)
(* the auto-revert throw away nothing (is_modified, store_is_stale).  With *)
(* named checkpoints it does not hold: a checkpoint of a failed run keeps  *)
(* a generation that is given out again.                                   *)
THEOREM CleanIsOnDisk ==
  ASSUME MaxCheckpoints = 0
  PROVE  Spec => []CleanMatchesDisk
<1>1. Init => Truths
  <2>1. RangeOf(<<>>) = {}
    BY DEF RangeOf
  <2> QED
    BY <2>1 DEF Init, Truths, Truthful, AllTruthful
<1>2. Truths /\ UNCHANGED vars => Truths'
  BY DEF vars, Truths, Truthful, AllTruthful
<1>3. TypeInv /\ EqualVersionsEqualText /\ Eras /\ Bases /\ Truths /\ Next => Truths'
  BY TruthsStep
<1>4. TypeInv /\ Eras /\ Bases /\ Next => Bases'
  BY BasesStep
<1>5. Bases /\ UNCHANGED vars => Bases'
  BY DEF vars, Bases, OfBase, Snapshots
<1>6. Truths => CleanMatchesDisk
  BY DEF Truths, Truthful, CleanMatchesDisk, Modified, Stale
<1> QED
  BY <1>1, <1>2, <1>3, <1>4, <1>5, <1>6, InitBases, TypeCorrect, OneEra,
     VersionsIdentifyText, PTL DEF Spec

-----------------------------------------------------------------------------
(* A rehearsal leaves no trace. *)

(* The checkpoints there were when the rehearsal began are still the first *)
(* ones: a program only adds to them.                                      *)
MarkKept ==
  mark # None => \A i \in 1..Len(mark.cps) : cps[i] = mark.cps[i]

LEMMA MarkKeptStep ==
  ASSUME TypeInv, Eras, MarkKept, Next
  PROVE  MarkKept'
<1>1. cps \in Seq(Checkpoint)
      /\ (mark # None => /\ mark.cps \in Seq(Checkpoint)
                         /\ Len(mark.cps) \in Nat /\ Len(mark.cps) <= Len(cps))
  BY DEF TypeInv, TypeOK, VersionsGiven, Mark
<1>2. CASE UNCHANGED <<cps, mark>>
  BY <1>2 DEF MarkKept
<1>3. CASE mark' = None
  BY <1>3 DEF MarkKept
<1>4. CASE BeginRehearse \/ BeginPreview
  <2>1. mark'.cps = cps /\ cps' = cps
    BY <1>4 DEF BeginRehearse, BeginPreview, TakeMark
  <2> QED
    BY <2>1 DEF MarkKept
<1>5. CASE TakeCheckpoint
  <2> DEFINE c == Capture(buffer, gen)
  <2>1. mark' = mark /\ cps' = Append(cps, c)
    BY <1>5 DEF TakeCheckpoint
  <2>2. c \in Checkpoint
    BY DEF Capture, Checkpoint, TypeInv, TypeOK
  <2> HIDE DEF c
  <2>3. \A i \in 1..Len(cps) : cps'[i] = cps[i]
    BY <1>1, <2>1, <2>2, AppendProperties
  <2>4. mark # None => \A i \in 1..Len(mark.cps) : i \in 1..Len(cps)
    BY <1>1
  <2> QED
    BY <2>1, <2>3, <2>4 DEF MarkKept
<1>6. CASE Builtin /\ ~TakeCheckpoint
  BY <1>2, <1>6 DEF Builtin, Edit, RevertBuffer, RestoreCheckpoint,
     BeginTransaction, LeaveTransaction, AbortTransaction
<1>7. CASE External
  BY <1>2, <1>7 DEF External, ExternalWrite, ExternalDelete, session
<1>8. ASSUME NEW b \in BOOLEAN, BeginRun(b) \/ FinishOk(b) \/ UndoLast(b)
      PROVE  UNCHANGED <<cps, mark>>
  BY <1>8 DEF BeginRun, FinishOk, UndoLast
<1>9. CASE FinishErr \/ SaveAfterEdit \/ SaveBuffer
  BY <1>2, <1>9 DEF FinishErr, SaveAfterEdit, SaveBuffer
<1>10. CASE RollBack
  BY <1>3, <1>10 DEF RollBack
<1> QED
  BY <1>2, <1>4, <1>5, <1>6, <1>7, <1>8, <1>9, <1>10 DEF Next, Call

(* Whatever a rehearsed program did, roll_back leaves the checkpoints and  *)
(* the undo ring of its beginning, each step restoring to what it restored *)
(* to, for any number of checkpoints.                                      *)
THEOREM RehearsalsLeaveNoTrace == Spec => RehearsalLeavesNoTrace
<1> DEFINE NoTrace ==
      RollBack =>
       /\ cps' = mark.cps /\ ring' = mark.ring
       /\ \A c \in RangeOf(cps') \cup RangeOf(ring') :
            Restore(c, buffer', gen') = Restore(c, mark.buf, mark.gen)
       /\ (buffer'.ver = synced') = (mark.buf.ver = mark.synced)
<1>1. Init => MarkKept
  BY DEF Init, MarkKept
<1>2. MarkKept /\ UNCHANGED vars => MarkKept'
  BY DEF MarkKept, vars
<1>3. TypeInv /\ Eras /\ MarkKept /\ Next => MarkKept'
  BY MarkKeptStep
<1>4. TypeInv /\ MarkKept => NoTrace
  <2> SUFFICES ASSUME TypeInv, MarkKept, RollBack
               PROVE  /\ cps' = mark.cps
                      /\ ring' = mark.ring /\ buffer' = mark.buf /\ gen' = mark.gen
                      /\ synced' = mark.synced
    OBVIOUS
  <2>1. /\ mark # None /\ cps' = SubSeq(cps, 1, Len(mark.cps))
        /\ ring' = mark.ring /\ buffer' = mark.buf /\ gen' = mark.gen
        /\ synced' = mark.synced
    BY DEF RollBack, PutBack
  <2>2. /\ cps \in Seq(Checkpoint) /\ mark.cps \in Seq(Checkpoint)
        /\ Len(mark.cps) \in Nat /\ Len(mark.cps) <= Len(cps)
    BY <2>1 DEF TypeInv, TypeOK, VersionsGiven, Mark
  <2>3. /\ cps' \in Seq(Checkpoint) /\ Len(cps') = Len(mark.cps)
        /\ \A i \in 1..Len(mark.cps) : cps'[i] = cps[i]
    BY <2>1, <2>2, PrefixHolds
  <2>4. \A i \in 1..Len(mark.cps) : cps'[i] = mark.cps[i]
    BY <2>1, <2>3 DEF MarkKept
  <2>5. cps' = mark.cps
    BY <2>2, <2>3, <2>4, SeqEqual
  <2> QED
    BY <2>1, <2>5
<1> QED
  BY <1>1, <1>2, <1>3, <1>4, TypeCorrect, OneEra, PTL DEF Spec, RehearsalLeavesNoTrace
=============================================================================
