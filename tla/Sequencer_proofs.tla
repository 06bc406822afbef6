-------------------------- MODULE Sequencer_proofs --------------------------
(***************************************************************************)
(* What holds of the history sequencer for every plan, every number of     *)
(* operations and every history: the user's uncommitted work stays, and so *)
(* do other processes' commits.                                            *)
(*                                                                         *)
(* The argument for the work: an operation that parked it has it on the    *)
(* ref until restore_autostash, whichever process carries the operation    *)
(* on, for the state in memory and the state in the file agree about it;   *)
(* and once HEAD is back on the branch, index and worktree are the         *)
(* branch's.  For the commits: the operation's own tip is the backup's for *)
(* as long as it lasts, and HEAD is detached until nothing is left to do,  *)
(* so what skip and continue record goes to no branch.                     *)
(***************************************************************************)
EXTENDS Sequencer, TLAPS

(* What the state of an operation is made of. *)
Fields == {"orig", "onto", "current", "next", "steps", "mode", "editing",
           "stash", "mark"}

IsOperation(s) == DOMAIN s = Fields

(* Work an operation says it parked is on the ref. *)
OnRef(s) == s.stash => parked \in SUBSET Work

(* HEAD is on the branch, and nothing but the user's file differs from it. *)
BackOnBranch ==
  /\ head = None
  /\ index = Tree(branch)
  /\ wt \ Work = index \ Work

InMemory ==
  /\ pc # "idle" => IsOperation(st) /\ OnRef(st)
  /\ pc = "reattach" => branch = st.current
  /\ pc \in {"others", "forget", "restore"} => BackOnBranch
  /\ pc = "restore" => saved = None

InFile == saved \notin {None, Corrupt} => IsOperation(saved) /\ OnRef(saved)

Inv == InMemory /\ InFile

-----------------------------------------------------------------------------
(* States that follow from one another carry the same parked work.         *)
SameStash(s, t) == IsOperation(t) /\ t.stash = s.stash

LEMMA FilledKeeps ==
  ASSUME NEW s, IsOperation(s)
  PROVE  SameStash(s, Filled(s)) /\ Filled(s).current = s.current
BY DEF IsOperation, Fields, Filled, SameStash

LEMMA ExceptKeeps ==
  ASSUME NEW s, IsOperation(s), NEW a, NEW b, NEW c
  PROVE  /\ SameStash(s, [s EXCEPT !.next = a])
         /\ SameStash(s, [s EXCEPT !.editing = a])
         /\ SameStash(s, [s EXCEPT !.current = a, !.editing = b])
         /\ SameStash(s, [s EXCEPT !.current = a, !.next = b, !.editing = c])
BY DEF IsOperation, Fields, SameStash

(* hard_reset_keeping_autostash makes index and worktree the commit's.     *)
LEMMA HardResetHolds ==
  ASSUME NEW s, NEW commit, HardReset(s, commit)
  PROVE  /\ index' = Tree(commit)
         /\ wt' \ Work = index' \ Work
         /\ s.stash => WorkIn(wt') = WorkIn(wt)
<1>1. CASE s.stash
  <2>1. wt' = (Tree(commit) \ Work) \cup (wt \cap Work) /\ index' = Tree(commit)
    BY <1>1 DEF HardReset, WithWorkOf, WorkIn
  <2> QED
    BY <2>1 DEF WorkIn
<1>2. CASE ~s.stash
  BY <1>2 DEF HardReset
<1> QED
  BY <1>1, <1>2

-----------------------------------------------------------------------------
(* The invariant. *)

LEMMA BeginHolds ==
  ASSUME NEW onto, NEW steps, NEW mode, NEW mark, Begin(onto, steps, mode, mark),
         saved = None
  PROVE  Inv'
<1> DEFINE dirty == WorkIn(wt) # WorkIn(Tree(branch))
           s == [orig |-> branch, onto |-> onto, current |-> onto, next |-> 0,
                 steps |-> steps, mode |-> mode, editing |-> FALSE,
                 stash |-> dirty, mark |-> mark]
<1>1. /\ pc' = "detach" /\ st' = s /\ saved' = None
      /\ parked' = IF dirty THEN WorkIn(wt) ELSE parked
  BY DEF Begin, Go
<1>2. IsOperation(s) /\ s.stash = dirty
  BY DEF IsOperation, Fields
<1> HIDE DEF s
<1>3. OnRef(st)'
  BY <1>1, <1>2 DEF OnRef, WorkIn
<1> QED
  BY <1>1, <1>2, <1>3 DEF Inv, InMemory, InFile

(* A step that leaves the ref alone and goes on with the same operation, or *)
(* returns.                                                                 *)
LEMMA GoesOn ==
  ASSUME Inv, parked' = parked,
         \/ saved' = saved
         \/ saved' \in {None, Corrupt}
         \/ IsOperation(saved') /\ OnRef(saved'),
         \/ Return
         \/ /\ IsOperation(st') /\ OnRef(st')
            /\ pc' \in {"detach", "clean", "save", "drive", "land", "record", "skip"}
  PROVE  Inv'
<1>1. InFile'
  BY DEF Inv, InFile, OnRef
<1>2. InMemory'
  BY DEF Return, InMemory, OnRef
<1> QED
  BY <1>1, <1>2 DEF Inv

LEMMA CallHolds ==
  ASSUME Inv, Call
  PROVE  Inv'
<1>1. CASE Detach \/ Clean \/ SaveState
  BY <1>1, GoesOn DEF Detach, Clean, SaveState, Go, Save, Inv, InMemory
<1>2. CASE DropStep
  <2> DEFINE s == [Filled(st) EXCEPT !.next = st.next + 1]
  <2>1. pc = "drive" /\ saved' = s /\ pc' = "drive" /\ st' = s /\ parked' = parked
    BY <1>2 DEF DropStep, Save, Go
  <2>2. IsOperation(s) /\ OnRef(s)
    <3>1. IsOperation(st) /\ OnRef(st)
      BY <2>1 DEF Inv, InMemory
    <3> QED
      BY <3>1, FilledKeeps, ExceptKeeps DEF SameStash, OnRef
  <2> QED
    BY <2>1, <2>2, GoesOn
<1>3. CASE Pick
  <2>1. /\ pc = "drive" /\ parked' = parked
        /\ \/ saved' = saved /\ pc' = "land" /\ st' = Filled(st)
           \/ saved' = Filled(st) /\ Return
    BY <1>3 DEF Pick, Save, Go
  <2>2. IsOperation(Filled(st)) /\ OnRef(Filled(st))
    BY <2>1, FilledKeeps DEF Inv, InMemory, SameStash, OnRef
  <2> QED
    BY <2>1, <2>2, GoesOn
<1>4. CASE Land
  BY <1>4, GoesOn DEF Land, Go, Inv, InMemory
<1>5. CASE Record
  <2> DEFINE s == [st EXCEPT !.current = head, !.next = st.next + 1,
                             !.editing = Step(st).action = "edit"]
  <2>1. /\ pc = "record" /\ saved' = s /\ parked' = parked
        /\ Return \/ (pc' = "drive" /\ st' = s)
    BY <1>5 DEF Record, Save, Go
  <2>2. IsOperation(s) /\ OnRef(s)
    <3>1. IsOperation(st) /\ OnRef(st)
      BY <2>1 DEF Inv, InMemory
    <3>2. SameStash(st, s)
      BY <3>1, ExceptKeeps
    <3> QED
      BY <3>1, <3>2 DEF SameStash, OnRef
  <2> QED
    BY <2>1, <2>2, GoesOn
<1>6. CASE LandBranch
  <2>1. /\ pc = "drive" /\ UNCHANGED <<saved, parked>>
        /\ Return \/ (branch' = st.current /\ pc' = "reattach" /\ st' = Filled(st))
    BY <1>6 DEF LandBranch, Go
  <2>2. /\ IsOperation(Filled(st)) /\ OnRef(Filled(st))
        /\ Filled(st).current = st.current
    BY <2>1, FilledKeeps DEF Inv, InMemory, SameStash, OnRef
  <2>3. CASE Return
    BY <2>1, <2>3, GoesOn
  <2>4. CASE branch' = st.current /\ pc' = "reattach" /\ st' = Filled(st)
    BY <2>1, <2>2, <2>4 DEF Inv, InMemory, InFile, OnRef
  <2> QED
    BY <2>1, <2>3, <2>4
<1>7. CASE Reattach
  <2>1. /\ pc = "reattach" /\ head' = None /\ HardReset(st, st.current)
        /\ pc' = "others" /\ st' = st /\ UNCHANGED <<branch, parked, saved>>
    BY <1>7 DEF Reattach, Go, Refs
  <2> QED
    BY <2>1, HardResetHolds DEF Inv, InMemory, InFile, OnRef, BackOnBranch
<1>8. CASE MoveOthers
  BY <1>8 DEF MoveOthers, Go, Worktree, Inv, InMemory, InFile, OnRef, BackOnBranch
<1>9. CASE Forget
  BY <1>9 DEF Forget, Go, Worktree, Refs, Inv, InMemory, InFile, OnRef, BackOnBranch
<1>10. CASE Restore
  <2>1. pc = "restore" /\ pc' = "idle" /\ saved' = saved
    BY <1>10 DEF Restore, Return
  <2> QED
    BY <2>1 DEF Inv, InMemory, InFile
<1> QED
  BY <1>1, <1>2, <1>3, <1>4, <1>5, <1>6, <1>7, <1>8, <1>9, <1>10 DEF Call

(* The calls that take up a stopped operation take its parked work up too.  *)
LEMMA ResumeHolds ==
  ASSUME Inv, Continue \/ Amend \/ Skip \/ Abort
  PROVE  Inv'
<1>1. IsOperation(saved) /\ OnRef(saved)
  BY DEF Continue, Amend, Skip, Abort, InProgress, Inv, InFile
<1>2. CASE Continue
  BY <1>1, <1>2, GoesOn DEF Continue, Go
<1>3. CASE Amend
  <2>1. PICK commit : st' = [saved EXCEPT !.current = commit, !.editing = FALSE]
    BY <1>3 DEF Amend, Go
  <2> DEFINE s == [saved EXCEPT !.current = commit, !.editing = FALSE]
  <2>2. pc' = "save" /\ UNCHANGED <<parked, saved>>
    BY <1>3 DEF Amend, Go
  <2>3. SameStash(saved, s)
    BY <1>1, ExceptKeeps
  <2>4. IsOperation(st') /\ OnRef(st')
    BY <1>1, <2>1, <2>3 DEF SameStash, OnRef
  <2> QED
    BY <2>2, <2>4, GoesOn
<1>4. CASE Skip
  <2>1. /\ UNCHANGED <<parked, saved>>
        /\ \/ pc' = "save" /\ st' = [saved EXCEPT !.editing = FALSE]
           \/ pc' = "skip" /\ st' = [saved EXCEPT !.next = saved.next + 1]
    BY <1>4 DEF Skip, Go
  <2>2. /\ SameStash(saved, [saved EXCEPT !.editing = FALSE])
        /\ SameStash(saved, [saved EXCEPT !.next = saved.next + 1])
    BY <1>1, ExceptKeeps
  <2>3. IsOperation(st') /\ OnRef(st')
    BY <1>1, <2>1, <2>2 DEF SameStash, OnRef
  <2> QED
    BY <2>1, <2>3, GoesOn
<1>5. CASE Abort
  <2>1. PICK tip : branch' = tip /\ HardReset(saved, tip)
    BY <1>5 DEF Abort
  <2>2. /\ head' = None /\ pc' = "forget" /\ st' = saved /\ UNCHANGED <<parked, saved>>
    BY <1>5 DEF Abort, Go
  <2> QED
    BY <1>1, <2>1, <2>2, HardResetHolds DEF Inv, InMemory, InFile, OnRef, BackOnBranch
<1> QED
  BY <1>2, <1>3, <1>4, <1>5

LEMMA NextHolds ==
  ASSUME Inv, [Next]_vars
  PROVE  Inv'
<1>1. CASE Rebase \/ CherryPick \/ Revert
  <2>1. saved = None
    BY <1>1 DEF Rebase, CherryPick, Revert, CanBegin
  <2>2. \E onto, steps, mode, mark : Begin(onto, steps, mode, mark)
    BY <1>1 DEF Rebase, CherryPick, Revert
  <2> QED
    BY <2>1, <2>2, BeginHolds
<1>2. CASE Continue \/ Amend \/ Skip \/ Abort
  BY <1>2, ResumeHolds
<1>3. CASE Call
  BY <1>3, CallHolds
<1>4. CASE Resolve \/ EditFile \/ Others
  BY <1>4 DEF Resolve, EditFile, Others, Inv, InMemory, InFile, OnRef
<1>5. CASE Crash
  BY <1>5, GoesOn DEF Crash
<1>6. CASE UNCHANGED vars
  BY <1>6 DEF vars, Inv, InMemory, InFile, OnRef, BackOnBranch
<1> QED
  BY <1>1, <1>2, <1>3, <1>4, <1>5, <1>6 DEF Next

(* Parked work is on the ref, and a finished operation is back on its      *)
(* branch, in every reachable state: the inductive invariant.              *)
THEOREM SequencerInvariant == Spec => []Inv
<1>1. Init => Inv
  BY DEF Init, Inv, InMemory, InFile
<1>2. Inv /\ [Next]_vars => Inv'
  BY NextHolds
<1> QED
  BY <1>1, <1>2, PTL DEF Spec

-----------------------------------------------------------------------------
(* Parked work. *)

(* While a call runs only restore_autostash takes the ref away, and then   *)
(* the work is in the file.                                                *)
LEMMA RefStays ==
  ASSUME Inv, [Next]_vars, pc # "idle"
  PROVE  parked' = parked \/ WorkIn(wt') = parked
<1>1. CASE Restore
  <2>1. CASE parked' # parked
    <3>1. st.stash /\ wt' = (wt \ Work) \cup parked
      BY <1>1, <2>1 DEF Restore
    <3>2. parked \in SUBSET Work
      BY <3>1 DEF Inv, InMemory, OnRef
    <3> QED
      BY <3>1, <3>2 DEF WorkIn
  <2> QED
    BY <2>1
<1>2. CASE Call /\ ~Restore
  BY <1>2 DEF Call, Detach, Clean, SaveState, DropStep, Pick, Land, Record,
     LandBranch, Reattach, MoveOthers, Forget
<1>3. CASE Crash \/ UNCHANGED vars
  BY <1>3 DEF Crash, vars
<1> QED
  BY <1>1, <1>2, <1>3 DEF Next, Rebase, CherryPick, Revert, CanBegin, Continue, Amend, Skip,
     Abort, InProgress, Resolve, EditFile, Others

(* What the user wrote into a parked file during the operation stays.      *)
LEMMA LaterEditsStay ==
  ASSUME Inv, [Next]_vars
  PROVE  EditsOutliveResets
<1> SUFFICES ASSUME Parked, pc # "detach", pc # "clean", ~EditFile, ~Pick,
                    NEW w \in Work, LaterEdit(w)
             PROVE  w \in wt'
  BY DEF EditsOutliveResets
<1>1. w \in wt /\ w \notin WorkIn(HeadTree) /\ w \in WorkIn(wt)
  BY DEF LaterEdit, WorkIn
<1>2. CASE Restore
  <2>1. CASE wt' # wt
    <3>1. /\ st.stash /\ wt' = (wt \ Work) \cup parked
          /\ WorkIn(wt) \in {parked, WorkIn(HeadTree)}
      BY <1>2, <2>1 DEF Restore
    <3> QED
      BY <1>1, <3>1
  <2> QED
    BY <1>1, <2>1
<1>3. CASE Reattach
  <2>1. st.stash /\ HardReset(st, st.current)
    BY <1>3 DEF Reattach, Parked, Operation
  <2> QED
    BY <1>1, <2>1, HardResetHolds DEF WorkIn
<1>4. CASE Skip \/ Abort
  <2>1. pc = "idle" /\ saved # Corrupt
    BY <1>4 DEF Skip, Abort, InProgress
  <2>2. saved.stash
    BY <2>1 DEF Parked, Operation
  <2>3. \E tip : HardReset(saved, tip)
    BY <1>4 DEF Skip, Abort
  <2> QED
    BY <1>1, <2>2, <2>3, HardResetHolds DEF WorkIn
<1>5. CASE Rebase \/ CherryPick \/ Revert
  BY <1>1, <1>5 DEF Rebase, CherryPick, Revert, Begin, Worktree
<1>6. CASE Call /\ ~Reattach /\ ~Restore
  BY <1>1, <1>6 DEF Call, Detach, Clean, SaveState, DropStep, Land, Record,
     LandBranch, MoveOthers, Forget, Worktree
<1>7. CASE Continue \/ Amend \/ Resolve \/ Others \/ Crash \/ UNCHANGED vars
  BY <1>1, <1>7 DEF Continue, Amend, Resolve, Others, Crash, vars, Worktree
<1> QED
  BY <1>2, <1>3, <1>4, <1>5, <1>6, <1>7 DEF Next

(* However an operation ends, it ends on the branch with the work in the   *)
(* file or on the ref.                                                     *)
LEMMA RestoreEndsCleanly ==
  ASSUME Inv
  PROVE  EndsCleanly
<1> SUFFICES ASSUME Restore
             PROVE  /\ head' = None /\ index' = Tree(branch') /\ wt' \ Work = index' \ Work
                    /\ st.stash => \/ parked' = None /\ WorkIn(wt') = parked
                                   \/ parked' = parked /\ WorkIn(wt') = WorkIn(wt)
                                      /\ WorkIn(wt) # WorkIn(HeadTree)
  BY DEF EndsCleanly
<1>1. BackOnBranch /\ (st.stash => parked \in SUBSET Work)
  BY DEF Restore, Inv, InMemory, OnRef
<1>2. UNCHANGED <<branch, head, index>>
  BY DEF Restore, Refs
<1>3. CASE st.stash /\ WorkIn(wt) \in {parked, WorkIn(HeadTree)}
  <2>1. wt' = (wt \ Work) \cup parked /\ parked' = None
    BY <1>3 DEF Restore
  <2>2. wt' \ Work = wt \ Work /\ WorkIn(wt') = parked
    BY <1>1, <1>3, <2>1 DEF WorkIn
  <2> QED
    BY <1>1, <1>2, <2>1, <2>2 DEF BackOnBranch
<1>4. CASE ~(st.stash /\ WorkIn(wt) \in {parked, WorkIn(HeadTree)})
  <2>1. UNCHANGED <<wt, parked>>
    BY <1>4 DEF Restore
  <2> QED
    BY <1>1, <1>2, <1>4, <2>1 DEF BackOnBranch
<1> QED
  BY <1>3, <1>4

(* For every plan and history and any number of operations: uncommitted    *)
(* work that begin parked is on the ref or in the file until the operation *)
(* is over, through conflicts, pauses, deaths of the process and the next  *)
(* process's continue, skip or abort; and every operation that ends, ends  *)
(* on its branch (restore_autostash, hard_reset_keeping_autostash).        *)
THEOREM WorkSurvivesOperations == Spec => ParkedWorkSurvives
<1>1. Inv /\ [Next]_vars =>
        [/\ Parked /\ pc # "idle" /\ parked # None =>
             parked' = parked \/ WorkIn(wt') = parked
         /\ EditsOutliveResets
         /\ EndsCleanly]_vars
  BY RefStays, LaterEditsStay, RestoreEndsCleanly
<1> QED
  BY <1>1, SequencerInvariant, PTL DEF Spec, ParkedWorkSurvives

-----------------------------------------------------------------------------
(* Types, and where HEAD and the branches are. *)

Tips ==
  /\ {branch, head, side, backup} \subseteq Commit \cup {None}
  /\ head = None => branch # None

Trees == {index, wt} \subseteq SUBSET Changes /\ parked \in {None} \cup SUBSET Work

(* An operation began at the tip the backup has, and what it is to move    *)
(* another branch from is in the history of that tip.                      *)
Sound(s) ==
  /\ IsOperation(s) /\ IsState(s)
  /\ s.orig = backup
  /\ s.mark # None =>
       DOMAIN s.mark = {"old", "after", "new"} /\ IsPrefix(s.mark.old, backup)

InCall ==
  /\ pc # "idle" => Sound(st)
  /\ pc \in {"land", "record"} => ~Done(st)
  /\ pc = "record" => head # None

OnFile == saved \notin {None, Corrupt} => Sound(saved)

(* HEAD is detached until finish or abort puts it back, and then nothing   *)
(* is left that skip could take up; but for an abort that died there.      *)
Replaying == {"save", "skip", "drive", "land", "record"}

Detached ==
  died # "forget" =>
    /\ pc \in Replaying \cup {"clean", "reattach"} => head # None
    /\ pc \in Replaying \cup {"detach", "clean"} => ~st.editing
    /\ pc = "drive" => saved = st
    /\ pc = "reattach" => Done(saved) /\ ~saved.editing
    /\ saved \notin {None, Corrupt} /\ head = None =>
         pc = "forget" \/ (Done(saved) /\ ~saved.editing)

HistoryInv == Tips /\ Trees /\ InCall /\ OnFile /\ Detached

-----------------------------------------------------------------------------
(* Commits are made of commits. *)

LEMMA NoneIsNoCommit == None \notin Commit
BY SequencerAssumption DEF Commit

LEMMA TreeInChanges ==
  ASSUME NEW c \in Commit
  PROVE  Tree(c) \in SUBSET Changes
<1>1. c \in Seq(SUBSET Changes) /\ Len(c) \in Nat /\ Len(c) > 0
  BY DEF Commit
<1> QED
  BY <1>1 DEF Tree, Last

LEMMA Appending ==
  ASSUME NEW c \in Seq(SUBSET Changes), NEW tree \in SUBSET Changes
  PROVE  Append(c, tree) \in Commit
<1>1. Append(c, tree) \in Seq(SUBSET Changes) /\ Len(Append(c, tree)) = Len(c) + 1 /\ Len(c) \in Nat
  OBVIOUS
<1> QED
  BY <1>1 DEF Commit

LEMMA UpTo ==
  ASSUME NEW c \in Commit, NEW k \in 0..Len(c)
  PROVE  /\ SubSeq(c, 1, k) \in Seq(SUBSET Changes) /\ Len(SubSeq(c, 1, k)) = k
         /\ k > 0 => SubSeq(c, 1, k) \in Commit
<1>1. c \in Seq(SUBSET Changes) /\ Len(c) \in Nat
  BY DEF Commit
<1>2. SubSeq(c, 1, k) \in Seq(SUBSET Changes) /\ Len(SubSeq(c, 1, k)) = k
  BY <1>1
<1> QED
  BY <1>2 DEF Commit

LEMMA Fronts ==
  ASSUME NEW c \in Commit
  PROVE  /\ Front(c) \in Seq(SUBSET Changes)
         /\ Len(c) > 1 => Front(c) \in Commit
<1>1. Len(c) \in Nat /\ Len(c) > 0 /\ Len(c) - 1 \in 0..Len(c)
  BY DEF Commit
<1>2. Front(c) = SubSeq(c, 1, Len(c) - 1)
  BY DEF Front
<1> QED
  BY <1>1, <1>2, UpTo

LEMMA Applying ==
  ASSUME NEW mode, NEW c \in Commit, Len(c) > 1, NEW tree \in SUBSET Changes
  PROVE  Apply(mode, c, tree) \in SUBSET Changes
BY TreeInChanges, Fronts DEF Apply

LEMMA HeadTreeInChanges ==
  ASSUME Tips
  PROVE  HeadTree \in SUBSET Changes
BY TreeInChanges DEF Tips, HeadTree

LEMMA Bases == Base \in Commit /\ NewBase \in Commit /\ Len(NewBase) = 2
<1>1. {} \in SUBSET Changes /\ {Upstream} \in SUBSET Changes
  BY DEF Changes
<1>2. <<{}>> \in Seq(SUBSET Changes) /\ <<{}, {Upstream}>> \in Seq(SUBSET Changes)
  BY <1>1
<1> QED
  BY <1>2 DEF Base, NewBase, Commit

LEMMA Histories ==
  ASSUME NEW n \in 0..Commits
  PROVE  History(n) \in Commit
<1>1. n \in Nat /\ n <= Commits
  BY SequencerAssumption
<1>2. ASSUME NEW i \in 1..(n + 1)
      PROVE  UNION {Change(k) : k \in 1..(i - 1)} \in SUBSET Changes
  <2>1. \A k \in 1..(i - 1) : k \in 1..Commits
    BY <1>1, SequencerAssumption
  <2> QED
    BY <2>1 DEF Changes
<1>3. History(n) \in [1..(n + 1) -> SUBSET Changes]
  BY <1>2 DEF History
<1>4. History(n) \in Seq(SUBSET Changes) /\ Len(History(n)) = n + 1
  BY <1>1, <1>3
<1> QED
  BY <1>1, <1>4 DEF Commit

LEMMA FilledSound ==
  ASSUME NEW s, Sound(s)
  PROVE  /\ Sound(Filled(s))
         /\ \A f \in Fields \ {"mark"} : Filled(s)[f] = s[f]
<1>1. CASE Filled(s) = s
  BY <1>1
<1>2. CASE Filled(s) # s
  <2>1. s.mark # None /\ Filled(s) = [s EXCEPT !.mark.new = s.current]
    BY <1>2 DEF Filled
  <2> DEFINE t == [s EXCEPT !.mark.new = s.current]
  <2>2. /\ DOMAIN t = Fields
        /\ \A f \in Fields \ {"mark"} : t[f] = s[f]
        /\ t.mark = [s.mark EXCEPT !.new = s.current]
    BY DEF Sound, IsOperation, Fields
  <2> HIDE DEF t
  <2>3. /\ DOMAIN t.mark = {"old", "after", "new"}
        /\ t.mark.old = s.mark.old /\ t.mark.new = s.current
    BY <2>1, <2>2 DEF Sound
  <2>4. /\ t.orig = s.orig /\ t.onto = s.onto /\ t.current = s.current
        /\ t.steps = s.steps /\ t.next = s.next
    BY <2>2 DEF Fields
  <2>5. Sound(t)
    BY <2>1, <2>2, <2>3, <2>4 DEF Sound, IsOperation, IsState
  <2> QED
    BY <2>1, <2>2, <2>5 DEF t
<1> QED
  BY <1>1, <1>2

(* A step further, with the commit made; or a pause that is over.          *)
LEMMA ChangedSound ==
  ASSUME NEW s, Sound(s), NEW c \in Commit, NEW n \in 0..Len(s.steps), NEW e
  PROVE  /\ Sound([s EXCEPT !.next = n])
         /\ Sound([s EXCEPT !.editing = e])
         /\ Sound([s EXCEPT !.current = c, !.editing = e])
         /\ Sound([s EXCEPT !.current = c, !.next = n, !.editing = e])
BY DEF Sound, IsOperation, IsState, Fields

LEMMA NextStep ==
  ASSUME NEW s, Sound(s), ~Done(s)
  PROVE  /\ s.next + 1 \in 0..Len(s.steps)
         /\ Step(s).commit \in Commit /\ Len(Step(s).commit) > 1
<1>1. s.steps \in Seq(StepOf) /\ s.next \in 0..Len(s.steps) /\ s.next # Len(s.steps)
  BY DEF Sound, IsState, Done
<1>2. s.next + 1 \in 1..Len(s.steps) /\ s.next + 1 \in 0..Len(s.steps)
  BY <1>1
<1>3. s.steps[s.next + 1] \in StepOf
  BY <1>1, <1>2
<1> QED
  BY <1>2, <1>3 DEF Step, StepOf

-----------------------------------------------------------------------------
(* The steps of an operation. *)

(* A call that begins. *)
LEMMA BeginSound ==
  ASSUME HistoryInv, pc = "idle", saved = None, head = None,
         NEW onto \in Commit, NEW steps \in Seq(StepOf), NEW mode, NEW mark,
         mark # None => /\ DOMAIN mark = {"old", "after", "new"}
                        /\ mark.old \in Commit /\ mark.new = None /\ IsPrefix(mark.old, branch),
         Begin(onto, steps, mode, mark)
  PROVE  HistoryInv'
<1> DEFINE dirty == WorkIn(wt) # WorkIn(Tree(branch))
           s == [orig |-> branch, onto |-> onto, current |-> onto, next |-> 0,
                 steps |-> steps, mode |-> mode, editing |-> FALSE,
                 stash |-> dirty, mark |-> mark]
<1>1. /\ pc' = "detach" /\ st' = s /\ saved' = None /\ backup' = branch
      /\ parked' = IF dirty THEN WorkIn(wt) ELSE parked
      /\ UNCHANGED <<branch, side, head, index, wt, died>>
  BY DEF Begin, Go, Worktree
<1>2. branch \in Commit
  BY DEF HistoryInv, Tips
<1>3. IsOperation(s) /\ IsState(s) /\ s.orig = branch /\ s.editing = FALSE /\ s.mark = mark
  BY <1>2 DEF IsOperation, IsState, Fields
<1> HIDE DEF s
<1>4. Sound(st)' /\ ~(st').editing
  BY <1>1, <1>3 DEF Sound, IsState, IsOperation
<1>5. Tips' /\ Trees'
  BY <1>1, <1>2 DEF HistoryInv, Tips, Trees, WorkIn
<1> QED
  BY <1>1, <1>4, <1>5 DEF HistoryInv, InCall, OnFile, Detached, Replaying

LEMMA RebaseSound ==
  ASSUME HistoryInv, Rebase
  PROVE  HistoryInv'
<1>1. pc = "idle" /\ saved = None /\ head = None /\ branch \in Commit
  BY DEF Rebase, CanBegin, HistoryInv, Tips
<1>2. PICK onto \in {Base, NewBase} : \E plan \in Plans :
        /\ \A i \in DOMAIN plan : plan[i].commit < Len(branch)
        /\ \/ Begin(onto, Resolved(plan), "pick", Mark(Resolved(plan), onto))
           \/ Begin(onto, Resolved(plan), "pick", None)
  BY DEF Rebase
<1>3. PICK plan \in Plans :
        /\ \A i \in DOMAIN plan : plan[i].commit < Len(branch)
        /\ \/ Begin(onto, Resolved(plan), "pick", Mark(Resolved(plan), onto))
           \/ Begin(onto, Resolved(plan), "pick", None)
  BY <1>2
<1> DEFINE steps == Resolved(plan)
           mark == Mark(steps, onto)
<1>4. steps \in Seq(StepOf)
  <2>1. plan \in Seq([commit : 1..Commits, action : Action]) /\ Len(branch) \in Nat
    <3>1. Plans \subseteq Seq([commit : 1..Commits, action : Action])
      BY SequencerAssumption
    <3>2. Len(branch) \in Nat
      BY <1>1 DEF Commit
    <3> QED
      BY <3>1, <3>2
  <2>2. ASSUME NEW i \in DOMAIN plan
        PROVE  steps[i] \in StepOf
    <3>1. plan[i].commit + 1 \in 0..Len(branch) /\ plan[i].commit + 1 > 1 /\ plan[i].action \in Action
      <4>1. plan[i] \in [commit : 1..Commits, action : Action]
        <5> DEFINE S == [commit : 1..Commits, action : Action]
        <5>1. plan \in Seq(S) /\ i \in DOMAIN plan
          BY <2>1
        <5> HIDE DEF S
        <5>2. plan[i] \in S
          BY <5>1
        <5> QED
          BY <5>2 DEF S
      <4>2. plan[i].commit \in 1..Commits /\ plan[i].action \in Action
        BY <4>1
      <4>3. plan[i].commit \in Nat /\ plan[i].commit > 0
        BY <4>2, SequencerAssumption
      <4> QED
        BY <1>3, <2>1, <4>2, <4>3
    <3>2. SubSeq(branch, 1, plan[i].commit + 1) \in Commit
      BY <1>1, <3>1, UpTo
    <3>3. Len(SubSeq(branch, 1, plan[i].commit + 1)) > 1
      BY <1>1, <3>1, UpTo
    <3> QED
      BY <3>1, <3>2, <3>3 DEF Resolved, StepOf
  <2>3. DOMAIN plan = 1..Len(plan) /\ Len(plan) \in Nat
    BY <2>1
  <2>4. steps \in [1..Len(plan) -> StepOf]
    BY <2>2, <2>3 DEF Resolved
  <2> QED
    BY <2>3, <2>4
<1>5. mark # None => /\ DOMAIN mark = {"old", "after", "new"}
                     /\ mark.old \in Commit /\ mark.new = None /\ IsPrefix(mark.old, branch)
  BY DEF Mark, HistoryInv, Tips
<1>6. onto \in Commit
  BY <1>2, Bases
<1> HIDE DEF steps, mark
<1>7. CASE Begin(onto, steps, "pick", mark)
  BY <1>1, <1>4, <1>5, <1>6, <1>7, BeginSound
<1>8. CASE Begin(onto, steps, "pick", None)
  BY <1>1, <1>4, <1>6, <1>8, BeginSound
<1> QED
  BY <1>3, <1>7, <1>8 DEF steps, mark

LEMMA PickedSound ==
  ASSUME HistoryInv, CherryPick \/ Revert
  PROVE  HistoryInv'
<1>1. pc = "idle" /\ saved = None /\ head = None /\ branch \in Commit
  BY DEF CherryPick, Revert, CanBegin, HistoryInv, Tips
<1>2. \E c \in {x \in Commit : Len(x) > 1}, mode \in {"pick", "revert"} :
        Begin(branch, <<[commit |-> c, action |-> "pick"]>>, mode, None)
  <2>1. CASE CherryPick
    <3>1. Begin(branch, <<[commit |-> NewBase, action |-> "pick"]>>, "pick", None)
      BY <2>1 DEF CherryPick, PickSteps
    <3>2. NewBase \in {x \in Commit : Len(x) > 1}
      BY Bases
    <3> QED
      BY <3>1, <3>2
  <2>2. CASE Revert
    <3>1. PICK k \in 2..Len(branch) :
            Begin(branch, <<[commit |-> SubSeq(branch, 1, k), action |-> "pick"]>>, "revert", None)
      BY <2>2 DEF Revert, PickSteps
    <3>2. Len(branch) \in Nat
      BY <1>1 DEF Commit
    <3>3. k \in 0..Len(branch) /\ k > 1
      BY <3>2
    <3>4. SubSeq(branch, 1, k) \in Commit /\ Len(SubSeq(branch, 1, k)) > 1
      BY <1>1, <3>3, UpTo
    <3> QED
      BY <3>1, <3>4
  <2> QED
    BY <2>1, <2>2
<1>3. PICK c \in {x \in Commit : Len(x) > 1} : \E mode \in {"pick", "revert"} :
        Begin(branch, <<[commit |-> c, action |-> "pick"]>>, mode, None)
  BY <1>2
<1>4. PICK mode \in {"pick", "revert"} :
        Begin(branch, <<[commit |-> c, action |-> "pick"]>>, mode, None)
  BY <1>3
<1>5. [commit |-> c, action |-> "pick"] \in StepOf
  BY DEF StepOf, Action
<1>6. <<[commit |-> c, action |-> "pick"]>> \in Seq(StepOf)
  BY <1>5
<1> QED
  BY <1>1, <1>4, <1>6, BeginSound

(* A step that leaves the branches alone. *)
LEMMA Carries ==
  ASSUME HistoryInv, UNCHANGED <<branch, side, backup, died>>,
         head' \in {head} \cup Commit,
         index' \in SUBSET Changes, wt' \in SUBSET Changes, parked' \in {None} \cup SUBSET Work,
         pc' # "idle" => Sound(st'),
         pc' \in {"land", "record"} => ~Done(st'),
         pc' = "record" => head' # None,
         saved' \notin {None, Corrupt} => Sound(saved'),
         Detached'
  PROVE  HistoryInv'
<1>1. Tips'
  BY NoneIsNoCommit DEF HistoryInv, Tips
<1>2. Trees'
  BY DEF Trees
<1>3. InCall' /\ OnFile'
  BY DEF InCall, OnFile, Sound, IsState, IsOperation, Done
<1> QED
  BY <1>1, <1>2, <1>3 DEF HistoryInv

(* A reset to a commit. *)
LEMMA ResetTyped ==
  ASSUME Trees, NEW s, NEW c \in Commit, HardReset(s, c)
  PROVE  index' \in SUBSET Changes /\ wt' \in SUBSET Changes
<1>1. Tree(c) \in SUBSET Changes /\ wt \in SUBSET Changes
  BY TreeInChanges DEF Trees
<1> QED
  BY <1>1 DEF HardReset, WithWorkOf, WorkIn

LEMMA CallSound ==
  ASSUME Inv, HistoryInv, Call
  PROVE  HistoryInv'
<1>1. /\ pc # "idle" => Sound(st) /\ st.onto \in Commit /\ st.current \in Commit
      /\ saved \notin {None, Corrupt} => Sound(saved)
      /\ index \in SUBSET Changes /\ wt \in SUBSET Changes /\ parked \in {None} \cup SUBSET Work
  BY DEF HistoryInv, InCall, OnFile, Trees, Sound, IsState
<1>2. CASE Detach
  <2>1. /\ pc = "detach" /\ pc' = "clean" /\ st' = st /\ head' = st.onto
        /\ UNCHANGED <<branch, side, backup, died, index, wt, parked, saved>>
    BY <1>2 DEF Detach, Go, Refs, Worktree, Ghosts
  <2>2. Detached'
    BY <1>1, <2>1, NoneIsNoCommit DEF HistoryInv, Detached, Replaying
  <2> QED
    BY <1>1, <2>1, <2>2, Carries
<1>3. CASE Clean
  <2>1. /\ pc = "clean" /\ pc' = "save" /\ st' = st
        /\ index' = Tree(st.onto) /\ wt' = Tree(st.onto)
        /\ UNCHANGED <<branch, side, backup, died, head, parked, saved>>
    BY <1>3 DEF Clean, Go, Refs, Ghosts
  <2>2. Detached'
    BY <2>1 DEF HistoryInv, Detached, Replaying, Done
  <2>3. Tree(st.onto) \in SUBSET Changes
    BY <1>1, <2>1, TreeInChanges
  <2> QED
    BY <1>1, <2>1, <2>2, <2>3, Carries
<1>4. CASE SaveState
  <2>1. /\ pc \in {"save", "skip"} /\ pc' = "drive" /\ st' = st /\ saved' = st
        /\ UNCHANGED <<branch, side, backup, died, head, index, wt, parked>>
    BY <1>4 DEF SaveState, Go, Save, Refs, Worktree, Ghosts
  <2>2. Detached'
    BY <2>1 DEF HistoryInv, Detached, Replaying
  <2> QED
    BY <1>1, <2>1, <2>2, Carries
<1>5. CASE DropStep
  <2> DEFINE s == [Filled(st) EXCEPT !.next = st.next + 1]
  <2>1. /\ pc = "drive" /\ ~Done(st) /\ pc' = "drive" /\ st' = s /\ saved' = s
        /\ UNCHANGED <<branch, side, backup, died, head, index, wt, parked>>
    BY <1>5 DEF DropStep, Go, Save, Refs, Worktree, Ghosts
  <2>2. Sound(Filled(st)) /\ Filled(st).editing = st.editing /\ Filled(st).steps = st.steps
    BY <1>1, <2>1, FilledSound DEF Fields
  <2>3. Sound(s) /\ s.editing = st.editing
    <3>1. st.next + 1 \in 0..Len(Filled(st).steps)
      BY <1>1, <2>1, <2>2, NextStep
    <3>2. Sound(s)
      BY <1>1, <2>1, <2>2, <3>1, ChangedSound
    <3> QED
      BY <2>2, <3>2 DEF Sound, IsOperation, Fields
  <2> HIDE DEF s
  <2>4. Detached'
    BY <2>1, <2>3 DEF HistoryInv, Detached, Replaying
  <2> QED
    BY <1>1, <2>1, <2>3, <2>4, Carries
<1>6. CASE Pick
  <2>1. /\ pc = "drive" /\ ~Done(st)
        /\ index' = Apply(st.mode, Step(st).commit, HeadTree) /\ wt' = index'
        /\ UNCHANGED <<branch, side, backup, died, head, parked>>
        /\ \/ pc' = "land" /\ st' = Filled(st) /\ saved' = saved
           \/ pc' = "idle" /\ saved' = Filled(st)
    BY <1>6 DEF Pick, Go, Save, Return, Refs, Ghosts
  <2>2. /\ Sound(Filled(st)) /\ Filled(st).editing = st.editing
        /\ Filled(st).steps = st.steps /\ Filled(st).next = st.next
    BY <1>1, <2>1, FilledSound DEF Fields
  <2>3. index' \in SUBSET Changes
    <3>1. HeadTree \in SUBSET Changes
      BY HeadTreeInChanges DEF HistoryInv
    <3> QED
      BY <1>1, <2>1, <3>1, NextStep, Applying
  <2>4. ~Done(Filled(st))
    BY <2>1, <2>2 DEF Done
  <2>5. Detached'
    <3>1. CASE pc' = "land"
      BY <2>1, <2>2, <3>1 DEF HistoryInv, Detached, Replaying
    <3>2. CASE pc' = "idle"
      BY <2>1, <2>2, <3>2 DEF HistoryInv, Detached, Replaying
    <3> QED
      BY <2>1, <3>1, <3>2
  <2> QED
    BY <1>1, <2>1, <2>2, <2>3, <2>4, <2>5, Carries
<1>7. CASE Land
  <2>1. /\ pc = "land" /\ UNCHANGED <<branch, side, backup, died, index, wt, parked, saved>>
        /\ \/ pc' = "record" /\ st' = st /\ head' = Landed(st)
           \/ pc' = "idle" /\ head' = head
    BY <1>7 DEF Land, Go, Return, Refs, Worktree, Ghosts
  <2>2. Landed(st) \in Commit
    <3>1. st.current \in Commit /\ st.current \in Seq(SUBSET Changes) /\ Front(st.current) \in Seq(SUBSET Changes)
      BY <1>1, <2>1, Fronts DEF Commit
    <3>2. SplitUp(st) \in Commit
      <4> DEFINE parts == Tree(st.current) \cup (index \cap {<<k, 1>> : k \in 1..Commits})
      <4>1. parts \in SUBSET Changes
        BY <1>1, <3>1, TreeInChanges
      <4> HIDE DEF parts
      <4>2. <<parts, index>> \in Seq(SUBSET Changes)
        BY <1>1, <4>1
      <4>3. /\ st.current \o <<parts, index>> \in Seq(SUBSET Changes)
            /\ Len(st.current \o <<parts, index>>) = Len(st.current) + 2
        BY <3>1, <4>2
      <4>4. Len(st.current) \in Nat
        BY <3>1
      <4> QED
        BY <4>3, <4>4 DEF SplitUp, Commit, parts
    <3>3. Append(st.current, index) \in Commit /\ Append(Front(st.current), index) \in Commit
      BY <1>1, <3>1, Appending
    <3> QED
      BY <3>2, <3>3 DEF Landed
  <2>3. ~Done(st)
    BY <2>1 DEF HistoryInv, InCall
  <2>4. Detached'
    BY <2>1, <2>2, NoneIsNoCommit DEF HistoryInv, Detached, Replaying, Done
  <2> QED
    BY <1>1, <2>1, <2>2, <2>3, <2>4, NoneIsNoCommit, Carries
<1>8. CASE Record
  <2> DEFINE s == [st EXCEPT !.current = head, !.next = st.next + 1,
                             !.editing = Step(st).action = "edit"]
  <2>1. /\ pc = "record" /\ saved' = s
        /\ (pc' = "idle" /\ s.editing) \/ (pc' = "drive" /\ st' = s /\ ~s.editing)
        /\ UNCHANGED <<branch, side, backup, died, head, index, wt, parked>>
    BY <1>8 DEF Record, Save, Go, Return, Refs, Worktree, Ghosts
  <2>2. head \in Commit /\ ~Done(st)
    BY <2>1 DEF HistoryInv, InCall, Tips
  <2>3. Sound(s)
    BY <1>1, <2>1, <2>2, NextStep, ChangedSound
  <2> HIDE DEF s
  <2>4. Detached'
    BY <2>1, <2>2, NoneIsNoCommit DEF Detached, Replaying
  <2> QED
    BY <1>1, <2>1, <2>3, <2>4, Carries
<1>9. CASE LandBranch
  <2>1. /\ pc = "drive" /\ Done(st)
        /\ UNCHANGED <<side, backup, died, head, index, wt, parked, saved>>
        /\ \/ branch = st.orig /\ branch' = st.current /\ pc' = "reattach" /\ st' = Filled(st)
           \/ pc' = "idle" /\ branch' = branch
    BY <1>9 DEF LandBranch, Go, Return, Worktree, Ghosts
  <2>2. Sound(Filled(st))
    BY <1>1, <2>1, FilledSound
  <2>3. Tips' /\ Trees'
    BY <1>1, <2>1, NoneIsNoCommit DEF HistoryInv, Tips, Trees
  <2>4. InCall' /\ OnFile'
    BY <1>1, <2>1, <2>2 DEF InCall, OnFile, Sound, IsState, IsOperation
  <2>5. Detached'
    BY <2>1 DEF HistoryInv, Detached, Replaying, Done
  <2> QED
    BY <2>3, <2>4, <2>5 DEF HistoryInv
<1>10. CASE Reattach
  <2>1. /\ pc = "reattach" /\ pc' = "others" /\ st' = st /\ head' = None
        /\ HardReset(st, st.current)
        /\ UNCHANGED <<branch, side, backup, died, parked, saved>>
    BY <1>10 DEF Reattach, Go, Refs, Ghosts
  <2>2. branch = st.current
    BY <2>1 DEF Inv, InMemory
  <2>3. Tips' /\ Trees'
    <3>1. index' \in SUBSET Changes /\ wt' \in SUBSET Changes
      BY <1>1, <2>1, ResetTyped DEF HistoryInv
    <3> QED
      BY <1>1, <2>1, <2>2, <3>1, NoneIsNoCommit DEF HistoryInv, Tips, Trees
  <2>4. InCall' /\ OnFile'
    BY <1>1, <2>1 DEF InCall, OnFile, Sound, IsState, IsOperation
  <2>5. Detached'
    BY <2>1 DEF HistoryInv, Detached, Replaying, Done
  <2> QED
    BY <2>3, <2>4, <2>5 DEF HistoryInv
<1>11. CASE MoveOthers
  <2>1. /\ pc = "others" /\ pc' = "forget" /\ st' = st
        /\ side' = side \/ (st.mark # None /\ st.mark.new # None /\ side' = st.mark.new)
        /\ UNCHANGED <<branch, backup, died, head, parked, index, wt, saved>>
    BY <1>11 DEF MoveOthers, Go, Worktree, Ghosts
  <2>2. side' \in {side} \cup Commit
    BY <1>1, <2>1 DEF Sound, IsState
  <2>3. Tips' /\ Trees'
    BY <2>1, <2>2 DEF HistoryInv, Tips, Trees
  <2>4. InCall' /\ OnFile'
    BY <1>1, <2>1 DEF InCall, OnFile, Sound, IsState, IsOperation
  <2>5. Detached'
    BY <2>1 DEF HistoryInv, Detached, Replaying, Done
  <2> QED
    BY <2>3, <2>4, <2>5 DEF HistoryInv
<1>12. CASE Forget
  <2>1. /\ pc = "forget" /\ pc' = "restore" /\ st' = st /\ saved' = None
        /\ UNCHANGED <<branch, side, backup, died, head, parked, index, wt>>
    BY <1>12 DEF Forget, Go, Refs, Worktree, Ghosts
  <2>2. Detached'
    BY <2>1 DEF Detached, Replaying
  <2> QED
    BY <1>1, <2>1, <2>2, Carries
<1>13. CASE Restore
  <2>1. /\ pc = "restore" /\ pc' = "idle"
        /\ UNCHANGED <<branch, side, backup, died, head, index, saved>>
        /\ \/ UNCHANGED <<wt, parked>>
           \/ st.stash /\ wt' = (wt \ Work) \cup parked /\ parked' = None
    BY <1>13 DEF Restore, Return, Refs, Ghosts
  <2>2. saved = None /\ (st.stash => parked \in SUBSET Work)
    BY <2>1 DEF Inv, InMemory, OnRef
  <2>3. wt' \in SUBSET Changes /\ parked' \in {None} \cup SUBSET Work
    BY <1>1, <2>1, <2>2 DEF Changes
  <2>4. Detached'
    BY <2>1, <2>2 DEF Detached, Replaying
  <2> QED
    BY <1>1, <2>1, <2>2, <2>3, <2>4, Carries
<1> QED
  BY <1>2, <1>3, <1>4, <1>5, <1>6, <1>7, <1>8, <1>9, <1>10, <1>11, <1>12, <1>13 DEF Call

(* The calls that take up a stopped operation. *)
LEMMA ResumeSound ==
  ASSUME Inv, HistoryInv, Continue \/ Amend \/ Skip \/ Abort
  PROVE  HistoryInv'
<1>1. /\ pc = "idle" /\ saved \notin {None, Corrupt} /\ Sound(saved)
      /\ saved.current \in Commit /\ saved.orig \in Commit
      /\ index \in SUBSET Changes /\ wt \in SUBSET Changes /\ parked \in {None} \cup SUBSET Work
  BY DEF Continue, Amend, Skip, Abort, InProgress, HistoryInv, OnFile, Trees, Sound, IsState
<1>2. CASE Continue
  <2>1. /\ ~saved.editing /\ ~Done(saved) /\ pc' = "land" /\ st' = saved
        /\ UNCHANGED <<branch, side, backup, died, head, parked, index, wt, saved>>
    BY <1>2 DEF Continue, Go, Refs, Ghosts
  <2>2. Detached'
    BY <1>1, <2>1 DEF HistoryInv, Detached, Replaying
  <2> QED
    BY <1>1, <2>1, <2>2, Carries
<1>3. CASE Amend
  <2> DEFINE tree == IF saved.stash THEN WithWorkOf(wt, Tree(saved.current)) ELSE wt
             amended == Append(Front(saved.current), tree)
             s == [saved EXCEPT !.current = amended, !.editing = FALSE]
  <2>1. /\ saved.editing /\ index' = tree /\ head' = amended /\ pc' = "save" /\ st' = s
        /\ UNCHANGED <<branch, side, backup, died, parked, wt, saved>>
    BY <1>3 DEF Amend, Go, Refs, Ghosts
  <2>2. tree \in SUBSET Changes
    BY <1>1, TreeInChanges DEF WithWorkOf, WorkIn
  <2> HIDE DEF tree
  <2>3. amended \in Commit
    BY <1>1, <2>2, Fronts, Appending
  <2> HIDE DEF amended
  <2>4. Sound(s) /\ ~s.editing
    <3>1. saved.next \in 0..Len(saved.steps)
      BY <1>1 DEF Sound, IsState
    <3> QED
      BY <1>1, <2>3, <3>1, ChangedSound DEF Sound, IsOperation, Fields
  <2> HIDE DEF s
  <2>5. Detached'
    BY <2>1, <2>3, <2>4, NoneIsNoCommit DEF Detached, Replaying
  <2> QED
    BY <1>1, <2>1, <2>2, <2>3, <2>4, <2>5, Carries
<1>4. CASE Skip
  <2>1. /\ HardReset(saved, saved.current)
        /\ UNCHANGED <<side, backup, died, parked, saved>>
        /\ \/ head = None /\ branch' = saved.current /\ head' = head
           \/ head # None /\ branch' = branch /\ head' = saved.current
        /\ \/ saved.editing /\ pc' = "save" /\ st' = [saved EXCEPT !.editing = FALSE]
           \/ /\ ~saved.editing /\ ~Done(saved) /\ pc' = "skip"
              /\ st' = [saved EXCEPT !.next = saved.next + 1]
    BY <1>4 DEF Skip, Go, Refs
  <2>2. saved.editing \/ ~Done(saved)
    BY <2>1
  <2>3. head # None \/ died = "forget"
    BY <1>1, <2>2 DEF HistoryInv, Detached
  <2>4. Sound(st') /\ ~(st').editing /\ pc' \in {"save", "skip"}
    <3>1. CASE saved.editing
      <4>1. saved.next \in 0..Len(saved.steps)
        BY <1>1 DEF Sound, IsState
      <4>2. pc' = "save" /\ st' = [saved EXCEPT !.editing = FALSE]
        BY <2>1, <3>1
      <4>3. Sound(st')
        BY <1>1, <4>1, <4>2, ChangedSound
      <4> QED
        BY <1>1, <4>2, <4>3 DEF Sound, IsOperation, Fields
    <3>2. CASE ~saved.editing
      <4>1. saved.next + 1 \in 0..Len(saved.steps)
        BY <1>1, <2>1, <3>2, NextStep
      <4>2. pc' = "skip" /\ st' = [saved EXCEPT !.next = saved.next + 1]
        BY <2>1, <3>2
      <4>3. Sound(st')
        BY <1>1, <4>1, <4>2, ChangedSound
      <4> QED
        BY <1>1, <3>2, <4>2, <4>3 DEF Sound, IsOperation, Fields
    <3> QED
      BY <3>1, <3>2
  <2>5. Tips' /\ Trees'
    <3>1. index' \in SUBSET Changes /\ wt' \in SUBSET Changes
      BY <1>1, <2>1, ResetTyped DEF HistoryInv
    <3> QED
      BY <1>1, <2>1, <3>1, NoneIsNoCommit DEF HistoryInv, Tips, Trees
  <2>6. InCall' /\ OnFile'
    BY <1>1, <2>1, <2>4 DEF InCall, OnFile, Sound, IsState, IsOperation
  <2>7. Detached'
    BY <1>1, <2>1, <2>3, <2>4, NoneIsNoCommit DEF Detached, Replaying
  <2> QED
    BY <2>5, <2>6, <2>7 DEF HistoryInv
<1>5. CASE Abort
  <2>1. /\ branch' \in {branch, backup, saved.orig} /\ branch' # None
        /\ HardReset(saved, branch')
        /\ head' = None /\ pc' = "forget" /\ st' = saved
        /\ UNCHANGED <<side, backup, died, parked, saved>>
    BY <1>1, <1>5, NoneIsNoCommit DEF Abort, Go, Ghosts
  <2>2. branch' \in Commit
    BY <1>1, <2>1 DEF HistoryInv, Tips
  <2>3. Tips' /\ Trees'
    <3>1. index' \in SUBSET Changes /\ wt' \in SUBSET Changes
      BY <1>1, <2>1, <2>2, ResetTyped DEF HistoryInv
    <3> QED
      BY <1>1, <2>1, <2>2, <3>1 DEF HistoryInv, Tips, Trees
  <2>4. InCall' /\ OnFile'
    BY <1>1, <2>1 DEF InCall, OnFile, Sound, IsState, IsOperation
  <2>5. Detached'
    BY <2>1 DEF Detached, Replaying
  <2> QED
    BY <2>3, <2>4, <2>5 DEF HistoryInv
<1> QED
  BY <1>2, <1>3, <1>4, <1>5

LEMMA HistoryNext ==
  ASSUME Inv, HistoryInv, [Next]_vars
  PROVE  HistoryInv'
<1>1. /\ pc # "idle" => Sound(st)
      /\ saved \notin {None, Corrupt} => Sound(saved)
      /\ index \in SUBSET Changes /\ wt \in SUBSET Changes /\ parked \in {None} \cup SUBSET Work
  BY DEF HistoryInv, InCall, OnFile, Trees
<1>2. CASE Rebase
  BY <1>2, RebaseSound
<1>3. CASE CherryPick \/ Revert
  BY <1>3, PickedSound
<1>4. CASE Continue \/ Amend \/ Skip \/ Abort
  BY <1>4, ResumeSound
<1>5. CASE Call
  BY <1>5, CallSound
<1>6. CASE Resolve \/ EditFile
  <2>1. /\ pc' = pc /\ pc = "idle"
        /\ UNCHANGED <<branch, side, backup, died, head, parked, index, saved, st>>
        /\ wt' = wt \/ \E w \in Work : wt' = (wt \ Work) \cup {w}
    BY <1>6 DEF Resolve, EditFile, Refs, Ghosts
  <2>2. wt' \in SUBSET Changes
    BY <1>1, <2>1 DEF Changes
  <2>3. Detached'
    BY <2>1 DEF HistoryInv, Detached, Replaying, Done
  <2> QED
    BY <1>1, <2>1, <2>2, <2>3, Carries
<1>7. CASE Others
  <2>1. /\ pc = "idle" /\ pc' = pc /\ head # None /\ branch # None /\ side # None
        /\ UNCHANGED <<backup, head, parked, index, wt, saved, st, died>>
        /\ branch' \in {branch, None, OthersCommit(branch)}
        /\ side' \in {side, None, OthersCommit(side)}
    BY <1>7 DEF Others, Worktree, Ghosts
  <2>2. branch \in Commit /\ side \in Commit
    BY <2>1 DEF HistoryInv, Tips
  <2>3. OthersCommit(branch) \in Commit /\ OthersCommit(side) \in Commit
    <3>1. ASSUME NEW c \in Commit
          PROVE  OthersCommit(c) \in Commit
      <4>1. Tree(c) \cup {Foreign} \in SUBSET Changes
        BY TreeInChanges DEF Changes
      <4>2. c \in Seq(SUBSET Changes)
        BY DEF Commit
      <4> QED
        BY <4>1, <4>2, Appending DEF OthersCommit
    <3> QED
      BY <2>2, <3>1
  <2>4. Tips' /\ Trees'
    BY <2>1, <2>2, <2>3 DEF HistoryInv, Tips, Trees
  <2>5. InCall' /\ OnFile'
    BY <1>1, <2>1 DEF InCall, OnFile, Sound, IsState, IsOperation
  <2>6. Detached'
    BY <2>1 DEF HistoryInv, Detached, Replaying
  <2> QED
    BY <2>4, <2>5, <2>6 DEF HistoryInv
<1>8. CASE Crash
  <2>1. /\ pc # "idle" /\ pc' = "idle" /\ died = None /\ died' = pc
        /\ UNCHANGED <<branch, side, backup, head, parked, index, wt>>
        /\ saved' \in {saved, Corrupt}
    BY <1>8 DEF Crash, Return, Refs, Worktree
  <2>2. Tips' /\ Trees'
    BY <2>1 DEF HistoryInv, Tips, Trees
  <2>3. InCall' /\ OnFile'
    BY <1>1, <2>1 DEF InCall, OnFile, Sound, IsState, IsOperation
  <2>4. Detached'
    BY <2>1, SequencerAssumption DEF HistoryInv, Detached, Replaying, Done
  <2> QED
    BY <2>2, <2>3, <2>4 DEF HistoryInv
<1>9. CASE UNCHANGED vars
  <2>1. Tips' /\ Trees'
    BY <1>9 DEF vars, HistoryInv, Tips, Trees
  <2>2. InCall' /\ OnFile'
    BY <1>9 DEF vars, HistoryInv, InCall, OnFile, Sound, IsState, IsOperation, Done
  <2>3. Detached'
    BY <1>9 DEF vars, HistoryInv, Detached, Done
  <2> QED
    BY <2>1, <2>2, <2>3 DEF HistoryInv
<1> QED
  BY <1>2, <1>3, <1>4, <1>5, <1>6, <1>7, <1>8, <1>9 DEF Next

LEMMA HistoryStarts ==
  ASSUME Init
  PROVE  HistoryInv
<1>1. \A n \in 0..Commits : History(n) \in Commit
  BY Histories
<1>2. branch \in Commit /\ side \in Commit
  BY <1>1, SequencerAssumption DEF Init
<1>3. wt \in SUBSET Changes /\ index \in SUBSET Changes
  <2>1. Tree(branch) \in SUBSET Changes
    BY <1>2, TreeInChanges
  <2>2. (CHOOSE w \in Work : TRUE) \in Work
    BY SequencerAssumption
  <2> QED
    BY <2>1, <2>2 DEF Init, Changes
<1> QED
  BY <1>2, <1>3, NoneIsNoCommit DEF Init, HistoryInv, Tips, Trees, InCall, OnFile, Detached, Replaying

(* Every tip is a commit, every tree a set of changes, and a state file    *)
(* that can be read is one of the sequencer's (State).                     *)
THEOREM SequencerTypes == Spec => []TypeOK
<1>1. Init => HistoryInv
  BY HistoryStarts
<1>2. Inv /\ HistoryInv /\ [Next]_vars => HistoryInv'
  BY HistoryNext
<1>3. HistoryInv => TypeOK
  BY DEF HistoryInv, Tips, Trees, InCall, OnFile, Sound, TypeOK
<1> QED
  BY <1>1, <1>2, <1>3, SequencerInvariant, PTL DEF Spec

-----------------------------------------------------------------------------
(* Other processes' commits. *)

LEMMA TipsAreKept ==
  ASSUME HistoryInv, [Next]_vars, ~Others, died # "forget"
  PROVE  /\ branch # None /\ branch' # branch => branch = backup
         /\ branch = None /\ branch' # None => Abort
         /\ side # None /\ side' # side => IsPrefix(side, backup)
         /\ side = None => side' = None
<1>1. CASE UNCHANGED <<branch, side>>
  BY <1>1
<1>2. CASE LandBranch
  <2>1. side' = side /\ (branch' = branch \/ branch = st.orig) /\ pc = "drive"
    BY <1>2 DEF LandBranch
  <2>2. st.orig = backup /\ st.orig \in Commit
    BY <2>1 DEF HistoryInv, InCall, Sound, IsState
  <2> QED
    BY <2>1, <2>2, NoneIsNoCommit
<1>3. CASE MoveOthers
  <2>1. /\ pc = "others" /\ branch' = branch
        /\ side' = side \/ (st.mark # None /\ side = st.mark.old)
    BY <1>3 DEF MoveOthers
  <2>2. st.mark # None => st.mark.old \in Commit /\ IsPrefix(st.mark.old, backup)
    BY <2>1 DEF HistoryInv, InCall, Sound, IsState
  <2> QED
    BY <2>1, <2>2, NoneIsNoCommit
<1>4. CASE Skip
  <2>1. /\ side' = side /\ (saved.editing \/ ~Done(saved))
        /\ saved \notin {None, Corrupt} /\ pc = "idle"
        /\ head # None => branch' = branch
    BY <1>4 DEF Skip, InProgress
  <2>2. head # None
    BY <2>1 DEF HistoryInv, Detached
  <2> QED
    BY <2>1, <2>2
<1>5. CASE Abort
  BY <1>5 DEF Abort
<1> QED
  BY <1>1, <1>2, <1>3, <1>4, <1>5 DEF Next, vars, Rebase, CherryPick, Revert, Begin, Continue,
     Amend, Resolve, EditFile, Crash, Call, Detach, Clean, SaveState, DropStep, Pick, Land,
     Record, Reattach, Forget, Restore, Refs

(* For every plan and history and any number of operations: no call moves  *)
(* a branch from a tip that is not in the history the operation's backup   *)
(* has, so what another process committed to it meanwhile stays, and a     *)
(* branch it deleted is made again by an abort alone, whichever process    *)
(* carries the operation on (finish, move_branches, skip, abort).          *)
THEOREM OthersCommitsSurvive == Spec => OthersCommitsStay
<1>1. Init => HistoryInv
  BY HistoryStarts
<1>2. Inv /\ HistoryInv /\ [Next]_vars => HistoryInv'
  BY HistoryNext
<1>3. HistoryInv /\ [Next]_vars =>
        [~Others /\ died # "forget" =>
           /\ branch # None /\ branch' # branch => branch = backup
           /\ branch = None /\ branch' # None => Abort
           /\ side # None /\ side' # side => IsPrefix(side, backup)
           /\ side = None => side' = None]_vars
  BY TipsAreKept
<1> QED
  BY <1>1, <1>2, <1>3, SequencerInvariant, PTL DEF Spec, OthersCommitsStay
=============================================================================
