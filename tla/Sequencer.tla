------------------------------ MODULE Sequencer ------------------------------
(***************************************************************************)
(* The history sequencer (sequencer.rs): a rebase, cherry-pick or revert   *)
(* replays steps one by one on a detached HEAD, stops on a conflict or at  *)
(* an edit, and moves the branch only when it is done.  What is in         *)
(* progress lies in a state file, so that the next process can continue,   *)
(* skip or abort; uncommitted changes are parked on a ref meanwhile, and   *)
(* another branch that points into the history moves with it at the end.   *)
(* A process may die between any two writes; other processes move and      *)
(* delete the branches between two calls.                                  *)
(*                                                                         *)
(* A tree is the set of changes it contains, a commit the sequence of the  *)
(* trees of its history, so the ancestors of a commit are its prefixes.    *)
(* Messages and authors are left out, and with them reword.                *)
(***************************************************************************)
EXTENDS Integers, Sequences, SequencesExt

CONSTANTS
  Commits,   \* how many commits the branch has on its base
  Work,      \* what the user writes into a file no commit touches
  Upstream,  \* the change of the commit the base has got since
  Foreign,   \* a change another process commits
  None,
  Corrupt,   \* a state file cut short
  Plans,     \* the plans callers give: commits by number, each with its action
  MaxOps     \* bound: operations begun

Action == {"pick", "edit", "fold", "split", "drop"}

(* What the branch's commit k brings, in two parts, and all there is. *)
Change(k) == {<<k, 1>>, <<k, 2>>}
Changes == Work \cup {Upstream, Foreign} \cup UNION {Change(k) : k \in 1..Commits}

ASSUME SequencerAssumption ==
  /\ Commits \in Nat \ {0}
  /\ Work # {}
  /\ Plans \subseteq Seq([commit : 1..Commits, action : Action])
  /\ MaxOps \in Nat
  /\ None \notin {Corrupt, "forget"}
  /\ None \notin Seq(SUBSET Changes)

VARIABLES
  branch,   \* the tip of the branch HEAD was on, None when it was deleted
  head,     \* the commit HEAD is detached at, None when it is on branch
  side,     \* the tip of another local branch
  backup,   \* slot 0 of the branch's backup ring
  parked,   \* what the -autostash ref has of that file, or None
  index,    \* the tree of the index
  merge,    \* "clean", or what conflicted files hold: "markers", "resolved"
  wt,       \* the tree of the worktree
  saved,    \* the state file
  st,       \* the state of the call under way
  pc,       \* where that call is
  skipped,  \* history: the steps of this operation that were skipped
  ops,      \* operations begun
  died      \* history: where a process died, or None

vars == <<branch, head, side, backup, parked, index, merge, wt, saved, st, pc,
          skipped, ops, died>>

-----------------------------------------------------------------------------
(* Trees and commits. *)

Base == <<{}>>

NewBase == <<{}, {Upstream}>>

(* The branch as it was: commit k brings Change(k). *)
History(n) == [i \in 1..(n + 1) |-> UNION {Change(k) : k \in 1..(i - 1)}]

Tree(commit) == Last(commit)

(* repo.cherrypick and repo.revert: what commit did to its parent's tree,  *)
(* done to tree, or undone.                                                *)
Apply(mode, commit, tree) ==
  LET new == Tree(commit)
      old == Tree(Front(commit))
  IN IF mode = "pick" THEN (tree \ (old \ new)) \cup (new \ old)
                      ELSE (tree \ (new \ old)) \cup (old \ new)

(* What a commit itself adds. *)
Diff(commit) == Tree(commit) \ Tree(Front(commit))

HeadTree == IF head = None THEN Tree(branch) ELSE Tree(head)

(* The file no commit touches: what a tree holds of it. *)
WorkIn(tree) == tree \cap Work

WithWorkOf(tree, from) == (tree \ Work) \cup WorkIn(from)

-----------------------------------------------------------------------------
(* Plans. *)

(* Mutant: a drop ends the fold. *)
LandingAtDrop(steps, tip) ==
  LET own == {i \in DOMAIN steps :
                steps[i].action # "drop" /\ IsPrefix(steps[i].commit, tip)}
      last == CHOOSE i \in own : \A j \in own : j <= i
      folds == {j \in last + 1..Len(steps) :
                  \A k \in last + 1..j : steps[k].action = "fold"}
  IN IF own = {} THEN 0 ELSE last + Cardinality(folds)

(* landing: how many steps are done when everything of tip's own history   *)
(* has been replayed, with what folds into its last commit.                *)
Landing(steps, tip) ==
  LET own == {i \in DOMAIN steps :
                steps[i].action # "drop" /\ IsPrefix(steps[i].commit, tip)}
      last == CHOOSE i \in own : \A j \in own : j <= i
      folds == {j \in last + 1..Len(steps) :
                  /\ steps[j].action = "fold"
                  /\ \A k \in last + 1..j : steps[k].action \in {"fold", "drop"}}
  IN IF own = {} THEN 0
     ELSE IF folds = {} THEN last
     ELSE CHOOSE j \in folds : \A k \in folds : k <= j

(* place_marks: side moves when it points into the range. *)
Mark(steps, onto) ==
  IF side # None /\ IsPrefix(side, branch) /\ ~IsPrefix(side, onto)
  THEN [old |-> side, after |-> Landing(steps, side), new |-> None]
  ELSE None

(* A plan's commits are looked up on the branch. *)
Resolved(plan) ==
  [i \in DOMAIN plan |->
     [commit |-> SubSeq(branch, 1, plan[i].commit + 1), action |-> plan[i].action]]

PickSteps(commits) == {<<[commit |-> c, action |-> "pick"]>> : c \in commits}

(* fill_marks: the boundary was reached, the commit there is known.        *)
Filled(s) ==
  IF s.mark # None /\ s.mark.new = None /\ s.mark.after <= s.next
  THEN [s EXCEPT !.mark.new = s.current] ELSE s

Step(s) == s.steps[s.next + 1]

Done(s) == s.next = Len(s.steps)

-----------------------------------------------------------------------------
Save(s) == saved' = s

Return == pc' = "idle" /\ st' = None

Go(where, s) == pc' = where /\ st' = s

Worktree == <<index, merge, wt>>

Refs == <<branch, side, backup>>

Ghosts == <<skipped, ops, died>>

(* hard_reset_keeping_autostash: the parked path keeps its bytes. *)
HardReset(s, commit) ==
  /\ index' = Tree(commit)
  /\ wt' = IF s.stash THEN WithWorkOf(Tree(commit), wt) ELSE Tree(commit)
  /\ merge' = "clean"

CanBegin ==
  /\ pc = "idle" /\ ops < MaxOps
  /\ saved = None
  /\ head = None /\ branch # None
  /\ merge = "clean" /\ index = Tree(branch) /\ wt \ Work = index \ Work

(* begin.  It refuses while an operation is in progress, on a detached     *)
(* HEAD, on staged changes and on changes to what it will rewrite; then    *)
(* the old tip is backed up and uncommitted work is parked.                *)
Begin(onto, steps, mode, mark) ==
  LET dirty == WorkIn(wt) # WorkIn(Tree(branch))
      first == SelectSeq(steps, LAMBDA s : s.action # "drop")
      touched == \/ WorkIn(Tree(onto)) # WorkIn(Tree(branch))
                 \/ \E i \in DOMAIN steps :
                      LET c == steps[i].commit
                      IN WorkIn(Tree(c)) # WorkIn(Tree(Front(c)))
  IN
  /\ first # <<>> => Head(first).action # "fold"
  /\ dirty => ~touched
  /\ backup' = branch
  /\ parked' = IF dirty THEN WorkIn(wt) ELSE parked
  /\ Go("detach", [orig |-> branch, onto |-> onto, current |-> onto, next |-> 0,
                   steps |-> steps, mode |-> mode, editing |-> FALSE,
                   stash |-> dirty, mark |-> mark])
  /\ ops' = ops + 1
  /\ skipped' = {}
  /\ UNCHANGED <<branch, side, head, saved, died, Worktree>>

(* start_with: every rebase, the other branch moved along or not.  A plan   *)
(* names commits the branch has.                                           *)
Rebase ==
  /\ CanBegin
  /\ \E onto \in {Base, NewBase}, plan \in Plans :
       LET steps == Resolved(plan)
       IN
       /\ \A i \in DOMAIN plan : plan[i].commit < Len(branch)
       /\ \/ Begin(onto, steps, "pick", Mark(steps, onto))
          \/ Begin(onto, steps, "pick", None)

CherryPick ==
  /\ CanBegin
  /\ \E steps \in PickSteps({NewBase}) : Begin(branch, steps, "pick", None)

Revert ==
  /\ CanBegin
  /\ \E steps \in PickSteps({SubSeq(branch, 1, k) : k \in 2..Len(branch)}) :
       Begin(branch, steps, "revert", None)

Detach ==
  /\ pc = "detach"
  /\ head' = st.onto
  /\ Go("clean", st)
  /\ UNCHANGED <<Refs, parked, Worktree, saved, Ghosts>>

(* The plain hard reset of begin: what it wipes is parked. *)
Clean ==
  /\ pc = "clean"
  /\ index' = Tree(st.onto) /\ wt' = Tree(st.onto) /\ merge' = "clean"
  /\ Go("save", st)
  /\ UNCHANGED <<Refs, head, parked, saved, Ghosts>>

SaveState ==
  /\ pc \in {"save", "skip"}
  /\ Save(st)
  /\ Go("drive", st)
  /\ UNCHANGED <<Refs, head, parked, Worktree, Ghosts>>

-----------------------------------------------------------------------------
(* drive: one step after the other. *)

(* Mutant: the step is not counted. *)
DropStepAgain ==
  /\ pc = "drive" /\ ~Done(st) /\ Step(st).action = "drop"
  /\ Save(Filled(st))
  /\ Go("drive", Filled(st))
  /\ UNCHANGED <<Refs, head, parked, Worktree, Ghosts>>

DropStep ==
  /\ pc = "drive" /\ ~Done(st) /\ Step(st).action = "drop"
  /\ LET s == [Filled(st) EXCEPT !.next = st.next + 1]
     IN Save(s) /\ Go("drive", s)
  /\ UNCHANGED <<Refs, head, parked, Worktree, Ghosts>>

(* The merge of the step into HEAD goes to the index and, by force, to the *)
(* worktree, over whatever was written into it since.                      *)
Pick ==
  LET s == Filled(st)
      commit == Step(st).commit
  IN
  /\ pc = "drive" /\ ~Done(st) /\ Step(st).action # "drop"
  /\ index' = Apply(st.mode, commit, HeadTree)
  /\ wt' = index'
  /\ \/ /\ merge' = "clean"
        /\ Go("land", s)
        /\ UNCHANGED saved
     \/ /\ merge' = "markers"
        /\ Save(s)
        /\ Return
  /\ UNCHANGED <<Refs, head, parked, Ghosts>>

(* split_commits: one commit per part, the last with the whole tree. *)
SplitUp(s) ==
  LET parts == Tree(s.current) \cup (index \cap {<<k, 1>> : k \in 1..Commits})
  IN s.current \o <<parts, index>>

(* make_commit: a fold replaces the commit it folds into, anything else    *)
(* but a split adds one.                                                   *)
Landed(s) ==
  CASE Step(s).action = "fold" -> Append(Front(s.current), index)
    [] Step(s).action = "split" -> SplitUp(s)
    [] OTHER -> Append(s.current, index)

(* A fold needs a commit of the replay, a split both of its parts.         *)
CanLand(s) ==
  /\ Step(s).action = "fold" => s.current # s.onto
  /\ Step(s).action = "split" =>
       Diff(Step(s).commit) = index \ Tree(s.current)

Land ==
  /\ pc = "land"
  /\ IF CanLand(st)
     THEN /\ head' = Landed(st)
          /\ Go("record", st)
     ELSE Return /\ UNCHANGED head
  /\ UNCHANGED <<Refs, parked, Worktree, saved, Ghosts>>

(* The landed step is saved.  An edit pauses there. *)
Record ==
  LET s == [st EXCEPT !.current = head, !.next = st.next + 1,
                      !.editing = Step(st).action = "edit"]
  IN
  /\ pc = "record"
  /\ Save(s)
  /\ IF s.editing THEN Return ELSE Go("drive", s)
  /\ UNCHANGED <<Refs, head, parked, Worktree, Ghosts>>

-----------------------------------------------------------------------------
(* finish. *)

(* Mutant: the branch is moved whatever became of it. *)
LandBranchAnyway ==
  /\ pc = "drive" /\ Done(st)
  /\ branch' = st.current
  /\ Go("reattach", Filled(st))
  /\ UNCHANGED <<side, backup, head, parked, Worktree, saved, Ghosts>>

(* A branch that moved or is gone is left alone, and so is the replay. *)
LandBranch ==
  /\ pc = "drive" /\ Done(st)
  /\ IF branch = st.orig
     THEN branch' = st.current /\ Go("reattach", Filled(st))
     ELSE Return /\ UNCHANGED branch
  /\ UNCHANGED <<side, backup, head, parked, Worktree, saved, Ghosts>>

Reattach ==
  /\ pc = "reattach"
  /\ head' = None
  /\ HardReset(st, st.current)
  /\ Go("others", st)
  /\ UNCHANGED <<Refs, parked, saved, Ghosts>>

(* move_branches: only a branch that is still where it was. *)
MoveOthers ==
  /\ pc = "others"
  /\ side' = IF st.mark # None /\ st.mark.new # None /\ side = st.mark.old
             THEN st.mark.new ELSE side
  /\ Go("forget", st)
  /\ UNCHANGED <<branch, backup, head, parked, Worktree, saved, Ghosts>>

Forget ==
  /\ pc = "forget"
  /\ saved' = None
  /\ Go("restore", st)
  /\ UNCHANGED <<Refs, head, parked, Worktree, Ghosts>>

(* Mutant: the ref is deleted even when the file kept a later edit. *)
RestoreAndForget ==
  /\ pc = "restore"
  /\ IF st.stash /\ WorkIn(wt) \in {parked, WorkIn(HeadTree)}
     THEN wt' = (wt \ Work) \cup parked /\ parked' = None
     ELSE parked' = None /\ UNCHANGED wt
  /\ Return
  /\ UNCHANGED <<Refs, head, index, merge, saved, Ghosts>>

(* restore_autostash: a file the user wrote meanwhile keeps that, and the  *)
(* parked work stays on the ref.                                           *)
Restore ==
  /\ pc = "restore"
  /\ IF st.stash /\ WorkIn(wt) \in {parked, WorkIn(HeadTree)}
     THEN wt' = (wt \ Work) \cup parked /\ parked' = None
     ELSE UNCHANGED <<wt, parked>>
  /\ Return
  /\ UNCHANGED <<Refs, head, index, merge, saved, Ghosts>>

-----------------------------------------------------------------------------
(* The calls that take up a stopped operation. *)

InProgress == pc = "idle" /\ saved \notin {None, Corrupt}

(* continue_op on a resolved conflict, or on a step that stopped without   *)
(* one: what the index holds is landed.  Markers refuse.                   *)
Continue ==
  /\ InProgress
  /\ ~saved.editing /\ ~Done(saved)
  /\ merge # "markers"
  /\ merge' = "clean"
  /\ Go("land", saved)
  /\ UNCHANGED <<Refs, head, parked, index, wt, saved, Ghosts>>

(* amend_step: the tracked changes of the worktree go into the paused      *)
(* commit, those to a parked path excepted.                                *)
Amend ==
  LET tree == IF saved.stash THEN WithWorkOf(wt, Tree(saved.current)) ELSE wt
      amended == Append(Front(saved.current), tree)
  IN
  /\ InProgress
  /\ saved.editing
  /\ index' = tree
  /\ head' = amended
  /\ Go("save", [saved EXCEPT !.current = amended, !.editing = FALSE])
  /\ UNCHANGED <<Refs, parked, merge, wt, saved, Ghosts>>

(* skip: at an edit pause the edits go, elsewhere the step.  The reset     *)
(* moves what HEAD names: the branch, when an abort died after it put HEAD *)
(* back and before it removed the state.                                   *)
Skip ==
  /\ InProgress
  /\ saved.editing \/ ~Done(saved)
  /\ IF saved.editing
     THEN Go("save", [saved EXCEPT !.editing = FALSE]) /\ UNCHANGED skipped
     ELSE /\ Go("skip", [saved EXCEPT !.next = saved.next + 1])
          /\ skipped' = skipped \cup {saved.next + 1}
  /\ IF head = None THEN branch' = saved.current /\ UNCHANGED head
                    ELSE head' = saved.current /\ UNCHANGED branch
  /\ HardReset(saved, saved.current)
  /\ UNCHANGED <<side, backup, parked, saved, ops, died>>

(* abort: back on the branch where it is now, or on its backup. *)
Abort ==
  LET tip == IF branch # None THEN branch
             ELSE IF backup # None THEN backup ELSE saved.orig
  IN
  /\ InProgress
  /\ branch' = tip
  /\ head' = None
  /\ HardReset(saved, tip)
  /\ Go("forget", saved)
  /\ UNCHANGED <<side, backup, parked, saved, Ghosts>>

-----------------------------------------------------------------------------
(* The user and the other processes, between two calls.                    *)

Resolve ==
  /\ pc = "idle" /\ merge = "markers"
  /\ merge' = "resolved"
  /\ UNCHANGED <<Refs, head, parked, index, wt, saved, st, pc, Ghosts>>

(* Bound: what is written before an operation is in Init. *)
EditFile ==
  /\ pc = "idle" /\ saved # None
  /\ \E w \in Work : wt' = (wt \ Work) \cup {w}
  /\ UNCHANGED <<Refs, head, parked, index, merge, saved, st, pc, Ghosts>>

OthersCommit(tip) == Append(tip, Tree(tip) \cup {Foreign})

(* Bound: others change one branch, once. *)
Others ==
  /\ pc = "idle"
  /\ head # None    \* nobody moves the branch that is checked out
  /\ branch # None /\ side # None
  /\ Foreign \notin Tree(branch) \cup Tree(side)
  /\ \/ branch' \in {None, OthersCommit(branch)} /\ UNCHANGED side
     \/ side' \in {None, OthersCommit(side)} /\ UNCHANGED branch
  /\ UNCHANGED <<backup, head, parked, Worktree, saved, st, pc, Ghosts>>

(* A process dies, once.  The state file is written in place: the one that *)
(* was being written may be cut short.                                     *)
Crash ==
  /\ pc # "idle"
  /\ died = None
  /\ \/ UNCHANGED saved
     \/ pc \in {"save", "skip", "record"} /\ saved' = Corrupt
  /\ Return
  /\ died' = pc
  /\ UNCHANGED <<Refs, head, parked, Worktree, skipped, ops>>

-----------------------------------------------------------------------------
Init ==
  /\ branch = History(Commits)
  /\ head = None
  /\ side \in {History(k) : k \in 0..Commits}
  /\ backup = None
  /\ parked = None
  /\ index = Tree(branch)
  /\ merge = "clean"
  /\ wt \in {Tree(branch), Tree(branch) \cup {CHOOSE w \in Work : TRUE}}
  /\ saved = None
  /\ st = None
  /\ pc = "idle"
  /\ skipped = {}
  /\ ops = 0
  /\ died = None

Call ==
  \/ Detach \/ Clean \/ SaveState
  \/ DropStep \/ Pick \/ Land \/ Record
  \/ LandBranch \/ Reattach \/ MoveOthers \/ Forget \/ Restore

Next ==
  \/ Rebase \/ CherryPick \/ Revert
  \/ Continue \/ Amend \/ Skip \/ Abort
  \/ Call
  \/ Resolve \/ EditFile \/ Others
  \/ Crash

(* A call runs on until it returns: the process is one thread that waits   *)
(* for nothing.                                                            *)
Spec == Init /\ [][Next]_vars /\ WF_vars(Call)

-----------------------------------------------------------------------------
Commit == Seq(SUBSET Changes) \ {<<>>}
StepOf == [commit : {c \in Commit : Len(c) > 1}, action : Action]

IsState(s) ==
  /\ {s.orig, s.onto, s.current} \subseteq Commit
  /\ s.steps \in Seq(StepOf) /\ s.next \in 0..Len(s.steps)
  /\ s.mark # None => s.mark.old \in Commit /\ s.mark.new \in Commit \cup {None}

TypeOK ==
  /\ {branch, head, side, backup} \subseteq Commit \cup {None}
  /\ {index, wt} \subseteq SUBSET Changes
  /\ parked \in {None} \cup SUBSET Work
  /\ saved \notin {None, Corrupt} => IsState(saved)
  /\ pc # "idle" => IsState(st)

BranchMoves == LandBranch /\ branch' # branch

Survives(i) == i \notin skipped /\ st.steps[i].action # "drop"

(* The steps whose change the new history has, in order. *)
Surviving == SelectSeq([i \in DOMAIN st.steps |-> i], Survives)

Replayed ==
  FoldLeft(LAMBDA tree, i : Apply(st.mode, st.steps[i].commit, tree),
           Tree(st.onto), Surviving)

CommitsOf(action) == CASE action = "fold" -> 0 [] action = "split" -> 2 [] OTHER -> 1

CommitCount ==
  FoldLeft(LAMBDA n, i : n + CommitsOf(st.steps[i].action), 0, Surviving)

(* Where a death leaves a state file that counts a step as stopped whose   *)
(* merge is not in the index, or no longer: git_continue then records the  *)
(* step without its change.                                                *)
Unmerged == {"drive", "skip", "forget"}

(* The branch is moved to the whole plan: the tree every surviving step's  *)
(* change makes on the new base, in as many commits as they stand for, and *)
(* nothing of a step that was dropped or skipped, through conflicts,       *)
(* pauses and process restarts (drive, continue_op, skip).                 *)
BranchGetsPlan ==
  [][BranchMoves /\ died \notin Unmerged =>
       /\ Tree(branch') \ Work = Replayed
       /\ Len(branch') - Len(st.onto) = CommitCount]_vars

SideMoves == MoveOthers /\ side' # side

(* The other branch's own steps that survive, and whether tip has them. *)
Own == {i \in DOMAIN st.steps : Survives(i) /\ IsPrefix(st.steps[i].commit, side)}

HasOwn(tip) == \A i \in Own : Diff(st.steps[i].commit) \subseteq Tree(tip)

(* The other branch goes to the first commit of the new history that has   *)
(* everything of its own that survives: it is part of that history, and    *)
(* takes along no commit it could do without (landing, fill_marks).        *)
SideLandsOnItsOwn ==
  [][SideMoves /\ skipped = {} /\ died = None =>
       /\ IsPrefix(side', branch)
       /\ HasOwn(side')
       /\ \A n \in Len(st.onto)..(Len(side') - 1) : ~HasOwn(SubSeq(side', 1, n))]_vars

(* Both: the branch and the other branch end where they should (finish).   *)
FinishReplaysPlan == BranchGetsPlan /\ SideLandsOnItsOwn

(* git_skip: "continue the operation as if that commit had been omitted".  *)
(* The other branch ends inside the rewritten history then, too.           *)
SideStaysInHistory ==
  [][SideMoves /\ died = None => IsPrefix(side', branch)]_vars

(* What another process committed to a branch, or that it deleted it, is   *)
(* not undone: a call moves a branch only from a tip that the backup begin *)
(* made has, and makes it again only in an abort (finish, move_branches,   *)
(* skip, abort).  An abort that died before it removed the state is out:   *)
(* see skip.                                                               *)
OthersCommitsStay ==
  [][~Others /\ died # "forget" =>
       /\ branch # None /\ branch' # branch => branch = backup
       /\ branch = None /\ branch' # None => Abort
       /\ side # None /\ side' # side => IsPrefix(side, backup)
       /\ side = None => side' = None]_vars

(* Work that was parked is never lost.  Until the operation has ended it is *)
(* on its ref or in the file, whatever the user and the steps do to the     *)
(* file meanwhile; what the user writes into a parked file during the       *)
(* operation outlives the resets, the amend and the restore, which know of  *)
(* parked files (the merge of a later step does not); and however the       *)
(* operation ends, HEAD is on the branch again, nothing is staged, and the  *)
(* work is back unless the user wrote the file meanwhile, when it is still  *)
(* on its ref (begin, hard_reset_keeping_autostash, amend_step, finish,     *)
(* abort, restore_autostash).                                               *)
Operation ==
  IF pc # "idle" THEN st ELSE IF saved # Corrupt THEN saved ELSE None

Parked == Operation # None /\ Operation.stash

LaterEdit(w) == w \in WorkIn(wt) \ WorkIn(HeadTree)

EditsOutliveResets ==
  Parked /\ pc # "detach" /\ pc # "clean" /\ ~EditFile /\ ~Pick =>
    \A w \in Work : LaterEdit(w) => w \in wt'

EndsCleanly ==
  Restore =>
    /\ head' = None /\ index' = Tree(branch') /\ wt' \ Work = index' \ Work
    /\ st.stash => \/ parked' = None /\ WorkIn(wt') = parked
                   \/ parked' = parked /\ WorkIn(wt') = WorkIn(wt)
                      /\ WorkIn(wt) # WorkIn(HeadTree)

ParkedWorkSurvives ==
  [][/\ Parked /\ pc # "idle" /\ parked # None =>
          parked' = parked \/ WorkIn(wt') = parked
     /\ EditsOutliveResets
     /\ EndsCleanly]_vars

(* Every call returns, whatever it has to replay. *)
CallsReturn == pc # "idle" ~> pc = "idle"
=============================================================================
