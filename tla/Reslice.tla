------------------------------- MODULE Reslice -------------------------------
(***************************************************************************)
(* The tools that move parts of changes between commits and the worktree   *)
(* (sequencer.rs): git_fixup and git_absorb fold uncommitted hunks into    *)
(* commits, git_discard drops them, git_commit commits them, git_split and *)
(* git_move recut commits.  The folds park the uncommitted work on the     *)
(* -worktree ref, replay the branch over a clean worktree and write the    *)
(* work back; a process may die between any two of these writes.           *)
(*                                                                         *)
(* The replay is module Sequencer's, here over files of lines: its steps   *)
(* and where it stops, without what it parks itself.                       *)
(***************************************************************************)
EXTENDS Hunks

CONSTANTS
  InitialBranch,  \* the branch as it was: the trees of its commits
  Worktrees,      \* what the user makes of the worktree
  Selections,     \* pairs of a set of paths and a set of selectors
  Partitions,     \* the parts of splits
  Directives,     \* the folds of autosquashes, by the numbers of the commits
  None,
  MaxCalls        \* bound: calls begun

VARIABLES
  branch,     \* the commit the branch is at
  head,       \* the commit HEAD is detached at, None when it is on the branch
  index,      \* the tree of the index
  wt,         \* the tree of the worktree
  parachute,  \* the -worktree refs of the branch and of a detached HEAD
  saved,      \* the state file of a replay
  pc,         \* where the call under way is
  call,       \* the call under way or, until the user edits, the last one
  calls       \* calls begun
vars == <<branch, head, index, wt, parachute, saved, pc, call, calls>>

(* Steps of replays, and what the state file holds. *)
SomeSteps ==
  Seq([commit : {c \in Seq(SomeTrees) : Len(c) >= 2}, action : {"pick", "fold", "split", "edit"},
       parts : {<<>>} \cup Partitions])
SomeReplays == [steps : SomeSteps, next : Nat \ {0}, conflict : BOOLEAN]

ASSUME ResliceAssumption ==
  /\ InitialBranch \in Seq(SomeTrees) /\ InitialBranch # <<>>
  /\ Worktrees \subseteq SomeTrees
  /\ \A parts \in Partitions : parts \in Seq(ToSet(parts))
  /\ \A directives \in Directives : directives \in Seq(ToSet(directives)) /\ directives # <<>>
  /\ None \notin SomeTrees \cup Seq(SomeTrees) \cup SomeReplays

HeadCommit == IF head = None THEN branch ELSE head
HeadTree == Tree(HeadCommit)

(* The worktree as diffs see it: files the index does not hold are untracked. *)
View == [p \in Paths |-> IF index[p] = Absent THEN Absent ELSE wt[p]]

(* reset --hard: an untracked file stays. *)
HardReset(tree) ==
  /\ index' = tree
  /\ wt' = [p \in Paths |-> IF tree[p] = Absent /\ index[p] = Absent THEN wt[p] ELSE tree[p]]

(* A checkout of the tree would overwrite an untracked file. *)
Clobbers(tree) == \E p \in Paths : index[p] = Absent /\ wt[p] # Absent /\ tree[p] # Absent

Init ==
  /\ branch = InitialBranch /\ head = None
  /\ index = Tree(branch) /\ wt = Tree(branch)
  /\ parachute = [at |-> None, detached |-> None]
  /\ saved = None
  /\ pc = "idle" /\ call = None /\ calls = 0

(* What a call found. *)
Was == [branch |-> branch, head |-> head, saved |-> saved, wt |-> wt, view |-> View]

Steps(commits) == [i \in DOMAIN commits |-> [commit |-> commits[i], action |-> "pick", parts |-> <<>>]]

(* commits_since: the commits after the first n, oldest first. *)
CommitsSince(n) == [i \in 1..(Len(HeadCommit) - n) |-> SubSeq(HeadCommit, 1, n + i)]

InsertAfter(steps, k, step) == SubSeq(steps, 1, k) \o <<step>> \o SubSeq(steps, k + 1, Len(steps))

CanCall == pc = "idle" /\ calls < MaxCalls /\ (saved # None => ~saved.conflict)
Begun(c) == call' = c /\ calls' = calls + 1

(***************************************************************************)
(* Folds of uncommitted hunks.                                             *)
(***************************************************************************)
Stamp(tree) ==
  parachute' = IF head = None THEN [parachute EXCEPT !.at = tree]
               ELSE [parachute EXCEPT !.detached = tree]

(* run_plan_over_parked_worktree: the bytes of the files that differ are kept *)
(* for the way back, all of the work goes to the ref, then the worktree is    *)
(* cleaned.                                                                   *)
Park(kind, since, steps, onto, work, took) ==
  /\ work # Refused
  /\ Stamp(work)
  /\ pc' = "clean"
  /\ Begun([kind |-> kind, was |-> Was, since |-> since, steps |-> steps, onto |-> onto,
            outcome |-> "running", took |-> took, snap |-> [p \in Differing(HeadTree, View) |-> wt[p]]])
  /\ UNCHANGED <<branch, head, index, wt, saved>>

(* The dangling commit of the selected changes on top of HEAD. *)
FoldStep(tree) ==
  [commit |-> Append(HeadCommit, tree), action |-> "fold", parts |-> <<>>]

FixupSteps(target, fold) == InsertAfter(Steps(CommitsSince(target - 1)), 1, FoldStep(fold))

(* Mutant: the ref gets what is folded. *)
FoldIntoParkingTheFold(target, diff, paths, keys, fold) ==
  /\ fold \notin {Refused, HeadTree}
  /\ Park("fixup", 0, FixupSteps(target, fold), target - 1, fold, LinesOf(diff, keys))

(* fixup_worktree, by the hunks of keys: the target is given by its number  *)
(* on HEAD's history.                                                       *)
FoldInto(target, diff, paths, keys, fold) ==
  /\ fold \notin {Refused, HeadTree}
  /\ Park("fixup", 0, FixupSteps(target, fold), target - 1,
          ApplySubset(diff, Paths, AllKeys(diff)), LinesOf(diff, keys))

FoldSelected(target, diff, paths, keys) ==
  FoldInto(target, diff, paths, keys, ApplySubset(diff, paths, keys))

(* No selection is all of the work. *)
FixupWorktree(target, diff, paths, sels) ==
  /\ CanCall
  /\ View # HeadTree
  /\ \/ /\ paths = {} /\ sels = {}
        /\ FoldSelected(target, diff, Paths, AllKeys(diff))
     \/ /\ paths # {} \/ sels # {}
        /\ Resolves(diff, paths, sels)
        /\ FoldSelected(target, diff, paths, KeysTaken(diff, paths, sels))

(* absorb: every hunk with one owner, above `since` and above the root, is  *)
(* folded into it; each owner has one fold, right after it.                 *)
OwnedBy(diff, since, k) == {h \in DiffHunks(diff) : HunkOwners(HeadCommit, since, h) = {k}}

FoldOf(diff, since, owners, k) ==
  IF k \notin owners THEN <<>>
  ELSE <<FoldStep(ApplySubsetByOldLine(diff, {}, {Key(h) : h \in OwnedBy(diff, since, k)}))>>

(* Mutant: the folds come after all commits. *)
AbsorbStepsLast(diff, since, owners, onto) ==
  Steps(CommitsSince(onto))
  \o FlattenSeq([i \in 1..(Len(HeadCommit) - onto) |-> FoldOf(diff, since, owners, onto + i)])

AbsorbSteps(diff, since, owners, onto) ==
  FlattenSeq([i \in 1..(Len(HeadCommit) - onto) |->
    Steps(<<CommitsSince(onto)[i]>>) \o FoldOf(diff, since, owners, onto + i)])

AbsorbInto(diff, since, owners, steps) ==
  /\ \A i \in DOMAIN steps : Tree(steps[i].commit) # Refused
  /\ Park("absorb", since, steps, Min(owners) - 1, ApplySubsetByOldLine(diff, Paths, AllKeys(diff)),
          LinesOf(diff, {Key(h) : h \in UNION {OwnedBy(diff, since, k) : k \in owners}}))

AbsorbHunks(diff, since, owners) ==
  /\ owners # {}
  /\ AbsorbInto(diff, since, owners, AbsorbSteps(diff, since, owners, Min(owners) - 1))

Absorb(diff, since) ==
  /\ CanCall
  /\ AbsorbHunks(diff, since, {k \in (2..Len(HeadCommit)) \ {since} : OwnedBy(diff, since, k) # {}})

Clean ==
  /\ pc = "clean"
  /\ HardReset(HeadTree)
  /\ pc' = "begin"
  /\ UNCHANGED <<branch, head, parachute, saved, call, calls>>

(***************************************************************************)
(* The replay.                                                             *)
(***************************************************************************)
(* begin, on a clean worktree, which refuses an operation in progress. *)
Begin ==
  /\ pc = "begin"
  /\ IF saved # None \/ Clobbers(call.was.branch[call.onto])
     THEN /\ pc' = "abort"
          /\ UNCHANGED <<head, index, wt, saved>>
     ELSE /\ saved' = [steps |-> call.steps, next |-> 1, conflict |-> FALSE]
          /\ head' = SubSeq(call.was.branch, 1, call.onto)
          /\ HardReset(Tree(head'))
          /\ pc' = "replay"
  /\ UNCHANGED <<branch, parachute, call, calls>>

Parks == call.kind \in {"fixup", "absorb"}
Returns(outcome) == pc' = "idle" /\ call' = [call EXCEPT !.outcome = outcome]

(* hunk_assignment: what each part takes, whole files and hunks, Refused when *)
(* something is claimed twice or left over or a part is without any.  The     *)
(* part `rest` takes what no other one claims.                                *)
Plan(parts, taken, left, bare) ==
  [k \in DOMAIN parts |-> IF parts[k].rest THEN [paths |-> bare, keys |-> left]
                          ELSE [paths |-> parts[k].paths, keys |-> taken[k]]]

Claimed(parts) == UNION {parts[k].paths : k \in DOMAIN parts}

SoundPlan(diff, parts, plan) ==
  /\ \A k \in DOMAIN parts :
       /\ Resolves(diff, parts[k].paths, parts[k].sels)
       /\ \A sel \in parts[k].sels : sel.path \notin Claimed(parts)
       /\ plan[k].paths # {} \/ plan[k].keys # {}
  /\ \A j, k \in DOMAIN parts :
       j # k => plan[j].keys \cap plan[k].keys = {} /\ plan[j].paths \cap plan[k].paths = {}
  /\ UNION {plan[k].keys : k \in DOMAIN parts} = AllKeys(diff)
  /\ {p \in Deltas(diff) : diff.hunks[p] = <<>>} \subseteq UNION {plan[k].paths : k \in DOMAIN parts}

PlanFrom(diff, parts, taken) ==
  Plan(parts, taken, AllKeys(diff) \ UNION {taken[k] : k \in DOMAIN parts},
       {p \in Deltas(diff) \ Claimed(parts) : diff.hunks[p] = <<>>})

HunkAssignment(diff, parts) ==
  PlanFrom(diff, parts, [k \in DOMAIN parts |-> KeysTaken(diff, parts[k].paths, parts[k].sels)])

(* split_commits_hunked: what the parts up to k take, applied to the base. *)
SplitByHunks(diff, parts, plan) ==
  IF ~SoundPlan(diff, parts, plan) THEN <<Refused>>
  ELSE [k \in DOMAIN parts |-> ApplySubset(diff, UNION {plan[j].paths : j \in 1..k},
                                           UNION {plan[j].keys : j \in 1..k})]

(* split_assignment, split_commits: whole files, one part after the other. *)
SplitByPaths(diff, parts, left) ==
  LET upTo(k) == UNION {IF parts[j].rest THEN left ELSE parts[j].paths : j \in 1..k}
  IN  IF /\ Claimed(parts) \subseteq Deltas(diff)
         /\ \A j, k \in DOMAIN parts : j # k => parts[j].paths \cap parts[k].paths = {}
         /\ (left # {}) <=> (\E k \in DOMAIN parts : parts[k].rest)
      THEN [k \in DOMAIN parts |->
              [p \in Paths |-> IF p \in upTo(k) THEN diff.new[p] ELSE diff.old[p]]]
      ELSE <<Refused>>

(* build_split: the trees of the parts. *)
BuildSplit(diff, parts) ==
  IF \E k \in DOMAIN parts : parts[k].sels # {}
  THEN SplitByHunks(diff, parts, HunkAssignment(diff, parts))
  ELSE SplitByPaths(diff, parts, Deltas(diff) \ Claimed(parts))

Landed(step, tree) ==
  CASE step.action = "split" -> head \o BuildSplit(Diff(Context, HeadTree, tree), step.parts)
    [] step.action = "fold" -> Append(Parent(head), tree)
    [] OTHER -> Append(head, tree)

Land(step, landed) ==
  IF Refused \in ToSet(landed)
  THEN Returns("refused") /\ UNCHANGED <<head, index, wt, saved>>
  ELSE /\ head' = landed
       /\ HardReset(Tree(landed))
       /\ saved' = [saved EXCEPT !.next = @ + 1]
       /\ IF step.action = "edit" THEN Returns("paused") ELSE UNCHANGED <<pc, call>>

PickStep(step, base, theirs) ==
  IF Clobbers(Merged(base, HeadTree, theirs))
  THEN /\ IF Parks THEN pc' = "abort" /\ UNCHANGED call ELSE Returns("refused")
       /\ UNCHANGED <<head, index, wt, saved>>
  ELSE IF MergeConflicts(Diff(0, base, HeadTree), Diff(0, base, theirs)) # {}
  THEN /\ saved' = [saved EXCEPT !.conflict = TRUE]
       /\ IF Parks THEN pc' = "abort" /\ UNCHANGED call ELSE Returns("paused")
       /\ UNCHANGED <<head, index, wt>>
  ELSE Land(step, Landed(step, Merged(base, HeadTree, theirs)))

ReplayStep ==
  /\ pc = "replay" /\ saved.next <= Len(saved.steps)
  /\ LET step == saved.steps[saved.next]
     IN  PickStep(step, Tree(Parent(step.commit)), Tree(step.commit))
  /\ UNCHANGED <<branch, parachute, calls>>

Finish ==
  /\ pc = "replay" /\ saved.next > Len(saved.steps)
  /\ branch' = head
  /\ head' = None
  /\ saved' = None
  /\ IF Parks THEN pc' = "restore" /\ UNCHANGED call ELSE Returns("done")
  /\ UNCHANGED <<index, wt, parachute, calls>>

(* abort: HEAD goes back to the branch. *)
BackOnBranch ==
  /\ head' = None
  /\ saved' = None
  /\ HardReset(Tree(branch))

(* A fold that was refused aborts what is in progress, taking it for its own *)
(* half-started replay.                                                      *)
AbortFold ==
  /\ pc = "abort"
  /\ IF saved = None THEN UNCHANGED <<head, index, wt, saved>> ELSE BackOnBranch
  /\ call' = [call EXCEPT !.outcome = "refused"]
  /\ pc' = "restore"
  /\ UNCHANGED <<branch, parachute, calls>>

(* restore_worktree: file after file. *)
RestoreFile ==
  /\ pc = "restore"
  /\ \E p \in DOMAIN call.snap : /\ wt[p] # call.snap[p]
                                 /\ wt' = [wt EXCEPT ![p] = call.snap[p]]
  /\ UNCHANGED <<branch, head, index, parachute, saved, pc, call, calls>>

Restored ==
  /\ pc = "restore"
  /\ \A p \in DOMAIN call.snap : wt[p] = call.snap[p]
  /\ Returns(IF call.outcome = "refused" THEN "refused" ELSE "done")
  /\ UNCHANGED <<branch, head, index, wt, parachute, saved, calls>>

(***************************************************************************)
(* git_discard: the work goes to the ref, then each file of the diff is    *)
(* written with what is kept and taken out of the index's changes.         *)
(***************************************************************************)
DiscardHunks(diff, keys, kept, work) ==
  /\ Refused \notin {kept, work}
  /\ Stamp(work)
  /\ pc' = "discard"
  /\ Begun([kind |-> "discard", was |-> Was, outcome |-> "running", took |-> LinesOf(diff, keys),
            snap |-> [p \in Deltas(diff) |-> kept[p]]])
  /\ UNCHANGED <<branch, head, index, wt, saved>>

DiscardSelected(diff, paths, keys) ==
  /\ keys # {} \/ \E p \in paths : diff.hunks[p] = <<>>
  /\ DiscardHunks(diff, keys,
       ApplySubsetByOldLine(diff, Paths \ paths, AllKeys(diff) \ keys),
       ApplySubsetByOldLine(diff, Paths, AllKeys(diff)))

Discard(diff, paths, sels) ==
  /\ CanCall
  /\ paths # {} \/ sels # {}
  /\ Resolves(diff, paths, sels)
  /\ DiscardSelected(diff, paths, KeysTaken(diff, paths, sels))

DiscardFile ==
  /\ pc = "discard"
  /\ \E p \in DOMAIN call.snap : /\ wt[p] # call.snap[p]
                                 /\ wt' = [wt EXCEPT ![p] = call.snap[p]]
  /\ UNCHANGED <<branch, head, index, parachute, saved, pc, call, calls>>

Discarded ==
  /\ pc = "discard"
  /\ \A p \in DOMAIN call.snap : wt[p] = call.snap[p]
  /\ index' = [p \in Paths |-> IF p \in DOMAIN call.snap THEN HeadTree[p] ELSE index[p]]
  /\ Returns("done")
  /\ UNCHANGED <<branch, head, wt, parachute, saved, calls>>

(***************************************************************************)
(* git_commit, at the tip.                                                 *)
(***************************************************************************)
Committed(tree, newIndex, took) ==
  /\ tree \notin {Refused, HeadTree}
  /\ branch' = Append(branch, tree)
  /\ index' = newIndex
  /\ Begun([kind |-> "commit", was |-> Was, outcome |-> "done", took |-> took])
  /\ UNCHANGED <<head, wt, parachute, saved, pc>>

(* Whole files, as the worktree has them; what is staged beside them refuses. *)
CommitPaths(paths) ==
  LET tree == [p \in Paths |-> IF p \in paths THEN wt[p] ELSE index[p]]
  IN  /\ CanCall /\ head = None
      /\ paths # {}
      /\ Differing(HeadTree, index) \subseteq paths
      /\ \A p \in paths : wt[p] # Absent \/ index[p] # Absent \/ HeadTree[p] # Absent
      /\ Committed(tree, tree, UNION {{<<p, n>> : n \in SymDiff(Lines(HeadTree[p]), Lines(wt[p]))} : p \in paths})

(* Some hunks; the index takes the tree of the commit, so that anything     *)
(* staged refuses.                                                          *)
CommitSelected(diff, keys, tree) == Committed(tree, tree, LinesOf(diff, keys))

CommitHunks(diff, paths, sels) ==
  /\ CanCall /\ head = None
  /\ sels # {}
  /\ index = HeadTree
  /\ \A p \in paths \cup {sel.path : sel \in sels} : index[p] # Absent
  /\ Resolves(diff, paths, sels)
  /\ CommitSelected(diff, KeysTaken(diff, paths, sels),
                    ApplySubset(diff, paths, KeysTaken(diff, paths, sels)))

(***************************************************************************)
(* Tools that recut or reorder commits.  With uncommitted changes they park *)
(* them as module Sequencer says, so that here the worktree is clean.       *)
(***************************************************************************)
CanRecut == CanCall /\ saved = None /\ index = HeadTree /\ View = HeadTree

Replay(onto, steps, started) ==
  /\ ~Clobbers(Tree(onto))
  /\ Begun(started)
  /\ saved' = [steps |-> steps, next |-> 1, conflict |-> FALSE]
  /\ head' = onto
  /\ HardReset(Tree(onto))
  /\ pc' = "replay"
  /\ UNCHANGED <<branch, parachute>>

(* cmd_split.  begin checks the parts against the commit's own diff. *)
Split(target, parts) ==
  LET commit == SubSeq(branch, 1, target)
  IN  /\ CanRecut
      /\ target \in 2..Len(branch)
      /\ Len(parts) >= 2
      /\ Refused \notin ToSet(BuildSplit(Diff(Context, Tree(Parent(commit)), Tree(commit)), parts))
      /\ Replay(Parent(commit),
                <<[commit |-> commit, action |-> "split", parts |-> parts]>>
                \o Steps(CommitsSince(target)),
                [kind |-> "split", was |-> Was, outcome |-> "running", target |-> target, parts |-> parts])

(* move_changes, from the commit at `from` to a neighbour: the older of the *)
(* two is made anew with the moved hunks or without them, the newer keeps   *)
(* its tree.                                                                *)
MoveOnto(from, to, onto, took) ==
  /\ Refused \notin ToSet(onto)
  /\ Replay(onto, Steps(CommitsSince(Len(onto))),
            [kind |-> "move", was |-> Was, outcome |-> "running", from |-> from, to |-> to, took |-> took])

MovedTree(from, to, diff, paths, keys) ==
  IF from > to THEN ApplySubset(diff, paths, keys)
  ELSE ApplySubset(diff, Paths \ paths, AllKeys(diff) \ keys)

MoveHunks(from, to, diff, paths, keys) ==
  MoveOnto(from, to,
           SubSeq(branch, 1, Min({from, to}) - 1)
             \o <<MovedTree(from, to, diff, paths, keys), branch[Max({from, to})]>>,
           LinesOf(diff, keys))

Move(from, to, diff, paths, sels) ==
  /\ CanRecut
  /\ from = to + 1 \/ to = from + 1
  /\ paths # {} \/ sels # {}
  /\ Resolves(diff, paths, sels)
  /\ (paths \cup {sel.path : sel \in sels}) \cap Differing(branch[to - 1], branch[to]) = {}
  /\ MoveHunks(from, to, diff, paths, KeysTaken(diff, paths, sels))

(* autosquash_steps: each named commit is relocated to sit right after the one *)
(* it folds into; chains of folds are refused.                                 *)
At(steps, n) == CHOOSE i \in DOMAIN steps : Len(steps[i].commit) = n

Relocated(others, into, step) ==
  InsertAfter(others, At(others, into), [step EXCEPT !.action = "fold"])

Squashed(steps, d) ==
  Relocated(RemoveAt(steps, At(steps, d.commit)), d.into, steps[At(steps, d.commit)])

AutosquashSteps(onto, directives) ==
  LET upTo[k \in 0..Len(directives)] ==
        IF k = 0 THEN Steps(CommitsSince(onto)) ELSE Squashed(upTo[k - 1], directives[k])
  IN  upTo[Len(directives)]

(* git_rebase {autosquash} and, with one directive, cmd_fixup on the parent of *)
(* the older of the two.                                                       *)
ReplaySquashed(onto, steps) ==
  /\ Head(steps).action = "pick"
  /\ Replay(SubSeq(branch, 1, onto), steps, [kind |-> "autosquash", was |-> Was, outcome |-> "running"])

Squash(directives, moved, into) ==
  /\ Min(moved \cup into) >= 2
  /\ moved \cup into \subseteq 1..Len(branch)
  /\ Cardinality(moved) = Len(directives) /\ moved \cap into = {}
  /\ ReplaySquashed(Min(moved \cup into) - 1, AutosquashSteps(Min(moved \cup into) - 1, directives))

Autosquash(directives) ==
  /\ CanRecut
  /\ Squash(directives, {directives[i].commit : i \in DOMAIN directives},
                        {directives[i].into : i \in DOMAIN directives})

(* git_rebase with a stop after its first commit. *)
RebaseEdit(first) ==
  /\ CanRecut
  /\ first \in 2..Len(branch)
  /\ LET steps == Steps(CommitsSince(first - 1))
     IN  Replay(SubSeq(branch, 1, first - 1), [steps EXCEPT ![1].action = "edit"],
                [kind |-> "rebase", was |-> Was, outcome |-> "running"])

(* git_abort *)
Abort ==
  /\ pc = "idle" /\ saved # None
  /\ BackOnBranch
  /\ call' = None
  /\ UNCHANGED <<branch, parachute, pc, calls>>

(***************************************************************************)
(* The user edits and stages files; a process dies.                        *)
(***************************************************************************)
Edit ==
  /\ pc = "idle" /\ (saved # None => ~saved.conflict)
  /\ wt' \in Worktrees
  /\ call' = None
  /\ UNCHANGED <<branch, head, index, parachute, saved, pc, calls>>

Stage ==
  /\ pc = "idle" /\ (saved # None => ~saved.conflict)
  /\ \E p \in Paths : wt[p] # Absent /\ index' = [index EXCEPT ![p] = wt[p]]
  /\ call' = None
  /\ UNCHANGED <<branch, head, wt, parachute, saved, pc, calls>>

Die ==
  /\ pc # "idle"
  /\ Returns("died")
  /\ UNCHANGED <<branch, head, index, wt, parachute, saved, calls>>

(* HEAD to worktree, of the paths named in hunk-wise commits. *)
WorktreeDiff(context) == Diff(context, HeadTree, View)
NamedDiff(named) == Diff(Context, HeadTree, [p \in Paths |-> IF p \in named THEN View[p] ELSE HeadTree[p]])

Next ==
  \/ \E target \in 2..Len(HeadCommit), s \in Selections :
       FixupWorktree(target, WorktreeDiff(Context), s.paths, s.sels)
  \/ \E since \in 0..Len(HeadCommit) : Absorb(WorktreeDiff(0), since)
  \/ Clean \/ Begin \/ ReplayStep \/ Finish \/ AbortFold \/ RestoreFile \/ Restored
  \/ \E s \in Selections : Discard(WorktreeDiff(0), s.paths, s.sels)
  \/ DiscardFile \/ Discarded
  \/ \E paths \in SUBSET Paths : CommitPaths(paths)
  \/ \E s \in Selections :
       CommitHunks(NamedDiff(s.paths \cup {sel.path : sel \in s.sels}), s.paths, s.sels)
  \/ \E target \in 2..Len(branch), parts \in Partitions : Split(target, parts)
  \/ \E from, to \in 2..Len(branch), s \in Selections :
       Move(from, to, Diff(Context, branch[from - 1], branch[from]), s.paths, s.sels)
  \/ \E directives \in Directives : Autosquash(directives)
  \/ \E first \in 2..Len(branch) : RebaseEdit(first)
  \/ Abort \/ Edit \/ Stage \/ Die

Spec == Init /\ [][Next]_vars

(***************************************************************************)
(* Properties.                                                             *)
(***************************************************************************)
Trees == {branch[k] : k \in DOMAIN branch} \cup {HeadTree, index, wt}
         \cup ({parachute.at, parachute.detached} \ {None})

(* Every hunk is put where it belongs: no subset of a diff, applied by old   *)
(* or by new line numbers, with context or without, tears the order of the   *)
(* lines in a commit, in the worktree or on a ref                            *)
(* (apply_hunks_by_old_line, apply_subset).                                  *)
HunksFallInPlace ==
  \A tree \in Trees, p \in Paths :
    tree[p] # Absent => \A i, j \in DOMAIN tree[p] : i < j => tree[p][i] < tree[p][j]

Ended(kinds, outcome) == pc = "idle" /\ call # None /\ call.kind \in kinds /\ call.outcome = outcome

(* The worktree as the call found it, or its parachute, still holds every    *)
(* file: through a refused replay, a half-done restore or discard, a process *)
(* that died at any write (run_plan_over_parked_worktree, discard) - unless   *)
(* the call found an operation in progress.                                   *)
WorkIsSomewhere ==
  call # None /\ call.kind \in {"fixup", "absorb", "discard"} /\ call.was.saved = None =>
    \A p \in Paths : call.was.wt[p] \in
      {tree[p] : tree \in {wt, parachute.at, parachute.detached} \ {None}}

Flipped(file, path, took) == SymDiff(Lines(file), {x[2] : x \in {y \in took : y[1] = path}})

(* What a call over the worktree took, it took to the line.  An absorb and a  *)
(* commit of part of the work change the tip by the selected hunks, a fold by *)
(* no other line, and the worktree keeps its bytes; a discard takes the       *)
(* selected hunks out of the worktree and nothing else.  No file comes or     *)
(* goes, or is left empty, that did not.  A fold that is refused, because the *)
(* replay conflicts, leaves branch, HEAD and worktree as they were and no     *)
(* operation in progress (run_plan_over_parked_worktree) - if none was.       *)
WorktreeCallsAreExact ==
  /\ Ended({"fixup", "absorb"}, "refused") /\ call.was.saved = None =>
       branch = call.was.branch /\ head = None /\ saved = None /\ wt = call.was.wt
  /\ \A p \in Paths :
       LET was == call.was.branch
           old == Tree(was)[p]
           tip == Tree(branch)[p]
       IN  /\ Ended({"absorb", "commit"}, "done") => Lines(tip) = Flipped(old, p, call.took)
           /\ Ended({"fixup"}, "done") =>
                \A n \in SymDiff(Lines(old), Lines(tip)) : <<p, n>> \in call.took
           /\ Ended({"absorb", "commit", "fixup"}, "done") =>
                /\ wt[p] = call.was.wt[p]
                /\ tip \in {Absent, <<>>} => tip \in {old, call.was.wt[p]}
           /\ Ended({"discard"}, "done") =>
                /\ branch = was
                /\ Lines(wt[p]) = Flipped(call.was.wt[p], p, call.took)
                /\ wt[p] \in {Absent, <<>>} => wt[p] \in {HeadTree[p], call.was.wt[p]}

(* An absorbed change of lines that one commit brought is that commit's: no *)
(* commit before it gains the new lines, from it on every commit has them   *)
(* and none has the old ones (absorb, worktree_hunk_owners).                *)
AbsorbReachesOwners ==
  Ended({"absorb"}, "done") =>
    \A h \in DiffHunks(Diff(0, Tree(call.was.branch), call.was.view)) :
      LET gone == ToSet(h.old)
          owners == {Owner(call.was.branch, h.path, n) : n \in gone}
      IN  \A k \in owners \ (1..call.since) :
            owners = {k} /\ k # 1 =>
              \A j \in DOMAIN branch :
                IF j < k
                THEN ToSet(h.new) \cap Lines(branch[j][h.path]) \subseteq Lines(call.was.branch[j][h.path])
                ELSE /\ ToSet(h.new) \subseteq Lines(branch[j][h.path])
                     /\ gone \cap Lines(branch[j][h.path]) = {}

Changes(commit, k) ==
  UNION {{<<p, n>> : n \in SymDiff(Lines(commit[k - 1][p]), Lines(commit[k][p]))} : p \in Paths}

(* A split and a move change who made a change, not the branch's end: the   *)
(* parts of a split are not empty, have what they claimed and are together, *)
(* each line once, the commit that was split; a move takes its lines from   *)
(* the one commit and gives them to the other; no other commit is touched   *)
(* (build_split, move_changes).                                             *)
RecutsAreExact ==
  LET was == call.was.branch
      made(k) == Changes(branch, k)
      parts == call.target..(call.target + Len(call.parts) - 1)
  IN  /\ Ended({"split", "move"}, "done") => Tree(branch) = Tree(was)
      /\ Ended({"split"}, "done") =>
           /\ SubSeq(branch, call.target + Len(call.parts), Len(branch)) = SubSeq(was, call.target + 1, Len(was))
           /\ \A k \in parts :
                /\ made(k) # {} \/ branch[k] # branch[k - 1]
                /\ \A sel \in call.parts[k - call.target + 1].sels :
                     sel.pick = "contains" => <<sel.path, sel.line>> \in made(k)
                /\ \A j \in parts : j # k => made(j) \cap made(k) = {}
           /\ UNION {made(k) : k \in parts} = Changes(was, call.target)
      /\ Ended({"move"}, "done") =>
           \A k \in 2..Len(was) :
             made(k) = (IF k = call.from THEN Changes(was, k) \ call.took
                        ELSE IF k = call.to THEN Changes(was, k) \cup call.took
                        ELSE Changes(was, k))

(* A call of a history tool does what it was asked for, to the line.  *)
CallsAreExact == WorktreeCallsAreExact /\ AbsorbReachesOwners /\ RecutsAreExact
=============================================================================
