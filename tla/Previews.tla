------------------------------ MODULE Previews ------------------------------
(***************************************************************************)
(* What a rebase says of itself (sequencer.rs): the rehearsal of a plan,   *)
(* made in the object database before anything moves, the commits a replay *)
(* without a plan leaves out as already upstream, and git_range_diff,      *)
(* which compares a branch before and after.                               *)
(*                                                                         *)
(* Here each is set beside the replay itself, with every conflicting step  *)
(* skipped and every edit left as it landed.  What the replay does to      *)
(* refs, files and its state file is module Sequencer's; splits are        *)
(* Reslice's.  A commit is the sequence of the changes of its history, a   *)
(* change its tree and its message, a message the titles of its paragraphs.*)
(***************************************************************************)
EXTENDS Hunks

CONSTANTS
  Stories,  \* pairs of a branch and the commit it is replayed onto
  Plans,    \* the plans of callers: commits of the branch by number, and actions
  NewTitle  \* what a reword writes

VARIABLES
  story,    \* the branch and what it is replayed onto
  steps,    \* the steps of the replay
  side,     \* another branch, at a commit of the range
  foreseen, \* what the rehearsal said
  replay,   \* how far the replay is
  told      \* what range_diff says of it
vars == <<story, steps, side, foreseen, replay, told>>

Snap(commit) == commit[Len(commit)].tree
Message(commit) == commit[Len(commit)].msg
Summary(commit) == Head(Message(commit))
ChangeOf(context, commit) == Diff(context, Snap(Parent(commit)), Snap(commit))
Change(tree, msg) == [tree |-> tree, msg |-> msg]

MergeBase(a, b) ==
  SubSeq(a, 1, Max({n \in 1..Len(a) : n <= Len(b) /\ SubSeq(a, 1, n) = SubSeq(b, 1, n)}))

(* base..tip, oldest first. *)
After(n, tip) == [i \in 1..(Len(tip) - n) |-> SubSeq(tip, 1, n + i)]
Between(base, tip) == After(Len(MergeBase(base, tip)), tip)

(***************************************************************************)
(* Plans.                                                                  *)
(***************************************************************************)
Folds(step) == step.action \in {"fixup", "squash"}

(* commit_patch_id: the hunks of a change with their context, wherever they *)
(* are; an empty change has none.                                           *)
NoPatch == {}
PatchOf(hunks) == [i \in DOMAIN hunks |-> <<hunks[i].old, hunks[i].new>>]
CommitPatchId(commit) ==
  LET diff == ChangeOf(Context, commit) IN {<<p, PatchOf(diff.hunks[p])>> : p \in Deltas(diff)}

(* Patch ids of the commits only onto has. *)
Upstream(onto, head) == {CommitPatchId(c) : c \in ToSet(Between(head, onto))} \ {NoPatch}

(* partition_cherry_picks. *)
NotIn(commits, patches) == SelectSeq(commits, LAMBDA c : CommitPatchId(c) \notin patches)
Kept(head, onto, from) == NotIn(Between(from, head), Upstream(onto, head))

(* cmd_rebase: the steps of a plan, or a pick of each commit of from..HEAD, *)
(* with or without those that are upstream.                                 *)
PickStep(commit) == [commit |-> commit, action |-> "pick"]
Picks(commits) == [i \in DOMAIN commits |-> PickStep(commits[i])]
Resolved(plan, head) ==
  [i \in DOMAIN plan |-> [commit |-> SubSeq(head, 1, plan[i].commit), action |-> plan[i].action]]

(* The leading-squash guard of begin and of rehearse. *)
Leads(list) == SelectSeq(list, LAMBDA s : s.action # "drop")
FoldsIntoNothing(list) == Leads(list) # <<>> /\ Folds(Head(Leads(list)))

(***************************************************************************)
(* One step.                                                               *)
(***************************************************************************)
ConflictsOf(commit, current) ==
  MergeConflicts(Diff(0, Snap(Parent(commit)), Snap(current)), ChangeOf(0, commit))
MergeOf(commit, current) == Merged(Snap(Parent(commit)), Snap(current), Snap(commit))

(* make_commit; a fold takes the place of the commit before. *)
MakeCommit(current, step) ==
  Append(IF Folds(step) THEN Parent(current) ELSE current,
         Change(MergeOf(step.commit, current),
                CASE step.action = "fixup" -> Message(current)
                  [] step.action = "squash" -> Message(current) \o Message(step.commit)
                  [] step.action = "reword" -> <<NewTitle>>
                  [] OTHER -> Message(step.commit)))

(***************************************************************************)
(* rehearse.                                                               *)
(***************************************************************************)
(* last_touchers: the newest commit of stop..from that changes a path. *)
TouchersOf(path, commits) == {i \in DOMAIN commits : path \in Deltas(ChangeOf(0, commits[i]))}
LastTouchers(from, stop, paths) ==
  LET commits == Between(stop, from)
  IN  [p \in {q \in paths : TouchersOf(q, commits) # {}} |-> commits[Max(TouchersOf(p, commits))]]

(* Mutant: a fold is one more commit of the preview. *)
ListedAll(acc, step, new) == Append(acc.commits, new)

(* The fold supersedes the commit listed last. *)
Listed(acc, step, new) ==
  Append(IF Folds(step) /\ acc.commits # <<>> THEN Front(acc.commits) ELSE acc.commits, new)

Landed(acc, step, new) == [acc EXCEPT !.current = new, !.commits = Listed(acc, step, new)]

Conflict(step, files, onto, i) ==
  [step |-> i, files |-> files, why |-> LastTouchers(Parent(step.commit), onto, files)]

PreviewStep(acc, step, onto, i, files) ==
  IF files # {} THEN [acc EXCEPT !.conflicts = Append(@, Conflict(step, files, onto, i))]
  ELSE IF Folds(step) /\ acc.current = onto THEN [acc EXCEPT !.refused = TRUE]
  ELSE Landed(acc, step, MakeCommit(acc.current, step))

Preview(acc, step, onto, i) ==
  IF step.action = "drop" THEN acc
  ELSE PreviewStep(acc, step, onto, i, ConflictsOf(step.commit, acc.current))

Rehearse(list, onto) ==
  LET one(acc, i) ==
        IF acc.refused THEN acc
        ELSE Preview([acc EXCEPT !.tips = Append(@, acc.current)], list[i], onto, i)
      end == FoldLeft(one, [current |-> onto, commits |-> <<>>, conflicts |-> <<>>, tips |-> <<>>,
                            refused |-> FoldsIntoNothing(list)], [i \in DOMAIN list |-> i])
  IN  [commits |-> end.commits, conflicts |-> end.conflicts, tips |-> Append(end.tips, end.current),
       refused |-> end.refused]

(* landing: the steps done when the last commit of base..tip has landed, with *)
(* what folds into it.                                                        *)
Landing(list, base, tip) ==
  LET range == ToSet(Between(base, tip))
      own == {i \in DOMAIN list : list[i].action # "drop" /\ list[i].commit \in range}
      folds == {j \in DOMAIN list : /\ j > Max(own) /\ Folds(list[j])
                                    /\ \A k \in (Max(own) + 1)..j : Folds(list[k]) \/ list[k].action = "drop"}
  IN  IF own = {} THEN 0 ELSE Max({Max(own)} \cup folds)

(* rehearsal_text: where the other branch would move. *)
WouldMove(list, base, tip, preview) == preview.tips[Landing(list, base, tip) + 1]

(***************************************************************************)
(* range_diff, of commits with their patches.                              *)
(***************************************************************************)
Patched(commits) == [i \in DOMAIN commits |-> [msg |-> Message(commits[i]), patch |-> CommitPatchId(commits[i])]]
SamePatch(a, b) == a.patch # NoPatch /\ a.patch = b.patch
SameSummary(a, b) == Head(a.msg) = Head(b.msg)

First(S) == IF S = {} THEN 0 ELSE Min(S)
FirstOf(byPatch, bySummary) == IF byPatch # {} THEN Min(byPatch) ELSE First(bySummary)

(* The first old commit no other one has taken with the same patch, or with *)
(* the same summary.                                                        *)
Pair(taken, olds, c) ==
  FirstOf({i \in DOMAIN olds \ taken : SamePatch(olds[i], c)},
          {i \in DOMAIN olds \ taken : SameSummary(olds[i], c)})

Pairs(olds, news) == FoldLeft(LAMBDA acc, c : Append(acc, Pair(ToSet(acc), olds, c)), <<>>, news)

Compared(olds, news, pairs) ==
  [olds |-> olds, news |-> news, pairs |-> pairs,
   dropped |-> DOMAIN olds \ ToSet(pairs),
   added |-> {j \in DOMAIN news : pairs[j] = 0},
   same |-> {j \in DOMAIN news : /\ pairs[j] # 0
                                 /\ SamePatch(olds[pairs[j]], news[j])
                                 /\ olds[pairs[j]].msg = news[j].msg}]

Paired(olds, news) == Compared(olds, news, Pairs(olds, news))
RangeDiff(old, new) == Paired(Patched(Between(new, old)) \o <<>>, Patched(Between(old, new)) \o <<>>)

(***************************************************************************)
(* The calls.                                                              *)
(***************************************************************************)
Head_ == story.branch
Onto == story.onto

Idle == [at |-> "idle", current |-> Onto, next |-> 1, met |-> <<>>, from |-> <<>>, mark |-> <<>>]

Init ==
  /\ story \in Stories
  /\ steps = <<>> /\ side = <<>> /\ foreseen = <<>> /\ told = <<>>
  /\ replay = Idle

(* cmd_rebase, rehearsed first. *)
Rebase(list, other) ==
  /\ steps' = list /\ side' = other
  /\ foreseen' = Rehearse(list, Onto)
  /\ replay' = IF FoldsIntoNothing(list) THEN [replay EXCEPT !.at = "refused"]
               ELSE [replay EXCEPT !.at = "drive"]
  /\ UNCHANGED <<story, told>>

(* fill_marks. *)
Filled(r) ==
  IF side # <<>> /\ r.mark = <<>> /\ Landing(steps, Onto, side) < r.next
  THEN [r EXCEPT !.mark = r.current] ELSE r

Step == steps[replay.next]
Driving == replay.at = "drive" /\ replay.next <= Len(steps)
Next_(r) == [r EXCEPT !.next = @ + 1]
Goes(r) == replay' = r /\ UNCHANGED <<story, steps, side, foreseen, told>>

DropStep ==
  /\ Driving /\ Step.action = "drop"
  /\ Goes(Next_(Filled(replay)))

StopOnConflict ==
  /\ Driving /\ Step.action # "drop"
  /\ ConflictsOf(Step.commit, replay.current) # {}
  /\ Goes([Filled(replay) EXCEPT !.at = "conflict",
             !.met = Append(@, [step |-> replay.next, files |-> ConflictsOf(Step.commit, replay.current)])])

(* A fold needs a commit of the replay before it. *)
Land ==
  /\ Driving /\ Step.action # "drop"
  /\ ConflictsOf(Step.commit, replay.current) = {}
  /\ IF Folds(Step) /\ replay.current = Onto
     THEN Goes([replay EXCEPT !.at = "refused"])
     ELSE Goes([Next_(Filled(replay)) EXCEPT
                  !.current = MakeCommit(replay.current, Step),
                  !.at = IF Step.action = "edit" THEN "paused" ELSE "drive",
                  !.from = IF Folds(Step) THEN @ ELSE Append(@, Step.commit)])

(* skip: at a conflict the step is dropped, at an edit it stays. *)
Skip ==
  \/ replay.at = "conflict" /\ Goes([Next_(replay) EXCEPT !.at = "drive"])
  \/ replay.at = "paused" /\ Goes([replay EXCEPT !.at = "drive"])

(* finish, and git_range_diff of the old tip and the new one. *)
Finish ==
  /\ replay.at = "drive" /\ replay.next > Len(steps)
  /\ replay' = [Filled(replay) EXCEPT !.at = "done"]
  /\ told' = RangeDiff(Head_, replay.current)
  /\ UNCHANGED <<story, steps, side, foreseen>>

SidePlaces == {<<>>} \cup ToSet(Between(Onto, Head_))

Own == (Len(MergeBase(Head_, Onto)) + 1)..Len(Head_)
Fitting(own) == {plan \in Plans : \A i \in DOMAIN plan : plan[i].commit \in own}

Ask ==
  /\ replay.at = "idle"
  /\ \E other \in SidePlaces :
    \/ \E plan \in Fitting(Own) : Rebase(Resolved(plan, Head_), other)
    \/ \E n \in Len(MergeBase(Head_, Onto))..(Len(Head_) - 1) :
         \/ Rebase(Picks(Kept(Head_, Onto, SubSeq(Head_, 1, n))), other)
         \/ Rebase(Picks(Between(SubSeq(Head_, 1, n), Head_)), other)

Next == Ask \/ DropStep \/ StopOnConflict \/ Land \/ Skip \/ Finish
Spec == Init /\ [][Next]_vars

(***************************************************************************)
(* Properties.                                                             *)
(***************************************************************************)
(* A rehearsal tells of the replay, conflicting steps skipped: every stop  *)
(* with its files, every commit and where another branch is moved.  In a   *)
(* replay onto an older commit of the branch each conflicting file has a   *)
(* commit to blame, one the step was made on.                              *)
RehearsalForetells ==
  /\ replay.at = "refused" => foreseen.refused
  /\ replay.at = "done" =>
       /\ ~foreseen.refused
       /\ foreseen.commits = Between(Onto, replay.current)
       /\ [i \in DOMAIN foreseen.conflicts |->
             [step |-> foreseen.conflicts[i].step, files |-> foreseen.conflicts[i].files]] = replay.met
       /\ side # <<>> => replay.mark = WouldMove(steps, Onto, side, foreseen)
       /\ IsPrefix(Onto, Head_) =>
            \A i \in DOMAIN foreseen.conflicts :
              DOMAIN foreseen.conflicts[i].why = foreseen.conflicts[i].files

(* A replay without a plan leaves out commits the new base already has, and *)
(* those only: without a conflict it ends with the tree of a merge and no   *)
(* change is made twice.                                                    *)
PlanlessReplay == steps = Picks(Kept(Head_, Onto, Onto)) /\ replay.met = <<>>
CommitsOf(base, tip) == ToSet(Between(base, tip))
NothingIsReplayedTwice ==
  replay.at = "done" /\ PlanlessReplay =>
    /\ Snap(replay.current) = Merged(Snap(MergeBase(Head_, Onto)), Snap(Onto), Snap(Head_))
    /\ \A c, d \in CommitsOf(MergeBase(Head_, Onto), replay.current) :
         c # d /\ CommitPatchId(c) # NoPatch => CommitPatchId(c) # CommitPatchId(d)

(* git_range_diff accounts for every commit of both sides once, leaves no    *)
(* two alike apart, and, where no two titles of a side are the same, sets a  *)
(* commit that kept its title beside the one it was made from.               *)
Titles(commits) == {Head(commits[i].msg) : i \in DOMAIN commits}
Distinct(commits) == Cardinality(Titles(commits)) = Len(commits)
Originals == [j \in DOMAIN replay.from |-> Head(Message(replay.from[j]))]
RangeDiffIsHonest ==
  replay.at = "done" =>
    LET news == DOMAIN told.news
    IN  /\ \A i, j \in news : i # j /\ told.pairs[i] # 0 => told.pairs[i] # told.pairs[j]
        /\ \A i \in told.dropped, j \in told.added :
             ~SamePatch(told.olds[i], told.news[j]) /\ ~SameSummary(told.olds[i], told.news[j])
        /\ Distinct(told.olds) /\ Distinct(told.news) /\ Len(replay.from) = Len(told.news) =>
             \A j \in news : /\ told.pairs[j] # 0
                             /\ Originals[j] = Head(told.news[j].msg)
                            => Originals[j] = Head(told.olds[told.pairs[j]].msg)
=============================================================================
