------------------------------ MODULE Rewrites ------------------------------
(***************************************************************************)
(* The history tools that replay nothing (sequencer.rs): git_reword,       *)
(* git_msg_rewrite and git_msg_fill re-create a chain of commits with new  *)
(* messages and their own trees, and take the branches on it along;        *)
(* git_exec_over runs a command on every commit of a range.                *)
(*                                                                         *)
(* A commit is the sequence of what makes up its history: a tree, a        *)
(* message, a signature.  Commits that agree in all of it are one object,  *)
(* as in git; every signature made is a new one.  Histories are linear.    *)
(***************************************************************************)
EXTENDS Integers, Sequences, FiniteSets, SequencesExt

CONSTANTS
  Main,        \* the branch HEAD is on
  Others,      \* the other branches
  Missing,     \* no call, no file
  History,     \* the commit Main starts at
  Starts,      \* the commits the other branches may
  Requests,    \* the edits callers ask for: git_reword's and git_msg_rewrite's
  Wrapped,     \* what filling makes of messages: a function on some of them
  HasFile,     \* the trees that have the file an untracked one may collide with
  BackupRing,  \* slots of a branch's backup ring
  MaxRewrites, MaxForeign  \* bounds: calls begun, changes of other processes

VARIABLES
  refs,      \* where the branches are
  ring,      \* their backup refs, newest first
  busy,      \* the branches in use in another worktree
  signing,   \* whether commits are signed, and may be
  place,     \* Main, or the commit HEAD is detached at
  checkout,  \* the worktree: the tree its tracked files are of, the index's, a file
  minted,    \* signatures made
  stage,     \* where the call under way is
  rewrite,   \* it, or the last one
  rewrites, foreign,  \* calls begun, changes others made
  left       \* left[b]: the tips calls moved b away from, and rotations since
rewriteVars ==
  <<refs, ring, busy, signing, place, checkout, minted, stage, rewrite, rewrites, foreign, left>>
git == <<refs, ring, busy>>
worktree == <<place, checkout>>

Words == INSTANCE Messages WITH
       Drafts <- {}, EditLists <- {}, Branches <- {}, Named <- <<>>,
       message <- <<>>, asked <- <<>>, subjects <- <<>>, plan <- <<>>

NoCommit == <<>>  \* where a deleted branch is, and a backup ref there is not yet
AllRefs == Others \cup {Main}
Unsigned == 0
Foreign == [tree |-> 0, msg |-> <<"foreign">>, sig |-> Unsigned]
Upto(commit, n) == SubSeq(commit, 1, n)
TreeOf(commit) == Last(commit).tree

(* A branch starts at a commit, unsigned; rings have a slot; requests name a *)
(* commit.  The user's file is in no tree HEAD starts at, or it were tracked. *)
ASSUME RewritesAssumption ==
  /\ BackupRing \in Nat \ {0} /\ Missing \notin {"mine", "made", "tracked"}
  /\ Main \notin Others /\ IsFiniteSet(Others)
  /\ \A commit \in Starts \cup {History} :
       /\ commit \in Seq(ToSet(commit)) /\ commit # <<>>
       /\ \A i \in DOMAIN commit : commit[i].sig = Unsigned
  /\ TreeOf(History) \notin HasFile /\ Foreign.tree \notin HasFile
  /\ \A r \in Requests : r.at \in Nat \ {0}

-----------------------------------------------------------------------------
(* Where the branches on a rewritten chain go. *)

(* place_marks with one pick per commit after the first `below`: a branch on *)
(* the chain goes to the commit of its own number; one split off from it,    *)
(* one in use elsewhere and, if refs are not to move, all stay.              *)
OnChain(b, old, below) == refs[b] # NoCommit /\ IsPrefix(refs[b], old) /\ Len(refs[b]) > below
SplitOff(b, old, below) ==
  /\ refs[b] # NoCommit /\ ~IsPrefix(refs[b], old)
  /\ Len(LongestCommonPrefix({refs[b], old})) > below
SparseMarks(old, below, update) ==
  SetToSeq({b \in Others : update /\ b \notin busy /\ OnChain(b, old, below)})
LeftBehind(old, below, update) ==
  {b \in Others : \/ SplitOff(b, old, below)
                  \/ OnChain(b, old, below) /\ (b \in busy \/ ~update)}

-----------------------------------------------------------------------------
(* A rewrite. *)

(* filled *)
Filled(message, fill) == IF fill /\ message \in DOMAIN Wrapped THEN Wrapped[message] ELSE message

NewMessage(message, r) == Filled(Words!ApplyMsgEditsCounted(message, r.edits).text, r.fill)
Counts(message, r) == Words!ApplyMsgEditsCounted(message, r.edits).counts

(* The call has read its branch, made the messages and placed the marks; it  *)
(* rotates the branch's backup ring first.                                   *)
BeginAt(below, messages, kind, r) ==
  /\ stage = "idle" /\ place = Main /\ rewrites < MaxRewrites
  /\ signing # "refused"
  /\ stage' = "rotate"
  /\ rewrites' = rewrites + 1
  /\ rewrite' = [kind |-> kind, asked |-> r, old |-> refs[Main], below |-> below, messages |-> messages,
              new |-> Missing, before |-> refs,
              marks |-> SparseMarks(refs[Main], below, r.update),
              left |-> LeftBehind(refs[Main], below, r.update), moved |-> {}, skipped |-> {},
              ready |-> <<>>, slots |-> ring[Main], slot |-> BackupRing, phase |-> "begun"]
  /\ UNCHANGED <<git, worktree, signing, minted, foreign, left>>

(* git_reword: one commit of the branch gets a new message, the ones after   *)
(* it a new parent.                                                          *)
Reword(r) ==
  LET n == Len(refs[Main])
      old == refs[Main][r.at].msg
      new == NewMessage(old, r)
  IN  /\ r.at \in 1..n
      /\ 0 \notin ToSet(Counts(old, r)) /\ new # old
      /\ BeginAt(r.at - 1, [i \in 1..n |-> IF i = r.at THEN new ELSE refs[Main][i].msg], "reword", r)

(* msg_rewrite: a quote that is in no message of the range refuses; one that *)
(* is in some changes those.                                                 *)
Somewhere(r, range) ==
  \A e \in DOMAIN r.edits : \E i \in range : Counts(refs[Main][i].msg, r)[e] > 0

(* Where the re-creation begins: a fresh signature changes every commit.     *)
Start(range, changed) == IF signing = "on" THEN Min(range) ELSE Min(changed)

MsgRewrite(r) ==
  LET n == Len(refs[Main])
      range == r.at..n
      messages == [i \in 1..n |-> IF i \in range THEN NewMessage(refs[Main][i].msg, r)
                                  ELSE refs[Main][i].msg]
      changed == {i \in range : messages[i] # refs[Main][i].msg}
  IN  /\ range # {} /\ Somewhere(r, range) /\ changed # {}
      /\ BeginAt(Start(range, changed) - 1, messages, "msg_rewrite", r)

(* Mutant: the newest slot is written first. *)
SlotNewestFirst(slot) == BackupRing + 1 - slot

(* rotate_backup_ring reads the slots and then writes one ref at a time, the *)
(* oldest first.                                                             *)
SlotWritten(slot) == slot

Rotated(b, slots, tip, n) ==
  LET content == IF n = 1 THEN tip ELSE slots[n - 1]
  IN  IF content = NoCommit THEN ring[b] ELSE [ring[b] EXCEPT ![n] = content]

Older(tips) == [i \in DOMAIN tips |-> [tips[i] EXCEPT !.age = @ + 1]]
Aged(b) == [left EXCEPT ![b] = Older(@)]

RotateSlot(b, tip, next) ==
  /\ ring' = [ring EXCEPT ![b] = Rotated(b, rewrite.slots, tip, SlotWritten(rewrite.slot))]
  /\ left' = IF rewrite.slot = BackupRing THEN Aged(b) ELSE left
  /\ IF rewrite.slot > 1
     THEN rewrite' = [rewrite EXCEPT !.slot = @ - 1] /\ UNCHANGED stage
     ELSE next
  /\ UNCHANGED <<refs, busy, signing, worktree, minted, rewrites, foreign>>

RotateOwn ==
  /\ stage = "rotate"
  /\ RotateSlot(Main, rewrite.old, stage' = "create" /\ UNCHANGED rewrite)

(* create_commit for each: own tree, new message and parent, a signature of  *)
(* its own.                                                                  *)
Recreated ==
  [i \in DOMAIN rewrite.old |->
     IF i <= rewrite.below THEN rewrite.old[i]
     ELSE [tree |-> rewrite.old[i].tree, msg |-> rewrite.messages[i],
           sig |-> IF signing = "on" THEN minted + i ELSE Unsigned]]
Create ==
  /\ stage = "create"
  /\ rewrite' = [rewrite EXCEPT !.new = Recreated]
  /\ minted' = IF signing = "on" THEN minted + Len(rewrite.old) ELSE minted
  /\ stage' = "move"
  /\ UNCHANGED <<git, worktree, signing, rewrites, foreign, left>>

(* The signer fails.  What it made so far is in no branch. *)
SignerFails ==
  /\ stage = "create" /\ signing = "on"
  /\ rewrite' = [rewrite EXCEPT !.phase = "failed"]
  /\ stage' = "idle"
  /\ UNCHANGED <<git, worktree, signing, minted, rewrites, foreign, left>>

LeaveTip(b, tip) == [left EXCEPT ![b] = Append(@, [tip |-> tip, age |-> 0])]

(* The branch moves, wherever it is by now. *)
MoveOwn ==
  /\ stage = "move"
  /\ refs' = [refs EXCEPT ![Main] = rewrite.new]
  /\ left' = LeaveTip(Main, rewrite.old)
  /\ stage' = "check"
  /\ UNCHANGED <<ring, busy, signing, worktree, minted, rewrite, rewrites, foreign>>

(* move_branches: a mark is passed over when its branch is gone, in use      *)
(* elsewhere or no longer where it was.                                      *)
Stays(b) == b \in busy \/ refs[b] # rewrite.before[b]

Target(b) == Upto(rewrite.new, Len(rewrite.before[b]))

Mark == Head(rewrite.marks)
NextMark(c) == [c EXCEPT !.marks = Tail(@)]
Check ==
  /\ stage = "check" /\ rewrite.marks # <<>>
  /\ IF Stays(Mark)
     THEN rewrite' = [NextMark(rewrite) EXCEPT !.skipped = @ \cup {Mark}] /\ UNCHANGED stage
     ELSE rewrite' = [rewrite EXCEPT !.slots = ring[Mark], !.slot = BackupRing] /\ stage' = "backup"
  /\ UNCHANGED <<git, worktree, signing, minted, rewrites, foreign, left>>

RotateOther ==
  /\ stage = "backup"
  /\ RotateSlot(Mark, rewrite.before[Mark],
       /\ rewrite' = [NextMark(rewrite) EXCEPT !.ready = Append(@, Mark)]
       /\ stage' = "check")

(* The transaction moves them one ref at a time; each may fail.              *)
Follow ==
  /\ stage = "check" /\ rewrite.marks = <<>> /\ rewrite.ready # <<>>
  /\ LET b == Head(rewrite.ready)
         rest == [rewrite EXCEPT !.ready = Tail(@)]
     IN  \/ /\ refs' = [refs EXCEPT ![b] = Target(b)]
            /\ left' = LeaveTip(b, rewrite.before[b])
            /\ rewrite' = [rest EXCEPT !.moved = @ \cup {b}]
         \/ /\ rewrite' = [rest EXCEPT !.skipped = @ \cup {b}]
            /\ UNCHANGED <<refs, left>>
  /\ UNCHANGED <<ring, busy, signing, worktree, minted, stage, rewrites, foreign>>

Answer ==
  /\ stage = "check" /\ rewrite.marks = <<>> /\ rewrite.ready = <<>>
  /\ rewrite' = [rewrite EXCEPT !.phase = "done"]
  /\ stage' = "idle"
  /\ UNCHANGED <<git, worktree, signing, minted, rewrites, foreign, left>>

-----------------------------------------------------------------------------
(* A command on every commit of a range. *)

CommitAt(p) == IF p = Main THEN refs[Main] ELSE p
PlaceCommit == CommitAt(place)
Modified == Missing

(* A forced checkout: the tracked files are the commit's, the colliding file *)
(* with them, or gone if the last checkout brought it.                       *)
CheckedOut(commit) ==
  [tree |-> TreeOf(commit),
   index |-> TreeOf(commit),
   file |-> IF TreeOf(commit) \in HasFile THEN "tracked"
            ELSE IF checkout.index \in HasFile THEN Missing ELSE checkout.file]

(* One that fails has written all of the files, some or none; the index is   *)
(* written last.                                                             *)
HalfDone(commit) ==
  [tree : {checkout.tree, Modified, TreeOf(commit)}, index : {checkout.index},
   file : {checkout.file, CheckedOut(commit).file}]

(* set_head, then force_checkout: each may fail, and the process may die     *)
(* between them.                                                             *)
HeadGoesTo(p, commit) == place' = p /\ checkout' = CheckedOut(commit)
HeadFailsTo(p, commit) == UNCHANGED worktree \/ (place' = p /\ checkout' \in HalfDone(commit))

(* An untracked file, the user's or a left one, would be overwritten.        *)
Collides(range) ==
  /\ checkout.file # Missing /\ checkout.index \notin HasFile
  /\ \E i \in DOMAIN range : range[i].tree \in HasFile

(* exec_over: refused on a dirty worktree, and where it would collide.       *)
ExecOver(below) ==
  /\ stage = "idle" /\ rewrites < MaxRewrites
  /\ below < Len(PlaceCommit)
  /\ checkout.tree = TreeOf(PlaceCommit) /\ checkout.index = TreeOf(PlaceCommit)
  /\ ~Collides(SubSeq(PlaceCommit, below + 1, Len(PlaceCommit)))
  /\ stage' = "visit"
  /\ rewrites' = rewrites + 1
  /\ rewrite' = [kind |-> "exec_over", old |-> PlaceCommit, next |-> below + 1, place |-> place,
              file |-> checkout.file, phase |-> "begun"]
  /\ UNCHANGED <<git, worktree, signing, minted, foreign, left>>

(* The next commit is checked out; or git fails, and the call returns from   *)
(* where it is, without a look back.                                         *)
Here == Upto(rewrite.old, rewrite.next)
Visit ==
  /\ stage = "visit" /\ rewrite.next <= Len(rewrite.old)
  /\ \/ HeadGoesTo(Here, Here) /\ stage' = "command" /\ UNCHANGED rewrite
     \/ HeadFailsTo(Here, Here) /\ stage' = "idle" /\ rewrite' = [rewrite EXCEPT !.phase = "stranded"]
  /\ UNCHANGED <<git, signing, minted, rewrites, foreign, left>>

(* The command may do what it likes: change a tracked file, leave a new one, *)
(* commit what it did, check out the branch.                                 *)
CommandCommit(commit) == Append(commit, [Last(commit) EXCEPT !.msg = <<"foreign">>])
Command ==
  /\ stage = "command"
  /\ \/ UNCHANGED worktree
     \/ checkout' = [checkout EXCEPT !.tree = Modified] /\ UNCHANGED place
     \/ checkout.file = Missing /\ checkout' = [checkout EXCEPT !.file = "made"] /\ UNCHANGED place
     \/ place' = CommandCommit(Here) /\ UNCHANGED checkout
     \/ rewrite.place = Main /\ HeadGoesTo(Main, refs[Main])
  /\ \/ stage' = "visit" /\ rewrite' = [rewrite EXCEPT !.next = @ + 1]
     \/ stage' = "put back" /\ rewrite' = [rewrite EXCEPT !.phase = "failed"]
  /\ UNCHANGED <<git, signing, minted, rewrites, foreign, left>>

(* HEAD goes back to the branch, or the commit, it was at; or git fails, and *)
(* the answer says so.                                                       *)
PutBack ==
  /\ stage = "put back" \/ (stage = "visit" /\ rewrite.next > Len(rewrite.old))
  /\ stage' = "idle"
  /\ \/ /\ HeadGoesTo(rewrite.place, CommitAt(rewrite.place))
        /\ rewrite' = [rewrite EXCEPT !.phase = IF @ = "begun" THEN "done" ELSE @]
     \/ /\ HeadFailsTo(rewrite.place, CommitAt(rewrite.place))
        /\ rewrite' = [rewrite EXCEPT !.phase = "not restored"]
  /\ UNCHANGED <<git, signing, minted, rewrites, foreign, left>>

-----------------------------------------------------------------------------
(* Other processes commit on a branch, delete one, take one into use         *)
(* elsewhere.  Between the check of a branch and the transaction they do     *)
(* not: that is a few system calls.                                          *)
OthersAct ==
  /\ foreign < MaxForeign
  /\ stage # "backup" /\ (stage = "check" => rewrite.ready = <<>>)
  /\ foreign' = foreign + 1
  /\ \/ \E b \in AllRefs : refs[b] # NoCommit /\ refs' = [refs EXCEPT ![b] = Append(@, Foreign)] /\ UNCHANGED busy
     \/ \E b \in Others : refs[b] # NoCommit /\ refs' = [refs EXCEPT ![b] = NoCommit] /\ UNCHANGED busy
     \/ \E b \in Others : busy' = busy \cup {b} /\ UNCHANGED refs
  /\ UNCHANGED <<ring, worktree, signing, minted, stage, rewrite, rewrites, left>>

Crash ==
  /\ stage # "idle"
  /\ stage' = "idle"
  /\ rewrite' = [rewrite EXCEPT !.phase = "died"]
  /\ UNCHANGED <<git, worktree, signing, minted, rewrites, foreign, left>>

RewriteInit ==
  /\ refs \in {f \in [AllRefs -> Starts \cup {History}] : f[Main] = History}
  /\ ring = [b \in AllRefs |-> [n \in 1..BackupRing |-> NoCommit]]
  /\ busy = {}
  /\ signing \in {"off", "on", "refused"}
  /\ place = Main
  /\ checkout \in [tree : {TreeOf(History)}, index : {TreeOf(History)}, file : {Missing, "mine"}]
  /\ minted = 0 /\ stage = "idle" /\ rewrite = Missing /\ rewrites = 0 /\ foreign = 0
  /\ left = [b \in AllRefs |-> <<>>]

RewriteNext ==
  \/ \E r \in Requests : Reword(r) \/ MsgRewrite(r)
  \/ RotateOwn \/ Create \/ SignerFails \/ MoveOwn
  \/ Check \/ RotateOther \/ Follow \/ Answer
  \/ \E below \in 0..Len(History) : ExecOver(below)
  \/ Visit \/ Command \/ PutBack
  \/ OthersAct \/ Crash

RewriteSpec == RewriteInit /\ [][RewriteNext]_rewriteVars

-----------------------------------------------------------------------------
Rewriting == rewrite # Missing /\ rewrite.kind # "exec_over"

(* An answered rewrite re-created the branch commit by commit, trees as they *)
(* were, with the edits in the messages that were asked for and in no other, *)
(* all of those signed anew if commits are signed; and of the other branches *)
(* that held a re-created commit each is at the commit in place of its own,  *)
(* or was reported and is where it or another process left it (msg_rewrite,  *)
(* reword, move_branches).                                                   *)
RewritesAreExact ==
  Rewriting /\ rewrite.phase = "done" =>
    LET old == rewrite.old
        new == rewrite.new
        r == rewrite.asked
        meant == IF rewrite.kind = "reword" THEN {r.at} ELSE r.at..Len(old)
    IN  /\ Len(new) = Len(old)
        /\ \A i \in DOMAIN old :
             /\ new[i].tree = old[i].tree
             /\ new[i].msg = IF i \in meant THEN NewMessage(old[i].msg, r) ELSE old[i].msg
             /\ new[i] # old[i] => (signing = "on" <=> new[i].sig # Unsigned)
             /\ signing = "on" /\ i \in meant => new[i].sig # old[i].sig
        /\ \A b \in Others :
             LET was == rewrite.before[b]
                 shared == LongestCommonPrefix({was, old})
                 rewritten == was # NoCommit /\ SubSeq(new, 1, Len(shared)) # shared
             IN  b \in rewrite.moved \cup rewrite.skipped \cup rewrite.left <=> rewritten

(* No step of a call moves another branch but from a commit of the old chain *)
(* to the one in its place, whatever others did since the call began: their  *)
(* commits, deletions and worktrees stay (move_branches).                    *)
MoveOnlyWhatIsRewritten ==
  \A b \in Others : refs'[b] # refs[b] /\ foreign' = foreign =>
    /\ refs[b] # NoCommit /\ b \notin busy
    /\ IsPrefix(refs[b], rewrite.old) /\ IsPrefix(refs'[b], rewrite.new)
    /\ Len(refs'[b]) = Len(refs[b])

(* A tip a call moved a branch away from is in its ring until as many more   *)
(* operations began as the ring has slots, whether they ended, failed or     *)
(* died half-way through the ring (rotate_backup_ring).                      *)
OldTipsAreKept ==
  \A b \in AllRefs : \A i \in DOMAIN left[b] :
    left[b][i].age < BackupRing => left[b][i].tip \in ToSet(ring[b])

(* A command run over the history, whatever it did and whether it passed:   *)
(* the user's files are left alone at every moment; HEAD is where it was, at *)
(* a commit of the history or at one the command made there, also when git   *)
(* fails on the way (no more than that: a visit git fails at is not undone); *)
(* and a call that says that it ran, or that nothing changed, has left HEAD  *)
(* where it was and the worktree as HEAD has it (exec_over).                 *)
Sweeping == rewrite # Missing /\ rewrite.kind = "exec_over"
HeadIsNear ==
  \/ place = rewrite.place
  \/ \E i \in DOMAIN rewrite.old : place = Upto(rewrite.old, i) \/ place = CommandCommit(Upto(rewrite.old, i))
ExecLeavesNoTrace ==
  Sweeping =>
    /\ rewrite.file = "mine" => checkout.file = "mine"
    /\ HeadIsNear
    /\ stage = "idle" /\ rewrite.phase \in {"done", "failed"} =>
         /\ place = rewrite.place
         /\ foreign = 0 => checkout.tree = TreeOf(PlaceCommit) /\ checkout.index = TreeOf(PlaceCommit)

(* The rewrites change what was asked and nothing else, take the branches    *)
(* along and no commit others made, keep the old tips in the rings; commands *)
(* leave no trace where git does what it is asked.                           *)
RewritesLoseNothing ==
  /\ [](RewritesAreExact /\ OldTipsAreKept /\ ExecLeavesNoTrace)
  /\ [][MoveOnlyWhatIsRewritten]_rewriteVars
=============================================================================
