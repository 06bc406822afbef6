-------------------------------- MODULE Hunks --------------------------------
(***************************************************************************)
(* What the history tools do with part of a change (sequencer.rs): the     *)
(* hunks of a diff, their selection, their application to a tree and the   *)
(* commits that own the lines they change.  libgit2's diff, apply, merge   *)
(* and blame are modelled by what sequencer.rs gets from them.             *)
(*                                                                         *)
(* A file is the sequence of its lines, which are numbers in rising order, *)
(* the same line in every version that has it, so that a diff is the lines *)
(* only one side has.  A hunk put at the wrong place breaks the order.  A  *)
(* tree maps paths to files, a commit is the sequence of the trees of its  *)
(* history.                                                                *)
(***************************************************************************)
EXTENDS Integers, Sequences, FiniteSets, SequencesExt

CONSTANTS
  Paths,    \* the paths of the repository
  Context,  \* lines of context in a diff (3), where a tool does not ask for 0
  Absent,   \* no such file
  Refused   \* no tree: the diff does not apply

ASSUME HunksAssumption ==
  Context \in Nat /\ Absent # Refused /\ {Absent, Refused} \cap Seq(Int) = {}

(* A file, with its lines in order; a tree of such files. *)
Rising == {s \in Seq(Int) : \A i, j \in 1..Len(s) : i < j => s[i] < s[j]}
SomeTrees == [Paths -> Rising \cup {Absent}]

Lines(file) == IF file = Absent THEN {} ELSE ToSet(file)
Below(S, n) == Cardinality({m \in S : m < n})
InOrder(S) == [i \in 1..Cardinality(S) |-> CHOOSE n \in S : Below(S, n) = i - 1]

Tree(commit) == commit[Len(commit)]
Parent(commit) == SubSeq(commit, 1, Len(commit) - 1)

(***************************************************************************)
(* Diffs.                                                                  *)
(***************************************************************************)
(* Where a hunk that spans some lines starts on a side; a side it has no    *)
(* lines of is named by the line before.                                    *)
StartOf(side, span) == Below(side, Min(span)) + (IF side \cap span = {} THEN 0 ELSE 1)

Hunk(path, old, new, group, span) ==
  [path |-> path, changed |-> group,
   os |-> StartOf(old, span), old |-> InOrder(old \cap span),
   ns |-> StartOf(new, span), new |-> InOrder(new \cap span)]

(* A group of changed lines with up to `context` common lines around it. *)
SpanOf(context, common, group) ==
  group \cup {k \in common : /\ Below(common, Min(group)) - Below(common, k) <= context
                             /\ Below(common, k) - Below(common, Max(group)) < context}

(* Changed lines with at most 2 * context common lines between them are one *)
(* hunk: the lines that begin one.                                          *)
Firsts(context, common, changed) ==
  {n \in changed : \A m \in changed :
     m < n => Below(common, n) - Below(common, m) > 2 * context}

Group(changed, firsts, f) == {n \in changed : f <= n /\ ~\E g \in firsts : f < g /\ g <= n}

Groups(changed, firsts) ==
  [i \in 1..Cardinality(firsts) |-> Group(changed, firsts, CHOOSE f \in firsts : Below(firsts, f) = i - 1)]

HunksOfGroups(context, path, old, new, groups) ==
  [i \in DOMAIN groups |-> Hunk(path, old, new, groups[i], SpanOf(context, old \cap new, groups[i]))]

(* git_diff: the hunks of each file from tree a to tree b. *)
FileHunks(context, path, old, new) ==
  HunksOfGroups(context, path, old, new,
    Groups(SymDiff(old, new), Firsts(context, old \cap new, SymDiff(old, new))))

Diff(context, a, b) ==
  [old |-> a, new |-> b,
   hunks |-> [p \in Paths |-> FileHunks(context, p, Lines(a[p]), Lines(b[p]))]]

Differing(a, b) == {p \in Paths : a[p] # b[p]}
Deltas(diff) == Differing(diff.old, diff.new)

(* diff_hunks; a hunk is named by its path and its new lines. *)
DiffHunks(diff) == UNION {ToSet(diff.hunks[p]) : p \in Paths}
Key(h) == <<h.path, h.ns, Len(h.new)>>
AllKeys(diff) == {Key(h) : h \in DiffHunks(diff)}

(* The lines the hunks of keys change. *)
LinesOf(diff, keys) ==
  UNION {{<<h.path, n>> : n \in h.changed} : h \in {g \in DiffHunks(diff) : Key(g) \in keys}}

(***************************************************************************)
(* Selection: a set of whole paths, and selectors of hunks by a range of   *)
(* new lines or by a line they change.                                     *)
(***************************************************************************)
Takes(sel, h) ==
  /\ sel.path = h.path
  /\ IF sel.pick = "contains" THEN sel.line \in h.changed
     ELSE /\ sel.lo <= (IF h.new = <<>> THEN h.ns ELSE h.ns + Len(h.new) - 1)
          /\ h.ns <= sel.hi

(* resolve_move_selection: the selection has no path the diff does not change, *)
(* none named both ways and no selector without a hunk.                        *)
Resolves(diff, paths, sels) ==
  /\ paths \subseteq Deltas(diff)
  /\ \A sel \in sels : /\ sel.path \notin paths
                       /\ \E h \in DiffHunks(diff) : Takes(sel, h)

KeysTaken(diff, paths, sels) ==
  {Key(h) : h \in {g \in DiffHunks(diff) : g.path \in paths \/ \E sel \in sels : Takes(sel, g)}}

(***************************************************************************)
(* Application.                                                            *)
(***************************************************************************)
Replaced(image, at, old, new) ==
  IF at < 0 \/ at + Len(old) > Len(image) \/ SubSeq(image, at + 1, at + Len(old)) # old
  THEN Refused
  ELSE SubSeq(image, 1, at) \o new \o SubSeq(image, at + Len(old) + 1, Len(image))

(* git_apply puts a kept hunk where its new lines begin, less what the skipped *)
(* hunks before it would have added.  The name of a side without lines, the    *)
(* line before it, is taken for its first line.                                *)
PutByNewLine(acc, h, keys) ==
  IF acc.image = Refused THEN acc
  ELSE IF Key(h) \notin keys THEN [acc EXCEPT !.shift = @ + Len(h.old) - Len(h.new)]
  ELSE [acc EXCEPT !.image =
          Replaced(@, (IF h.ns = 0 THEN 0 ELSE h.ns - 1) + acc.shift, h.old, h.new)]

ApplyByNewLine(file, hunks, keys) ==
  LET upTo[k \in 0..Len(hunks)] ==
        IF k = 0 THEN [image |-> IF file = Absent THEN <<>> ELSE file, shift |-> 0]
        ELSE PutByNewLine(upTo[k - 1], hunks[k], keys)
  IN  upTo[Len(hunks)].image

(* Mutant: a pure insertion goes before the line it is named by. *)
PutByOldLineEarly(image, h, keys) ==
  IF image = Refused \/ Key(h) \notin keys THEN image
  ELSE Replaced(image, IF h.os = 0 THEN 0 ELSE h.os - 1, h.old, h.new)

PutByOldLine(image, h, keys) ==
  IF image = Refused \/ Key(h) \notin keys THEN image
  ELSE Replaced(image, IF h.old = <<>> THEN h.os ELSE h.os - 1, h.old, h.new)

(* apply_hunks_by_old_line.  The hunks are of one diff against file, so that   *)
(* from the last one up their old line numbers are true.                       *)
ApplyByOldLine(file, hunks, keys) ==
  LET last[k \in 0..Len(hunks)] ==
        IF k = 0 THEN file ELSE PutByOldLine(last[k - 1], hunks[Len(hunks) + 1 - k], keys)
  IN  last[Len(hunks)]

WhereApplied(tree) == IF \E p \in Paths : tree[p] = Refused THEN Refused ELSE tree

(* Of the files a diff changes, those something is kept of: a hunk of keys or, *)
(* in a file without hunks, the path itself.                                   *)
KeptFiles(diff, paths, keys) ==
  {p \in Deltas(diff) : IF diff.hunks[p] = <<>> THEN p \in paths
                        ELSE \E h \in ToSet(diff.hunks[p]) : Key(h) \in keys}

(* apply_subset: the hunks of keys, applied to the old tree.  A file nothing *)
(* is kept of is left out, so that an excluded new file does not appear      *)
(* empty.                                                                    *)
ApplySubset(diff, paths, keys) ==
  WhereApplied([p \in Paths |->
    IF p \notin KeptFiles(diff, paths, keys) THEN diff.old[p]
    ELSE IF diff.new[p] = Absent THEN Absent
    ELSE ApplyByNewLine(diff.old[p], diff.hunks[p], keys)])

(* apply_subset_by_old_line, for diffs without context: a modified file is  *)
(* rewritten by old line numbers, any other delta goes through git_apply.   *)
ApplySubsetByOldLine(diff, paths, keys) ==
  WhereApplied([p \in Paths |->
    IF p \notin KeptFiles(diff, paths, keys) THEN diff.old[p]
    ELSE IF diff.new[p] = Absent THEN Absent
    ELSE IF diff.old[p] = Absent THEN ApplyByNewLine(diff.old[p], diff.hunks[p], keys)
    ELSE ApplyByOldLine(diff.old[p], diff.hunks[p], keys)])

(***************************************************************************)
(* Merge and blame.                                                        *)
(***************************************************************************)
(* Two hunks against the same file touch when no line both sides keep lies   *)
(* between them.                                                             *)
Touch(g, h, kept) ==
  /\ g.changed # h.changed
  /\ ~\E k \in kept : \/ \A m \in g.changed, n \in h.changed : m < k /\ k < n
                      \/ \A m \in g.changed, n \in h.changed : n < k /\ k < m

(* The paths a cherry-pick conflicts in: ours and theirs are the diffs of the *)
(* two sides against their common base.                                       *)
MergeConflicts(ours, theirs) ==
  {p \in Deltas(ours) \cap Deltas(theirs) :
     /\ ours.new[p] # theirs.new[p]
     /\ \/ Absent \in {ours.old[p], ours.new[p], theirs.new[p]}
        \/ \E g \in ToSet(ours.hunks[p]), h \in ToSet(theirs.hunks[p]) :
             Touch(g, h, Lines(ours.new[p]) \cap Lines(theirs.new[p]))}

Merged(base, ours, theirs) ==
  [p \in Paths |->
     IF base[p] = theirs[p] THEN ours[p]
     ELSE IF base[p] = ours[p] THEN theirs[p]
     ELSE IF ours[p] = theirs[p] THEN ours[p]
     ELSE InOrder((Lines(ours[p]) \ (Lines(base[p]) \ Lines(theirs[p])))
                  \cup (Lines(theirs[p]) \ Lines(base[p])))]

(* git_blame: the number of the commit that last brought line n. *)
Owner(commit, path, n) ==
  CHOOSE k \in 1..Len(commit) :
    /\ n \in Lines(commit[k][path])
    /\ k = 1 \/ n \notin Lines(commit[k - 1][path])
    /\ \A j \in k..Len(commit) : n \in Lines(commit[j][path])

(* The old lines a hunk changes or, for a pure insertion, the line it goes *)
(* after.                                                                  *)
BlamedLines(h) ==
  IF h.old = <<>> THEN {Max({1, h.os})} ELSE h.os..(h.os + Len(h.old) - 1)

(* worktree_hunk_owners.  A new file has no owner, and what is older than   *)
(* `since` is its.                                                          *)
HunkOwners(commit, since, h) ==
  {Max({since, Owner(commit, h.path, Tree(commit)[h.path][i])}) :
     i \in {i \in BlamedLines(h) :
              Tree(commit)[h.path] # Absent /\ i \in DOMAIN Tree(commit)[h.path]}}
=============================================================================
