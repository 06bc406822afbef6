------------------------------ MODULE Conflict ------------------------------
(***************************************************************************)
(* The merge-conflict vocabulary (src/src/conflict.rs and the conflict-... *)
(* commands of src/src/builtins.rs) on a file of lines.  Every command     *)
(* scans the accessible lines again for hunks, so nothing is remembered    *)
(* between two of them.                                                    *)
(*                                                                         *)
(* `tree` is what the file stands for: text and merge conflicts whose      *)
(* sides may hold conflicts in turn, of the same marker length or another. *)
(* The commands never see it.                                              *)
(***************************************************************************)
EXTENDS Integers, Sequences, FiniteSets, SequencesExt

CONSTANTS
  InitialTrees,   \* the files a merge left, as trees
  Cuts,           \* the lines restrictions begin and end at
  Replacements,   \* hand-made resolutions, as sequences of text lines
  NoBase          \* the base of a conflict that has none, a hunk not found

VARIABLES
  tree,     \* what the file stands for
  lines,    \* the lines of the file
  region,   \* the restriction: the lines lo..hi-1 are accessible
  point     \* the line point is at the beginning of
vars == <<tree, lines, region, point>>

(* A line is a text line, told apart by its number, or a marker line: a run  *)
(* of `size` marker characters and a label.                                  *)
IsMark(line, mark, size) == line.mark = mark /\ line.size = size
Marker(mark, size) == [mark |-> mark, size |-> size]
Text(word) == [mark |-> "text", size |-> word]

(***************************************************************************)
(* Scanning.                                                               *)
(***************************************************************************)
(* Mutant: an outer conflict is taken with the inner one's separators. *)
ParseIgnoringNested(ls, i, hi) ==
  LET size == ls[i].size
      after(k, mark) == {j \in (k + 1)..(hi - 1) : IsMark(ls[j], mark, size)}
      ends == after(i, "|") \cup after(i, "=")
      oursEnd == Min(ends)
      based == IsMark(ls[oursEnd], "|", size)
      sep == IF based THEN Min(after(oursEnd, "=")) ELSE oursEnd
      close == Min(after(sep, ">"))
  IN  IF \/ ends = {} \/ (based /\ after(oursEnd, "=") = {})
         \/ after(sep, ">") = {}
      THEN NoBase
      ELSE [start |-> i, end |-> close + 1, ours |-> SubSeq(ls, i + 1, oursEnd - 1),
            base |-> IF based THEN SubSeq(ls, oursEnd + 1, sep - 1) ELSE NoBase,
            theirs |-> SubSeq(ls, sep + 1, close - 1)]

(* The hunk that line i opens, if its sections complete before hi with       *)
(* markers of its own length and no other opener of that length comes first. *)
ParseHunkAt(ls, i, hi) ==
  LET size == ls[i].size
      after(k, mark) == {j \in (k + 1)..(hi - 1) : IsMark(ls[j], mark, size)}
      ends == after(i, "|") \cup after(i, "=")
      oursEnd == Min(ends)
      based == IsMark(ls[oursEnd], "|", size)
      sep == IF based THEN Min(after(oursEnd, "=")) ELSE oursEnd
      close == Min(after(sep, ">"))
  IN  IF \/ ends = {} \/ (based /\ after(oursEnd, "=") = {})
         \/ after(sep, ">") = {} \/ \E j \in after(i, "<") : j < close
      THEN NoBase
      ELSE [start |-> i, end |-> close + 1, ours |-> SubSeq(ls, i + 1, oursEnd - 1),
            base |-> IF based THEN SubSeq(ls, oursEnd + 1, sep - 1) ELSE NoBase,
            theirs |-> SubSeq(ls, sep + 1, close - 1)]

(* The hunks of the lines from..hi-1, in order.  A line that opens none is a *)
(* stray; the scan resumes after it.                                         *)
RECURSIVE ScanFrom(_, _, _)
ScanFrom(ls, from, hi) ==
  LET openers == {i \in from..(hi - 1) : ls[i].mark = "<"}
      resume(h) == IF h = NoBase THEN LET r == ScanFrom(ls, Min(openers) + 1, hi)
                                      IN  [r EXCEPT !.strays = @ + 1]
                   ELSE LET r == ScanFrom(ls, h.end, hi) IN [r EXCEPT !.hunks = <<h>> \o @]
  IN  IF openers = {} THEN [hunks |-> <<>>, strays |-> 0]
      ELSE resume(ParseHunkAt(ls, Min(openers), hi))

Scan == ScanFrom(lines, region.lo, region.hi)

SideText(h, side) ==
  CASE side = "ours" -> h.ours
    [] side = "theirs" -> h.theirs
    [] side = "base" -> h.base
    [] side = "both" -> h.ours \o h.theirs
    [] side = "all" -> h.ours \o (IF h.base = NoBase THEN <<>> ELSE h.base) \o h.theirs
Sides == {"ours", "theirs", "base", "both", "all"}
Has(h, side) == side = "base" => h.base # NoBase

(***************************************************************************)
(* What a file stands for: a sequence of lines and conflicts.              *)
(***************************************************************************)
IsConflict(item) == "ours" \in DOMAIN item

RECURSIVE Render(_)
Render(items) ==
  FlattenSeq([k \in DOMAIN items |->
    LET c == items[k]
    IN  IF ~IsConflict(c) THEN <<c>>
        ELSE <<Marker("<", c.size)>> \o Render(c.ours)
             \o (IF c.base = NoBase THEN <<>> ELSE <<Marker("|", c.size)>> \o Render(c.base))
             \o <<Marker("=", c.size)>> \o Render(c.theirs) \o <<Marker(">", c.size)>>])

(* The items of each section with the line its text begins at. *)
SectionsOf(c, at) ==
  LET ours == Len(Render(c.ours))
      based == IF c.base = NoBase THEN 0 ELSE 1 + Len(Render(c.base))
  IN  <<[items |-> c.ours, at |-> at + 1]>>
      \o (IF c.base = NoBase THEN <<>> ELSE <<[items |-> c.base, at |-> at + 2 + ours]>>)
      \o <<[items |-> c.theirs, at |-> at + 2 + ours + based]>>

StartOf(items, k, at) == at + Len(Render(SubSeq(items, 1, k - 1)))

(* The conflicts a command may resolve, as spans of lines: those that lie in *)
(* lo..hi-1 whole and hold no conflict of their own marker length; where one *)
(* is not, those within it.                                                  *)
RECURSIVE Ready(_, _, _, _)
Ready(items, at, lo, hi) ==
  UNION {LET c == items[k]
             s == StartOf(items, k, at)
             e == StartOf(items, k + 1, at)
             inner == SubSeq(Render(<<c>>), 2, e - s)
             whole == lo <= s /\ e <= hi /\ ~\E j \in DOMAIN inner : IsMark(inner[j], "<", c.size)
             parts == SectionsOf(c, s)
         IN  IF ~IsConflict(c) THEN {}
             ELSE IF whole THEN {<<s, e>>}
             ELSE UNION {Ready(parts[j].items, parts[j].at, lo, hi) : j \in DOMAIN parts}
         : k \in DOMAIN items}

(* The conflicts that begin at the lines in DOMAIN choice, settled by it: a  *)
(* side, or the program's own text in their place.                           *)
Keeping(side) == [side |-> side, text |-> <<>>]
RECURSIVE Settled(_, _, _)
Settled(items, at, choice) ==
  FlattenSeq([k \in DOMAIN items |->
    LET c == items[k]
        s == StartOf(items, k, at)
        parts == SectionsOf(c, s)
        in(j) == Settled(parts[j].items, parts[j].at, choice)
    IN  IF ~IsConflict(c) THEN <<c>>
        ELSE IF s \in DOMAIN choice
        THEN IF choice[s].side = "own" THEN choice[s].text ELSE SideText(c, choice[s].side)
        ELSE <<[c EXCEPT !.ours = in(1),
                         !.base = IF c.base = NoBase THEN NoBase ELSE in(2),
                         !.theirs = in(Len(parts))]>>])

(***************************************************************************)
(* The commands.                                                           *)
(***************************************************************************)
Init ==
  /\ tree \in InitialTrees
  /\ lines = Render(tree)
  /\ region = [lo |-> 1, hi |-> Len(lines) + 1]
  /\ point = 1

(* The hunk a program addresses: by number, or the one point is in. *)
Addressed(h, n) ==
  \/ n \in DOMAIN Scan.hunks /\ h = Scan.hunks[n]
  \/ n = 0 /\ h \in ToSet(Scan.hunks) /\ h.start <= point /\ point < h.end

Spliced(ls, h, text) == SubSeq(ls, 1, h.start - 1) \o text \o SubSeq(ls, h.end, Len(ls))

(* One hunk becomes text; point goes to the end of it, the restriction keeps *)
(* its end.  The tree is settled as the command was meant.                   *)
ConflictSplice(h, text, choice) ==
  /\ lines' = Spliced(lines, h, text)
  /\ region' = [region EXCEPT !.hi = @ + Len(text) - (h.end - h.start)]
  /\ point' = h.start + Len(text)
  /\ tree' = Settled(tree, 1, choice)

ConflictKeep ==
  \E side \in Sides, n \in 0..Len(lines), h \in ToSet(Scan.hunks) :
    /\ Addressed(h, n)
    /\ Has(h, side)
    /\ ConflictSplice(h, SideText(h, side), (h.start :> Keeping(side)))

ConflictReplace ==
  \E text \in Replacements, n \in 0..Len(lines), h \in ToSet(Scan.hunks) :
    /\ Addressed(h, n)
    /\ ConflictSplice(h, text, (h.start :> [side |-> "own", text |-> text]))

(* Several hunks at once, from the last one up so that the spans of the      *)
(* others stay true; point is left at the end of the first.                  *)
SpliceAll(ls, hunks, side) ==
  FoldRight(LAMBDA k, acc : Spliced(acc, hunks[k], SideText(hunks[k], side[k])),
            [k \in DOMAIN hunks |-> k], ls)

ConflictSpliceAll(hunks, side) ==
  LET h == hunks[1]
  IN  /\ lines' = SpliceAll(lines, hunks, side)
      /\ region' = [region EXCEPT !.hi = @ + Len(lines') - Len(lines)]
      /\ point' = IF hunks = <<>> THEN point ELSE h.start + Len(SideText(h, side[1]))
      /\ tree' = Settled(tree, 1,
                   [s \in {hunks[k].start : k \in DOMAIN hunks} |->
                      Keeping(side[CHOOSE k \in DOMAIN hunks : hunks[k].start = s])])

(* Every hunk or, when one lacks the side, none. *)
ConflictKeepAll ==
  \E side \in Sides :
    /\ \A h \in ToSet(Scan.hunks) : Has(h, side)
    /\ ConflictSpliceAll(Scan.hunks, [k \in DOMAIN Scan.hunks |-> side])

(* The side to keep where no one need decide. *)
Trivial(h) ==
  IF h.ours = h.theirs THEN "ours"
  ELSE IF h.base = h.ours THEN "theirs"
  ELSE IF h.base = h.theirs THEN "ours"
  ELSE "none"

ConflictResolveTrivial ==
  LET easy == SelectSeq(Scan.hunks, LAMBDA h : Trivial(h) # "none")
  IN  ConflictSpliceAll(easy, [k \in DOMAIN easy |-> Trivial(easy[k])])

(* To a hunk by number, to its first line; or to the next, inside it. *)
ConflictGoto ==
  /\ \/ \E n \in DOMAIN Scan.hunks : point' = Scan.hunks[n].start
     \/ LET next == {h \in ToSet(Scan.hunks) : h.start >= point}
        IN  /\ next # {}
            /\ point' = (CHOOSE h \in next : \A g \in next : h.start <= g.start).start + 1
  /\ UNCHANGED <<tree, lines, region>>

NarrowToRegion ==
  \E lo, hi \in Cuts :
    /\ lo <= hi /\ hi <= Len(lines) + 1
    /\ region' = [lo |-> lo, hi |-> hi]
    /\ point' = IF point < lo THEN lo ELSE IF point > hi THEN hi ELSE point
    /\ UNCHANGED <<tree, lines>>

Widen == region' = [lo |-> 1, hi |-> Len(lines) + 1] /\ UNCHANGED <<tree, lines, point>>

Next ==
  \/ ConflictKeep \/ ConflictReplace \/ ConflictKeepAll \/ ConflictResolveTrivial
  \/ ConflictGoto \/ NarrowToRegion \/ Widen

Spec == Init /\ [][Next]_vars

OpenersOutside(spans) ==
  {i \in region.lo..(region.hi - 1) :
     lines[i].mark = "<" /\ \A s \in spans : ~(s[1] <= i /\ i < s[2])}

(***************************************************************************)
(* The scan finds merge conflicts and nothing else: each hunk is one whole *)
(* conflict of the tree that can be settled without ambiguity, each such   *)
(* conflict in sight is a hunk, and every other opener in sight is counted *)
(* as a stray.  And the file stays the tree's: whatever was kept, in       *)
(* whatever order, one by one or all at once, under whatever restriction,  *)
(* no line outside the settled conflicts was lost and no marker of a       *)
(* settled one is left.                                                    *)
(***************************************************************************)
HunksAreConflicts ==
  LET spans == Ready(tree, 1, region.lo, region.hi)
  IN  /\ lines = Render(tree)
      /\ {<<h.start, h.end>> : h \in ToSet(Scan.hunks)} = spans
      /\ Scan.strays = Cardinality(OpenersOutside(spans))
=============================================================================
