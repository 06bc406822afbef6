------------------------------- MODULE Commands -------------------------------
(***************************************************************************)
(* The commands of the edit language that are built from the store's       *)
(* methods (src/src/builtins.rs): motions, region and kill commands, bulk  *)
(* replaces, line filters and overviews, one after the other on a buffer   *)
(* with markers and, mostly, a restriction.                                *)
(*                                                                         *)
(* The store is module Buffer's.  Programs name positions they can reach.  *)
(***************************************************************************)
EXTENDS Integers, Sequences, FiniteSets, SequencesExt, TLC

CONSTANTS
  Buffers,      \* texts with markers and spans to narrow to: how buffers start
  Patterns,     \* the regular expressions and literals programs search for
  Rewritings,   \* what programs replace matches by
  Spots,        \* the positions programs name
  MaxCommands,  \* bound: commands in a program
  Nothing

VARIABLES
  buf,   \* the store
  ring,  \* the kill ring
  call,  \* the last command: its name, the store it found, what it answered
  done   \* commands run
vars == <<buf, ring, call, done>>

B == INSTANCE Buffer WITH
       NL <- "\n", Nowhere <- Nothing, frames <- <<>>, kept <- Nothing, EditsOutside <- FALSE,
       MaxMarkers <- 0, MaxFrames <- 0, InitialTexts <- {}, Inserts <- {}, Replacements <- {},
       Needles <- {}, Regexes <- {}, Positions <- {}, LineCounts <- {}

Reach == {p \in Spots : B!PointMin(buf) <= p /\ p <= B!PointMax(buf)}

(* A command leaves the store b and answers. *)
Ran(name, b, answer) ==
  /\ done < MaxCommands
  /\ buf' = b
  /\ call' = [name |-> name, was |-> buf, answer |-> answer]
  /\ done' = done + 1
Silent(name, b) == Ran(name, b, Nothing) /\ UNCHANGED ring

InOrder(S) == SelectSeq([i \in 1..Max(S \cup {1}) |-> i], LAMBDA i : i \in S)
Widest(x, y) == IF x > y THEN x ELSE y
Least(x, y) == IF x < y THEN x ELSE y
At(b, p) == B!GotoChar(b, p)
Text(b, p, q) == B!Substring(b, p, q)
LineEdges(b) == [bol |-> B!BeginningOfLine(b).point, eol |-> B!EndOfLine(b).point]

(***************************************************************************)
(* Motions, the mark, the kill ring.                                       *)
(***************************************************************************)
GotoMarker(i) ==
  /\ i \in DOMAIN buf.markers /\ buf.markers[i] # Nothing
  /\ Silent("goto-char", At(buf, buf.markers[i]))
ForwardChar(n) == Silent("forward-char", At(buf, Widest(buf.point + n, 1)))
BeginningOfBuffer == Silent("beginning-of-buffer", At(buf, B!PointMin(buf)))
EndOfBuffer == Silent("end-of-buffer", At(buf, B!PointMax(buf)))
GotoLine(n) == Silent("goto-line", B!ForwardLine(At(buf, B!PointMin(buf)), Widest(n - 1, 0)).b)

(* skip-chars-forward and -backward: over the run of characters of the set,  *)
(* no farther than the limit, which counts on its own side only.             *)
SkipChars(set, lim, forward) ==
  LET min == B!PointMin(buf)
      max == B!PointMax(buf)
      bound == IF lim = Nothing THEN IF forward THEN max ELSE min
               ELSE IF forward THEN Widest(Least(lim, max), buf.point)
               ELSE Least(Widest(lim, min), buf.point)
      stops == IF forward THEN {p \in buf.point..bound : p = bound \/ buf.text[p] \notin set}
               ELSE {p \in bound..buf.point : p = bound \/ buf.text[p - 1] \notin set}
  IN  Silent("skip-chars", At(buf, IF forward THEN Min(stops) ELSE Max(stops)))

IndentEnd(b) ==
  LET from == B!BeginningOfLine(b).point
      ink == {p \in from..B!PointMax(b) : p = B!PointMax(b) \/ buf.text[p] # " "}
  IN  Min(ink)
BackToIndentation == Silent("back-to-indentation", At(buf, IndentEnd(buf)))

SetMark(p) == Silent("set-mark", B!SetMark(buf, p))
RegionBounds == [lo |-> Least(buf.point, buf.mark), hi |-> Widest(buf.point, buf.mark)]

KillSpan(name, p, q, b) == ring' = Append(ring, Text(buf, p, q)) /\ Ran(name, b, Nothing)
KillRegion ==
  /\ buf.mark # Nothing
  /\ KillSpan("kill-region", RegionBounds.lo, RegionBounds.hi,
              B!DeleteRegion(buf, RegionBounds.lo, RegionBounds.hi))
CopyRegion == \E p, q \in Reach : p < q /\ KillSpan("copy-region-as-kill", p, q, buf)
KillLine ==
  LET eol == LineEdges(buf).eol
      end == IF buf.point = eol /\ eol < B!PointMax(buf) THEN eol + 1 ELSE eol
  IN  KillSpan("kill-line", buf.point, end, B!DeleteRegion(buf, buf.point, end))
KillWholeLine ==
  LET start == LineEdges(buf).bol
      eol == LineEdges(At(buf, start)).eol
      end == IF eol < B!PointMax(buf) THEN eol + 1 ELSE eol
  IN  KillSpan("kill-whole-line", start, end, B!DeleteRegion(At(buf, eol), start, end))
Yank == ring # <<>> /\ Silent("yank", B!Insert(buf, Last(ring)))

DeleteChar(n) ==
  /\ B!PointMin(buf) <= buf.point + n /\ buf.point + n <= B!PointMax(buf)
  /\ Silent("delete-char", B!DeleteRegion(buf, buf.point, buf.point + n))
EraseBuffer == Silent("erase-buffer", B!DeleteRegion(buf, B!PointMin(buf), B!PointMax(buf)))
Newline(n) == Silent("newline", B!Insert(buf, [i \in 1..n |-> "\n"]))

(* One character's capitals may be two. *)
Capitals(s) == FlattenSeq([i \in DOMAIN s |-> CASE s[i] = "a" -> <<"A">> [] s[i] = "sz" -> <<"S", "S">>
                                               [] OTHER -> <<s[i]>>])
UpcaseRegion(p, q) ==
  p <= q /\ Silent("upcase-region", B!Insert(At(B!DeleteRegion(buf, p, q), p), Capitals(Text(buf, p, q))))

-----------------------------------------------------------------------------
(* Bulk replaces.                                                          *)

(* One character before point is in view of the anchors, none before the     *)
(* restriction.                                                              *)
WindowFrom(from) == Widest(from - 1, Least(B!PointMin(buf), from))

(* The matches of an expression from point on, each from where the last one  *)
(* ended, one past it if that was empty.                                     *)
MatchesFrom(re, from, to) ==
  LET at == WindowFrom(from)
      hay == Text(buf, at, to)
      starts == {i + at - 1 : i \in B!SpanMatches(re, hay, from - at + 1, to - at + 1)}
      after[p \in from..(to + 1)] ==
        LET ahead == {i \in starts : i >= p}
            i == Min(ahead)
        IN  IF ahead = {} THEN <<>>
            ELSE <<i>> \o after[Widest(i + Len(re.body), i + 1)]
  IN  after[from]

(* Mutant: the spans are spliced where they were found. *)
SplicedAsFound(from, spans, new) ==
  FoldLeft(LAMBDA acc, s : [b |-> B!Insert(At(B!DeleteRegion(acc.b, s.start, s.end), s.start), new[s]), moved |-> 0],
           [b |-> buf, moved |-> 0], spans)

(* apply_window_edits: in order, each as far on as the ones before grew the  *)
(* text.                                                                     *)
Spliced(from, spans, new) ==
  FoldLeft(LAMBDA acc, s :
             LET start == s.start + acc.moved
                 end == s.end + acc.moved
                 cut == At(IF end > start THEN B!DeleteRegion(acc.b, start, end) ELSE acc.b, start)
             IN  [b |-> IF new[s] = <<>> THEN cut ELSE B!Insert(cut, new[s]),
                  moved |-> acc.moved + Len(new[s]) - (end - start)],
           [b |-> buf, moved |-> 0], spans)

SpansOf(re, starts) == [k \in DOMAIN starts |-> [start |-> starts[k], end |-> starts[k] + Len(re.body)]]
BulkReplace(name, re, rep) ==
  LET spans == SpansOf(re, MatchesFrom(re, buf.point, B!PointMax(buf)))
      new == [s \in ToSet(spans) |-> B!ExpandBackrefs(rep, Text(buf, s.start, s.end))]
  IN  /\ Ran(name, Spliced(buf.point, spans, new).b, [re |-> re, rep |-> rep, count |-> Len(spans)])
      /\ UNCHANGED ring

ReplaceRegexp(re, rep) == BulkReplace("replace-regexp", re, rep)
ReplaceString(re, rep) ==
  re.body # <<>> /\ ~re.bol /\ ~re.eol /\ ~rep.whole /\ BulkReplace("replace-string", re, rep)

-----------------------------------------------------------------------------
(* Counting and overviews.                                                 *)

(* The search loop of count-matches and occur: what each search matched.     *)
SearchLoop(b, re, bound) ==
  LET limit == IF bound = Nothing THEN B!PointMax(b) ELSE Least(bound, B!PointMax(b))
      from[p \in 1..(b.len + 2)] ==
        LET m == B!ReSearchForward([b EXCEPT !.point = p, !.match = Nothing], re, bound).match
        IN  IF m = Nothing THEN <<>>
            ELSE <<m>> \o (IF m.end > m.start THEN from[m.end]
                           ELSE IF m.end >= limit THEN <<>> ELSE from[m.end + 1])
  IN  from[b.point]

(* Point stays; the last match remains. *)
Searched(found) ==
  At([buf EXCEPT !.match = IF found = <<>> THEN @ ELSE Last(found)], buf.point)

CountMatches(re, start, end) ==
  LET found == SearchLoop(At(buf, start), re, end)
  IN  /\ Ran("count-matches", Searched(found), [re |-> re, from |-> start, to |-> end, count |-> Len(found)])
      /\ UNCHANGED ring

(* The lines with matches: each line's number, where its first match is and  *)
(* how many it has.                                                          *)
Hits(found) ==
  LET add(hits, m) ==
        LET line == B!LineNumberAtPos(buf, m.start)
        IN  IF hits # <<>> /\ Last(hits).line = line
            THEN [hits EXCEPT ![Len(hits)].count = @ + 1]
            ELSE Append(hits, [line |-> line, pos |-> m.start, count |-> 1])
  IN  FoldLeft(add, <<>>, found)

(* Blocks of lines around the hits; those that meet are one. *)
Blocks(hits, around) ==
  LET last == B!LineNumberAtPos(buf, B!PointMax(buf))
      join(blocks, hit) ==
        LET lo == Widest(hit.line - around, 1)
            hi == Least(hit.line + around, last)
        IN  IF blocks # <<>> /\ lo <= Last(blocks).hi + 1
            THEN [blocks EXCEPT ![Len(blocks)].hi = Widest(@, hi)]
            ELSE Append(blocks, [lo |-> lo, hi |-> hi])
  IN  FoldLeft(join, <<>>, hits)

(* The lines of a block, walked down from the top of the restriction.        *)
Printed(hits, block) ==
  LET first == B!ForwardLine(At(buf, B!PointMin(buf)), block.lo - 1).b
      start[k \in block.lo..block.hi] ==
        IF k = block.lo THEN first ELSE B!ForwardLine(B!EndOfLine(start[k - 1]), 1).b
      print(k) == [line |-> k, text |-> Text(buf, start[k].point, B!EndOfLine(start[k]).point),
                   hits |-> {h \in ToSet(hits) : h.line = k}]
  IN  [n \in 1..(block.hi - block.lo + 1) |-> print(block.lo + n - 1)]

Occur(re, around, limit) ==
  LET found == SearchLoop(At(buf, B!PointMin(buf)), re, Nothing)
      hits == Hits(found)
      shown == SubSeq(hits, 1, Least(limit, Len(hits)))
      blocks == Blocks(shown, around)
  IN  /\ Ran("occur", Searched(found),
             [re |-> re, count |-> Len(found), around |-> around, limit |-> limit,
              lines |-> FlattenSeq([k \in DOMAIN blocks |-> Printed(shown, blocks[k])])])
      /\ UNCHANGED ring

(* window: the lines around a position, the column where it is. *)
Window(n, p) ==
  LET line == B!LineNumberAtPos(buf, p)
      block == [lo |-> Widest(line - n, 1), hi |-> Least(line + n, B!LineNumberAtPos(buf, B!PointMax(buf)))]
  IN  /\ Ran("window", At(buf, buf.point),
             [pos |-> p, around |-> n, line |-> line, column |-> p - LineEdges(At(buf, p)).bol,
              lines |-> Printed(<<>>, block)])
      /\ UNCHANGED ring

-----------------------------------------------------------------------------
(* Commands on lines.                                                      *)

(* split_inclusive *)
Pieces(s) ==
  LET ends == InOrder({i \in DOMAIN s : s[i] = "\n" \/ i = Len(s)})
  IN  [k \in DOMAIN ends |-> SubSeq(s, IF k = 1 THEN 1 ELSE ends[k - 1] + 1, ends[k])]
Bare(line) == IF line # <<>> /\ Last(line) = "\n" THEN Front(line) ELSE line

Rewritten(b, start, end, new) ==
  IF new = Text(b, start, end) THEN b ELSE B!Insert(At(B!DeleteRegion(b, start, end), start), new)

(* The filters begin with point's line. *)
FilterFrom(b) == B!BeginningOfLine(b)

FilterLines(re, keep) ==
  LET b == FilterFrom(buf)
      start == b.point
      lines == Pieces(Text(b, start, B!PointMax(b)))
      stays(line) == (B!SpanMatches(re, Bare(line), 1, Len(Bare(line)) + 1) # {}) = keep
      kept == SelectSeq(lines, stays)
      c == Rewritten(b, start, B!PointMax(b), FlattenSeq(kept))
  IN  /\ Ran(IF keep THEN "keep-lines" ELSE "flush-lines", At(c, start),
             [re |-> re, count |-> Len(lines) - Len(kept)])
      /\ UNCHANGED ring

Rank(c) == CASE c = "\n" -> 0 [] c = " " -> 1 [] c = "A" -> 2 [] c = "S" -> 3 [] c = "a" -> 4 [] c = "b" -> 5
             [] OTHER -> 6
LexLess(u, v) ==
  \/ Len(u) < Len(v) /\ IsPrefix(u, v)
  \/ \E i \in 1..Least(Len(u), Len(v)) : SubSeq(u, 1, i - 1) = SubSeq(v, 1, i - 1) /\ Rank(u[i]) < Rank(v[i])

(* sort-lines over whole lines, the last one without its line break if the   *)
(* end is within it.                                                         *)
SortLines(beg, end, reverse) ==
  LET start == LineEdges(At(buf, beg)).bol
      to == At(buf, Widest(end, start))
      inLine == to.point > B!PointMin(buf) /\ B!CharBefore(buf, to.point) # "\n"
      stop == IF inLine THEN LineEdges(to).eol ELSE to.point
      region == Text(buf, start, stop)
      lines == [k \in DOMAIN Pieces(region) |-> Bare(Pieces(region)[k])]
      inOrder == SortSeq(lines, LexLess)
      joined == FlattenSeq([k \in DOMAIN lines |->
                  (IF reverse THEN Reverse(inOrder) ELSE inOrder)[k] \o (IF k = Len(lines) THEN <<>> ELSE <<"\n">>)])
      sorted == IF region # <<>> /\ Last(region) = "\n" THEN Append(joined, "\n") ELSE joined
  IN  /\ Ran("sort-lines", At(Rewritten(buf, start, stop, sorted), start),
             [from |-> beg, to |-> end, reverse |-> reverse])
      /\ UNCHANGED ring

Init ==
  /\ \E s \in Buffers, p \in Spots :
       LET b == [B!FromString(s.text) EXCEPT !.markers = s.markers]
           n == IF s.view = Nothing THEN b ELSE B!NarrowToRegion(b, s.view.lo, s.view.hi)
       IN  buf = At(n, p)
  /\ ring = <<>> /\ call = Nothing /\ done = 0

Move ==
  \/ \E i \in {1, 2} : GotoMarker(i)
  \/ \E n \in {-2, 1} : ForwardChar(n)
  \/ BeginningOfBuffer \/ EndOfBuffer \/ BackToIndentation
  \/ \E n \in {0, 2} : GotoLine(n)
  \/ \E lim \in Reach \cup {Nothing}, forward \in BOOLEAN : SkipChars({"a", "\n"}, lim, forward)
  \/ \E p \in Reach : SetMark(p)
Edit ==
  \/ KillRegion \/ CopyRegion \/ KillLine \/ KillWholeLine \/ Yank \/ EraseBuffer
  \/ \E n \in {-1, 1} : DeleteChar(n)
  \/ Newline(2)
  \/ \E p, q \in Reach : UpcaseRegion(p, q)
Sweep ==
  \/ \E re \in Patterns, rep \in Rewritings : ReplaceRegexp(re, rep) \/ ReplaceString(re, rep)
  \/ \E re \in Patterns, keep \in BOOLEAN : FilterLines(re, keep)
  \/ \E p, q \in Reach, reverse \in BOOLEAN : SortLines(p, q, reverse)
Look ==
  \/ \E re \in Patterns, p \in Reach, q \in Spots \cup {Nothing} : CountMatches(re, p, q)
  \/ \E re \in Patterns, around \in {0, 1}, limit \in {1, 9} : Occur(re, around, limit)
  \/ \E p \in Reach : Window(1, p)
Next == Move \/ Edit \/ Sweep \/ Look

Spec == Init /\ [][Next]_vars

-----------------------------------------------------------------------------
(***************************************************************************)
(* What is agreed on.                                                      *)
(***************************************************************************)
(* The matches of an expression in what is accessible from p to q: those     *)
(* that neither lie in nor begin within another one before them.             *)
MatchSet(re, b, p, q) ==
  LET view == Text(b, B!PointMin(b), B!PointMax(b))
      shift == B!PointMin(b) - 1
      n == Len(re.body)
      all == {i \in p..(q - n) : B!MatchesAt(re, view, i - shift)}
      apart(S) == \A i \in all : i \in S <=> \A j \in S : j < i => Widest(j + n, j + 1) <= i
  IN  CHOOSE S \in SUBSET all : apart(S)

(* Replaced one at a time from the last to the first, so that none is moved  *)
(* by another.                                                               *)
ReplacedBackwards(b, re, rep, S) ==
  FoldLeft(LAMBDA c, i : B!ReplaceMatch(B!Found(c, i, Len(re.body), i), rep), b, Reverse(InOrder(S)))

(* A bulk replace changes each of the matches behind point and nothing else, *)
(* as often as it says: text, markers and restriction end as if each match   *)
(* had been replaced by itself, whatever the replacements would match, and   *)
(* point ends behind the last of them.                                       *)
SweepIsExact ==
  call.name \in {"replace-regexp", "replace-string"} =>
    LET was == call.was
        a == call.answer
        S == MatchSet(a.re, was, was.point, B!PointMax(was))
        one == ReplacedBackwards(was, a.re, a.rep, S)
    IN  /\ a.count = Cardinality(S)
        /\ [buf EXCEPT !.match = Nothing, !.point = 1] = [one EXCEPT !.match = Nothing, !.point = 1]
        /\ buf.point = IF S = {} THEN was.point
                       ELSE Max(S) + Len(a.re.body) + (Len(buf.text) - Len(was.text))

(* count-matches and occur count the same matches. *)
CountsAreExact ==
  LET was == call.was
      a == call.answer
  IN  /\ call.name = "count-matches" /\ (a.to = Nothing \/ a.to <= B!PointMax(was)) =>
           a.count = Cardinality(MatchSet(a.re, was, a.from, IF a.to = Nothing THEN B!PointMax(was) ELSE a.to))
      /\ call.name = "occur" => a.count = Cardinality(MatchSet(a.re, was, B!PointMin(was), B!PointMax(was)))

(* The accessible lines, each with the position where it begins.             *)
LinesOf(b) ==
  LET starts == {p \in B!PointMin(b)..B!PointMax(b) : p = B!PointMin(b) \/ b.text[p - 1] = "\n"}
      order == InOrder(starts)
      end(p) == Min({q \in p..B!PointMax(b) : q = B!PointMax(b) \/ b.text[q] = "\n"})
  IN  [k \in DOMAIN order |-> [from |-> order[k], text |-> SubSeq(b.text, order[k], end(order[k]) - 1)]]

(* What occur and window show is there: each line once, in order, under its  *)
(* number and with its own text; of the lines with matches the first of them *)
(* up to the limit, each with the place of its first match and their number, *)
(* and around them the lines asked for and no other.                         *)
OverviewsAreTrue ==
  call.name \in {"occur", "window"} =>
    LET was == call.was
        a == call.answer
        all == LinesOf(was)
        at(k) == {i \in MatchSet(a.re, was, B!PointMin(was), B!PointMax(was)) :
                    all[k].from <= i /\ i <= all[k].from + Len(all[k].text)}
        hit == IF call.name = "window" THEN {a.line}
               ELSE LET lines == {k \in DOMAIN all : at(k) # {}}
                    IN  {k \in lines : Cardinality({j \in lines : j <= k}) <= a.limit}
        shown == {k \in DOMAIN all : \E h \in hit : h - a.around <= k /\ k <= h + a.around}
        hits(k) == IF call.name = "window" \/ k \notin hit THEN {}
                   ELSE {[line |-> k, pos |-> Min(at(k)), count |-> Cardinality(at(k))]}
    IN  /\ a.lines = [n \in 1..Cardinality(shown) |->
                        LET k == InOrder(shown)[n]
                        IN  [line |-> k, text |-> all[k].text, hits |-> hits(k)]]
        /\ call.name = "window" => /\ all[a.line].from + a.column = a.pos
                                   /\ a.column <= Len(all[a.line].text)

(* What replaces, counts and shows the matches of an expression finds the    *)
(* same ones, of whatever restriction, anchors, overlaps and empty matches:  *)
(* the streaming replace, the search loops and the overview are three ways   *)
(* to walk them.                                                             *)
WalksAgree == call # Nothing => SweepIsExact /\ CountsAreExact /\ OverviewsAreTrue

(* The filters and the sort, which write all of their lines anew, keep them  *)
(* whole: of the accessible lines from point's on keep-lines and flush-lines *)
(* leave those that match, or do not; sort-lines puts the lines it was given *)
(* in order and leaves the others where they are.  And no command touches    *)
(* the text outside the restriction.                                         *)
Texts(b) == LET ls == LinesOf(b) IN [k \in DOMAIN ls |-> ls[k].text]
Unended(ls) == IF ls # <<>> /\ Last(ls) = <<>> THEN Front(ls) ELSE ls
LinesStayWhole ==
  call # Nothing =>
    LET was == call.was
        a == call.answer
        all == LinesOf(was)
        old == Texts(was)
        new == Texts(buf)
        lineOf(p) == Max({k \in DOMAIN all : all[k].from <= p})
        tail(ls, k) == SubSeq(ls, k, Len(ls))
        mine == lineOf(was.point)
        stays(t) == (B!SpanMatches(a.re, t, 1, Len(t) + 1) # {}) = (call.name = "keep-lines")
        given == {k \in DOMAIN all : lineOf(a.from) <= k /\ all[k].from < Widest(a.to, all[lineOf(a.from)].from)}
        copies(ls, t) == Cardinality({k \in given : ls[k] = t})
    IN  /\ SubSeq(buf.text, 1, B!PointMin(was) - 1) = SubSeq(was.text, 1, B!PointMin(was) - 1)
        /\ IsSuffix(SubSeq(was.text, B!PointMax(was), Len(was.text)), buf.text)
        /\ call.name \in {"keep-lines", "flush-lines"} =>
             /\ SubSeq(new, 1, mine - 1) = SubSeq(old, 1, mine - 1)
             /\ Unended(tail(new, mine)) = SelectSeq(Unended(tail(old, mine)), stays)
        /\ call.name = "sort-lines" =>
             /\ DOMAIN new = DOMAIN old
             /\ \A k \in DOMAIN old \ given : new[k] = old[k]
             /\ \A k \in given : copies(new, old[k]) = copies(old, old[k])
             /\ \A k \in given : k + 1 \in given =>
                  ~(IF a.reverse THEN LexLess(new[k], new[k + 1]) ELSE LexLess(new[k + 1], new[k]))
=============================================================================
