------------------------------- MODULE Buffer -------------------------------
(***************************************************************************)
(* The in-memory text store (src/src/buffer.rs) under the calls a program  *)
(* makes on it (src/src/builtins.rs): the oracle the piece tree of module  *)
(* Quire must agree with.                                                  *)
(*                                                                         *)
(* A store is a record: its text, the cached number of its characters, the *)
(* point, the mark, the restriction in force, the markers and what the     *)
(* last search matched.  Every operator below is one method of the store   *)
(* and returns the store it leaves; every action is one builtin.           *)
(***************************************************************************)
EXTENDS TextStore, FiniteSets

CONSTANTS
  InitialTexts,   \* the texts a buffer may start with
  Inserts,        \* the texts programs insert
  Replacements,   \* the replacements programs give
  Needles,        \* the literals programs search for
  Regexes,        \* the regular expressions programs search for
  Positions,      \* the positions programs name
  LineCounts,     \* the counts programs move by, in lines
  MaxMarkers,     \* bound: markers made
  MaxFrames,      \* bound: nested save-excursion and save-restriction forms
  EditsOutside,   \* whether programs edit outside the accessible region
  Nothing         \* no restriction, no match, no snapshot

VARIABLES
  buf,     \* the store
  frames,  \* what the open save-excursion and save-restriction forms restore
  kept     \* the snapshot of a checkpoint, or Nothing
vars == <<buf, frames, kept>>

FromString(text) ==
  [text |-> text, len |-> Len(text), point |-> 1, mark |-> Nowhere,
   narrowing |-> Nothing, markers |-> <<>>, match |-> Nothing]

PointMin(b) == IF b.narrowing = Nothing THEN 1 ELSE b.narrowing.lo
PointMax(b) == IF b.narrowing = Nothing THEN b.len + 1 ELSE b.narrowing.hi

(* The position a number stands for in the text: conversions to byte offsets *)
(* clamp into the buffer.                                                    *)
InText(b, p) == Clamp(p, 1, b.len + 1)

Substring(b, x, y) ==
  SubSeq(b.text, InText(b, Lesser(x, y)), InText(b, Greater(x, y)) - 1)

CharAfter(b, p) == IF p < PointMax(b) /\ p <= Len(b.text) THEN b.text[p] ELSE Nothing
CharBefore(b, p) == IF p > PointMin(b) THEN CharAfter(b, p - 1) ELSE Nothing

(* Lines are counted from the start of the accessible region. *)
LineNumberAtPos(b, p) ==
  1 + Len(SelectSeq(Substring(b, Lesser(PointMin(b), p), p), LAMBDA c : c = NL))

(***************************************************************************)
(* Point, mark, restriction, markers.                                      *)
(***************************************************************************)
GotoChar(b, p) == [b EXCEPT !.point = Clamp(p, PointMin(b), PointMax(b))]
SetMark(b, p) == [b EXCEPT !.mark = Clamp(p, PointMin(b), PointMax(b))]
SetMarkOpt(b, m) == [b EXCEPT !.mark = m]

NarrowToRegion(b, x, y) ==
  LET full == b.len + 1
      lo == Clamp(Lesser(x, y), 1, full)
      hi == Clamp(Greater(x, y), lo, full)
  IN  [b EXCEPT !.narrowing = [lo |-> lo, hi |-> hi],
                !.point = Clamp(b.point, lo, hi),
                !.mark = ClampMaybe(b.mark, lo, hi)]

Widen(b) == [b EXCEPT !.narrowing = Nothing]

(* The restriction save-restriction puts back, clamped to the text of now. *)
SetRestriction(b, r) ==
  LET full == b.len + 1
      lo == Clamp(r.lo, 1, full)
      c == [b EXCEPT !.narrowing =
              IF r = Nothing THEN Nothing ELSE [lo |-> lo, hi |-> Clamp(r.hi, lo, full)]]
  IN  [c EXCEPT !.point = Clamp(b.point, PointMin(c), PointMax(c))]

MarkerCreate(b, p) ==
  [b EXCEPT !.markers = Append(@, ClampMaybe(p, 1, b.len + 1))]
MarkerSet(b, i, p) ==
  [b EXCEPT !.markers[i] = ClampMaybe(p, 1, b.len + 1)]

(***************************************************************************)
(* Edits.  None moves the mark.                                            *)
(***************************************************************************)
(* The restriction's upper bound follows the length of the text. *)
Stretched(r, n) == IF r = Nothing THEN r ELSE [r EXCEPT !.hi = @ + n]
Shrunk(r, n) == IF r = Nothing THEN r ELSE [r EXCEPT !.hi = Greater(@ - n, r.lo)]

Insert(b, s) ==
  LET at == InText(b, b.point)
  IN  [b EXCEPT !.text = SubSeq(b.text, 1, at - 1) \o s \o SubSeq(b.text, at, Len(b.text)),
                !.len = @ + Len(s),
                !.point = @ + Len(s),
                !.narrowing = Stretched(@, Len(s)),
                !.markers = MarkersAfterInsert(@, b.point, Len(s)),
                !.match = Nothing]

(* The text is cut where the positions fall in it; the cached length and the *)
(* cursor move by the numbers as they were given.                            *)
DeleteRegion(b, x, y) ==
  LET lo == Lesser(x, y)
      hi == Greater(x, y)
  IN  [b EXCEPT !.text = SubSeq(b.text, 1, InText(b, lo) - 1)
                         \o SubSeq(b.text, InText(b, hi), Len(b.text)),
                !.len = @ - (hi - lo),
                !.point = IF @ >= hi THEN @ - (hi - lo) ELSE IF @ > lo THEN lo ELSE @,
                !.narrowing = Shrunk(@, hi - lo),
                !.markers = MarkersAfterDelete(@, lo, hi),
                !.match = Nothing]

(* A replace is a delete of the match followed by an insert at its start. *)
ReplaceMatch(b, rep) ==
  LET m == b.match
      new == ExpandBackrefs(rep, m.text)
      old == m.end - m.start
      grown == Len(new) - old
  IN  [b EXCEPT !.text = SubSeq(b.text, 1, m.start - 1) \o new
                         \o SubSeq(b.text, m.end, Len(b.text)),
                !.len = @ + grown,
                !.point = m.start + Len(new),
                !.narrowing = IF grown >= 0 THEN Stretched(@, grown) ELSE Shrunk(@, 0 - grown),
                !.markers = MarkersAfterInsert(MarkersAfterDelete(@, m.start, m.end),
                                               m.start, Len(new)),
                !.match = Nothing]

(***************************************************************************)
(* Line motion: the scan runs over the whole text, the landing is clamped. *)
(***************************************************************************)
BeginningOfLine(b) ==
  [b EXCEPT !.point = Greater(LineStart(b.text, InText(b, b.point)),
                              Lesser(PointMin(b), b.len + 1))]

EndOfLine(b) ==
  [b EXCEPT !.point = Lesser(LineEnd(b.text, InText(b, b.point)), PointMax(b))]

LineStarts(b) == {1} \cup {i + 1 : i \in {j \in 1..Len(b.text) : b.text[j] = NL}}

(* Moves n lines, to a line's beginning; `left` is what could not be moved.  *)
(* Short of lines, point goes to the edge of the accessible region; coming   *)
(* to its start counts when a line begins there.                             *)
ForwardLine(b, n) ==
  LET at == BeginningOfLine(b).point
      lines == IF n >= 0 THEN n ELSE 0 - n
      reach == {s \in LineStarts(b) : IF n >= 0 THEN at < s /\ s <= PointMax(b)
                                                ELSE PointMin(b) < s /\ s < at}
      nth(s) == Cardinality({t \in reach : IF n >= 0 THEN t <= s ELSE s <= t}) = lines
      home == n < 0 /\ PointMin(b) \in LineStarts(b) /\ at # PointMin(b)
      edge == IF n > 0 THEN PointMax(b) ELSE PointMin(b)
  IN  IF n = 0 THEN [b |-> [b EXCEPT !.point = at], left |-> 0]
      ELSE IF \E s \in reach : nth(s)
      THEN [b |-> [b EXCEPT !.point = CHOOSE s \in reach : nth(s)], left |-> 0]
      ELSE [b |-> [b EXCEPT !.point = edge],
            left |-> lines - Cardinality(reach) - (IF home THEN 1 ELSE 0)]

(***************************************************************************)
(* Searches.  A hit records the match and moves point to its far side; a   *)
(* miss leaves the store as it is.                                         *)
(***************************************************************************)
Found(b, i, n, point) ==
  [b EXCEPT !.match = [start |-> i, end |-> i + n, text |-> SubSeq(b.text, i, i + n - 1)],
            !.point = point]

Literal(needle) == [body |-> needle, bol |-> FALSE, eol |-> FALSE]
BoundOr(bound, default) == IF bound = Nowhere THEN default ELSE bound

SearchForward(b, needle, bound) ==
  LET hits == SpanMatches(Literal(needle), b.text, InText(b, b.point),
                          InText(b, BoundOr(bound, PointMax(b))))
      i == Leftmost(hits)
  IN  IF hits = {} THEN b ELSE Found(b, i, Len(needle), i + Len(needle))

SearchBackward(b, needle, bound) ==
  LET hits == SpanMatches(Literal(needle), b.text,
                          InText(b, BoundOr(bound, PointMin(b))), InText(b, b.point))
      i == Rightmost(hits)
  IN  IF hits = {} THEN b ELSE Found(b, i, Len(needle), i)

(* The matches of an expression in [s, e), its anchors seeing the text of    *)
(* the accessible region (or as much more as the span needs).                *)
ReMatches(b, re, s, e) ==
  LET from == Lesser(InText(b, PointMin(b)), s)
      to == Greater(InText(b, PointMax(b)), e)
      hay == SubSeq(b.text, from, to - 1)
  IN  {i + from - 1 : i \in SpanMatches(re, hay, s - from + 1, e - from + 1)}

ReSearchForward(b, re, bound) ==
  LET hits == ReMatches(b, re, InText(b, b.point), InText(b, BoundOr(bound, PointMax(b))))
      i == Leftmost(hits)
  IN  IF hits = {} THEN b ELSE Found(b, i, Len(re.body), i + Len(re.body))

ReSearchBackward(b, re, bound) ==
  LET lo == Lesser(BoundOr(bound, PointMin(b)), b.point)
      hits == ReMatches(b, re, InText(b, lo), InText(b, b.point))
      i == Rightmost(hits)
  IN  IF hits = {} THEN b ELSE Found(b, i, Len(re.body), i)

(* looking-at sees the text from the accessible region's start to its end. *)
LookingAt(b, re) ==
  LET at == InText(b, b.point)
      from == Lesser(InText(b, PointMin(b)), at)
  IN  MatchesAt(re, SubSeq(b.text, from, Len(b.text)), at - from + 1)

(***************************************************************************)
(* The calls of a program.                                                 *)
(***************************************************************************)
Init ==
  /\ \E text \in InitialTexts : buf = FromString(text)
  /\ frames = <<>>
  /\ kept = Nothing

Becomes(b) == buf' = b /\ UNCHANGED <<frames, kept>>

(* The edits a program asks for: of some of the accessible text, unless      *)
(* EditsOutside.                                                             *)
Accessible(b, p) == PointMin(b) <= p /\ p <= PointMax(b)
Editable(b, x, y) == EditsOutside \/ (Accessible(b, x) /\ Accessible(b, y))
Deletable(b, x, y) == Editable(b, x, y) /\ (x # y \/ EditsOutside)

CallInsert == \E s \in Inserts : Becomes(Insert(buf, s))
CallDeleteRegion ==
  \E x, y \in Positions : Deletable(buf, x, y) /\ Becomes(DeleteRegion(buf, x, y))
CallEraseBuffer ==
  /\ Deletable(buf, PointMin(buf), PointMax(buf))
  /\ Becomes(DeleteRegion(buf, PointMin(buf), PointMax(buf)))
CallReplaceMatch ==
  /\ buf.match # Nothing
  /\ Editable(buf, buf.match.start, buf.match.end)
  /\ \E rep \in Replacements : Becomes(ReplaceMatch(buf, rep))

CallGotoChar == \E p \in Positions : Becomes(GotoChar(buf, p))
CallSetMark == \E p \in Positions : Becomes(SetMark(buf, p))
CallExchangePointAndMark ==
  buf.mark # Nowhere /\ Becomes(GotoChar(SetMark(buf, buf.point), buf.mark))
CallNarrowToRegion == \E x, y \in Positions : Becomes(NarrowToRegion(buf, x, y))
CallWiden == Becomes(Widen(buf))

CallMakeMarker ==
  /\ Len(buf.markers) < MaxMarkers
  /\ \E p \in Positions \cup {Nowhere} : Becomes(MarkerCreate(buf, p))
CallSetMarker ==
  \E i \in DOMAIN buf.markers, p \in Positions \cup {Nowhere} : Becomes(MarkerSet(buf, i, p))

CallBeginningOfLine == Becomes(BeginningOfLine(buf))
CallEndOfLine == Becomes(EndOfLine(buf))
CallForwardLine == \E n \in LineCounts : Becomes(ForwardLine(buf, n).b)

CallSearchForward ==
  \E needle \in Needles, bound \in Positions \cup {Nowhere} : Becomes(SearchForward(buf, needle, bound))
CallSearchBackward ==
  \E needle \in Needles, bound \in Positions \cup {Nowhere} : Becomes(SearchBackward(buf, needle, bound))
CallReSearchForward ==
  \E re \in Regexes, bound \in Positions \cup {Nowhere} : Becomes(ReSearchForward(buf, re, bound))
CallReSearchBackward ==
  \E re \in Regexes, bound \in Positions \cup {Nowhere} : Becomes(ReSearchBackward(buf, re, bound))

(* save-excursion keeps point and mark, save-restriction the bounds, as the  *)
(* numbers they are; the end of the body, however it ends, puts them back.   *)
BeginSaveExcursion ==
  /\ Len(frames) < MaxFrames
  /\ frames' = Append(frames, [point |-> buf.point, mark |-> buf.mark])
  /\ UNCHANGED <<buf, kept>>
BeginSaveRestriction ==
  /\ Len(frames) < MaxFrames
  /\ frames' = Append(frames, [bounds |-> buf.narrowing])
  /\ UNCHANGED <<buf, kept>>
EndForm ==
  /\ frames # <<>>
  /\ LET f == frames[Len(frames)]
     IN  buf' = IF "point" \in DOMAIN f
                THEN SetMarkOpt(GotoChar(buf, f.point), f.mark)
                ELSE SetRestriction(buf, f.bounds)
  /\ frames' = SubSeq(frames, 1, Len(frames) - 1)
  /\ UNCHANGED kept

(* A checkpoint keeps a snapshot; going back to it puts a copy in its place. *)
TakeSnapshot == kept' = buf /\ UNCHANGED <<buf, frames>>
GoBack == kept # Nothing /\ buf' = kept /\ UNCHANGED <<frames, kept>>

Next ==
  \/ CallInsert \/ CallDeleteRegion \/ CallEraseBuffer \/ CallReplaceMatch
  \/ CallGotoChar \/ CallSetMark \/ CallExchangePointAndMark
  \/ CallNarrowToRegion \/ CallWiden \/ CallMakeMarker \/ CallSetMarker
  \/ CallBeginningOfLine \/ CallEndOfLine \/ CallForwardLine
  \/ CallSearchForward \/ CallSearchBackward
  \/ CallReSearchForward \/ CallReSearchBackward
  \/ BeginSaveExcursion \/ BeginSaveRestriction \/ EndForm
  \/ TakeSnapshot \/ GoBack

Spec == Init /\ [][Next]_vars

(***************************************************************************)
(* No number a store keeps ever falls out of the text it keeps them for,   *)
(* however edits, restrictions, searches and rewinds follow one another:   *)
(* the cached length is the text's, the restriction is a span of it, point *)
(* and every attached marker lie in it, and what the last search matched   *)
(* is still there to be replaced.                                          *)
(***************************************************************************)
Spans(text, lo, hi) == lo \in 1..hi /\ hi \in 1..(Len(text) + 1)
Settled(b) ==
  /\ b.len = Len(b.text)
  /\ b.point \in 1..(b.len + 1)
  /\ b.narrowing # Nothing => Spans(b.text, b.narrowing.lo, b.narrowing.hi)
  /\ \A i \in DOMAIN b.markers : b.markers[i] \in 1..(b.len + 1) \cup {Nowhere}
  /\ b.match # Nothing => /\ Spans(b.text, b.match.start, b.match.end)
                          /\ b.match.text = SubSeq(b.text, b.match.start, b.match.end - 1)
CursorsInText == Settled(buf) /\ (kept # Nothing => Settled(kept))
=============================================================================
