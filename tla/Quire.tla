-------------------------------- MODULE Quire --------------------------------
(***************************************************************************)
(* The store every visited file lives in (src/src/quire.rs): a piece tree  *)
(* over the bytes of the file and of the inserted text, with the cursor    *)
(* state of a buffer.  It takes the calls of module Buffer and must leave  *)
(* what Buffer leaves; it also writes itself to the file in a coding (BOM  *)
(* and line ending) and takes the written file as its new original.        *)
(***************************************************************************)
EXTENDS PieceTree

CONSTANTS
  Bom,           \* the byte-order mark, one symbol
  Files,         \* the contents a visited file may have
  Codings,       \* the codings a program may set
  WindowStart,   \* the first window of a regex search, in characters
  Inserts, Replacements, Needles, Regexes, Positions, LineCounts,
  MaxMarkers, MaxFrames, EditsOutside, Nothing,
  MaxSteps       \* bound: calls made

ASSUME WindowAssumption == WindowStart \in Nat \ {0} /\ MaxSteps \in Nat

VARIABLES
  store,   \* the Quire
  disk,    \* the bytes of the visited file
  frames,  \* as in Buffer
  kept,    \* the snapshot of a checkpoint, or Nothing
  steps    \* calls made so far
vars == <<store, disk, frames, kept, steps>>

(***************************************************************************)
(* Coding.                                                                 *)
(***************************************************************************)
(* The BOM, and DOS iff the first newline follows a CR. *)
DetectCoding(bytes) ==
  LET breaks == Newlines(bytes, 1, Len(bytes))
      i == Leftmost(breaks)
  IN  [bom |-> bytes # <<>> /\ bytes[1] = Bom,
       dos |-> breaks # {} /\ i > 1 /\ bytes[i - 1] = CR]

BomOf(coding) == IF coding.bom THEN <<Bom>> ELSE <<>>
WriteLfAsCrlf(bytes) ==
  FlattenSeq([i \in DOMAIN bytes |-> IF bytes[i] = NL THEN <<CR, NL>> ELSE <<bytes[i]>>])
(* Mutant: inserted text is written as it is. *)
Unencoded(bytes, coding) == bytes

Encoded(bytes, coding) == IF coding.dos THEN WriteLfAsCrlf(bytes) ELSE bytes

Open(bytes) ==
  LET coding == DetectCoding(bytes)
      skip == Len(BomOf(coding))
      count == CountRange(SubSeq(bytes, skip + 1, Len(bytes)), coding.dos)
  IN  [orig |-> bytes, add |-> <<>>, view |-> coding, coding |-> coding, memo |-> None,
       root |-> SingleOriginalRoot(skip, Len(bytes) - skip, count.chars, count.lines),
       point |-> 1, mark |-> Nowhere, narrowing |-> Nothing, markers |-> <<>>, match |-> Nothing]

(* While the target coding is the file's own, untouched bytes are written as *)
(* they are and inserted text is encoded; after set-coding all is re-encoded.*)
WriteTo(q) ==
  LET ps == PiecesOf(q.root)
      asIs(p) == IF p.src = "add" THEN Encoded(Raw(q, p), q.coding) ELSE Raw(q, p)
      anew(p) == Encoded(ViewBytes(Raw(q, p), Folds(q, p.src)), q.coding)
  IN  BomOf(q.coding)
      \o FlattenSeq([i \in DOMAIN ps |-> IF q.coding = q.view THEN asIs(ps[i]) ELSE anew(ps[i])])

(* The written file becomes the original; the counts are those of before.    *)
RebaseTo(q, bytes) ==
  LET skip == Len(BomOf(q.coding))
  IN  [q EXCEPT !.orig = bytes, !.add = <<>>, !.view = q.coding, !.memo = None,
                !.root = SingleOriginalRoot(skip, Len(bytes) - skip,
                                            q.root.sum.chars, q.root.sum.lines)]

(***************************************************************************)
(* Cursor, restriction, markers.                                           *)
(***************************************************************************)
CharLen(q) == q.root.sum.chars
PointMin(q) == IF q.narrowing = Nothing THEN 1 ELSE q.narrowing.lo
PointMax(q) == IF q.narrowing = Nothing THEN CharLen(q) + 1 ELSE q.narrowing.hi

GotoChar(q, p) == [q EXCEPT !.point = Clamp(p, PointMin(q), PointMax(q))]
SetMark(q, p) == [q EXCEPT !.mark = Clamp(p, PointMin(q), PointMax(q))]
SetMarkOpt(q, m) == [q EXCEPT !.mark = m]

NarrowToRegion(q, x, y) ==
  LET full == CharLen(q) + 1
      lo == Clamp(Lesser(x, y), 1, full)
      hi == Clamp(Greater(x, y), lo, full)
  IN  [q EXCEPT !.narrowing = [lo |-> lo, hi |-> hi],
                !.point = Clamp(q.point, lo, hi),
                !.mark = ClampMaybe(q.mark, lo, hi)]
Widen(q) == [q EXCEPT !.narrowing = Nothing]

SetRestriction(q, r) ==
  LET full == CharLen(q) + 1
      lo == Clamp(r.lo, 1, full)
      c == [q EXCEPT !.narrowing =
              IF r = Nothing THEN Nothing ELSE [lo |-> lo, hi |-> Clamp(r.hi, lo, full)]]
  IN  [c EXCEPT !.point = Clamp(q.point, PointMin(c), PointMax(c))]

MarkerCreate(q, p) == [q EXCEPT !.markers = Append(@, ClampMaybe(p, 1, CharLen(q) + 1))]
MarkerSet(q, i, p) == [q EXCEPT !.markers[i] = ClampMaybe(p, 1, CharLen(q) + 1)]

(***************************************************************************)
(* Edits.                                                                  *)
(***************************************************************************)
Stretched(r, n) == IF r = Nothing THEN r ELSE [r EXCEPT !.hi = @ + n]
Shrunk(r, n) == IF r = Nothing THEN r ELSE [r EXCEPT !.hi = Greater(@ - n, r.lo)]

Insert(q, s) ==
  IF s = <<>> THEN q
  ELSE [SpliceInsert(q, q.point, s) EXCEPT
          !.point = @ + Len(s),
          !.narrowing = Stretched(@, Len(s)),
          !.markers = MarkersAfterInsert(@, q.point, Len(s)),
          !.match = Nothing]

DeleteRegion(q, x, y) ==
  LET full == CharLen(q) + 1
      lo == Clamp(Lesser(x, y), 1, full)
      hi == Clamp(Greater(x, y), lo, full)
  IN  IF lo = hi THEN q
      ELSE [SpliceDelete(q, lo, hi) EXCEPT
              !.point = IF @ >= hi THEN @ - (hi - lo) ELSE IF @ > lo THEN lo ELSE @,
              !.narrowing = Shrunk(@, hi - lo),
              !.markers = MarkersAfterDelete(@, lo, hi),
              !.match = Nothing]

(* Mutant: the restriction keeps its length. *)
ReplaceMatchUnstretched(q, rep) ==
  LET m == q.match
      new == ExpandBackrefs(rep, m.text)
  IN  [SpliceInsert(SpliceDelete(q, m.start, m.end), m.start, new) EXCEPT
         !.point = m.start + Len(new),
         !.markers = MarkersAfterInsert(MarkersAfterDelete(@, m.start, m.end), m.start, Len(new)),
         !.match = Nothing]

ReplaceMatch(q, rep) ==
  LET m == q.match
      new == ExpandBackrefs(rep, m.text)
      grown == Len(new) - (m.end - m.start)
  IN  [SpliceInsert(SpliceDelete(q, m.start, m.end), m.start, new) EXCEPT
         !.point = m.start + Len(new),
         !.narrowing = IF grown >= 0 THEN Stretched(@, grown) ELSE Shrunk(@, 0 - grown),
         !.markers = MarkersAfterInsert(MarkersAfterDelete(@, m.start, m.end), m.start, Len(new)),
         !.match = Nothing]

(***************************************************************************)
(* Reads, and line motion character by character.  Every seek leaves its   *)
(* memo behind: a read returns the store it leaves.                        *)
(***************************************************************************)
CharAfter(q, p) ==
  IF p < PointMax(q) THEN CharAt(q, p) ELSE [char |-> None, q |-> q]

NewlinesBefore(q, p) == SummaryBefore(q, p).lines
LineNumberAtPos(q, p) ==
  NewlinesBefore(q, p) - NewlinesBefore(q, Lesser(PointMin(q), p)) + 1

Substring(q, x, y) == CollectRange(q, Lesser(x, y), Greater(x, y)).chars

(* Back from p to just after a newline, no further than lo; forth from p to  *)
(* a newline, no further than hi.                                            *)
RECURSIVE WalkBack(_, _, _)
WalkBack(q, p, lo) ==
  LET onFrom(c) == IF c.char = NL THEN [at |-> p, q |-> c.q] ELSE WalkBack(c.q, p - 1, lo)
  IN  IF p <= lo THEN [at |-> p, q |-> q] ELSE onFrom(CharAt(q, p - 1))

RECURSIVE WalkForth(_, _, _)
WalkForth(q, p, hi) ==
  LET onFrom(c) == IF c.char = NL THEN [at |-> p, q |-> c.q] ELSE WalkForth(c.q, p + 1, hi)
  IN  IF p >= hi THEN [at |-> p, q |-> q] ELSE onFrom(CharAt(q, p))

Landing(w) == [w.q EXCEPT !.point = w.at]
BeginningOfLine(q) ==
  LET full == CharLen(q) + 1
      min == Lesser(PointMin(q), full)
  IN  Landing(WalkBack(q, Clamp(q.point, min, full), min))

EndOfLine(q) ==
  LET max == Lesser(PointMax(q), CharLen(q) + 1)
  IN  Landing(WalkForth(q, Lesser(q.point, max), max))

LineDown(q) ==
  LET max == Lesser(PointMax(q), CharLen(q) + 1)
      land(w) == IF w.at < max THEN [q |-> [w.q EXCEPT !.point = w.at + 1], counts |-> TRUE]
                 ELSE [q |-> [w.q EXCEPT !.point = PointMax(q)], counts |-> FALSE]
  IN  land(WalkForth(q, q.point, max))

(* The newline that ends the previous line is passed over; with none before  *)
(* it, point goes to the start of the accessible region.                     *)
LineUp(q) ==
  LET max == Lesser(PointMax(q), CharLen(q) + 1)
      min == Lesser(PointMin(q), max)
      home(r, begins) == [q |-> [r EXCEPT !.point = PointMin(q)],
                          counts |-> begins /\ q.point # PointMin(q)]
      check(c) == home(c.q, c.char = NL)
      land(w) == IF w.at > min THEN [q |-> Landing(w), counts |-> TRUE]
                 ELSE IF PointMin(q) # min THEN home(w.q, FALSE)
                 ELSE IF min = 1 THEN home(w.q, TRUE)
                 ELSE check(CharAt(w.q, min - 1))
  IN  land(WalkBack(q, Greater(q.point - 1, min), min))

ForwardLine(q, n) ==
  LET lines == IF n >= 0 THEN n ELSE 0 - n
      step(r) == IF n >= 0 THEN LineDown(r) ELSE LineUp(r)
      take(left, s) == [q |-> s.q, left |-> IF s.counts THEN left - 1 ELSE left, stuck |-> ~s.counts]
      onFrom(w) == IF w.stuck THEN w ELSE take(w.left, step(w.q))
      walk[k \in 0..lines] ==
        IF k = 0 THEN [q |-> BeginningOfLine(q), left |-> lines, stuck |-> FALSE]
        ELSE onFrom(walk[k - 1])
  IN  walk[lines]

(***************************************************************************)
(* Searches.                                                               *)
(***************************************************************************)
Literal(needle) == [body |-> needle, bol |-> FALSE, eol |-> FALSE]
BoundOr(bound, default) == IF bound = Nowhere THEN default ELSE bound

Found(q, i, body, point) ==
  [q EXCEPT !.match = [start |-> i, end |-> i + Len(body), text |-> body], !.point = point]

HitForward(read, from, needle) ==
  LET hits == SpanMatches(Literal(needle), read.chars, 1, Len(read.chars) + 1)
      i == from + Leftmost(hits) - 1
  IN  IF hits = {} THEN read.q ELSE Found(read.q, i, needle, i + Len(needle))

SearchForward(q, needle, bound) ==
  LET to == BoundOr(bound, PointMax(q))
  IN  IF q.point > to THEN q ELSE HitForward(CollectRange(q, q.point, to), q.point, needle)

HitBackward(read, lo, needle) ==
  LET hits == SpanMatches(Literal(needle), read.chars, 1, Len(read.chars) + 1)
      i == lo + Rightmost(hits) - 1
  IN  IF hits = {} THEN read.q ELSE Found(read.q, i, needle, i)

SearchBackward(q, needle, bound) ==
  LET lo == BoundOr(bound, PointMin(q))
  IN  IF lo >= q.point THEN q ELSE HitBackward(CollectRange(q, lo, q.point), lo, needle)

(* The first position a match may look back at: one character before `from`, *)
(* but none before the accessible region.                                    *)
ContextFrom(q, from) == Greater(from - 1, Lesser(PointMin(q), from))

(* A match at the edge of a window that is not the last may be due to the    *)
(* cut: it is judged again in a larger one.                                  *)
Settled(hit, end, spanEnd, last) == last \/ (hit /\ end < spanEnd)

(* The matches in a window of `span` characters from the context on; its     *)
(* last character is context too when it lies past the bound.                *)
InWindow(q, re, to, span, read) ==
  LET ctx == ContextFrom(q, q.point)
      past == ctx + span >= to /\ to < PointMax(q) /\ read.chars # <<>>
      before == ctx < q.point /\ read.chars # <<>>
      spanEnd == Len(read.chars) + 1 - (IF past THEN 1 ELSE 0)
  IN  [hits |-> SpanMatches(re, read.chars, IF before THEN 2 ELSE 1, spanEnd),
       spanEnd |-> spanEnd, last |-> ctx + span >= to, ctx |-> ctx, q |-> read.q]

Window(q, to, span) ==
  LET ctx == ContextFrom(q, q.point)
  IN  CollectRange(q, ctx, IF ctx + span < to THEN ctx + span
                           ELSE IF to < PointMax(q) THEN to + 1 ELSE to)

SettledIn(w, re) ==
  Settled(w.hits # {}, Leftmost(w.hits) + Len(re.body), w.spanEnd, w.last)
HitInWindow(w, re) ==
  LET start == w.ctx + Leftmost(w.hits) - 1
  IN  IF w.hits = {} THEN w.q ELSE Found(w.q, start, re.body, start + Len(re.body))

(* The search in a window, doubled until it settles. *)
RECURSIVE JudgeWindow(_, _, _, _)
JudgeWindow(re, to, span, w) ==
  IF SettledIn(w, re) THEN HitInWindow(w, re)
  ELSE JudgeWindow(re, to, 2 * span, InWindow(w.q, re, to, 2 * span, Window(w.q, to, 2 * span)))

ReSearchForward(q, re, bound) ==
  LET to == BoundOr(bound, PointMax(q))
  IN  IF q.point > to THEN q
      ELSE JudgeWindow(re, to, WindowStart, InWindow(q, re, to, WindowStart, Window(q, to, WindowStart)))

(* The whole of [lo, point), with one character of context on each side. *)
LatestIn(read, re, left, right, from) ==
  LET skip(cut) == IF cut /\ read.chars # <<>> THEN 1 ELSE 0
      hits == SpanMatches(re, read.chars, 1 + skip(left), Len(read.chars) + 1 - skip(right))
      i == from + Rightmost(hits) - 1
  IN  IF hits = {} THEN read.q ELSE Found(read.q, i, re.body, i)

ReSearchBackward(q, re, bound) ==
  LET hi == q.point
      lo == Lesser(BoundOr(bound, PointMin(q)), hi)
      left == lo > PointMin(q)
      right == hi < PointMax(q)
      from == IF left THEN lo - 1 ELSE lo
  IN  LatestIn(CollectRange(q, from, IF right THEN hi + 1 ELSE hi), re, left, right, from)

(* Mutant: the character before point is out of sight. *)
LookingAtAlone(q, re, span) ==
  MatchesAt(re, CollectRange(q, q.point, CharLen(q) + 1).chars, 1)

(* Windows from point to the end of the document, doubled until they settle. *)
RECURSIVE LookingAtWithin(_, _, _)
LookingAtWithin(q, re, span) ==
  LET ctx == ContextFrom(q, q.point)
      full == CharLen(q) + 1
      hi == Lesser(ctx + span, full)
      judge(hay, at) ==
        IF MatchesAt(re, hay, at) /\ (at + Len(re.body) <= Len(hay) \/ hi >= full) THEN TRUE
        ELSE IF hi >= full THEN FALSE
        ELSE LookingAtWithin(q, re, 2 * span)
      see(hay) == judge(hay, IF ctx < q.point /\ hay # <<>> THEN 2 ELSE 1)
  IN  see(CollectRange(q, ctx, hi).chars)
LookingAt(q, re) == LookingAtWithin(q, re, WindowStart)

(***************************************************************************)
(* The calls of a program, and the save of the tools.                      *)
(***************************************************************************)
Init ==
  /\ disk \in Files
  /\ store = Open(disk)
  /\ frames = <<>> /\ kept = Nothing /\ steps = 0

Count == steps < MaxSteps /\ steps' = steps + 1
Becomes(q) == Count /\ store' = q /\ UNCHANGED <<disk, frames, kept>>

Accessible(q, p) == PointMin(q) <= p /\ p <= PointMax(q)
Editable(q, x, y) == EditsOutside \/ (Accessible(q, x) /\ Accessible(q, y))
Deletable(q, x, y) == Editable(q, x, y) /\ (x # y \/ EditsOutside)

CallInsert == \E s \in Inserts : Becomes(Insert(store, s))
CallDeleteRegion ==
  \E x, y \in Positions : Deletable(store, x, y) /\ Becomes(DeleteRegion(store, x, y))
CallEraseBuffer ==
  /\ Deletable(store, PointMin(store), PointMax(store))
  /\ Becomes(DeleteRegion(store, PointMin(store), PointMax(store)))
CallReplaceMatch ==
  /\ store.match # Nothing
  /\ Editable(store, store.match.start, store.match.end)
  /\ \E rep \in Replacements : Becomes(ReplaceMatch(store, rep))

CallGotoChar == \E p \in Positions : Becomes(GotoChar(store, p))
CallSetMark == \E p \in Positions : Becomes(SetMark(store, p))
CallExchangePointAndMark ==
  store.mark # Nowhere /\ Becomes(GotoChar(SetMark(store, store.point), store.mark))
CallNarrowToRegion == \E x, y \in Positions : Becomes(NarrowToRegion(store, x, y))
CallWiden == Becomes(Widen(store))
CallMakeMarker ==
  /\ Len(store.markers) < MaxMarkers
  /\ \E p \in Positions \cup {Nowhere} : Becomes(MarkerCreate(store, p))
CallSetMarker ==
  \E i \in DOMAIN store.markers, p \in Positions \cup {Nowhere} : Becomes(MarkerSet(store, i, p))

CallCharAfter == \E p \in Positions : Becomes(CharAfter(store, p).q)
CallBeginningOfLine == Becomes(BeginningOfLine(store))
CallEndOfLine == Becomes(EndOfLine(store))
CallForwardLine == \E n \in LineCounts : Becomes(ForwardLine(store, n).q)

CallSearchForward ==
  \E needle \in Needles, bound \in Positions \cup {Nowhere} : Becomes(SearchForward(store, needle, bound))
CallSearchBackward ==
  \E needle \in Needles, bound \in Positions \cup {Nowhere} : Becomes(SearchBackward(store, needle, bound))
CallReSearchForward ==
  \E re \in Regexes, bound \in Positions \cup {Nowhere} : Becomes(ReSearchForward(store, re, bound))
CallReSearchBackward ==
  \E re \in Regexes, bound \in Positions \cup {Nowhere} : Becomes(ReSearchBackward(store, re, bound))

BeginSaveExcursion ==
  /\ Count
  /\ Len(frames) < MaxFrames
  /\ frames' = Append(frames, [point |-> store.point, mark |-> store.mark])
  /\ UNCHANGED <<store, disk, kept>>
BeginSaveRestriction ==
  /\ Count
  /\ Len(frames) < MaxFrames
  /\ frames' = Append(frames, [bounds |-> store.narrowing])
  /\ UNCHANGED <<store, disk, kept>>
EndForm ==
  /\ Count
  /\ frames # <<>>
  /\ LET f == frames[Len(frames)]
     IN  store' = IF "point" \in DOMAIN f
                  THEN SetMarkOpt(GotoChar(store, f.point), f.mark)
                  ELSE SetRestriction(store, f.bounds)
  /\ frames' = SubSeq(frames, 1, Len(frames) - 1)
  /\ UNCHANGED <<disk, kept>>

Snapshot(q) == [q EXCEPT !.memo = None]
TakeSnapshot ==
  Count /\ kept' = Snapshot(store) /\ UNCHANGED <<store, disk, frames>>
GoBack ==
  /\ Count
  /\ kept # Nothing
  /\ store' = Snapshot(kept)
  /\ UNCHANGED <<disk, frames, kept>>

CallSetCoding == \E c \in Codings : Becomes([store EXCEPT !.coding = c])

(* A save comes between programs: the file is written, then re-opened. *)
Save ==
  /\ Count
  /\ frames = <<>>
  /\ disk' = WriteTo(store)
  /\ store' = RebaseTo(store, WriteTo(store))
  /\ UNCHANGED <<frames, kept>>

Next ==
  \/ CallInsert \/ CallDeleteRegion \/ CallEraseBuffer \/ CallReplaceMatch
  \/ CallGotoChar \/ CallSetMark \/ CallExchangePointAndMark
  \/ CallNarrowToRegion \/ CallWiden \/ CallMakeMarker \/ CallSetMarker
  \/ CallCharAfter \/ CallBeginningOfLine \/ CallEndOfLine \/ CallForwardLine
  \/ CallSearchForward \/ CallSearchBackward
  \/ CallReSearchForward \/ CallReSearchBackward
  \/ BeginSaveExcursion \/ BeginSaveRestriction \/ EndForm
  \/ TakeSnapshot \/ GoBack \/ CallSetCoding \/ Save

Spec == Init /\ [][Next]_vars

(* The buffer a Quire stands for. *)
Abs(q) ==
  [text |-> FullText(q), len |-> CharLen(q), point |-> q.point, mark |-> q.mark,
   narrowing |-> q.narrowing, markers |-> q.markers, match |-> q.match]

(* The counts cached in the pieces and summed up the tree are those of the   *)
(* bytes the pieces name, and the tree keeps its shape: leaves at one depth, *)
(* no inner node wider than MaxFan, no empty child.  (A leaf may be wider: a *)
(* deletion that leaves both ends of a piece adds one and splits nothing.)   *)
RECURSIVE WellBuilt(_, _)
WellBuilt(q, node) ==
  IF node.height = 0
  THEN /\ \A i \in DOMAIN node.pieces :
            LET p == node.pieces[i]
                count == CountRange(Raw(q, p), Folds(q, p.src))
            IN  Len(Raw(q, p)) = p.len /\ p.chars = count.chars /\ p.lines = count.lines
       /\ node.sum = Leaf(node.pieces).sum
  ELSE /\ Len(node.kids) \in 1..MaxFan
       /\ \A i \in DOMAIN node.kids :
            /\ node.kids[i].height = node.height - 1
            /\ node.kids[i] # EmptyNode /\ WellBuilt(q, node.kids[i])
       /\ node.sum = InnerAt(node.kids, node.height).sum
CountsMatchBytes ==
  WellBuilt(store, store.root) /\ (kept # Nothing => WellBuilt(kept, kept.root))

(* The remembered seek is true of the bytes it names: wherever a piece with  *)
(* its start and length is sought next, its byte offset is that of its       *)
(* character, its newlines those before it.                                  *)
MemoTrue ==
  LET m == store.memo
      bs == Raw(store, m)
  IN  m # None =>
        /\ m.start + m.len <= Len(Source(store, m.src))
        /\ Cardinality(Starts(bs, 1, m.bp, Folds(store, m.src))) = m.n
        /\ m.bp < m.len /\ StartsChar(bs, m.bp + 1, 1, Folds(store, m.src))
        /\ Cardinality(Newlines(bs, 1, m.bp)) = m.nl

(* A save introduces no mixed line endings: when the newlines of the file    *)
(* were all of its own kind, those of the new file are all of the kind       *)
(* programs asked for, inserted ones and split pieces included.  And when    *)
(* nothing inserted is left and the text is the file's, in the file's own    *)
(* coding, the save writes the file's own bytes, mixed endings and all.      *)
AllEnd(bytes, dos) ==
  \A i \in Newlines(bytes, 1, Len(bytes)) : (i > 1 /\ bytes[i - 1] = CR) <=> dos
SaveKeepsEndings ==
  [][Save =>
       LET q == store
           opened == Open(q.orig)
           ps == PiecesOf(q.root)
       IN  /\ AllEnd(q.orig, q.view.dos) /\ CR \notin {FullText(q)[i] : i \in 1..CharLen(q)}
                => AllEnd(disk', q.coding.dos)
           /\ (/\ q.coding = opened.coding
               /\ FullText(q) = FullText(opened)
               /\ \A i \in DOMAIN ps : ps[i].src = "orig")
                => disk' = q.orig]_vars
=============================================================================
