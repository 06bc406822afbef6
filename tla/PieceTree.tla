------------------------------ MODULE PieceTree ------------------------------
(***************************************************************************)
(* The persistent measured tree of pieces inside Quire (src/src/quire.rs): *)
(* a document is a sequence of pieces, each a byte range of the visited    *)
(* file ("orig") or of the inserted text ("add"), kept in the leaves of a  *)
(* tree whose nodes cache the bytes, characters and newlines below them.   *)
(*                                                                         *)
(* Bytes are symbols: one-byte characters, the two bytes Lead and Cont of  *)
(* one longer character, NL and CR.  A character is named by its first     *)
(* byte, except that the pair CR NL of a file with DOS line endings is the *)
(* newline NL.                                                             *)
(***************************************************************************)
EXTENDS TextStore, FiniteSets, SequencesExt

CONSTANTS
  CR,           \* the byte before the newline in a DOS line ending
  Lead, Cont,   \* the first and the continuation byte of a longer character
  MaxFan,       \* the most pieces of a leaf, or children of a node (MAX)
  None          \* no seek remembered, no piece found, no second half

ASSUME MaxFanAssumption == MaxFan \in Nat \ {0, 1}

(* FoldLeft of the community modules, by recursion on the length.            *)
Accumulate(Op(_, _), base, seq) ==
  LET upto[i \in 0..Len(seq)] == IF i = 0 THEN base ELSE Op(upto[i - 1], seq[i])
  IN  upto[Len(seq)]

(***************************************************************************)
(* Bytes and characters.  `fold` says that CR NL is one character.         *)
(***************************************************************************)
(* Byte i starts a character; a scan that begins at `from` sees no byte      *)
(* before it.                                                                *)
StartsChar(bs, i, from, fold) ==
  bs[i] # Cont /\ ~(fold /\ bs[i] = NL /\ i > from /\ bs[i - 1] = CR)

Starts(bs, from, to, fold) == {i \in from..to : StartsChar(bs, i, from, fold)}
Newlines(bs, from, to) == {i \in from..to : bs[i] = NL}

CountRange(bs, fold) ==
  [chars |-> Cardinality(Starts(bs, 1, Len(bs), fold)),
   lines |-> Cardinality(Newlines(bs, 1, Len(bs)))]

(* The bytes as they are read: without the CR of each CR NL. *)
ViewBytes(bs, fold) ==
  LET hidden(i) == fold /\ bs[i] = CR /\ i < Len(bs) /\ bs[i + 1] = NL
      shown == SelectSeq([i \in DOMAIN bs |-> i], LAMBDA i : ~hidden(i))
  IN  [k \in DOMAIN shown |-> bs[shown[k]]]

CharsOf(bytes) == SelectSeq(bytes, LAMBDA b : b # Cont)
BytesOf(chars) == FlattenSeq([i \in DOMAIN chars |->
                                IF chars[i] = Lead THEN <<Lead, Cont>> ELSE <<chars[i]>>])

(***************************************************************************)
(* Pieces and nodes.                                                       *)
(***************************************************************************)
Zero == [bytes |-> 0, chars |-> 0, lines |-> 0]
Plus(s, t) ==
  [bytes |-> s.bytes + t.bytes, chars |-> s.chars + t.chars, lines |-> s.lines + t.lines]
PieceSum(p) == [bytes |-> p.len, chars |-> p.chars, lines |-> p.lines]

Leaf(ps) ==
  [pieces |-> ps, kids |-> <<>>, height |-> 0,
   sum |-> Accumulate(LAMBDA s, p : Plus(s, PieceSum(p)), Zero, ps)]
InnerAt(kids, height) ==
  [pieces |-> <<>>, kids |-> kids, height |-> height,
   sum |-> Accumulate(LAMBDA s, n : Plus(s, n.sum), Zero, kids)]
Inner(kids) == InnerAt(kids, kids[1].height + 1)
EmptyNode == Leaf(<<>>)

RECURSIVE PiecesOf(_)
PiecesOf(node) ==
  IF node.height = 0 THEN node.pieces
  ELSE FlattenSeq([i \in DOMAIN node.kids |-> PiecesOf(node.kids[i])])

(* The document as one piece of the visited file, its counts as given. *)
SingleOriginalRoot(start, len, chars, lines) ==
  IF len = 0 THEN EmptyNode
  ELSE Leaf(<<[src |-> "orig", start |-> start, len |-> len, chars |-> chars, lines |-> lines]>>)

(***************************************************************************)
(* Seeks.  `q` is the store: q.orig and q.add are the bytes pieces refer   *)
(* to, q.view.dos says that the file is viewed with CR NL folded, q.memo  *)
(* is the last seek.                                                       *)
(***************************************************************************)
Source(q, src) == IF src = "orig" THEN q.orig ELSE q.add
Raw(q, p) == SubSeq(Source(q, p.src), p.start + 1, p.start + p.len)
Folds(q, src) == q.view.dos /\ src = "orig"

Anchor(p, n, bp, nl) ==
  [src |-> p.src, start |-> p.start, len |-> p.len, n |-> n, bp |-> bp, nl |-> nl]

Names(memo, p) ==
  memo # None /\ memo.src = p.src /\ memo.start = p.start /\ memo.len = p.len

(* The walk forward from an anchor to character n, where [bp, nl] is found. *)
ScanFrom(q, p, a, n) ==
  LET bs == Raw(q, p)
      starts == Starts(bs, a.bp + 1, Len(bs), Folds(q, p.src))
      at(i) == Cardinality({j \in starts : j < i}) = n - a.n
  IN  IF \E i \in starts : at(i)
      THEN LET i == CHOOSE i \in starts : at(i)
           IN  [bp |-> i - 1, nl |-> a.nl + Cardinality(Newlines(bs, a.bp + 1, i - 1))]
      ELSE [bp |-> p.len, nl |-> p.lines]

(* The step back from an anchor past character n; when the bytes hold fewer  *)
(* characters than counted, the walk from the head answers.                  *)
ScanBack(q, p, a, n) ==
  LET bs == Raw(q, p)
      starts == {i \in Starts(bs, 1, Len(bs), Folds(q, p.src)) : i <= a.bp}
      at(i) == Cardinality({j \in starts : j >= i}) = a.n - n
  IN  IF \E i \in starts : at(i)
      THEN LET i == CHOOSE i \in starts : at(i)
           IN  [bp |-> i - 1, nl |-> a.nl - Cardinality(Newlines(bs, i, a.bp))]
      ELSE ScanFrom(q, p, Anchor(p, 0, 0, 0), n)

(* The nearest of the piece's head, its end and the memo to character n. *)
Nearest(q, p, n) ==
  LET dist(a) == IF a.n >= n THEN a.n - n ELSE n - a.n
      head == Anchor(p, 0, 0, 0)
      end == Anchor(p, p.chars, p.len, p.lines)
      near == IF dist(end) < dist(head) THEN end ELSE head
  IN  IF Names(q.memo, p) /\ dist(q.memo) < dist(near) THEN q.memo ELSE near

ScanVia(q, p, a, n) == IF a.n <= n THEN ScanFrom(q, p, a, n) ELSE ScanBack(q, p, a, n)

Remembering(q, p, n, mark) ==
  [bp |-> mark.bp, nl |-> mark.nl,
   q |-> IF n < p.chars THEN [q EXCEPT !.memo = Anchor(p, n, mark.bp, mark.nl)] ELSE q]

(* Where character n of a piece starts; the store remembers the answer. *)
Scan(q, p, n) ==
  IF n = 0 THEN [bp |-> 0, nl |-> 0, q |-> q]
  ELSE Remembering(q, p, n, ScanVia(q, p, Nearest(q, p, n), n))

(* The piece that holds the character after `target` others, found down the  *)
(* cached counts; None past the end.                                       *)
RECURSIVE Locate(_, _)
Locate(node, target) ==
  LET parts == IF node.height = 0 THEN node.pieces ELSE node.kids
      chars(i) == IF node.height = 0 THEN parts[i].chars ELSE parts[i].sum.chars
      before[i \in 1..(Len(parts) + 1)] == IF i = 1 THEN 0 ELSE before[i - 1] + chars(i - 1)
      holds == {i \in DOMAIN parts : before[i] <= target /\ target < before[i] + chars(i)}
  IN  IF holds = {} THEN None
      ELSE LET i == CHOOSE i \in holds : TRUE
           IN  IF node.height = 0 THEN [piece |-> parts[i], within |-> target - before[i]]
               ELSE Locate(parts[i], target - before[i])

Decoded(p, s) ==
  LET bs == Raw(s.q, p)
      b == bs[s.bp + 1]
      ending == Folds(s.q, p.src) /\ b = CR /\ s.bp + 2 <= Len(bs) /\ bs[s.bp + 2] = NL
  IN  [char |-> IF ending THEN NL ELSE b, q |-> s.q]
CharOf(q, at) == Decoded(at.piece, Scan(q, at.piece, at.within))

CharAt(q, p) ==
  IF p < 1 \/ p > q.root.sum.chars THEN [char |-> None, q |-> q]
  ELSE CharOf(q, Locate(q.root, p - 1))

(* What precedes a position, summed down the tree. *)
SumUpTo(n, s) == [bytes |-> s.bp, chars |-> n, lines |-> s.nl]
SummaryBefore(q, p) ==
  LET target == Clamp(p, 1, q.root.sum.chars + 1) - 1
      add(acc, piece) ==
        IF acc.left = 0 THEN acc
        ELSE IF acc.left < piece.chars
        THEN [left |-> 0, sum |-> Plus(acc.sum, SumUpTo(acc.left, Scan(q, piece, acc.left)))]
        ELSE [left |-> acc.left - piece.chars, sum |-> Plus(acc.sum, PieceSum(piece))]
  IN  Accumulate(add, [left |-> target, sum |-> Zero], PiecesOf(q.root)).sum

(* The characters of [lo, hi), piece by piece: each piece that overlaps the  *)
(* range is sought at both edges, s and e, and read between them.            *)
Between(acc, p, s, e) ==
  [pos |-> acc.pos + p.chars, q |-> e.q,
   bytes |-> acc.bytes \o ViewBytes(SubSeq(Raw(e.q, p), s.bp + 1, e.bp), Folds(e.q, p.src))]
ReadOn(acc, p, to, s) == Between(acc, p, s, Scan(s.q, p, to))

ReadPieces(q, lo, hi) ==
  LET add(acc, p) ==
        IF acc.pos + p.chars > lo /\ acc.pos < hi
        THEN ReadOn(acc, p, Lesser(hi - acc.pos, p.chars),
                    Scan(acc.q, p, Greater(lo - acc.pos, 0)))
        ELSE [acc EXCEPT !.pos = @ + p.chars]
  IN  Accumulate(add, [pos |-> 1, q |-> q, bytes |-> <<>>], PiecesOf(q.root))

CharsRead(all) == [chars |-> CharsOf(all.bytes), q |-> all.q]
CollectRange(q, x, y) ==
  LET full == q.root.sum.chars + 1
      lo == Clamp(x, 1, full)
      hi == Clamp(y, lo, full)
  IN  IF lo = hi THEN [chars |-> <<>>, q |-> q] ELSE CharsRead(ReadPieces(q, lo, hi))

(* The whole text, as text() materializes it. *)
FullText(q) ==
  LET ps == PiecesOf(q.root)
  IN  CharsOf(FlattenSeq([i \in DOMAIN ps |-> ViewBytes(Raw(q, ps[i]), Folds(q, ps[i].src))]))

(***************************************************************************)
(* Splices.  Each returns the store with a new tree; the old tree, which a *)
(* snapshot may hold, is a value and stays.                                *)
(***************************************************************************)
(* Mutant: the right part's newlines are those of the whole piece. *)
SplitPieceStaleLines(q, p, byte) ==
  LET bs == Raw(q, p)
      left == CountRange(SubSeq(bs, 1, byte), Folds(q, p.src))
  IN  <<[p EXCEPT !.len = byte, !.chars = left.chars, !.lines = left.lines],
        [p EXCEPT !.start = @ + byte, !.len = @ - byte, !.chars = @ - left.chars]>>

(* The smaller side is counted, the other derived from the piece's totals. *)
SplitPiece(q, p, byte) ==
  LET bs == Raw(q, p)
      fold == Folds(q, p.src)
      right == CountRange(SubSeq(bs, byte + 1, p.len), fold)
      left == IF byte <= p.len \div 2 THEN CountRange(SubSeq(bs, 1, byte), fold)
              ELSE [chars |-> p.chars - right.chars, lines |-> p.lines - right.lines]
  IN  <<[p EXCEPT !.len = byte, !.chars = left.chars, !.lines = left.lines],
        [p EXCEPT !.start = @ + byte, !.len = @ - byte,
                  !.chars = @ - left.chars, !.lines = @ - left.lines]>>

(* What one node holds, split in two when it would be more than MaxFan. *)
Halves(items) ==
  LET half == Len(items) \div 2
  IN  IF Len(items) <= MaxFan THEN <<items>>
      ELSE <<SubSeq(items, 1, half), SubSeq(items, half + 1, Len(items))>>

LeafFrom(ps) ==
  LET hs == Halves(ps)
  IN  [node |-> Leaf(hs[1]), right |-> IF Len(hs) = 1 THEN None ELSE Leaf(hs[2])]
InternalFrom(kids, height) ==
  LET hs == Halves(kids)
  IN  [node |-> InnerAt(hs[1], height),
       right |-> IF Len(hs) = 1 THEN None ELSE InnerAt(hs[2], height)]

InsertInLeaf(q, ps, target, piece) ==
  LET before[i \in 1..(Len(ps) + 1)] == IF i = 1 THEN 0 ELSE before[i - 1] + ps[i - 1].chars
      holds == {i \in DOMAIN ps : before[i] <= target /\ target < before[i] + ps[i].chars}
      i == CHOOSE i \in holds : TRUE
      within == target - before[i]
      s == Scan(q, ps[i], within)
      halves == SplitPiece(q, ps[i], s.bp)
      built == IF holds = {} THEN Append(ps, piece)
               ELSE IF within = 0 THEN InsertAt(ps, i, piece)
               ELSE SubSeq(ps, 1, i - 1) \o <<halves[1], piece, halves[2]>>
                    \o SubSeq(ps, i + 1, Len(ps))
  IN  LeafFrom(built) @@ [q |-> IF holds # {} /\ within > 0 THEN s.q ELSE q]

RECURSIVE InsertRec(_, _, _, _)
InsertRec(q, node, target, piece) ==
  LET kids == node.kids
      before[i \in 1..(Len(kids) + 1)] == IF i = 1 THEN 0 ELSE before[i - 1] + kids[i - 1].sum.chars
      takes == {i \in DOMAIN kids : target - before[i] <= kids[i].sum.chars}
      ci == IF takes = {} THEN Len(kids) ELSE CHOOSE i \in takes : \A j \in takes : i <= j
      sub == InsertRec(q, kids[ci], target - before[ci], piece)
      grown == SubSeq(kids, 1, ci - 1)
               \o (IF sub.right = None THEN <<sub.node>> ELSE <<sub.node, sub.right>>)
               \o SubSeq(kids, ci + 1, Len(kids))
  IN  IF node.height = 0 THEN InsertInLeaf(q, node.pieces, target, piece)
      ELSE InternalFrom(grown, node.height) @@ [q |-> sub.q]

(* The inserted bytes go to the end of the add buffer, one piece names them. *)
SpliceInsert(q, p, chars) ==
  LET bytes == BytesOf(chars)
      grown == [q EXCEPT !.add = @ \o bytes]
      count == CountRange(bytes, FALSE)
      piece == [src |-> "add", start |-> Len(q.add), len |-> Len(bytes),
                chars |-> count.chars, lines |-> count.lines]
      r == InsertRec(grown, q.root, Clamp(p, 1, q.root.sum.chars + 1) - 1, piece)
  IN  [r.q EXCEPT !.root = IF r.right = None THEN r.node ELSE Inner(<<r.node, r.right>>)]

(* What is left of a piece when the characters [from, to) of it go, cut at   *)
(* the seeks s and e.                                                        *)
Ends(p, from, to, s, e) ==
  LET left == [p EXCEPT !.len = s.bp, !.chars = from, !.lines = s.nl]
      right == [p EXCEPT !.start = @ + e.bp, !.len = @ - e.bp,
                         !.chars = @ - to, !.lines = @ - e.nl]
  IN  [pieces |-> (IF from > 0 THEN <<left>> ELSE <<>>) \o (IF to < p.chars THEN <<right>> ELSE <<>>),
       q |-> e.q]
CutFrom(p, from, to, s) == Ends(p, from, to, s, Scan(s.q, p, to))
CutPiece(q, p, from, to) == CutFrom(p, from, to, Scan(q, p, from))

(* A child that is left an empty leaf is dropped. *)
KeepsKid(node) == ~(node.height = 0 /\ node.pieces = <<>>)

RECURSIVE DeleteRec(_, _, _, _)
DeleteRec(q, node, lo, hi) ==
  LET overlaps(pos, n) == pos + n > lo /\ pos < hi
      cut(acc, p) ==
        LET c == CutPiece(acc.q, p, Greater(lo - acc.pos, 0), Lesser(hi, acc.pos + p.chars) - acc.pos)
        IN  IF overlaps(acc.pos, p.chars)
            THEN [pos |-> acc.pos + p.chars, q |-> c.q, out |-> acc.out \o c.pieces]
            ELSE [pos |-> acc.pos + p.chars, q |-> acc.q, out |-> Append(acc.out, p)]
      descend(acc, kid) ==
        LET n == kid.sum.chars
            c == DeleteRec(acc.q, kid, Greater(lo - acc.pos, 0), Lesser(hi, acc.pos + n) - acc.pos)
        IN  IF overlaps(acc.pos, n)
            THEN [pos |-> acc.pos + n, q |-> c.q,
                  out |-> IF KeepsKid(c.node) THEN Append(acc.out, c.node) ELSE acc.out]
            ELSE [pos |-> acc.pos + n, q |-> acc.q, out |-> Append(acc.out, kid)]
      start == [pos |-> 0, q |-> q, out |-> <<>>]
      leaves == Accumulate(cut, start, node.pieces)
      inner == Accumulate(descend, start, node.kids)
  IN  IF node.height = 0 THEN [node |-> Leaf(leaves.out), q |-> leaves.q]
      ELSE [node |-> IF inner.out = <<>> THEN EmptyNode ELSE Inner(inner.out), q |-> inner.q]

RECURSIVE CollapseRoot(_)
CollapseRoot(node) ==
  IF node.height > 0 /\ Len(node.kids) = 1 THEN CollapseRoot(node.kids[1]) ELSE node

(* Deletes the characters of [lo, hi), positions inside the text. *)
SpliceDelete(q, lo, hi) ==
  LET r == DeleteRec(q, q.root, lo - 1, hi - 1)
  IN  IF lo >= hi THEN q ELSE [r.q EXCEPT !.root = CollapseRoot(r.node)]
=============================================================================
