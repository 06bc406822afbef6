-------------------------------- MODULE Fill --------------------------------
(***************************************************************************)
(* Paragraph filling (src/src/fill.rs), as programs and commits ask for it *)
(* (src/src/builtins.rs, src/src/sequencer.rs).                            *)
(*                                                                         *)
(* A line is a sequence of words, each with the spaces before it; those of *)
(* the first are the indent.  Of a word matter its width, whether it ends  *)
(* a sentence, and what it makes of a line it begins: a list item, a quote *)
(* of one level, a fence, a trailer.                                       *)
(***************************************************************************)
EXTENDS Integers, Sequences, FiniteSets, SequencesExt

CONSTANTS
  Pages,      \* the pages before any fill: a kind and its lines
  Columns,    \* the fill columns a program sets
  Prefix      \* the fill-prefix of pages of the kind "prefixed"

VARIABLES
  kind,     \* how the page is filled: "message", "comments" or "prefixed"
  source,   \* its lines as they were written
  page      \* its lines
vars == <<kind, source, page>>

Word(mark, width, before) == [mark |-> mark, width |-> width, before |-> before]
IsBlank(line) == line = <<>>
Indent(line) == IF IsBlank(line) THEN 0 ELSE line[1].before
Begins(line, mark) == ~IsBlank(line) /\ line[1].mark = mark
WordWidths(words) == FoldLeft(LAMBDA n, word : n + word.before + word.width, 0, words)

(***************************************************************************)
(* What leads a line: marks and the spaces after them.                     *)
(***************************************************************************)
Lead(words, pad) == [words |-> words, pad |-> pad]
Spaces(n) == Lead(<<>>, n)
Frame(first, rest) == [first |-> first, rest |-> rest]
Uniform(lead) == Frame(lead, lead)

Then(lead, inner) ==
  IF inner.words = <<>> THEN Lead(lead.words, lead.pad + inner.pad)
  ELSE Lead(lead.words \o [inner.words EXCEPT ![1].before = @ + lead.pad], inner.pad)
LeadWidth(lead) == WordWidths(lead.words) + lead.pad

(* The frame inside another, for a block that begins the n-th output line.   *)
PrefixAt(frame, n) == IF n = 1 THEN frame.first ELSE frame.rest
Under(frame, outer, n) ==
  Frame(Then(PrefixAt(outer, n), frame.first), Then(outer.rest, frame.rest))

(* A line without the lead; one that does not carry it stays as it is. *)
Strip(lead, line) ==
  LET n == Len(lead.words)
      after == SubSeq(line, n + 1, Len(line))
  IN  IF ~IsPrefix(lead.words, line) THEN line
      ELSE IF after = <<>> THEN <<>>
      ELSE [after EXCEPT ![1].before = IF @ > lead.pad THEN @ - lead.pad ELSE 0]

(***************************************************************************)
(* Blocks.                                                                 *)
(***************************************************************************)
Alone(line) == Len(line) = 1
Spaced(line) == Alone(line) \/ line[2].before > 0

IsRule(line) == Begins(line, "rule") /\ Alone(line)
IsHeading(line) == Begins(line, "heading") /\ Spaced(line)
IsListItem(line) == Begins(line, "bullet") /\ Spaced(line)
StartsBlock(line) ==
  \/ Begins(line, "fence") \/ Begins(line, "table") \/ Begins(line, "quote")
  \/ IsHeading(line) \/ IsRule(line) \/ IsListItem(line)

(* One line past those from i on that belong together. *)
RunEnd(body, i, belongs) ==
  Min({j \in i..(Len(body) + 1) : j = Len(body) + 1 \/ ~belongs[j]})
RunWhile(body, i, belongs) == RunEnd(body, i + 1, belongs)

Block(kindOf, start, end, frame) ==
  [kind |-> kindOf, start |-> start, end |-> end, frame |-> frame]
NoFrame == Uniform(Spaces(0))

FenceEnd(body, i) ==
  LET closers == {j \in (i + 1)..Len(body) : Begins(body[j], "fence")}
  IN  IF closers = {} THEN Len(body) + 1 ELSE Min(closers) + 1

(* The hanging indent is as wide as the item's marker, and a space. *)
ItemFrame(line) ==
  LET pad == IF Alone(line) THEN 0 ELSE line[2].before
  IN  Frame(Lead(<<line[1]>>, pad),
            Spaces(line[1].before + line[1].width + (IF pad = 0 THEN 1 ELSE pad)))

ItemText(line) == ~IsBlank(line) /\ ~(StartsBlock(line) /\ Indent(line) < 4)

BlockAt(body, i) ==
  LET line == body[i]
  IN  CASE IsBlank(line) -> Block("blank", i, i + 1, NoFrame)
        [] Begins(line, "fence") -> Block("verbatim", i, FenceEnd(body, i), NoFrame)
        [] IsHeading(line) \/ IsRule(line) -> Block("verbatim", i, i + 1, NoFrame)
        [] Begins(line, "table") ->
             Block("verbatim", i, RunWhile(body, i, [j \in DOMAIN body |-> Begins(body[j], "table")]), NoFrame)
        [] Indent(line) >= 4 ->
             Block("verbatim", i, RunWhile(body, i, [j \in DOMAIN body |-> Indent(body[j]) >= 4]), NoFrame)
        [] Begins(line, "quote") ->
             Block("quote", i,
                   RunWhile(body, i, [j \in DOMAIN body |-> Begins(body[j], "quote") /\ Indent(body[j]) < 4]),
                   Uniform(Lead(<<line[1]>>, 1)))
        [] IsListItem(line) ->
             Block("item", i, RunWhile(body, i, [j \in DOMAIN body |-> ItemText(body[j])]), ItemFrame(line))
        [] OTHER ->
             Block("prose", i,
                   RunWhile(body, i, [j \in DOMAIN body |-> ~IsBlank(body[j]) /\ ~StartsBlock(body[j])]),
                   Uniform(Spaces(Indent(line))))

RECURSIVE BlocksFrom(_, _), BlocksAfter(_, _)
BlocksAfter(body, b) == <<b>> \o BlocksFrom(body, b.end)
BlocksFrom(body, i) == IF i > Len(body) THEN <<>> ELSE BlocksAfter(body, BlockAt(body, i))
SplitBlocks(body) == BlocksFrom(body, 1)

(***************************************************************************)
(* Filling.                                                                *)
(***************************************************************************)
(* The spaces wanted after a word: two where the source set a sentence's end *)
(* off by as many, or by a line break.                                       *)
GapAfter(line, k) ==
  IF line[k].mark = "end" /\ (k = Len(line) \/ line[k + 1].before >= 2) THEN 2 ELSE 1

(* The words in lines of at most column, the first behind frame.first.  One  *)
(* too wide stands alone.                                                    *)
FillParagraph(words, frame, column) ==
  FoldLeft(LAMBDA acc, w :
             IF acc.gap > 0 /\ LeadWidth(acc.line) + w.width > column
             THEN [out |-> Append(acc.out, acc.line.words), gap |-> w.gap,
                   line |-> Lead(Then(frame.rest, Lead(<<Word(w.mark, w.width, 0)>>, 0)).words, w.gap)]
             ELSE [acc EXCEPT !.line = Lead(Then(@, Lead(<<Word(w.mark, w.width, 0)>>, 0)).words, w.gap),
                              !.gap = w.gap],
           [out |-> <<>>, line |-> frame.first, gap |-> 0], words)
FilledLines(acc) == Append(acc.out, acc.line.words)

BreaksHard(line) == ~IsBlank(line) /\ Last(line).mark = "break"
Words(line) ==
  [k \in DOMAIN line |-> [mark |-> line[k].mark, width |-> line[k].width, gap |-> GapAfter(line, k)]]
Segment(lines) == FlattenSeq([k \in DOMAIN lines |-> Words(lines[k])])

(* The text of a block's lines in segments, cut after each hard break, which *)
(* stays where it is at the end of the last line.                            *)
FilledSegment(lines, frame, column) ==
  LET hard == BreaksHard(Last(lines))
      text == IF hard THEN [lines EXCEPT ![Len(lines)] = Front(@)] ELSE lines
      filled == FilledLines(FillParagraph(Segment(text), frame, column))
  IN  IF hard THEN [filled EXCEPT ![Len(filled)] = Append(@, Last(Last(lines)))] ELSE filled

RECURSIVE FillSegments(_, _, _)
FillSegments(lines, frame, column) ==
  LET cut == Min({k \in DOMAIN lines : BreaksHard(lines[k])} \cup {Len(lines)})
  IN  IF lines = <<>> THEN <<>>
      ELSE FilledSegment(SubSeq(lines, 1, cut), frame, column)
           \o FillSegments(SubSeq(lines, cut + 1, Len(lines)), Uniform(frame.rest), column)

(* A bare marker keeps its own line. *)
FillBlock(text, frame, column) ==
  IF text[1] = <<>>
  THEN <<frame.first.words>> \o FillSegments(Tail(text), Uniform(frame.rest), column)
  ELSE FillSegments(text, frame, column)

TextOf(lines, b) ==
  IF b.kind = "item" THEN <<Tail(lines[1])>> \o Tail(lines) ELSE lines

Unquoted(line) == Strip(Lead(<<line[1]>>, 1), line)

(* The block line t is in, or the first one after it that is not blank; 0    *)
(* where nothing is to fill there.                                           *)
Target(blocks, t) ==
  LET at == {k \in DOMAIN blocks : blocks[k].end > t /\ blocks[k].kind # "blank"}
  IN  IF at = {} THEN 0 ELSE IF blocks[Min(at)].kind = "verbatim" THEN 0 ELSE Min(at)

(* The line inside a quote that stands for t: its first, when t is above it. *)
InnerLine(b, t) == IF t = 0 THEN 0 ELSE IF t < b.start THEN 1 ELSE t - b.start + 1

RECURSIVE Fillable(_, _)
Fillable(body, t) ==
  LET blocks == SplitBlocks(body)
      b == blocks[Target(blocks, t)]
  IN  /\ Target(blocks, t) # 0
      /\ b.kind = "quote" =>
           Fillable([j \in 1..(b.end - b.start) |-> Unquoted(body[b.start + j - 1])], InnerLine(b, t))

(* The lines of a body behind its frame; with t # 0 only the block at line t *)
(* is filled.                                                                *)
RECURSIVE FillBody(_, _, _, _, _)
FilledBlock(out, b, raw, lines, frame, own, t, column) ==
  CASE b.kind = "verbatim" -> raw
    [] b.kind = "blank" -> <<PrefixAt(frame, Len(out) + 1).words>>
    [] b.kind = "quote" ->
         FillBody(raw, [j \in DOMAIN lines |-> Unquoted(lines[j])], own, InnerLine(b, t), column)
    [] OTHER -> FillBlock(TextOf(lines, b), own, column)
FillBlocks(raw, body, frame, t, column, blocks, target) ==
  FoldLeft(LAMBDA out, k :
             LET b == blocks[k]
                 kept == SubSeq(raw, b.start, b.end - 1)
             IN  out \o (IF target \notin {0, k} THEN kept
                         ELSE FilledBlock(out, b, kept, SubSeq(body, b.start, b.end - 1), frame,
                                          Under(b.frame, frame, Len(out) + 1), t, column)),
           <<>>, [k \in DOMAIN blocks |-> k])
FillBody(raw, body, frame, t, column) ==
  FillBlocks(raw, body, frame, t, column, SplitBlocks(body),
             IF t = 0 THEN 0 ELSE Target(SplitBlocks(body), t))

Stripped(lines, frame) == [k \in DOMAIN lines |-> Strip(PrefixAt(frame, k), lines[k])]
FillUnit(lines, frame, t, column) == FillBody(lines, Stripped(lines, frame), frame, t, column)

(***************************************************************************)
(* Commit messages.                                                        *)
(***************************************************************************)
IsTrailer(line) == Indent(line) = 0 /\ (Begins(line, "key") \/ Begins(line, "dashed"))
IsCherryNote(line) == Indent(line) = 0 /\ Begins(line, "note")
IsTrailerExtra(line) == Indent(line) > 0 \/ IsCherryNote(line)
KeptAlone(line) == IsTrailer(line) /\ (Begins(line, "dashed") \/ Len(line) <= 2)

IsTrailerBlock(para, last) ==
  /\ \A k \in DOMAIN para : IsTrailer(para[k]) \/ IsTrailerExtra(para[k])
  /\ \E k \in DOMAIN para : IsTrailer(para[k]) \/ IsCherryNote(para[k])
  /\ last \/ Len(para) > 1 \/ IsCherryNote(para[1]) \/ KeptAlone(para[1])

(* Where the trailers under a paragraph's prose begin. *)
TailOf(para) ==
  LET prose == {k \in DOMAIN para : ~IsTrailer(para[k]) /\ ~IsTrailerExtra(para[k])}
      after == IF prose = {} THEN 1 ELSE Max(prose) + 1
  IN  Min({k \in after..Len(para) : IsTrailer(para[k]) \/ IsCherryNote(para[k])} \cup {Len(para) + 1})

ProseOf(para, tail, last) ==
  IF IsTrailerBlock(SubSeq(para, tail, Len(para)), last) THEN tail - 1 ELSE Len(para)

FilledRun(run, column) == IF run = <<>> THEN <<>> ELSE FillUnit(run, NoFrame, 0, column)
WithParagraph(acc, para, prose, column) ==
  IF prose = Len(para) THEN [acc EXCEPT !.run = @ \o para]
  ELSE [out |-> acc.out \o FilledRun(acc.run \o SubSeq(para, 1, prose), column)
                        \o SubSeq(para, prose + 1, Len(para)),
        run |-> <<>>]

MessageBody(body, column, blocks) ==
  LET para(b) == SubSeq(body, b.start, b.end - 1)
      last == Max({k \in DOMAIN blocks : blocks[k].kind # "blank"} \cup {0})
      acc == FoldLeft(LAMBDA a, k :
               IF blocks[k].kind \in {"prose", "item"}
               THEN WithParagraph(a, para(blocks[k]),
                                  ProseOf(para(blocks[k]), TailOf(para(blocks[k])), k = last), column)
               ELSE [a EXCEPT !.run = @ \o para(blocks[k])],
             [out |-> <<>>, run |-> <<>>], [k \in DOMAIN blocks |-> k])
  IN  acc.out \o FilledRun(acc.run, column)

(* The subject and the trailers stay, the rest is filled. *)
FillMessage(lines, column) ==
  LET texts == {k \in DOMAIN lines : ~IsBlank(lines[k])}
      blanks == {k \in DOMAIN lines : IsBlank(lines[k]) /\ \E j \in texts : j < k}
      subject == Min(blanks \cup {Len(lines) + 1})
      body == SubSeq(lines, subject, Len(lines))
  IN  IF texts = {} THEN lines
      ELSE SubSeq(lines, 1, subject - 1) \o MessageBody(body, column, SplitBlocks(body))

(***************************************************************************)
(* Programs.                                                               *)
(***************************************************************************)
(* The indent and marker the lines of a comment share; a space unless every  *)
(* line is bare.                                                             *)
DetectFrame(lines) ==
  LET texts == {lines[k] : k \in {j \in DOMAIN lines : ~IsBlank(lines[j])}}
      indent == Min({Indent(line) : line \in texts})
  IN  IF texts = {} \/ \E line \in texts : ~Begins(line, "marker") THEN NoFrame
      ELSE Uniform(Lead(<<[(CHOOSE line \in texts : TRUE)[1] EXCEPT !.before = indent]>>,
                        IF \A line \in texts : Alone(line) THEN 0 ELSE 1))

(* The lines a fill-prefix paragraph may hold. *)
Carries(line) ==
  /\ IsPrefix(Prefix.words, line) /\ Len(line) > Len(Prefix.words)
  /\ line[Len(Prefix.words) + 1].before >= Prefix.pad

Unit(start, end, frame) == [start |-> start, end |-> end, frame |-> frame]
PrefixedRuns(lines) ==
  {u \in [start : DOMAIN lines, end : DOMAIN lines, frame : {Uniform(Prefix)}] :
     /\ u.start <= u.end /\ \A k \in u.start..u.end : Carries(lines[k])
     /\ u.start = 1 \/ ~Carries(lines[u.start - 1])
     /\ u.end = Len(lines) \/ ~Carries(lines[u.end + 1])}

(* The units of a page: the comment it is, the runs with the prefix. *)
UnitsOf(how, lines) ==
  IF how = "comments" THEN {Unit(1, Len(lines), DetectFrame(lines))} ELSE PrefixedRuns(lines)

SplicedUnit(lines, u, new) ==
  SubSeq(lines, 1, u.start - 1) \o new \o SubSeq(lines, u.end + 1, Len(lines))

(* Mutant: the units are filled from the first down, by the spans they had.  *)
FillUnitsTopDown(lines, units, column) ==
  FoldLeft(LAMBDA acc, u : SplicedUnit(acc, u, FillUnit(SubSeq(acc, u.start, u.end), u.frame, 0, column)),
           lines, SetToSortSeq(units, LAMBDA x, y : x.start < y.start))

(* Bottom-up, so the units still to fill keep their places. *)
FillUnits(lines, units, column) ==
  FoldLeft(LAMBDA acc, u : SplicedUnit(acc, u, FillUnit(SubSeq(acc, u.start, u.end), u.frame, 0, column)),
           lines, SetToSortSeq(units, LAMBDA x, y : x.start > y.start))

Filled(how, lines, column) ==
  IF how = "message" THEN FillMessage(lines, column)
  ELSE FillUnits(lines, UnitsOf(how, lines), column)

Init ==
  \E p \in Pages : kind = p.kind /\ source = p.lines /\ page = p.lines

(* A commit or reword with a fill column. *)
FillCommitMessage ==
  /\ kind = "message"
  /\ \E c \in Columns : page' = FillMessage(page, c)
  /\ UNCHANGED <<kind, source>>

FillRegion ==
  /\ kind # "message"
  /\ \E c \in Columns, a, b \in DOMAIN page :
       /\ a <= b
       /\ page' = FillUnits(page, {u \in UnitsOf(kind, page) : u.start <= b /\ u.end >= a}, c)
  /\ UNCHANGED <<kind, source>>

FillParagraphAt ==
  /\ kind # "message"
  /\ \E c \in Columns, u \in UnitsOf(kind, page) : \E t \in u.start..u.end :
       LET lines == SubSeq(page, u.start, u.end)
       IN  /\ Fillable(Stripped(lines, u.frame), t - u.start + 1)
           /\ page' = SplicedUnit(page, u, FillUnit(lines, u.frame, t - u.start + 1, c))
  /\ UNCHANGED <<kind, source>>

Next == FillCommitMessage \/ FillRegion \/ FillParagraphAt
Spec == Init /\ [][Next]_vars

(* What is written on a page, however it is laid out. *)
Repeated == {"quote", "marker"}
Wording(lines) ==
  SelectSeq(FlattenSeq([k \in DOMAIN lines |->
              [j \in DOMAIN lines[k] |-> [mark |-> lines[k][j].mark, width |-> lines[k][j].width]]]),
            LAMBDA w : w.mark \notin Repeated)

(* Nothing in a line too wide could have gone to the next: it is one word    *)
(* behind marks, or kept as the source has it.                               *)
Marks == Repeated \cup {"bullet", "key", "dashed"}
Fits(line, column) ==
  \/ WordWidths(line) <= column
  \/ \E k \in DOMAIN source : source[k] = line
  \/ Len(SelectSeq(line, LAMBDA w : w.mark \notin Marks)) = 1

(***************************************************************************)
(* A fill forgets the layout it found: however often, at whatever columns, *)
(* paragraph by paragraph or all at once, a page was filled before, it is  *)
(* filled to what its source would be, an already-filled one to itself; no *)
(* line is wider than it has to be; and the words and marks of the page    *)
(* are all there, in order.                                                *)
(***************************************************************************)
FillsForgetLayout ==
  /\ \A c \in Columns :
       LET filled == Filled(kind, source, c)
       IN  /\ Filled(kind, page, c) = filled /\ Filled(kind, filled, c) = filled
           /\ \A k \in DOMAIN filled : Fits(filled[k], c)
  /\ Wording(page) = Wording(source)
=============================================================================
