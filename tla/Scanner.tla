------------------------------- MODULE Scanner -------------------------------
(***************************************************************************)
(* The sexp scanner (src/src/sexp.rs) and the motions, kills and selectors *)
(* of things over it (src/src/builtins.rs, src/src/motion.rs), on a buffer *)
(* of a program text.                                                      *)
(*                                                                         *)
(* A scan forward reads tokens from where it starts.  A scan backward      *)
(* lexes the accessible region from its start, since only that tells a     *)
(* quote that opens from one that closes, and keeps the tokens for the     *)
(* later hops of the same command.                                         *)
(***************************************************************************)
EXTENDS Integers, Sequences, FiniteSets, SequencesExt

CONSTANTS
  Files,      \* the files: a language and a sequence of characters
  Spots,      \* the positions restrictions begin and end at
  Counts,     \* the counts motions are given, negative ones for backward
  MaxKills    \* bounds the kills of a program

VARIABLES
  lang,     \* the language of the file
  text,     \* its characters
  view,     \* the restriction: the characters lo..hi-1 are accessible
  cursor,   \* point
  kills     \* the kill ring
vars == <<lang, text, view, cursor, kills>>

(***************************************************************************)
(* The syntax of a language.                                               *)
(***************************************************************************)
Letters == {"a", "b"}
Space == {" ", "\n"}
Openers == {"(", "[", "{"}
Closers == {")", "]", "}"}
CloserOf(open) == CASE open = "(" -> ")" [] open = "[" -> "]" [] open = "{" -> "}"
IsWordChar == Letters
IsSymbolChar == Letters \cup {"_"} \cup (IF lang = "elisp" THEN {"-"} ELSE {})

SexpRule ==
  CASE lang = "go" ->
         [quotes |-> {"dquote", "backquote"}, raw |-> {"backquote"}, triple |-> FALSE, prefixes |-> {},
          line |-> {<<"/", "/">>}, block |-> {[open |-> <<"/", "*">>, close |-> <<"*", "/">>]}]
    [] lang = "python" ->
         [quotes |-> {"dquote", "quote"}, raw |-> {}, triple |-> TRUE, prefixes |-> {},
          line |-> {<<"#">>}, block |-> {}]
    [] lang = "elisp" ->
         [quotes |-> {"dquote"}, raw |-> {}, triple |-> FALSE, prefixes |-> {"quote", "backquote", ",", "@", "#"},
          line |-> {<<";">>}, block |-> {}]

(***************************************************************************)
(* Walks over one kind of character.                                       *)
(***************************************************************************)
PointMin == view.lo
PointMax == view.hi
SkipForward(p, bound, chars) == Min({k \in p..bound : k = bound \/ text[k] \notin chars})
SkipBackward(p, bound, chars) == Max({k \in bound..p : k = bound \/ text[k - 1] \notin chars})
SkipForwardTo(p, bound, chars) == Min({k \in p..bound : k = bound \/ text[k] \in chars})
SkipBackwardTo(p, bound, chars) == Max({k \in bound..p : k = bound \/ text[k - 1] \in chars})

(***************************************************************************)
(* Tokens.  A scan that meets its bound answers "end", one that meets it   *)
(* inside a string or a block comment "failed".                            *)
(***************************************************************************)
Token(kind, start, end, char) == [kind |-> kind, start |-> start, end |-> end, char |-> char]
Failed(at) == Token("failed", at, at, "")
Nothing == Token("end", 0, 0, "")
Stops == {"end", "failed"}
Found(t) == t.kind \notin Stops

StartsWith(p, s, bound) == p + Len(s) <= bound /\ SubSeq(text, p, p + Len(s) - 1) = s
(* Mutant: the character after a backslash is escaped, whatever escapes the  *)
(* backslash.                                                                *)
EscapedByOne(k, body) == k > body /\ text[k - 1] = "backslash"

Escaped(k, body) == (k - SkipBackward(k, body, {"backslash"})) % 2 = 1

EndAfter(kind, p, closes, width) ==
  IF closes = {} THEN Failed(p) ELSE Token(kind, p, Min(closes) + width, "")

BlockComment(p, b, bound) ==
  EndAfter("comment", p, {k \in (p + Len(b.open))..bound : StartsWith(k, b.close, bound)},
           Len(b.close))

StringClosed(p, quote, raw, bound) ==
  EndAfter("string", p,
           {k \in (p + Len(quote))..bound :
              StartsWith(k, quote, bound) /\ (raw \/ ~Escaped(k, p + Len(quote)))},
           Len(quote))

StringToken(p, q, bound) ==
  StringClosed(p, IF SexpRule.triple /\ StartsWith(p, <<q, q, q>>, bound)
                  THEN <<q, q, q>> ELSE <<q>>, q \in SexpRule.raw, bound)

TokenAtChar(p, c, bound) ==
  CASE c \in Openers -> Token("open", p, p + 1, c)
    [] c \in Closers -> Token("close", p, p + 1, c)
    [] c \in SexpRule.quotes -> StringToken(p, c, bound)
    [] c \in IsSymbolChar -> Token("symbol", p, SkipForward(p, bound, IsSymbolChar), "")
    [] OTHER -> Token("punct", p, p + 1, c)

TokenFrom(p, bound) ==
  IF p >= bound THEN Token("end", p, p, "")
  ELSE IF \E o \in SexpRule.line : StartsWith(p, o, bound)
  THEN Token("comment", p, SkipForwardTo(p, bound, {"\n"}), "")
  ELSE IF \E b \in SexpRule.block : StartsWith(p, b.open, bound)
  THEN BlockComment(p, CHOOSE b \in SexpRule.block : StartsWith(p, b.open, bound), bound)
  ELSE TokenAtChar(p, text[p], bound)

RawToken(from, bound) == TokenFrom(SkipForward(from, bound, Space), bound)

(* The tokens of from..bound-1 in order, and what stopped them. *)
RECURSIVE RawTokens(_, _), RawTokensAfter(_, _)
RawTokensAfter(t, bound) == IF Found(t) THEN <<t>> \o RawTokens(t.end, bound) ELSE <<t>>
RawTokens(from, bound) == RawTokensAfter(RawToken(from, bound), bound)
Tokens(from, bound) == SelectSeq(RawTokens(from, bound), LAMBDA t : t.kind # "comment")

(***************************************************************************)
(* Forward.                                                                *)
(***************************************************************************)
IsPrefixChar(t) == t.kind = "punct" /\ t.char \in SexpRule.prefixes

(* The group that began at start, after its opener; stack holds the closers  *)
(* it waits for.                                                             *)
RECURSIVE GroupFrom(_, _, _, _)
GroupFrom(ts, k, start, stack) ==
  LET t == ts[k]
  IN  CASE t.kind = "end" -> Failed(start)
        [] t.kind = "failed" -> t
        [] t.kind = "open" -> GroupFrom(ts, k + 1, start, Append(stack, CloserOf(t.char)))
        [] t.kind = "close" ->
             IF Last(stack) # t.char THEN Failed(t.start)
             ELSE IF Len(stack) = 1 THEN Token("group", start, t.end, "")
             ELSE GroupFrom(ts, k + 1, start, Front(stack))
        [] OTHER -> GroupFrom(ts, k + 1, start, stack)

(* The sexp whose first token that is no prefix is ts[k]. *)
SexpOf(ts, k) ==
  LET t == ts[k]
      start == ts[1].start
  IN  CASE t.kind = "end" -> IF k = 1 THEN t ELSE Token("punct", start, ts[k - 1].end, "")
        [] t.kind = "failed" -> t
        [] t.kind = "open" -> GroupFrom(ts, k + 1, start, <<CloserOf(t.char)>>)
        [] t.kind = "close" -> Failed(t.start)
        [] OTHER -> Token(t.kind, start, t.end, "")

SexpIn(ts) == SexpOf(ts, Min({k \in DOMAIN ts : ~IsPrefixChar(ts[k])}))
SexpForward(from, bound) == SexpIn(Tokens(from, bound))

FirstOf(ts, kinds) == Min({k \in DOMAIN ts : ts[k].kind \in kinds \cup Stops})

ListOf(ts, k) ==
  CASE ts[k].kind = "open" -> GroupFrom(ts, k + 1, ts[k].start, <<CloserOf(ts[k].char)>>)
    [] ts[k].kind = "close" -> Failed(ts[k].start)
    [] OTHER -> ts[k]
ListIn(ts, kinds) == ListOf(ts, FirstOf(ts, kinds))
ListForward(from, bound, crossClosers) ==
  ListIn(Tokens(from, bound), IF crossClosers THEN {"open"} ELSE {"open", "close"})

(* Past the closer of the group around from; groups on the way are skipped.  *)
RECURSIVE UpForward(_, _), UpAfter(_, _, _)
UpAfter(ts, k, bound) ==
  CASE ts[k].kind = "open" ->
         LET g == ListOf(ts, k) IN IF Found(g) THEN UpForward(g.end, bound) ELSE g
    [] OTHER -> ts[k]
UpForward(from, bound) ==
  UpAfter(Tokens(from, bound), FirstOf(Tokens(from, bound), {"open", "close"}), bound)

DownOf(t) == IF t.kind = "close" THEN Failed(t.start) ELSE t
DownForward(from, bound) ==
  DownOf(Tokens(from, bound)[FirstOf(Tokens(from, bound), {"open", "close"})])

(***************************************************************************)
(* Backward.                                                               *)
(***************************************************************************)
(* The tokens of bound..upto-1, comments included.  What upto cuts is read   *)
(* again to its end; a symbol or line comment stays cut.                     *)
LexUpto(upto, bound) ==
  LET ts == RawTokens(bound, IF upto > PointMax THEN PointMax ELSE upto)
      last == ts[Len(ts)]
  IN  IF last.kind = "end" THEN Front(ts)
      ELSE Front(ts) \o <<RawToken(last.start, PointMax)>>

Unreadable(all) == all # <<>> /\ Last(all).kind = "failed"
Before(all, from) == SelectSeq(all, LAMBDA t : t.end <= from)
CutBy(all, from) == {t \in ToSet(all) : t.start < from /\ t.end > from}

(* Openers less closers among the tokens from k on. *)
Balance(ts, k) ==
  Cardinality({j \in k..Len(ts) : ts[j].kind = "open"})
  - Cardinality({j \in k..Len(ts) : ts[j].kind = "close"})

GroupBack(ts, close) ==
  LET opens == {k \in 1..close : Balance(SubSeq(ts, 1, close), k) = 0}
      open == ts[Max(opens)]
  IN  IF opens = {} \/ CloserOf(open.char) # ts[close].char THEN Failed(ts[close].start)
      ELSE Token("group", open.start, ts[close].end, "")

WithPrefixes(before, sexp) ==
  LET prefixes == {t.start : t \in {u \in ToSet(before) : IsPrefixChar(u)}}
  IN  [sexp EXCEPT !.start = Min({k \in 1..@ : k..(@ - 1) \subseteq prefixes})]

SexpEndingAt(before, k) ==
  CASE before[k].kind = "close" ->
         LET g == GroupBack(before, k) IN IF Found(g) THEN WithPrefixes(before, g) ELSE g
    [] before[k].kind = "open" -> Failed(before[k].start)
    [] OTHER -> WithPrefixes(before, [before[k] EXCEPT !.char = ""])

SexpBefore(before) ==
  LET code == {k \in DOMAIN before : before[k].kind # "comment"}
  IN  IF code = {} THEN Nothing ELSE SexpEndingAt(before, Max(code))

SexpBackward(all, from) ==
  IF Unreadable(all) THEN Last(all)
  ELSE IF \E t \in CutBy(all, from) : t.kind \in {"string", "symbol"}
  THEN LET t == CHOOSE t \in CutBy(all, from) : TRUE
       IN  WithPrefixes(Before(all, from), IF t.kind = "symbol" THEN [t EXCEPT !.end = from] ELSE t)
  ELSE SexpBefore(Before(all, from))

ListBefore(before) ==
  LET brackets == {k \in DOMAIN before : before[k].kind \in {"open", "close"}}
      last == Max(brackets)
  IN  IF brackets = {} THEN Nothing
      ELSE IF before[last].kind = "close" THEN GroupBack(before, last)
      ELSE Failed(before[last].start)
ListBackward(all, from) == IF Unreadable(all) THEN Last(all) ELSE ListBefore(Before(all, from))

OpenBefore(before) ==
  LET opens == {k \in DOMAIN before : Balance(before, k) = 1}
  IN  IF opens = {} THEN Nothing ELSE before[Max(opens)]
UpBackward(all, from) == IF Unreadable(all) THEN Last(all) ELSE OpenBefore(Before(all, from))

(***************************************************************************)
(* Commands: hops from point, n times.  The first backward hop's tokens    *)
(* serve the later ones.                                                   *)
(***************************************************************************)
Step(unit, n, p, all) ==
  CASE unit = "sexp" -> IF n > 0 THEN SexpForward(p, PointMax) ELSE SexpBackward(all, p)
    [] unit = "list" -> IF n > 0 THEN ListForward(p, PointMax, FALSE) ELSE ListBackward(all, p)
    [] unit = "up" -> IF n > 0 THEN UpForward(p, PointMax) ELSE UpBackward(all, p)
    [] unit = "down" -> DownForward(p, PointMax)

(* Where n hops land; 0 when the command is refused. *)
RECURSIVE HopN(_, _, _, _), HopOn(_, _, _, _)
HopOn(unit, n, t, all) ==
  CASE t.kind = "failed" -> 0
    [] t.kind = "end" -> IF unit \in {"up", "down"} THEN 0
                         ELSE IF n > 0 THEN PointMax ELSE PointMin
    [] OTHER -> IF n > 0 THEN HopN(unit, n - 1, t.end, all) ELSE HopN(unit, n + 1, t.start, all)
HopN(unit, n, p, all) ==
  IF n = 0 THEN p ELSE HopOn(unit, n, Step(unit, n, p, all), all)

Hop(unit, n, p) ==
  IF unit = "down" /\ n < 0 THEN 0 ELSE HopN(unit, n, p, LexUpto(p, PointMin))

UnitForward(p, chars) == SkipForward(SkipForwardTo(p, PointMax, chars), PointMax, chars)
UnitBackward(p, chars) == SkipBackward(SkipBackwardTo(p, PointMin, chars), PointMin, chars)

Bol(p, min) == SkipBackwardTo(p, min, {"\n"})
Eol(p) == SkipForwardTo(p, PointMax, {"\n"})
BlankLine(line, bound) ==
  LET p == SkipForward(line, bound, {" "}) IN p >= bound \/ text[p] = "\n"
LineStarts(bound) == {p \in PointMin..bound : p = PointMin \/ text[p - 1] = "\n"}

(* To the first blank line after a line that is none. *)
ParagraphForward(from) ==
  LET lines == {p \in LineStarts(PointMax - 1) : p >= Bol(from, PointMin)}
      full == {p \in lines : ~BlankLine(p, PointMax)}
  IN  Min({PointMax} \cup {p \in lines : BlankLine(p, PointMax) /\ \E f \in full : f < p})

(* To the last blank line before a line that is none. *)
ParagraphBackward(from) ==
  LET lines == {p \in LineStarts(PointMax) : p <= Bol(from, PointMin)}
      full == {p \in lines : ~BlankLine(p, PointMax)}
  IN  Max({PointMin} \cup {p \in lines : BlankLine(p, PointMax) /\ \E f \in full : f > p})

UnitHop(unit, n, p) ==
  CASE unit = "word" -> IF n > 0 THEN UnitForward(p, IsWordChar) ELSE UnitBackward(p, IsWordChar)
    [] unit = "symbol" -> IF n > 0 THEN UnitForward(p, IsSymbolChar) ELSE UnitBackward(p, IsSymbolChar)
    [] unit = "paragraph" -> IF n > 0 THEN ParagraphForward(p) ELSE ParagraphBackward(p)
RECURSIVE MoveUnits(_, _, _)
MoveUnits(unit, n, p) ==
  IF n = 0 THEN p ELSE MoveUnits(unit, IF n > 0 THEN n - 1 ELSE n + 1, UnitHop(unit, n, p))

(***************************************************************************)
(* Things.                                                                 *)
(***************************************************************************)
Span(start, end) == IF start < end THEN Token("thing", start, end, "") ELSE Nothing
SpanOf(t) == IF Found(t) THEN Token("thing", t.start, t.end, "") ELSE t

(* Mutant: a symbol ends where the tokens that were lexed do. *)
TokenOverCut(all, probe) ==
  CASE Unreadable(all) -> Last(all)
    [] CutBy(all, probe + 1) # {} -> CHOOSE t \in CutBy(all, probe + 1) : TRUE
    [] all # <<>> /\ Last(all).end = probe + 1 -> Last(all)
    [] OTHER -> Nothing

TokenOver(all, probe) ==
  CASE Unreadable(all) -> Last(all)
    [] CutBy(all, probe + 1) # {} -> CHOOSE t \in CutBy(all, probe + 1) : TRUE
    [] all # <<>> /\ Last(all).end = probe + 1 ->
         IF Last(all).kind = "symbol"
         THEN [Last(all) EXCEPT !.end = SkipForward(@, PointMax, IsSymbolChar)]
         ELSE Last(all)
    [] OTHER -> Nothing

SexpOver(all, t) ==
  CASE t.kind = "comment" -> Nothing
    [] t.kind = "open" \/ IsPrefixChar(t) -> SexpForward(t.start, PointMax)
    [] t.kind = "close" -> GroupBack(Before(all, t.end), Len(Before(all, t.end)))
    [] OTHER -> t

IsGroup(t) ==
  Found(t) /\ text[Min({k \in t.start..PointMax : k = PointMax \/ text[k] \notin SexpRule.prefixes})]
                \in Openers

Around(open) == IF Found(open) THEN SexpForward(open.start, PointMax) ELSE open

ListOver(all, sexp, probe) ==
  IF sexp.kind = "failed" \/ IsGroup(sexp) THEN sexp ELSE Around(UpBackward(all, probe))

RECURSIVE WidenBy(_, _, _)
WidenOnce(all, t, up) ==
  LET open == UpBackward(all, t.start)
  IN  IF open = Nothing THEN Failed(t.start) ELSE Around(open)
WidenBy(all, t, up) ==
  IF up = 0 \/ ~Found(t) THEN t ELSE WidenBy(all, WidenOnce(all, t, up), up - 1)

RunAt(p, chars) ==
  IF p = PointMax \/ text[p] \notin chars THEN Nothing
  ELSE Span(SkipBackward(p, PointMin, chars), SkipForward(p, PointMax, chars))

LineAt(p) == Span(Bol(p, PointMin), IF Eol(p) = PointMax THEN PointMax ELSE Eol(p) + 1)

ParagraphAt(pos) ==
  Span(ParagraphBackward(ParagraphForward(pos)), ParagraphForward(pos))

ThingOver(kind, all, pos, probe, up) ==
  CASE kind = "sexp" -> WidenBy(all, SexpOver(all, TokenOver(all, probe)), up)
    [] kind = "list" -> WidenBy(all, ListOver(all, SexpOver(all, TokenOver(all, probe)), probe), up)
    [] kind = "string" ->
         LET t == TokenOver(all, probe) IN IF t.kind \in {"string", "failed"} THEN t ELSE Nothing
    [] kind = "word" -> RunAt(probe, IsWordChar)
    [] kind = "symbol" -> RunAt(probe, IsSymbolChar)
    [] kind = "line" -> LineAt(probe)
    [] kind = "paragraph" -> ParagraphAt(pos)

(* The thing at pos; at the end of the region, the one before it. *)
BoundsOf(kind, pos, up) ==
  LET probe == IF pos = PointMax /\ pos > PointMin THEN pos - 1 ELSE pos
  IN  SpanOf(ThingOver(kind, LexUpto(probe + 1, PointMin), pos, probe, up))

(***************************************************************************)
(* Things after and before the line an edit names.                         *)
(***************************************************************************)
(* pos, or the end of the string or comment pos is inside. *)
OutOfStringOrComment(pos) ==
  LET all == LexUpto(pos + 1, PointMin)
      over == {t \in ToSet(all) : t.kind \in {"string", "comment"} /\ t.start < pos /\ t.end > pos}
  IN  IF Unreadable(all) \/ over = {} THEN pos
      ELSE LET whole == RawToken((CHOOSE t \in over : TRUE).start, PointMax)
           IN  IF Found(whole) THEN whole.end ELSE (CHOOSE t \in over : TRUE).end

NextSexp(ts) ==
  LET k == Min({j \in DOMAIN ts : ts[j].kind # "close"})
  IN  IF Found(ts[k]) THEN SexpForward(ts[k].start, PointMax) ELSE ts[k]

(* The last list that begins on the line; where none does, the next one.     *)
RECURSIVE LastOnLine(_, _, _)
LastOnLine(p, eol, best) ==
  LET t == ListForward(p, PointMax, TRUE)
  IN  CASE t.kind = "failed" -> t
        [] t.kind = "end" -> best
        [] t.start < eol -> LastOnLine(t.end, eol, t)
        [] OTHER -> IF Found(best) THEN best ELSE t

Widened(t, up) ==
  SpanOf(IF Found(t) THEN WidenBy(LexUpto(t.start, PointMin), t, up) ELSE t)

FirstRun(kind, start) == IF start < PointMax THEN BoundsOf(kind, start, 0) ELSE Nothing

StructureFrom(kind, pos) ==
  CASE kind = "sexp" -> NextSexp(Tokens(pos, PointMax))
    [] kind = "list" -> LastOnLine(pos, Eol(pos), Nothing)
    [] kind = "string" -> Tokens(pos, PointMax)[FirstOf(Tokens(pos, PointMax), {"string"})]

ThingAfter(kind, pos, up) ==
  Widened(CASE kind \in {"sexp", "list", "string"} -> StructureFrom(kind, OutOfStringOrComment(pos))
            [] kind = "word" -> FirstRun(kind, SkipForwardTo(pos, PointMax, IsWordChar))
            [] kind = "symbol" -> FirstRun(kind, SkipForwardTo(pos, PointMax, IsSymbolChar))
            [] kind \in {"line", "paragraph"} -> BoundsOf(kind, pos, 0), up)

Accepts(kind, t) == kind = "sexp" \/ (kind = "list" /\ t.kind = "group") \/ kind = t.kind

(* Over sexps and out of groups, until one is of the kind. *)
RECURSIVE BackTo(_, _, _)
BackTo(kind, all, p) ==
  LET t == SexpBackward(all, p)
  IN  IF Found(t) THEN IF Accepts(kind, t) THEN t ELSE BackTo(kind, all, t.start)
      ELSE IF t.kind = "failed" /\ t.start < p /\ text[t.start] \in Openers
      THEN BackTo(kind, all, t.start)
      ELSE t

LastRun(kind, end) == IF end > PointMin THEN BoundsOf(kind, end - 1, 0) ELSE Nothing

ThingBefore(kind, pos, up) ==
  Widened(CASE kind \in {"sexp", "list", "string"} -> BackTo(kind, LexUpto(pos, PointMin), pos)
            [] kind = "word" -> LastRun(kind, SkipBackwardTo(pos, PointMin, IsWordChar))
            [] kind = "symbol" -> LastRun(kind, SkipBackwardTo(pos, PointMin, IsSymbolChar))
            [] kind \in {"line", "paragraph"} -> LastRun(kind, pos), up)

(***************************************************************************)
(* The commands of a program.                                              *)
(***************************************************************************)
Init ==
  /\ \E f \in Files : lang = f.lang /\ text = f.text
  /\ view = [lo |-> 1, hi |-> Len(text) + 1]
  /\ cursor = 1
  /\ kills = <<>>

GoTo(p) == p # 0 /\ cursor' = p /\ UNCHANGED <<lang, text, view, kills>>

ForwardSexp == \E n \in Counts : GoTo(Hop("sexp", n, cursor))
ForwardList == \E n \in Counts : GoTo(Hop("list", n, cursor))
UpList == \E n \in Counts : GoTo(Hop("up", n, cursor))
DownList == \E n \in Counts : GoTo(Hop("down", n, cursor))
ForwardWord == \E n \in Counts : GoTo(MoveUnits("word", n, cursor))
ForwardSymbol == \E n \in Counts : GoTo(MoveUnits("symbol", n, cursor))
ForwardParagraph == \E n \in Counts : GoTo(MoveUnits("paragraph", n, cursor))

KillSpan(a, b) ==
  /\ Len(kills) < MaxKills
  /\ kills' = Append(kills, SubSeq(text, a, b - 1))
  /\ text' = SubSeq(text, 1, a - 1) \o SubSeq(text, b, Len(text))
  /\ view' = [view EXCEPT !.hi = @ - (b - a)]
  /\ cursor' = a
  /\ UNCHANGED lang

(* A command that is refused, or reaches nothing, kills nothing. *)
KillSexp ==
  \E n \in Counts :
    LET to == Hop("sexp", n, cursor)
    IN  to \notin {0, cursor} /\ KillSpan(IF to < cursor THEN to ELSE cursor,
                                         IF to < cursor THEN cursor ELSE to)

KillLine ==
  KillSpan(cursor, IF cursor = Eol(cursor) /\ cursor < PointMax THEN cursor + 1 ELSE Eol(cursor))

KillWholeLine ==
  KillSpan(Bol(cursor, PointMin), IF Eol(cursor) < PointMax THEN Eol(cursor) + 1 ELSE PointMax)

NarrowToRegion ==
  \E lo, hi \in Spots :
    /\ lo <= hi /\ hi <= Len(text) + 1
    /\ view' = [lo |-> lo, hi |-> hi]
    /\ cursor' = IF cursor < lo THEN lo ELSE IF cursor > hi THEN hi ELSE cursor
    /\ UNCHANGED <<lang, text, kills>>

Widen ==
  view' = [lo |-> 1, hi |-> Len(text) + 1] /\ UNCHANGED <<lang, text, cursor, kills>>

Next ==
  \/ ForwardSexp \/ ForwardList \/ UpList \/ DownList
  \/ ForwardWord \/ ForwardSymbol \/ ForwardParagraph
  \/ KillSexp \/ KillLine \/ KillWholeLine \/ NarrowToRegion \/ Widen

Spec == Init /\ [][Next]_vars

(***************************************************************************)
(* What a text says, read one character at a time: what each position is   *)
(* in, and how many groups it is in.                                       *)
(***************************************************************************)
Code == [in |-> "code", delim |-> <<>>, rest |-> 0]
Entering(in, delim, width) == [in |-> in, delim |-> delim, rest |-> width - 1]

(* rest counts the characters of a delimiter or an escape yet to come; a     *)
(* context without a delimiter ends with them.                               *)
ReadingOn(c, p) ==
  CASE c.rest > 0 -> IF c.rest = 1 /\ c.delim = <<>> THEN Code ELSE [c EXCEPT !.rest = @ - 1]
    [] c.in = "line" -> IF text[p] = "\n" THEN Code ELSE c
    [] c.in = "string" /\ text[p] = "backslash" /\ c.delim[1] \notin SexpRule.raw -> [c EXCEPT !.rest = 1]
    [] OTHER -> IF ~StartsWith(p, c.delim, PointMax) THEN c
                ELSE IF Len(c.delim) = 1 THEN Code
                ELSE [c EXCEPT !.delim = <<>>, !.rest = Len(c.delim) - 1]

Opening(p) ==
  LET lines == {o \in SexpRule.line : StartsWith(p, o, PointMax)}
      blocks == {b \in SexpRule.block : StartsWith(p, b.open, PointMax)}
      b == CHOOSE x \in blocks : TRUE
      q == text[p]
  IN  CASE lines # {} -> Entering("line", <<"\n">>, Len(CHOOSE o \in lines : TRUE))
        [] blocks # {} -> Entering("block", b.close, Len(b.open))
        [] q \in SexpRule.quotes ->
             IF SexpRule.triple /\ StartsWith(p, <<q, q, q>>, PointMax)
             THEN Entering("string", <<q, q, q>>, 3) ELSE Entering("string", <<q>>, 1)
        [] OTHER -> Code

Context ==
  FoldLeft(LAMBDA ctx, p : [ctx EXCEPT ![p + 1] = IF ctx[p] = Code THEN Opening(p)
                                                  ELSE ReadingOn(ctx[p], p)],
           [p \in PointMin..PointMax |-> Code],
           [k \in 1..(PointMax - PointMin) |-> PointMin + k - 1])

CharIn(ctx, p) == IF ctx[p] # Code THEN ctx[p].in ELSE ctx[p + 1].in
CodeChars(ctx) == {p \in PointMin..(PointMax - 1) : CharIn(ctx, p) = "code"}

Depth(code, p) ==
  Cardinality({q \in code : q < p /\ text[q] \in Openers})
  - Cardinality({q \in code : q < p /\ text[q] \in Closers})
Depths(code) == [p \in PointMin..PointMax |-> Depth(code, p)]

(* The sexps of the text, their prefixes left aside: the characters          *)
(* start..end-1.                                                             *)
Spans == {[start |-> s, end |-> e] : s, e \in PointMin..PointMax}
GroupsIn(code, d) ==
  {x \in [start : code, end : {p + 1 : p \in code}] :
     /\ x.start < x.end /\ text[x.start] \in Openers /\ d[x.end] = d[x.start]
     /\ text[x.end - 1] = CloserOf(text[x.start])
     /\ \A p \in (x.start + 1)..(x.end - 1) : d[p] > d[x.start]}
StringsIn(ctx) ==
  {x \in Spans : /\ x.start < x.end /\ CharIn(ctx, x.start) = "string"
                 /\ ctx[x.start] = Code /\ ctx[x.end] = Code
                 /\ \A p \in (x.start + 1)..(x.end - 1) : ctx[p] # Code}
RunsIn(code) ==
  {x \in Spans : x.start < x.end /\ \A p \in x.start..(x.end - 1) :
                   p \in code /\ text[p] \in IsSymbolChar}
PunctsIn(code) ==
  {[start |-> p, end |-> p + 1] :
     p \in {q \in code : text[q] \notin Openers \cup Closers \cup Space \cup IsSymbolChar}}

Paired(x, groups, code) ==
  \A p \in code : x.start <= p /\ p < x.end /\ text[p] \in Openers =>
    \E g \in groups : g.start = p /\ g.end <= x.end

PrefixChars(code) == {p \in code : text[p] \in SexpRule.prefixes}
BlankChars(ctx) ==
  {p \in PointMin..(PointMax - 1) : CharIn(ctx, p) \in {"line", "block"} \/ text[p] \in Space}

(* The sexps that begin at p, or after what may be skipped there, and those  *)
(* that end at p or before it.                                               *)
SexpsFrom(p, groups, strings, runs, puncts, prefixes, blanks, code) ==
  {x \in {g \in groups : Paired(g, groups, code)} \cup strings
        \cup {r \in runs : r.end = PointMax \/ text[r.end] \notin IsSymbolChar}
        \cup {c \in puncts : c.start \in prefixes => c.end..(PointMax - 1) \subseteq blanks} :
     p <= x.start /\ p..(x.start - 1) \subseteq prefixes \cup blanks}
SexpsTo(p, groups, strings, runs, puncts, blanks) ==
  {x \in groups \cup strings
        \cup {r \in runs : r.start = PointMin \/ text[r.start - 1] \notin IsSymbolChar} \cup puncts :
     x.end <= p /\ x.end..(p - 1) \subseteq blanks}
PrefixedStart(x, prefixes) ==
  Min({s \in PointMin..x.start : s..(x.start - 1) \subseteq prefixes})

ReadsAsWritten(p, from, to, prefixes, forward, back) ==
  /\ {x.end : x \in from} = IF Found(forward) THEN {forward.end} ELSE {}
  /\ {PrefixedStart(x, prefixes) : x \in to} = IF Found(back) THEN {back.start} ELSE {}

AllReadAsWritten(ctx, groups, strings, runs, puncts, prefixes, blanks, code) ==
  \A p \in {q \in PointMin..PointMax : ctx[q] = Code} :
    ReadsAsWritten(p, SexpsFrom(p, groups, strings, runs, puncts, prefixes, blanks, code),
                   SexpsTo(p, groups, strings, runs, puncts, blanks), prefixes,
                   SexpForward(p, PointMax), SexpBackward(LexUpto(p, PointMin), p))
ReadAsWrittenIn(ctx, code) ==
  AllReadAsWritten(ctx, GroupsIn(code, Depths(code)), StringsIn(ctx), RunsIn(code),
                   PunctsIn(code), PrefixChars(code), BlankChars(ctx), code)
ReadAsWritten(ctx) == ReadAsWrittenIn(ctx, CodeChars(ctx))

(***************************************************************************)
(* A motion from code lands behind, or before, exactly one sexp: whatever  *)
(* quotes, escapes, comments and prefixes are on the way, in whatever      *)
(* restriction, after whatever kills, and never outside the group it began *)
(* in.  Where there is no such sexp it finds none.  Both directions read   *)
(* the text alike although one lexes from point and the other from the     *)
(* start of the restriction.                                               *)
(***************************************************************************)
MotionsReachWholeSexps == ReadAsWritten(Context)

(* The positions inside a delimiter are left out: lexed up to there it is    *)
(* cut short, and reads as another token.                                    *)
Whole(ctx, p) == ctx[p].rest = 0 /\ ctx[p + 1].rest = 0
SameAllOver(kind, t, ctx) ==
  \A q \in t.start..(t.end - 1) : Whole(ctx, q) => BoundsOf(kind, q, 0) = t
AtomsAgree(ctx) ==
  \A kind \in {"string", "word", "symbol", "line"}, p \in PointMin..(PointMax - 1) :
    Whole(ctx, p) /\ Found(BoundsOf(kind, p, 0)) => SameAllOver(kind, BoundsOf(kind, p, 0), ctx)

AfterAgrees(kind, p, t) == Found(t) => t.start >= p /\ BoundsOf(kind, t.start, 0) = t
OnlyPrefixes(t) == \A p \in t.start..(t.end - 1) : text[p] \in SexpRule.prefixes
BeforeAgrees(kind, p, t) ==
  Found(t) => t.end <= p /\ (OnlyPrefixes(t) \/ BoundsOf(kind, t.start, 0) = t)
LinesAgree(ctx) ==
  \A p \in {q \in LineStarts(PointMax) : ctx[q] = Code} :
    /\ \A kind \in {"sexp", "list", "string", "word", "symbol"} : AfterAgrees(kind, p, ThingAfter(kind, p, 0))
    /\ \A kind \in {"sexp", "list", "word", "symbol", "line"} : BeforeAgrees(kind, p, ThingBefore(kind, p, 0))

Twice(unit, p) == IF Hop(unit, -1, p) = 0 THEN 0 ELSE Hop(unit, -1, Hop(unit, -1, p))
HopsCompose ==
  \A unit \in {"sexp", "list", "up"}, p \in PointMin..PointMax : Hop(unit, -2, p) = Twice(unit, p)

(***************************************************************************)
(* An edit names the same thing however it finds it: at any of its         *)
(* characters, though each lexes another stretch of the text; as the first *)
(* after a line or the last before it, which begin and end there or        *)
(* beyond; and two hops back in one command, which share the tokens of the *)
(* first, land where two commands do.                                      *)
(***************************************************************************)
SelectorsAgree == AtomsAgree(Context) /\ LinesAgree(Context) /\ HopsCompose
=============================================================================
