------------------------------ MODULE Patterns ------------------------------
(***************************************************************************)
(* Regular expressions are written the way Emacs does and run by the regex *)
(* crate (regex_dialect.rs): translate swaps what a backslash means before *)
(* a bracket, copies sets, and refuses what the crate cannot express;      *)
(* quote makes a pattern of a literal text.  Both dialects are read here   *)
(* into tokens, which must come out the same.                              *)
(*                                                                         *)
(* A star or a caret where Emacs takes it for itself is a token like any   *)
(* other, in both readings.  The back quote goes by its name.              *)
(***************************************************************************)
EXTENDS Integers, Sequences, SequencesExt

CONSTANTS
  Fragments,    \* what patterns are put together from
  MaxFragments  \* of how many

VARIABLES
  pattern,  \* the characters of a pattern
  parts     \* how many fragments made it

patternVars == <<pattern, parts>>

-----------------------------------------------------------------------------
Refused == <<"refused">>
Swapped == {"(", ")", "|", "{", "}"}
Unsupported == {"1", "=", "_", "s"}
Flags == {"i", "m", "s", "x"}
Meta == {".", "*", "+", "?", "[", "]", "^", "$", "\\"}

At(p, i, c) == i <= Len(p) /\ p[i] = c

(* inline_flag_token: where a token like (?i) that starts at i ends, or 0. *)
FlagEnd(p, i) ==
  LET j == IF At(p, i, "(") /\ At(p, i + 1, "?")
           THEN SelectInSubSeq(p, i + 2, Len(p), LAMBDA c : c \notin Flags) ELSE 0
  IN  IF j > i + 2 /\ p[j] = ")" THEN j ELSE 0

(* Where the named class that starts at i closes, or 0.                    *)
NamedEnd(p, i) ==
  IF ~(At(p, i, "[") /\ At(p, i + 1, ":")) THEN 0
  ELSE LET ends == {j \in i + 2..Len(p) : p[j] = "]" /\ p[j - 1] = ":" /\ j > i + 2}
       IN  IF ends = {} THEN 0 ELSE CHOOSE j \in ends : \A k \in ends : j <= k

(* Where the members of the set that starts at i begin, after its caret.   *)
MembersFrom(p, i) == IF At(p, i + 1, "^") THEN i + 2 ELSE i + 1

(* Mutant: a backslash in a set is copied as it is.                        *)
CopyClassVerbatim(p, i) ==
  LET ends == {j \in MembersFrom(p, i) + 1..Len(p) : p[j] = "]"} IN
  IF ends = {} THEN Refused
  ELSE LET j == CHOOSE j \in ends : \A k \in ends : j <= k
       IN  <<SubSeq(p, i, j), j + 1>>

(* copy_class: a set keeps its members; a backslash is one of them.        *)
CopyClass(p, i) ==
  LET from == MembersFrom(p, i)
      first == IF At(p, from, "]") THEN 1 ELSE 0
      copy[j \in from..Len(p) + 1] ==
        CASE j > Len(p) -> Refused
          [] j <= Len(p) /\ p[j] = "]" -> <<<<"]">>, j + 1>>
          [] OTHER ->
               LET named == At(p, j, "[") /\ At(p, j + 1, ":")
                   to == IF named THEN NamedEnd(p, j) ELSE j
                   piece == IF p[j] = "\\" THEN <<"\\", "\\">> ELSE SubSeq(p, j, to)
                   rest == copy[to + 1]
               IN  IF to = 0 THEN Refused
                   ELSE IF rest = Refused THEN Refused ELSE <<piece \o rest[1], rest[2]>>
      body == copy[from + first]
  IN  IF body = Refused THEN Refused
      ELSE <<SubSeq(p, i, from + first - 1) \o body[1], body[2]>>

(* One construct of translate: what it becomes, and where the next is.     *)
Construct(p, i) ==
  LET to(out, next) == <<out, next>> IN
  CASE p[i] = "\\" ->
         LET n == p[i + 1] IN
         IF i = Len(p) THEN Refused
         ELSE IF n \in Unsupported THEN Refused
         ELSE IF n \in Swapped THEN to(<<n>>, i + 2)
         ELSE IF n = "backquote" THEN to(<<"\\", "A">>, i + 2) ELSE to(<<"\\", n>>, i + 2)
    [] p[i] = "(" /\ FlagEnd(p, i) # 0 -> to(SubSeq(p, i, FlagEnd(p, i)), FlagEnd(p, i) + 1)
    [] p[i] \in Swapped /\ FlagEnd(p, i) = 0 -> to(<<"\\", p[i]>>, i + 1)
    [] p[i] = "[" -> CopyClass(p, i)
    [] OTHER -> to(<<p[i]>>, i + 1)

Translate(p) ==
  LET from[i \in 1..Len(p) + 1] ==
        IF i > Len(p) THEN <<>>
        ELSE LET c == Construct(p, i) IN
             IF c = Refused THEN Refused
             ELSE LET rest == from[c[2]] IN IF rest = Refused THEN Refused ELSE c[1] \o rest
  IN  from[1]

(* quote.                                                                  *)
Quote(s) == FlattenSeq([i \in 1..Len(s) |-> IF s[i] \in Meta THEN <<"\\", s[i]>> ELSE <<s[i]>>])

-----------------------------------------------------------------------------
(* Readings: each token is a kind and what it holds.                       *)
Token(kind, what) == <<kind, what>>
Literal(c) == Token("literal", {c})
Invalid == <<Token("invalid", {})>>

(* The members of a set between two places.                                *)
Members(p, i, j, escapes) ==
  LET from[k \in i..j + 1] ==
        IF k > j THEN {}
        ELSE IF NamedEnd(p, k) # 0 THEN {SubSeq(p, k, NamedEnd(p, k))} \cup from[NamedEnd(p, k) + 1]
        ELSE IF escapes /\ p[k] = "\\" THEN {<<p[k + 1]>>} \cup from[k + 2]
        ELSE {<<p[k]>>} \cup from[k + 1]
  IN  from[i]

(* Where the set that starts at i closes: the first bracket that is not    *)
(* its first member nor the end of a named class (nor, for the crate,      *)
(* escaped).                                                               *)
SetEnd(p, i, escapes) ==
  LET from == MembersFrom(p, i)
      close[j \in from..Len(p) + 2] ==
        IF j > Len(p) THEN 0
        ELSE IF NamedEnd(p, j) # 0 THEN close[NamedEnd(p, j) + 1]
        ELSE IF escapes /\ p[j] = "\\" THEN close[j + 2]
        ELSE IF p[j] = "]" /\ j > from THEN j ELSE close[j + 1]
  IN  close[from]
SetToken(p, i, escapes) ==
  Token(IF MembersFrom(p, i) = i + 1 THEN "set" ELSE "set of others",
        Members(p, MembersFrom(p, i), SetEnd(p, i, escapes) - 1, escapes))

(* What a backslash before c is in both: an assertion, a class, or a       *)
(* control character, as regex_dialect.rs:27 concedes.                     *)
Escape(c) == IF c \in Meta THEN Literal(c) ELSE Token("escape", {c})

(* Emacs: \( is an operator and ( is not.                                  *)
EmacsToken(p, i) ==
  LET tok(t, next) == <<t, next>> IN
  CASE p[i] = "\\" /\ i = Len(p) -> Invalid
    [] p[i] = "\\" /\ i < Len(p) ->
         LET n == p[i + 1] IN
         IF n = "(" /\ At(p, i + 2, "?")
         THEN IF At(p, i + 3, ":") THEN tok(Token("operator", {"(?:"}), i + 4) ELSE Invalid
         ELSE IF n \in Unsupported THEN tok(Token("unsupported", {n}), i + 2)
         ELSE IF n \in Swapped THEN tok(Token("operator", {n}), i + 2)
         ELSE IF n \in {"backquote", "A"} THEN tok(Token("start", {}), i + 2) ELSE tok(Escape(n), i + 2)
    [] p[i] = "(" /\ FlagEnd(p, i) # 0 -> tok(Token("flags", {SubSeq(p, i, FlagEnd(p, i))}), FlagEnd(p, i) + 1)
    [] p[i] = "[" -> IF SetEnd(p, i, FALSE) = 0 THEN Invalid
                     ELSE tok(SetToken(p, i, FALSE), SetEnd(p, i, FALSE) + 1)
    [] p[i] \in Meta \ {"[", "]", "\\"} -> tok(Token("operator", {p[i]}), i + 1)
    [] OTHER -> tok(Literal(p[i]), i + 1)

(* The regex crate: ( is an operator and \( is not.                        *)
CrateToken(p, i) ==
  LET tok(t, next) == <<t, next>> IN
  CASE p[i] = "\\" /\ i = Len(p) -> Invalid
    [] p[i] = "\\" /\ i < Len(p) ->
         LET n == p[i + 1] IN
         IF n \in Swapped THEN tok(Literal(n), i + 2)
         ELSE IF n = "A" THEN tok(Token("start", {}), i + 2) ELSE tok(Escape(n), i + 2)
    [] p[i] = "(" /\ FlagEnd(p, i) # 0 -> tok(Token("flags", {SubSeq(p, i, FlagEnd(p, i))}), FlagEnd(p, i) + 1)
    [] p[i] = "(" /\ FlagEnd(p, i) = 0 /\ At(p, i + 1, "?") ->
         IF At(p, i + 2, ":") THEN tok(Token("operator", {"(?:"}), i + 3) ELSE Invalid
    [] p[i] = "[" -> IF SetEnd(p, i, TRUE) = 0 THEN Invalid
                     ELSE tok(SetToken(p, i, TRUE), SetEnd(p, i, TRUE) + 1)
    [] p[i] \in (Meta \cup Swapped) \ {"(", "[", "]", "\\"} \/ (p[i] = "(" /\ ~At(p, i + 1, "?")) ->
         tok(Token("operator", {p[i]}), i + 1)
    [] OTHER -> tok(Literal(p[i]), i + 1)

Reading(p, Next(_, _)) ==
  LET from[i \in 1..Len(p) + 1] ==
        IF i > Len(p) THEN <<>>
        ELSE LET t == Next(p, i) IN
             IF t = Invalid THEN Invalid
             ELSE LET rest == from[t[2]] IN IF rest = Invalid THEN Invalid ELSE <<t[1]>> \o rest
  IN  from[1]

Holds(reading, kind) == \E i \in 1..Len(reading) : reading[i][1] = kind

-----------------------------------------------------------------------------
PatternInit == pattern = <<>> /\ parts = 0

PatternNext ==
  /\ parts < MaxFragments
  /\ \E f \in Fragments : pattern' = pattern \o f
  /\ parts' = parts + 1

PatternSpec == PatternInit /\ [][PatternNext]_patternVars

(* Sets that mean the same to both: the crate also reads a set within a    *)
(* set, where Emacs has one more bracket.                                  *)
Plain(reading) ==
  \A i \in 1..Len(reading) :
    reading[i][1] \in {"set", "set of others"} => <<"[">> \notin reading[i][2]

(* What Emacs reads in a pattern is what the crate matches, or else the    *)
(* pattern is refused: when it holds what the crate cannot express, and    *)
(* only then.  A quoted text is matched character by character.            *)
PatternsReadAsWritten ==
  LET emacs == Reading(pattern, EmacsToken)
      crate == Translate(pattern)
      quoted == Translate(Quote(pattern))
  IN
  /\ (emacs # Invalid /\ Plain(emacs)) =>
       IF crate = Refused THEN Holds(emacs, "unsupported")
       ELSE ~Holds(emacs, "unsupported") /\ Reading(crate, CrateToken) = emacs
  /\ quoted # Refused
  /\ Reading(quoted, CrateToken) = [i \in 1..Len(pattern) |-> Literal(pattern[i])]
=============================================================================
