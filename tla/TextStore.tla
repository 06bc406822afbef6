------------------------------ MODULE TextStore ------------------------------
(***************************************************************************)
(* What the two text stores share (src/src/store.rs): the rule by which    *)
(* markers follow an edit, and the span-bounded searches.  A text is a     *)
(* sequence of characters; positions are 1-based and lie between them, as  *)
(* in Emacs, so a text of n characters has the positions 1..n+1.           *)
(*                                                                         *)
(* A regular expression is abstracted to a literal body that may be        *)
(* anchored at a line's beginning or end: the stores differ in the context *)
(* they let the anchors see, never in how the regex engine matches.        *)
(***************************************************************************)
EXTENDS Integers, Sequences

CONSTANTS
  NL,         \* the newline character
  Nowhere     \* no position: an unset mark, a detached marker, an absent bound

ASSUME NowhereAssumption == Nowhere \notin Int

Lesser(a, b) == IF a <= b THEN a ELSE b
Greater(a, b) == IF a >= b THEN a ELSE b
Clamp(p, lo, hi) == IF p < lo THEN lo ELSE IF p > hi THEN hi ELSE p

(* Where a mark or a marker that may be nowhere is put. *)
ClampMaybe(p, lo, hi) == IF p = Nowhere THEN Nowhere ELSE Clamp(p, lo, hi)

(***************************************************************************)
(* Markers.                                                                *)
(***************************************************************************)
(* A marker exactly at the insertion stays before the new text. *)
MarkersAfterInsert(markers, at, n) ==
  [i \in DOMAIN markers |->
     IF markers[i] # Nowhere /\ markers[i] > at THEN markers[i] + n ELSE markers[i]]

(* Markers inside the deleted region [lo, hi) collapse to its start. *)
MarkersAfterDelete(markers, lo, hi) ==
  [i \in DOMAIN markers |->
     IF markers[i] = Nowhere THEN Nowhere
     ELSE IF markers[i] >= hi THEN markers[i] - (hi - lo)
     ELSE IF markers[i] > lo THEN lo
     ELSE markers[i]]

(***************************************************************************)
(* Searches in a haystack.  `hay` is all the anchors may look at; the      *)
(* match is confined to the span [s, e).                                   *)
(***************************************************************************)
OccursAt(needle, hay, i) ==
  /\ i + Len(needle) - 1 <= Len(hay)
  /\ \A k \in 1..Len(needle) : hay[i + k - 1] = needle[k]

MatchesAt(re, hay, i) ==
  LET end == i + Len(re.body)
  IN  /\ OccursAt(re.body, hay, i)
      /\ re.bol => i = 1 \/ hay[i - 1] = NL
      /\ re.eol => end = Len(hay) + 1 \/ hay[end] = NL

SpanMatches(re, hay, s, e) ==
  {i \in s..(e - Len(re.body)) : MatchesAt(re, hay, i)}

Leftmost(S) == CHOOSE i \in S : \A j \in S : i <= j
Rightmost(S) == CHOOSE i \in S : \A j \in S : i >= j

(* The newline-bounded line around a position of a text. *)
LineStart(text, p) ==
  LET breaks == {i \in 1..(p - 1) : text[i] = NL}
      lastBreak(i) == \A j \in breaks : j <= i
  IN  IF \E i \in breaks : lastBreak(i) THEN 1 + CHOOSE i \in breaks : lastBreak(i) ELSE 1

LineEnd(text, p) ==
  LET breaks == {i \in p..Len(text) : text[i] = NL}
      firstBreak(i) == \A j \in breaks : i <= j
  IN  IF \E i \in breaks : firstBreak(i)
      THEN CHOOSE i \in breaks : firstBreak(i) ELSE Len(text) + 1

(* A replacement: text before and after the place where the match's own text *)
(* goes, if `whole` says that it goes there (the \\& of Emacs).              *)
ExpandBackrefs(rep, matched) ==
  rep.pre \o (IF rep.whole THEN matched ELSE <<>>) \o rep.post
=============================================================================
