------------------------------ MODULE Messages ------------------------------
(***************************************************************************)
(* Commit messages in the history tools (sequencer.rs): the edits of       *)
(* git_reword and git_msg_rewrite, which find a quote however it is        *)
(* wrapped, and the fixup!/squash! subjects git_rebase folds by.           *)
(*                                                                         *)
(* A message is a sequence of characters, a subject its markers and its    *)
(* title.  A tab is a space.                                               *)
(***************************************************************************)
EXTENDS Integers, Sequences, FiniteSets, SequencesExt

CONSTANTS
  Drafts,    \* messages before any edit
  EditLists, \* the message_edits callers pass; those without a quote append
  Branches,  \* sequences of subjects: the commits of onto..HEAD
  Named      \* the commits titles resolve to as revisions: a function

VARIABLES
  message,   \* the message
  asked,     \* the edits of the last call and the message it found, or <<>>
  subjects,  \* the subjects of onto..HEAD
  plan       \* the steps of an autosquash, by the numbers of the commits
vars == <<message, asked, subjects, plan>>

(***************************************************************************)
(* Edits.                                                                  *)
(***************************************************************************)
Blank == {" ", "\n"}
Breaks(s) == Cardinality({i \in DOMAIN s : s[i] = "\n"})
Trimmed(s) ==
  LET ink == {i \in DOMAIN s : s[i] \notin Blank}
  IN  IF ink = {} THEN <<>> ELSE SubSeq(s, Min(ink), Max(ink))

HasAt(s, i, t) == i + Len(t) - 1 <= Len(s) /\ SubSeq(s, i, i + Len(t) - 1) = t

(* The end of the run of blanks, or of other characters, that begins at i.   *)
RunEnd(s, i) == Min({j \in i..(Len(s) + 1) : j > Len(s) \/ (s[j] \in Blank) # (s[i] \in Blank)})
Runs(s) ==
  LET from[i \in 1..(Len(s) + 1)] ==
        IF i > Len(s) THEN <<>> ELSE <<SubSeq(s, i, RunEnd(s, i) - 1)>> \o from[RunEnd(s, i)]
  IN  from[1]
IsGap(run) == run[1] \in Blank
IsParagraph(run) == Breaks(run) >= 2

(* A gap within a paragraph matches blanks with one line break at most, a    *)
(* paragraph break only another.                                             *)
GapMatches(gap, run) == IsGap(run) /\ IsParagraph(gap) = IsParagraph(run)

(* loose_find at i: where a match of the runs of the quote ends, 0 if none.  *)
LooseEnd(s, i, runs) ==
  LET after(p, run) ==
        IF p = 0 \/ p > Len(s) THEN 0
        ELSE IF IsGap(run)
             THEN IF GapMatches(run, SubSeq(s, p, RunEnd(s, p) - 1)) THEN RunEnd(s, p) ELSE 0
        ELSE IF HasAt(s, p, run) THEN p + Len(run) ELSE 0
  IN  FoldLeft(after, i, runs)

ExactEnds(s, find) ==
  [i \in DOMAIN s |-> IF HasAt(s, i, find) THEN i + Len(find) ELSE 0]
LooseEnds(s, find) ==
  LET runs == Runs(Trimmed(find))
  IN  [i \in DOMAIN s |-> IF Len(runs) <= 1 THEN 0 ELSE LooseEnd(s, i, runs)]

(* Every match from the left, none inside what was put in.                   *)
Substituted(s, ends, with) ==
  LET from[i \in 1..(Len(s) + 1)] ==
        IF i > Len(s) THEN [text |-> <<>>, count |-> 0]
        ELSE IF ends[i] = 0 THEN [from[i + 1] EXCEPT !.text = <<s[i]>> \o @]
        ELSE [text |-> with \o from[ends[i]].text, count |-> 1 + from[ends[i]].count]
  IN  from[1]

ReplaceQuote(s, e) ==
  LET exact == Substituted(s, ExactEnds(s, e.find), e.with)
  IN  IF exact.count > 0 THEN exact ELSE Substituted(s, LooseEnds(s, e.find), e.with)

Closed(s) == IF s # <<>> /\ Last(s) = "\n" THEN s ELSE Append(s, "\n")
Appended(s, text) == [text |-> (IF s = <<>> THEN s ELSE Closed(s)) \o Closed(text), count |-> 1]
Edited(s, e) == IF e.find = <<>> THEN Appended(s, e.with) ELSE ReplaceQuote(s, e)

(* The message after all edits and how often each applied.                   *)
ApplyMsgEditsCounted(s, edits) ==
  FoldLeft(LAMBDA acc, e : [text |-> Edited(acc.text, e).text,
                            counts |-> Append(acc.counts, Edited(acc.text, e).count)],
           [text |-> s, counts |-> <<>>], edits)

(* A quote that is nowhere refuses the call. *)
ApplyMsgEdits(edits) ==
  LET done == ApplyMsgEditsCounted(message, edits)
  IN  /\ asked = <<>>
      /\ asked' = [edits |-> edits, found |-> message, refused |-> 0 \in ToSet(done.counts)]
      /\ message' = IF 0 \in ToSet(done.counts) THEN message ELSE done.text
      /\ UNCHANGED <<subjects, plan>>

(***************************************************************************)
(* Markers.                                                                *)
(***************************************************************************)
IsMarker(subject) == subject.marks # <<>>
Rest(subject) == [subject EXCEPT !.marks = Tail(@)]
StartsWith(subject, rest) == rest.marks = <<>> /\ IsPrefix(rest.title, subject.title)

(* Mutant: the nearest commit that begins so, markers or not. *)
MatchedAnyMarker(i, rest) ==
  LET near(S) == IF S = {} THEN 0 ELSE Max(S)
  IN  near({j \in 1..(i - 1) : StartsWith([subjects[j] EXCEPT !.marks = <<>>], [rest EXCEPT !.marks = <<>>])})

(* The nearest commit before i with exactly this subject, else the nearest   *)
(* plain one that begins so, else what it names as a revision; 0 if none.    *)
Matched(i, rest) ==
  LET exact == {j \in 1..(i - 1) : subjects[j] = rest}
      begins == {j \in 1..(i - 1) : ~IsMarker(subjects[j]) /\ StartsWith(subjects[j], rest)}
  IN  IF exact # {} THEN Max(exact)
      ELSE IF begins # {} THEN Max(begins)
      ELSE IF rest.marks = <<>> /\ rest.title \in DOMAIN Named THEN Named[rest.title]
      ELSE 0

(* target_of: oldest first, a marker that is a target hands on its own.      *)
TargetOf ==
  FoldLeft(LAMBDA target, i :
             LET t == Matched(i, Rest(subjects[i]))
             IN  [target EXCEPT ![i] = IF ~IsMarker(subjects[i]) THEN 0
                                       ELSE IF t \in DOMAIN target /\ target[t] # 0 THEN target[t]
                                       ELSE t],
           [i \in DOMAIN subjects |-> 0], [i \in DOMAIN subjects |-> i])

Markers == SelectSeq([i \in DOMAIN subjects |-> i], LAMBDA i : IsMarker(subjects[i]))
MarkerDirectives ==
  LET oldest == [k \in DOMAIN Markers |-> [commit |-> Markers[k], into |-> TargetOf[Markers[k]]]]
  IN  Reverse(oldest)

(* autosquash_steps: in turn, each goes right behind its target. *)
AutosquashSteps(directives) ==
  FoldLeft(LAMBDA steps, d :
             LET others == SelectSeq(steps, LAMBDA i : i # d.commit)
             IN  InsertAt(others, SelectInSeq(others, LAMBDA i : i = d.into) + 1, d.commit),
           [i \in DOMAIN subjects |-> i], directives)

(* git_rebase {autosquash: true}: refused without markers, with an orphan,   *)
(* with a target that is folded itself or lies outside onto..HEAD, and when  *)
(* a fold would come first.                                                  *)
Autosquash ==
  LET ds == MarkerDirectives
      steps == AutosquashSteps(ds)
  IN  /\ plan = <<>> /\ ds # <<>>
      /\ \A k \in DOMAIN ds : ds[k].into \in DOMAIN subjects /\ ~IsMarker(subjects[ds[k].into])
      /\ ~IsMarker(subjects[Head(steps)])
      /\ plan' = steps
      /\ UNCHANGED <<message, asked, subjects>>

Init ==
  /\ asked = <<>> /\ plan = <<>>
  /\ \/ message \in Drafts /\ subjects = <<>>
     \/ message = <<>> /\ subjects \in Branches

Next == (\E edits \in EditLists : subjects = <<>> /\ ApplyMsgEdits(edits)) \/ Autosquash

Spec == Init /\ [][Next]_vars

-----------------------------------------------------------------------------
(* A message as it reads, whatever its spacing and wrapping. *)
Reads(s) ==
  LET run(r) == IF ~IsGap(r) THEN r ELSE IF IsParagraph(r) THEN <<"para">> ELSE <<"gap">>
  IN  FlattenSeq([k \in DOMAIN Runs(s) |-> run(Runs(s)[k])])

Sites(s, quote) == {i \in DOMAIN s : HasAt(s, i, quote)}
Elsewhere(s, quote, new) ==
  LET from[i \in 1..(Len(s) + 1)] ==
        IF i > Len(s) THEN <<>>
        ELSE IF i \in Sites(s, quote) THEN new \o from[i + Len(quote)] ELSE <<s[i]>> \o from[i + 1]
  IN  from[1]

(* An edit finds its quote however the message is wrapped and leaves the     *)
(* rest of what it says alone, the breaks between its paragraphs above all;  *)
(* a site that only reads the same is left alone while the very text is      *)
(* there; and a quote that is not there refuses the call (apply_msg_edits,   *)
(* loose_find).                                                              *)
QuotesAreFound ==
  asked # <<>> /\ Len(asked.edits) = 1 /\ asked.edits[1].find # <<>> =>
    LET e == asked.edits[1]
        quote == Trimmed(e.find)
        loose == Sites(Reads(asked.found), Reads(quote))
        spread == ToSet(quote) \cap Blank # {}
    IN  IF Sites(asked.found, e.find) # {} THEN message = Elsewhere(asked.found, e.find, e.with)
        ELSE IF spread /\ loose # {}
             THEN Reads(message) = Elsewhere(Reads(asked.found), Reads(quote), Reads(e.with))
        ELSE asked.refused /\ message = asked.found

(* Folded by its markers a branch has every commit once, the plain ones in   *)
(* their order and behind each the markers that lead to it, however long     *)
(* the chain, in theirs: patches apply in the order they were made           *)
(* (marker_directives).                                                      *)
MarkersFollowTheirTargets ==
  LET leads[i \in DOMAIN subjects] ==
        IF ~IsMarker(subjects[i]) THEN i
        ELSE LET rest == Rest(subjects[i])
                 same == {j \in 1..(i - 1) : subjects[j] = rest}
                 plain == {j \in 1..(i - 1) : ~IsMarker(subjects[j]) /\ StartsWith(subjects[j], rest)}
                 named == IF rest.marks = <<>> THEN {Named[t] : t \in {rest.title} \cap DOMAIN Named} ELSE {}
                 t == Max(IF same # {} THEN same ELSE IF plain # {} THEN plain ELSE named \cup {0})
             IN  IF t \in 1..(i - 1) THEN leads[t] ELSE t
      group(t) == SelectSeq([i \in DOMAIN subjects |-> i],
                            LAMBDA i : IsMarker(subjects[i]) /\ leads[i] = t)
      plain == SelectSeq([i \in DOMAIN subjects |-> i], LAMBDA i : ~IsMarker(subjects[i]))
  IN  plan # <<>> => plan = FlattenSeq([k \in DOMAIN plain |-> <<plain[k]>> \o group(plain[k])])
=============================================================================
