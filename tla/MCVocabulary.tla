----------------------------- MODULE MCVocabulary -----------------------------
(* The edit language: a program of it in one buffer, which is a file with    *)
(* merge conflicts, a program text, a page of prose, or plain lines; its     *)
(* regular expressions; how a script of it is split into forms; and a script *)
(* of forms, or of tool calls, that is run over files from the shell.        *)
EXTENDS Integers, Sequences

CONSTANTS NoBase, NotThere

VARIABLES
  buffer,                           \* "conflicts", "code", "prose", "lines",
                                    \* "pattern", "program", "script" or
                                    \* "calls"
  tree, lines, region, point,       \* of Conflict
  lang, text, view, cursor, kills,  \* of Scanner
  kind, source, page,               \* of Fill
  buf, ring, call, done,            \* of Commands
  pattern, parts,                   \* of Patterns
  program,                          \* of Programs
  session, files, start, next, outcome, phase, others, missed, \* of Scripts
  input, todo, warm, onDisk, allOk, exit, lost, writes, made  \* of Calls
conflictVars == <<tree, lines, region, point>>
codeVars == <<lang, text, view, cursor, kills>>
proseVars == <<kind, source, page>>
lineVars == <<buf, ring, call, done>>
patternVars == <<pattern, parts>>
scriptVars == <<session, files, start, next, outcome, phase, others, missed>>
callsVars == <<input, todo, warm, onDisk, allOk, exit, lost, writes, made>>
bufferVars == <<conflictVars, codeVars, proseVars, lineVars>>
otherVars == <<patternVars, program, scriptVars, callsVars>>
vars == <<buffer, bufferVars, otherVars>>

(***************************************************************************)
(* Files with conflicts in a row; within one another, with markers of one  *)
(* length or of two; with markers of none.                                 *)
(***************************************************************************)
Line(word) == [mark |-> "text", size |-> word]
Stray(mark, size) == [mark |-> mark, size |-> size]
Conf(size, ours, base, theirs) == [size |-> size, ours |-> ours, base |-> base, theirs |-> theirs]
Plain == Conf(7, <<Line(1)>>, NoBase, <<Line(2)>>)
Based == Conf(7, <<Line(1)>>, <<Line(1)>>, <<Line(2)>>)
Hollow == Conf(8, <<>>, <<Line(2)>>, <<Line(2)>>)
Trees ==
  {<<Plain, Line(1), Based>>,
   <<Conf(7, <<Line(1), Plain>>, <<>>, <<Based>>)>>,
   <<Conf(8, <<Plain>>, NoBase, <<Line(2)>>), Plain>>,
   <<Conf(7, <<Conf(8, <<Plain>>, NoBase, <<>>)>>, NoBase, <<Line(2)>>)>>,
   <<Stray("<", 7), Line(1), Hollow, Plain, Stray("<", 8), Line(2)>>}

(***************************************************************************)
(* Texts where one character decides what the others are: quotes in        *)
(* strings and comments, escaped ones and escaped escapes, comments that   *)
(* hold brackets, groups that do not close, prefixes.                      *)
(***************************************************************************)
GoTexts ==
  {<<"(", "a", "\n", "dquote", "backslash", "dquote", "(", "dquote", ")", "b">>,
   <<"dquote", "backslash", "backslash", "dquote", "(", "dquote", ")", "dquote", ")">>,
   <<"{", "/", "/", ")", "dquote", "\n", "a", "}", "\n", "\n", "b">>,
   <<"/", "*", "dquote", "*", "/", "a", "backquote", "backslash", "backquote", "b">>,
   <<"(", "a", "]", "(", "b", ")", "\n", "a", ",", "b">>,
   <<"(", "[", "a", "]", "b", ")", "\n", "(", ")", ")">>}
PythonTexts ==
  {<<"(", "dquote", "dquote", "dquote", "quote", "dquote", "dquote", "dquote", ")">>,
   <<"quote", "backslash", "quote", "quote", "#", "(", "\n", "a", "_", "b">>,
   <<"a", "(", "dquote", "dquote", ")", "\n", "#", "quote", "\n", "b">>}
ElispTexts ==
  {<<"(", "quote", "a", "-", "b", ")", "\n", "quote", "(", "b", ")">>,
   <<"(", "a", ";", ")", "\n", "dquote", ")", "dquote", ")", "b">>,
   <<"#", "quote", "(", "a", ",", "@", "b", ")", " ", "a">>,
   <<"quote", "#", "[", "a", ";", "(", "\n", "b">>}
Program(l, texts) == {[lang |-> l, text |-> t] : t \in texts}
ProgramTexts == Program("go", GoTexts) \cup Program("python", PythonTexts) \cup Program("elisp", ElispTexts)

(***************************************************************************)
(* Messages with lists, quotes, fences and trailers; a comment; a page     *)
(* under a fill-prefix.                                                    *)
(***************************************************************************)
Set(before, mark, width) == [mark |-> mark, width |-> width, before |-> before]
Say == Set(1, "text", 3)
Long == Set(1, "text", 9)
End == Set(1, "end", 2)
Break == Set(0, "break", 1)
Key == Set(0, "key", 4)
SignedOff == Set(0, "dashed", 5)
Note == Set(0, "note", 6)
Dash == Set(0, "bullet", 1)
Quote == Set(0, "quote", 1)
Fence == Set(0, "fence", 3)
Heading == Set(0, "heading", 1)
Slashes == Set(0, "marker", 2)
In(n, word) == [word EXCEPT !.before = n]
Left(words) == [words EXCEPT ![1].before = 0]
Message(ls) == [kind |-> "message", lines |-> <<Left(<<Say, Say>>), <<>>>> \o ls]
Page(k, ls) == [kind |-> k, lines |-> ls]
PagesOfProse ==
  {Message(<<Left(<<Say, End>>), Left(<<Say, Say, Long, Say>>), <<>>, <<Dash, Say, Say>>,
             <<In(2, Say), Say>>, <<Dash, Say, Long, Say, Say>>, <<>>, <<Key, Say, Say>>>>),
   Message(<<Left(<<Say, Say>>), <<SignedOff, Say>>, <<In(1, Say), Say>>, <<SignedOff, Say>>>>),
   Message(<<<<Quote, Say, Say, Say>>, <<Quote, Dash, Say, Say, Say>>, <<Quote>>, <<Quote, Quote, Say, Say>>,
             <<Key, Say>>, <<Note, Say>>>>),
   Message(<<<<Fence>>, Left(<<Say, Say, Say, Say>>), <<>>, <<Key, Say>>, <<Fence>>, <<Heading, Say, Say, Say>>,
             Left(<<Say, Say, End>>), Left(<<Say, Break>>), Left(<<Say, Say>>), <<Key, Say>>>>),
   Page("comments", <<<<Slashes, Say, Say, Say>>, <<Slashes>>, <<Slashes, Dash, Say, Say, Say>>,
                      <<Slashes, In(3, Say), Say>>, <<Slashes, In(6, Say), Say>>, <<Slashes>>>>),
   Page("comments", <<<<Slashes, In(5, Say), Say, Say, Say>>, <<Slashes, Dash>>, <<Slashes, In(3, Say), Say, Say>>,
                      <<Slashes, In(1, Quote), Say, Say, Say>>>>),
   Page("prefixed", <<<<Slashes, Say, Say, Say, Say>>, <<Slashes>>, Left(<<Say, Say, Say, Say>>),
                      <<Slashes, Say, Long, End>>, <<Slashes, Say>>, <<Slashes, In(1, Heading), Say>>>>)}

(***************************************************************************)
(* Lines with repeated, overlapping and empty matches at the edges of what *)
(* is accessible, markers within them and outside.                         *)
(***************************************************************************)
Start(t, markers, from) == [text |-> t, markers |-> markers, view |-> from]
Starts ==
  {Start(<<"a", "a", "a", "\n", "b", " ", "a", "\n", "\n", " ", "b">>, <<2, 8>>, [lo |-> 2, hi |-> 11]),
   Start(<<"b", "\n", "a", "a", "\n", " ", "a", "\n">>, <<4, 6>>, NotThere),
   Start(<<"a", "b", "\n", "b", "sz", "\n", "a", "b", "\n">>, <<3, NotThere>>, [lo |-> 4, hi |-> 10])}
Re(body, bol, eol) == [body |-> body, bol |-> bol, eol |-> eol]
Expressions ==
  {Re(<<"a">>, FALSE, FALSE), Re(<<"a", "a">>, FALSE, FALSE), Re(<<"\n">>, FALSE, FALSE),
   Re(<<>>, TRUE, FALSE), Re(<<>>, FALSE, TRUE), Re(<<"b">>, TRUE, FALSE)}
Template(pre, whole) == [pre |-> pre, whole |-> whole, post |-> <<>>]
Templates == {Template(<<>>, FALSE), Template(<<"a">>, TRUE), Template(<<"\n", "b">>, FALSE)}

(***************************************************************************)
(* Patterns of up to four fragments, each of which opens, closes, escapes  *)
(* or names something in one dialect or the other.                         *)
(***************************************************************************)
PatternFragments ==
  {<<"\\">>, <<"(">>, <<")">>, <<"?">>, <<"[">>, <<"]">>, <<"^">>, <<"a">>, <<":">>, <<"backquote">>, <<"1">>,
   <<"[", ":", "a", ":", "]">>, <<"(", "?", "i", ")">>}

(***************************************************************************)
(* Data that hold brackets in strings, comments and character literals,    *)
(* and gaps with comments in them.                                         *)
(***************************************************************************)
Parens(s) == <<"(">> \o s \o <<")">>
ProgramData ==
  {<<"a">>, Parens(<<"a">>), Parens(<<"dquote", "(", "backslash", "dquote", "dquote">>), Parens(<<"?", "(">>),
   Parens(<<"?", "backslash", ")">>), <<"?", ";">>, Parens(<<"a", " ", ";", ")", "\n", "b">>),
   <<"dquote", "\n", ";", "dquote">>, <<"'", "(", "a", ")">>, <<"[", "a", "(", ")", "]">>, <<"?", "dquote">>,
   Parens(<<"a", "?", " ", "b">>), Parens(<<"\n", "(", "dquote", "backslash", "backslash", "dquote", "\n", ")">>)}
ProgramGaps ==
  {<<>>, <<" ">>, <<"\n">>, <<"\n", "\n">>, <<" ", ";", "(", "\n">>, <<";", "dquote", "\n">>}

(***************************************************************************)
(* Forms that make, enter and kill buffers, that fail in another one, that *)
(* read, write and list files, and that keep what they computed.           *)
(***************************************************************************)
Do(f) == [do |-> f]
Insert(w) == [do |-> "insert", what |-> w]
To(f, n) == [do |-> f, name |-> <<n, 1>>]
At(f, x) == [do |-> f, file |-> x]
Within(n, body) == [do |-> "with-current-buffer", name |-> <<n, 1>>, body |-> body]
Try(body) == [do |-> "condition-case", body |-> body]
Forms ==
  {<<Insert("x")>>,
   <<Do("setq"), Do("insert value")>>,
   <<To("generate-new-buffer", "s"), Within("s", <<Insert("y")>>)>>,
   <<Try(<<Within("s", <<Insert("z"), Do("error")>>)>>), Insert("x")>>,
   <<To("set-buffer", "s"), Insert("y"), Do("error")>>,
   <<To("set-buffer", "s")>>,
   <<At("find-file", "twin")>>,
   <<To("kill-buffer", "doc")>>,
   <<At("insert-file-contents", "twin")>>,
   <<Insert("x"), At("write-file", "doc")>>,
   <<At("write-region", "twin"), Insert("y"), Do("error")>>,
   <<Try(<<At("find-file", "none")>>), Insert("x")>>,
   <<Do("directory-files"), Do("insert value")>>,
   <<At("find-file-noselect", "twin"), To("generate-new-buffer", "s"), Do("error")>>,
   <<To("kill-buffer", "s"), To("generate-new-buffer", "s"), Do("error")>>,
   <<Within("s", <<To("kill-buffer", "doc")>>)>>}
ScriptStarts == [mode : {"tui", "run", "rehearse"}, script : [1..3 -> Forms], file : {"doc"}]
DiskLine(w, cr) == [say |-> w, cr |-> cr]
ScriptDisk == [doc |-> <<DiskLine("p", TRUE)>>, twin |-> <<DiskLine("t", FALSE)>>, none |-> NotThere]

(***************************************************************************)
(* Lines of calls that edit, hold, fail, save and close, a comment and a   *)
(* line that is no call.                                                   *)
(***************************************************************************)
EditOf(f, m, save) == [is |-> "call", tool |-> "edit", file |-> f, mark |-> m, save |-> save]
SaveOf(f) == [is |-> "call", tool |-> "save_buffer", file |-> f]
CloseOf(f, force) == [is |-> "call", tool |-> "close_session", file |-> f, force |-> force]
CallLines ==
  {[is |-> "comment"], [is |-> "bad"], EditOf("f", "1", TRUE), EditOf("f", "2", FALSE), EditOf("g", "3", FALSE),
   EditOf("f", "none", TRUE), SaveOf("f"), SaveOf("g"), CloseOf("f", FALSE), CloseOf("f", TRUE)}
CallInputs == UNION {[1..n -> CallLines] : n \in 1..4}

C == INSTANCE Conflict WITH
       InitialTrees <- Trees, Cuts <- {1, 3, 6, 9}, Replacements <- {<<>>, <<Line(2), Line(1)>>}
S == INSTANCE Scanner WITH
       Files <- ProgramTexts, Spots <- {1, 4, 7}, Counts <- {-2, -1, 1, 2}, MaxKills <- 1
F == INSTANCE Fill WITH
       Pages <- PagesOfProse, Columns <- {8, 14, 20}, Prefix <- [words |-> <<Slashes>>, pad |-> 1]

L == INSTANCE Commands WITH
       Buffers <- Starts, Patterns <- Expressions, Rewritings <- Templates, Spots <- {1, 3, 6}, MaxCommands <- 2,
       Nothing <- NotThere

P == INSTANCE Patterns WITH Fragments <- PatternFragments, MaxFragments <- 4

T == INSTANCE Programs WITH Data <- ProgramData, Gaps <- ProgramGaps, MaxForms <- 2

R == INSTANCE Scripts WITH
       Starts <- ScriptStarts, FirstDisk <- ScriptDisk, Base <- [doc |-> "doc", twin |-> "doc", none |-> "none"],
       Missing <- NotThere, MaxOthers <- 1

K == INSTANCE Calls WITH
       Inputs <- CallInputs, FirstTexts <- [f |-> <<>>, g |-> <<"p">>], NoMark <- "none", Theirs <- "theirs", MaxWrites <- 1

NoConflicts == tree = <<>> /\ lines = <<>> /\ region = [lo |-> 1, hi |-> 1] /\ point = 1
NoCode == lang = "go" /\ text = <<>> /\ view = [lo |-> 1, hi |-> 1] /\ cursor = 1 /\ kills = <<>>
NoProse == kind = "message" /\ source = <<>> /\ page = <<>>
NoLines == buf = NotThere /\ ring = <<>> /\ call = NotThere /\ done = 0

NoPattern == pattern = <<>> /\ parts = 0
NoProgram == program = <<>>
NoScript ==
  /\ session = NotThere /\ files = NotThere /\ start = NotThere /\ next = 0 /\ outcome = "none"
  /\ phase = "discarded" /\ others = 0 /\ missed = FALSE
NoCallScript ==
  /\ input = <<>> /\ todo = <<>> /\ warm = <<>> /\ onDisk = <<>> /\ made = {}
  /\ allOk = TRUE /\ exit = 0 /\ lost = {} /\ writes = 0
NoBuffer == NoConflicts /\ NoCode /\ NoProse /\ NoLines
NoOther == NoPattern /\ NoProgram /\ NoScript /\ NoCallScript

Init ==
  \/ buffer = "conflicts" /\ C!Init /\ NoCode /\ NoProse /\ NoLines /\ NoOther
  \/ buffer = "code" /\ S!Init /\ NoConflicts /\ NoProse /\ NoLines /\ NoOther
  \/ buffer = "prose" /\ F!Init /\ NoConflicts /\ NoCode /\ NoLines /\ NoOther
  \/ buffer = "lines" /\ L!Init /\ NoConflicts /\ NoCode /\ NoProse /\ NoOther
  \/ buffer = "pattern" /\ P!PatternInit /\ NoBuffer /\ NoProgram /\ NoScript /\ NoCallScript
  \/ buffer = "program" /\ T!ProgramInit /\ NoBuffer /\ NoPattern /\ NoScript /\ NoCallScript
  \/ buffer = "script" /\ R!ScriptInit /\ NoBuffer /\ NoPattern /\ NoProgram /\ NoCallScript
  \/ buffer = "calls" /\ K!CallsInit /\ NoBuffer /\ NoPattern /\ NoProgram /\ NoScript

Next ==
  \/ buffer = "conflicts" /\ C!Next /\ UNCHANGED <<buffer, codeVars, proseVars, lineVars, otherVars>>
  \/ buffer = "code" /\ S!Next /\ UNCHANGED <<buffer, conflictVars, proseVars, lineVars, otherVars>>
  \/ buffer = "prose" /\ F!Next /\ UNCHANGED <<buffer, conflictVars, codeVars, lineVars, otherVars>>
  \/ buffer = "lines" /\ L!Next /\ UNCHANGED <<buffer, conflictVars, codeVars, proseVars, otherVars>>
  \/ buffer = "pattern" /\ P!PatternNext /\ UNCHANGED <<buffer, bufferVars, program, scriptVars, callsVars>>
  \/ buffer = "program" /\ T!ProgramNext /\ UNCHANGED <<buffer, bufferVars, patternVars, scriptVars, callsVars>>
  \/ buffer = "script" /\ R!ScriptNext /\ UNCHANGED <<buffer, bufferVars, patternVars, program, callsVars>>
  \/ buffer = "calls" /\ K!CallsNext /\ UNCHANGED <<buffer, bufferVars, patternVars, program, scriptVars>>

Spec == Init /\ [][Next]_vars

(* Scripts alone, run from the stepper and the command line.                 *)
ScriptsOnly == Init /\ buffer = "script" /\ [][Next]_vars

(* In a file with conflicts the hunks found are the conflicts that can be    *)
(* settled, and what was settled is exactly what was kept (Conflict).        *)
HunksAreConflicts == buffer = "conflicts" => C!HunksAreConflicts

(* In a program text a motion lands behind, or before, exactly one sexp of   *)
(* the group it began in (Scanner).                                          *)
MotionsReachWholeSexps == buffer = "code" => S!MotionsReachWholeSexps

(* In a program text a selector names the same thing from wherever it is     *)
(* asked for it (Scanner).                                                   *)
SelectorsAgree == buffer = "code" => S!SelectorsAgree

(* On a page of prose the layout depends on the text and the last column     *)
(* alone, and no word of the text is lost (Fill).                            *)
FillsForgetLayout == buffer = "prose" => F!FillsForgetLayout

(* Among plain lines a bulk replace, the counts and the overviews speak of   *)
(* the same matches, and each does to them what it says; the filters and the *)
(* sort keep lines whole, and nothing reaches outside the restriction        *)
(* (Commands).                                                               *)
CommandsAreExact == buffer = "lines" => L!WalksAgree /\ L!LinesStayWhole

(* What Emacs reads in a pattern is what the regex crate matches, or the     *)
(* pattern is refused (Patterns); and the stepper and the repl find each     *)
(* datum of a program where it was written, and no other (Programs).         *)
SourcesReadAsWritten ==
  /\ buffer = "pattern" => P!PatternsReadAsWritten
  /\ buffer = "program" => T!ProgramsReadAsWritten

(* A script stepped through, forward and back, stands where running its      *)
(* forms once would have left it, and a form that fails changes nothing      *)
(* (Scripts); and of the edits of a script of calls none is lost unsaid      *)
(* (Calls).                                                                  *)
ScriptsKeepTheirWord ==
  /\ [](buffer = "script" => R!BuffersAreDistinct /\ R!ReplayIsFaithful)
  /\ [](buffer = "calls" => K!CallsKeepTheirWord)
  /\ [][buffer = "script" => R!StepsKeepTheirPromises]_scriptVars

(* "does NOT silently rewrite a file's on-disk format: it remembers the      *)
(* detected coding and round-trips it on save, so a CRLF Windows file stays  *)
(* CRLF" (coding.rs:6): what a script leaves written over its file has the   *)
(* line ends the file had, unless another program wrote it (Scripts).        *)
WriteBackKeepsCoding == buffer = "script" => R!WriteBackKeepsCoding
=============================================================================
