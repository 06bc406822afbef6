------------------------------ MODULE MCReslice ------------------------------
(***************************************************************************)
(* The history tools: recuts and folds on four commits and three files,    *)
(* one line of context; rewrites of messages and commands over the history *)
(* of three commits; edits of a message, and branches with markers;        *)
(* rehearsals of replays of three or four commits.                         *)
(***************************************************************************)
EXTENDS Reslice, Rewrites

CONSTANTS Side  \* a branch

VARIABLES
  tool,                                           \* "reslice", "rewrite", "message" or "rehearsal"
  message, asked, subjects, plan,                 \* of Messages
  story, schedule, bystander, foreseen, replay, told  \* of Previews
messageVars == <<message, asked, subjects, plan>>
previewVars == <<story, schedule, bystander, foreseen, replay, told>>

Files(f, g, h) == [p \in Paths |-> CASE p = "f" -> f [] p = "g" -> g [] p = "h" -> h]

MCPaths == {"f", "g", "h"}

(* The third commit has two hunks of a file, a new file and the deletion of *)
(* one the second brought, the fourth a change of the new one.              *)
MCBranch ==
  <<Files(<<10, 20, 30, 40, 50, 60>>, Absent, Absent),
    Files(<<10, 12, 20, 30, 40, 50, 60>>, Absent, <<9>>),
    Files(<<12, 20, 30, 40, 50, 55, 60>>, <<1, 2>>, Absent),
    Files(<<12, 20, 30, 40, 50, 55, 60>>, <<1, 2, 3>>, Absent)>>

(* A replaced line, a deleted line and an added one, of different owners,   *)
(* beside a deleted file and a new one where an old commit had another; a   *)
(* pure deletion next to an insertion; an empty new file.                   *)
MCWorktrees ==
  {Files(<<13, 20, 30, 40, 50, 60, 70>>, Absent, <<7>>),
   Files(<<12, 30, 35, 40, 50, 55, 60>>, <<1, 2, 3, 4>>, Absent),
   Files(<<5, 12, 20, 30, 40, 50, 55, 60>>, <<1, 3>>, <<>>)}

Span(path, lo, hi) == [path |-> path, pick |-> "lines", lo |-> lo, hi |-> hi]
Has(path, line) == [path |-> path, pick |-> "contains", line |-> line]
Sel(paths, sels) == [paths |-> paths, sels |-> sels]
MCSelections ==
  {Sel({}, {}), Sel({"f"}, {}), Sel({}, {Span("f", 1, 2)}), Sel({}, {Has("f", 55)}),
   Sel({"g"}, {Span("f", 6, 8)}), Sel({"h"}, {})}

Part(paths, sels) == [paths |-> paths, sels |-> sels, rest |-> FALSE]
Rest == [paths |-> {}, sels |-> {}, rest |-> TRUE]
MCPartitions ==
  {<<Part({"f"}, {}), Rest>>, <<Part({}, {Has("f", 55)}), Rest>>,
   <<Part({"g"}, {}), Part({}, {Span("f", 1, 1)}), Rest>>}

Fold(commit, into) == [commit |-> commit, into |-> into]
MCDirectives == {<<Fold(4, 2)>>, <<Fold(3, 2), Fold(4, 2)>>, <<Fold(2, 3)>>}

(***************************************************************************)
(* A message that quotes itself over a line break, filled it fits again.   *)
(***************************************************************************)
Text(tree, words) == [tree |-> tree, msg |-> words, sig |-> 0]
ThreeCommits == <<Text(1, <<"a">>), Text(2, <<"b">>), Text(3, <<"a", "\n", "b">>)>>
SideStarts ==
  {SubSeq(ThreeCommits, 1, 2), ThreeCommits,
   <<ThreeCommits[1], Text(0, <<"d">>)>>, Append(ThreeCommits, Text(0, <<"d">>))}
MessageEdit(find, with) == [find |-> find, with |-> with]
Wish(find, with, at, fill, update) ==
  [edits |-> <<MessageEdit(find, with)>>, at |-> at, fill |-> fill, update |-> update]
Wishes ==
  {Wish(<<"a">>, <<"c">>, 1, FALSE, TRUE), Wish(<<>>, <<"c">>, 3, TRUE, FALSE), Wish(<<"a", " ", "b">>, <<"c">>, 2, TRUE, TRUE)}
OtherBranches == {Side}
TreesWithFile == {2}
FillMap == (<<"a", "\n", "b", "\n", "c", "\n">> :> <<"a", "b", "c">>)

(***************************************************************************)
(* Words in every spacing; quotes of one word and of several, with breaks. *)
(***************************************************************************)
Gaps == {<<" ">>, <<" ", " ">>, <<"\n">>, <<" ", "\n">>, <<"\n", " ", "\n">>}
ShortWords == {<<"a">>, <<"b">>, <<"a", "b">>}
MessageDrafts ==
  {u \o g \o v \o h \o w : u, v, w \in ShortWords, g, h \in Gaps}
    \cup {t \o g \o u \o h \o v \o k \o w \o x :
            t, u, v, w \in {<<"a">>, <<"b">>}, g, h, k \in {<<" ">>, <<"\n">>, <<"\n", "\n">>}, x \in {<<>>, <<"\n">>}}
Quotes == {<<"b">>, <<"a", " ", "b">>, <<"a", "\n", "b">>, <<"a", "\n", "\n", "b">>,
           <<"\n", "b", " ", " ", "a", " ">>, <<"a", " ", "b", " ", "a">>}
MessageEditLists ==
  {<<MessageEdit(q, w)>> : q \in Quotes, w \in {<<"b">>, <<"b", "a", " ", "b">>}}
    \cup {<<MessageEdit(<<"b">>, <<>>)>>, <<MessageEdit(<<>>, <<"a">>)>>,
          <<MessageEdit(<<"a", " ", "b">>, <<"b">>), MessageEdit(<<"b">>, <<"a", " ", "b">>)>>}

Subject(marks, title) == [marks |-> marks, title |-> title]
MarkerSubjects ==
  {Subject(m, t) : m \in {<<>>, <<"fixup">>, <<"fixup", "fixup">>, <<"squash">>},
                   t \in {<<"x">>, <<"x", "y">>, <<"r">>}}
MarkerBranches == UNION {[1..n -> MarkerSubjects] : n \in 1..4}

(***************************************************************************)
(* A commit made next to the lines of the one before, one in another place *)
(* and one in another file; two commits of one title; a commit that brings *)
(* back what the base had taken out.  The new bases are older commits of   *)
(* the branch and others that have some of its changes, in another order,  *)
(* with another context or beside one that conflicts.                      *)
(***************************************************************************)
Draft(f, g, title) == [tree |-> Files(f, g, Absent), msg |-> <<title>>]
Root == Draft(<<10, 20, 30, 40, 50, 60>>, Absent, "root")
FourChanges ==
  <<Root, Draft(<<10, 12, 20, 30, 40, 50, 60>>, Absent, "a"),
    Draft(<<10, 12, 13, 20, 30, 40, 50, 60>>, <<1>>, "b"),
    Draft(<<10, 12, 13, 20, 30, 40, 50, 55, 60>>, <<1>>, "c"),
    Draft(<<10, 12, 13, 20, 30, 40, 50, 55, 60>>, <<1, 2>>, "d")>>
SameTitles ==
  <<Root, Draft(<<10, 12, 20, 30, 40, 50, 60>>, Absent, "a"),
    Draft(<<10, 12, 20, 30, 40, 50, 55, 60>>, Absent, "a"),
    Draft(<<10, 12, 20, 30, 40, 50, 55, 60>>, <<1>>, "b")>>
Reordered ==
  <<Root, Draft(<<10, 20, 30, 40, 50, 55, 60>>, Absent, "c"),
    Draft(<<10, 12, 20, 30, 40, 50, 55, 60>>, Absent, "a")>>
Diverged ==
  <<Root, Draft(<<5, 10, 20, 30, 40, 50, 60>>, Absent, "u"),
    Draft(<<5, 10, 12, 20, 30, 40, 50, 60>>, Absent, "a"),
    Draft(<<5, 10, 12, 20, 30, 45, 60>>, Absent, "v")>>
TakenOut ==
  <<Root, Draft(<<10, 12, 20, 30, 40, 50, 60>>, Absent, "a"),
    Draft(<<10, 20, 30, 40, 50, 60>>, Absent, "not a")>>
BroughtBack == Append(TakenOut, Draft(<<10, 12, 20, 30, 40, 50, 60>>, Absent, "a again"))
Story(tip, onto) == [branch |-> tip, onto |-> onto]
ReplayStories ==
  {Story(FourChanges, onto) : onto \in {SubSeq(FourChanges, 1, 1), SubSeq(FourChanges, 1, 2), Reordered, Diverged}}
    \cup {Story(SameTitles, onto) : onto \in {SubSeq(SameTitles, 1, 1), Reordered}}
    \cup {Story(BroughtBack, Append(TakenOut, Draft(<<10, 20, 30, 40, 50, 60>>, <<1>>, "u")))}

PlanStep(commit, action) == [commit |-> commit, action |-> action]
Orders(S) == {p \in [1..3 -> S] : \A i, j \in 1..3 : i # j => p[i] # p[j]}
Schedules(S, actions) == {[i \in 1..3 |-> PlanStep(p[i], a[i])] : p \in Orders(S), a \in [1..3 -> actions]}
ReplayPlans ==
  Schedules(2..4, {"pick", "fixup", "squash", "drop", "edit", "reword"})
    \cup Schedules(3..5, {"pick", "fixup", "drop"})
    \cup {<<PlanStep(2, "pick"), PlanStep(4, "pick"), PlanStep(5, x), PlanStep(3, y)>> : x, y \in {"pick", "fixup", "drop"}}

M == INSTANCE Messages WITH
       Drafts <- MessageDrafts, EditLists <- MessageEditLists, Branches <- MarkerBranches,
       Named <- (<<"r">> :> 2)

P == INSTANCE Previews WITH
       Stories <- ReplayStories, Plans <- ReplayPlans, NewTitle <- "w", steps <- schedule, side <- bystander

NoRewrite ==
  /\ refs = [b \in AllRefs |-> NoCommit] /\ ring = None /\ busy = {} /\ signing = "off" /\ place = None /\ checkout = None
  /\ minted = 0 /\ stage = "idle" /\ rewrite = Missing /\ rewrites = 0 /\ foreign = 0
  /\ left = [b \in AllRefs |-> <<>>]
NoMessage == message = <<>> /\ asked = <<>> /\ subjects = <<>> /\ plan = <<>>
NoPreview ==
  story = <<>> /\ schedule = <<>> /\ bystander = <<>> /\ foreseen = <<>> /\ replay = <<>> /\ told = <<>>

HistoryInit ==
  \/ tool = "reslice" /\ Init /\ NoRewrite /\ NoMessage /\ NoPreview
  \/ tool = "rewrite" /\ RewriteInit /\ Init /\ NoMessage /\ NoPreview
  \/ tool = "message" /\ M!Init /\ Init /\ NoRewrite /\ NoPreview
  \/ tool = "rehearsal" /\ P!Init /\ Init /\ NoRewrite /\ NoMessage
HistoryNext ==
  \/ tool = "reslice" /\ Next /\ UNCHANGED <<tool, rewriteVars, messageVars, previewVars>>
  \/ tool = "rewrite" /\ RewriteNext /\ UNCHANGED <<tool, vars, messageVars, previewVars>>
  \/ tool = "message" /\ M!Next /\ UNCHANGED <<tool, vars, rewriteVars, previewVars>>
  \/ tool = "rehearsal" /\ P!Next /\ UNCHANGED <<tool, vars, rewriteVars, messageVars>>
HistorySpec == HistoryInit /\ [][HistoryNext]_<<tool, vars, rewriteVars, messageVars, previewVars>>

(* Edits of messages find their quotes and change nothing else, and markers  *)
(* fold into what they name, in their order (Messages).                      *)
MessagesAreExact == tool = "message" => M!QuotesAreFound /\ M!MarkersFollowTheirTargets

(* A rehearsal tells of every stop, every commit and every moved branch of   *)
(* the replay it stands for; a replay without a plan makes every change      *)
(* once, and git_range_diff accounts for every commit once (Previews).       *)
ReplaysAreForetold ==
  tool = "rehearsal" => P!RehearsalForetells /\ P!NothingIsReplayedTwice /\ P!RangeDiffIsHonest
=============================================================================
