------------------------------ MODULE MCServer ------------------------------
(***************************************************************************)
(* One server: the workspaces in its store, the requests of two clients to *)
(* a smaller store, a session and the calls of its client, or a search.    *)
(* One client tries every kind of place on a few texts, another makes more *)
(* calls in a row on two.                                                  *)
(***************************************************************************)
EXTENDS Transport

VARIABLES
  client, buf, version, stamped, synced, disk, drifted, undo, node, served, call  \* of Edits
callVars ==
  <<client, buf, version, stamped, synced, disk, drifted, undo, node, served, call>>

(***************************************************************************)
(* Texts whose patterns meet, end lines and repeat; definitions decorated  *)
(* on their line and on the one before, and one inside the other.          *)
(***************************************************************************)
Exactly(body) == [body |-> body, bol |-> FALSE, eol |-> FALSE, regex |-> FALSE]
Regex(body, bol, eol) == [body |-> body, bol |-> bol, eol |-> eol, regex |-> TRUE]
By(pre, whole) == [pre |-> pre, whole |-> whole, post |-> <<>>]
Edit(how, pattern, rep) == [how |-> how, pattern |-> pattern, rep |-> rep]
Ask(edits, scope) == [edits |-> edits, scope |-> scope]

PlaceTexts == {<<"@", "(", "a", "b", ")", "(", "b", "a", ")">>,
               <<"b", "\n", "a", "b", "a", "b", "a", "\n">>,
               <<"a", "(", "a", "(", "b", ")", ")", "\n", "@", "\n", "(", "b", ")">>}
ShortEdits ==
  {Edit(how, Exactly(<<"a", "b", "a">>), By(<<"b">>, FALSE)) : how \in {"unique", "all"}}
    \cup {Edit(how, Regex(<<>>, TRUE, FALSE), By(<<"@">>, FALSE)) : how \in {"unique", "all"}}
    \cup {Edit("unique", Regex(<<"a">>, FALSE, TRUE), By(<<"b">>, TRUE))}
ScopedEdits ==
  {Edit(how, Exactly(<<"b">>), By(<<>>, FALSE)) : how \in {"unique", "first"}}
    \cup {Edit("unique", Exactly(<<"@">>), By(<<"b">>, FALSE))}
Pair(how) == <<Edit("first", Exactly(<<"a">>), By(<<"b">>, FALSE)),
               Edit(how, Exactly(<<"b">>), By(<<"b", "b">>, FALSE))>>
PlaceRequests ==
  {Ask(<<e>>, None) : e \in ShortEdits}
    \cup {Ask(<<e>>, scope) : e \in ScopedEdits, scope \in {None, "a", "b"}}
    \cup {Ask(Pair(how), scope) : how \in {"unique", "all"}, scope \in {None, "b"}}
PlacesToInsert ==
  {[at |-> "point"], [at |-> "pos", pos |-> 4], [at |-> "bob"], [at |-> "eob"]}
    \cup {[at |-> "line", text |-> t, where |-> w] : t \in {<<"a", "b">>, <<"(">>}, w \in {"after", "before"}}
    \cup {[at |-> "defun", name |-> n, where |-> w] : n \in {"a", "b"}, w \in {"after", "before"}}

ThingAt(thing, p, up) == [kind |-> thing, at |-> "pos", pos |-> p, up |-> up]
ThingBy(thing, at, line) == [kind |-> thing, at |-> at, text |-> line, up |-> 0]
PlaceSelectors ==
  {ThingBy("word", "after", <<"(", "a">>), ThingAt("sexp", 4, 1), ThingBy("list", "after", <<"(", "a">>),
   ThingBy("defun", "after", <<"@">>), ThingBy("line", "before", <<"@">>), ThingAt("defun", 6, 0)}

CallTexts == {<<"a", "(", "b", ")">>, <<"(", "b", "(", "a", ")", ")">>}
CallRequests == {Ask(<<Edit("first", Exactly(<<"b">>), By(<<"a", "b">>, FALSE))>>, None)}
CallSelectors == {ThingBy("list", "after", <<"b">>), ThingAt("defun", 3, 0)}

ServerClients ==
  [places |-> [texts |-> PlaceTexts, requests |-> PlaceRequests, places |-> PlacesToInsert,
               selectors |-> PlaceSelectors, spots |-> {2, 6}, versions |-> 2],
   calls |-> [texts |-> CallTexts, requests |-> CallRequests, places |-> {[at |-> "bob"]},
              selectors |-> CallSelectors, spots |-> {3}, versions |-> 3]]
Quoted == <<"a">>

Calls == INSTANCE Edits WITH Clients <- ServerClients, Snippet <- Quoted, Nothing <- None

(***************************************************************************)
(* What clients add to a call of each tool: every spelling of its keys,    *)
(* and values that are not the defaults.                                   *)
(***************************************************************************)
Num(n) == <<"integer", n>>
Text(s) == <<"string", s>>
Flag(b) == <<"boolean", b>>
List(s) == <<"array", s>>
Object(f) == <<"object", f>>
Ways(keys, v) == {<<k, v>> : k \in keys}
Addressed == {<<"session", Text("s")>>, <<"path", Text("f")>>}
Kept == {<<"save", Flag(FALSE)>>, <<"save", Text("no")>>, <<"rehearse", Flag(TRUE)>>}
ThingOffer == {<<"thing", Object([kind |-> Text("list"), up |-> Num(1)] @@ l)>> : l \in
                 {[after |-> Text("x")], [at |-> Num(3)], [at |-> Num(3), after |-> Text("x")]}}
AnchorOffers ==
  {<<"anchor", Object(a)>> : a \in
     {[pattern |-> Text("x"), where |-> Text("before")], [before |-> Text("x")], [defun |-> Text("x")],
      [before |-> Text("x"), where |-> Text("after")], [pattern |-> Text("x"), line |-> Num(1)]}}
EditsOffer ==
  <<"edits", List(<<Object([old |-> Text("x"), new |-> Text("y")]),
                    Object([pattern |-> Text("y"), replacement |-> Text("x"), mode |-> Text("exact")])>>)>>
HunkOffers == {<<"hunks", List(<<Object([path |-> Text("f")] @@ h)>>)>> : h \in
                 {[lines |-> List(<<Num(1), Num(2)>>)], [contains |-> Text("x")], [contains |-> Text("x"), line |-> Num(1)]}}
MsgEditOffers ==
  {List(<<Object(e)>>) : e \in {[find |-> Text("x"), delete |-> Flag(TRUE)], [find |-> Text("x"), replace |-> Text("y")],
                                 [find |-> Text("x"), replace |-> Text("y"), delete |-> Flag(TRUE)]}}
FillOffers == {<<"fill", Flag(FALSE)>>, <<"fill", Num(50)>>, <<"fill", Num(0)>>}
Adds(more) == [start |-> <<>>, more |-> more]
AddsTo(start, more) == [start |-> start, more |-> more]
Repo == [repo |-> Text("r")]

ToolOffers ==
  [view |-> Adds({<<"lines", Num(2)>>, <<"lines", List(<<Num(2), Num(3)>>)>>, <<"line", Num(2)>>, <<"pos", Num(5)>>,
                  <<"start_line", Num(2)>>, <<"end_line", Num(3)>>, <<"session", Text("s")>>}
                 \cup Ways({"start", "from"}, Num(2)) \cup Ways({"end", "to"}, Num(3))
                 \cup Ways({"context", "count"}, Num(1)) \cup ThingOffer),
   insert_text |-> AddsTo([text |-> Text("t")],
                          {<<"before", Text("x")>>, <<"after", Text("x")>>, <<"where", Text("before")>>,
                           <<"expect_unique", Flag(TRUE)>>, <<"expect_unique", Flag(FALSE)>>}
                          \cup Ways({"pos", "location", "at"}, Num(5)) \cup Ways({"position"}, Text("eob"))
                          \cup Addressed \cup Kept \cup AnchorOffers \cup ThingOffer),
   replace_text |-> Adds({<<"mode", Text("regex")>>, <<"expect_unique", Flag(FALSE)>>, <<"expect_unique", Flag(TRUE)>>,
                          <<"scope", Object([defun |-> Text("d")])>>, EditsOffer, <<"save", Flag(FALSE)>>}
                         \cup Ways({"pattern", "old", "find"}, Text("x"))
                         \cup Ways({"replacement", "new", "replace"}, Text("y"))
                         \cup Ways({"all", "replace_all"}, Flag(TRUE)) \cup ThingOffer),
   fill_text |-> Adds({<<"lines", List(<<Num(2), Num(3)>>)>>, <<"lines", List(<<Num(3), Num(2)>>)>>, <<"all", Flag(TRUE)>>}
                      \cup Ways({"column", "width"}, Num(50)) \cup Ways({"prefix", "fill_prefix"}, Text("x"))
                      \cup Ways({"pos", "at"}, Num(5)) \cup Kept \cup AnchorOffers),
   occur |-> Adds({<<"mode", Text("exact")>>, <<"mode", Text("regex")>>, <<"case_insensitive", Flag(TRUE)>>,
                   <<"nlines", Num(1)>>, <<"limit", Num(5)>>, <<"offset", Num(5)>>, <<"scope", Object([defun |-> Text("d")])>>}
                  \cup Ways({"pattern", "regexp", "regex"}, Text("x")) \cup Addressed),
   close_session |-> Adds({<<"session", Text("*")>>, <<"sessions", List(<<Text("s")>>)>>, <<"paths", List(<<Text("f")>>)>>,
                           <<"all", Flag(TRUE)>>, <<"all", Text("yes")>>, <<"force", Flag(TRUE)>>} \cup Addressed),
   git_rebase |-> AddsTo(Repo @@ [onto |-> Text("o")],
                         {<<"plan", List(<<Object([commit |-> Text("c"), action |-> Text("drop")])>>)>>,
                          <<"autosquash", Flag(TRUE)>>, <<"autosquash", List(<<Object([commit |-> Text("c"), into |-> Text("d")])>>)>>,
                          <<"autosquash", Text("c")>>, <<"update_refs", Flag(FALSE)>>, <<"path", Text("r")>>}
                         \cup Ways({"from", "upstream"}, Text("u")) \cup FillOffers),
   git_fixup |-> AddsTo(Repo, {<<"source", Text("s")>>, <<"paths", List(<<Text("f")>>)>>, <<"worktree", Flag(TRUE)>>,
                               <<"rehearse", Flag(TRUE)>>}
                              \cup Ways({"target", "commit"}, Text("t")) \cup HunkOffers),
   git_commit |-> AddsTo(Repo @@ [message |-> Text("m")],
                         {<<"paths", List(<<Text("f")>>)>>, <<"path", Text("f")>>, <<"after", Text("c")>>, <<"after", Num(1)>>}
                         \cup HunkOffers \cup FillOffers),
   git_reword |-> AddsTo([path |-> Text("r"), commit |-> Text("c")],
                         {<<"message", Text("m")>>, <<"rehearse", Flag(TRUE)>>} \cup FillOffers
                         \cup {<<"message_edits", e>> : e \in MsgEditOffers}),
   git_blame |-> AddsTo(Repo, {<<"lines", List(<<Num(2), Num(3)>>)>>, <<"worktree", Flag(TRUE)>>, <<"since", Text("c")>>,
                               <<"group_by", Text("commit")>>, <<"group_by", Text("line")>>}
                              \cup Ways({"path", "file"}, Text("f")))]

VARIABLES tool, said, answer  \* of Arguments
wordVars == <<tool, said, answer>>
Words == INSTANCE Arguments WITH Offers <- ToolOffers, MaxKeys <- 4

(***************************************************************************)
(* Directories with hidden, linked and binary files in them, ignored ones  *)
(* with tracked files deep inside, names that sort apart as text and as    *)
(* paths; a file with more matches than are told of, and long lines.       *)
(***************************************************************************)
A == <<"a">>
B == <<"b">>
ADash == <<"a", "-">>
Dot == <<".", "a">>
Matching == <<<<"x">>, <<"b">>, <<"b", "b", "b", "b", "b", "x", "x">>>>
Indented == <<<<"b">>, <<"x", "b", "b", "b", "b">>>>
OneLine == <<<<"b", "b", "x", "b">>>>
Link == <<<<"link">>>>
NoText == <<<<"binary">>>>
SearchTrees ==
  {[files |-> (<<A, A>> :> Matching) @@ (<<A, ADash>> :> Indented) @@ (<<ADash>> :> OneLine) @@ (<<Dot, A>> :> Indented)
                @@ (<<B, A, B>> :> Matching) @@ (<<B, B>> :> Link) @@ (<<B, A, A>> :> Indented),
    ignored |-> {<<B>>}, tracked |-> {<<B, A, B>>, <<ADash>>}, unsaved |-> {<<ADash>>}, bases |-> << <<>> >>],
   [files |-> (<<A, A>> :> Matching) @@ (<<A, ADash, A>> :> Indented) @@ (<<A, ADash, B>> :> OneLine)
                @@ (<<ADash>> :> Indented) @@ (<<B>> :> NoText),
    ignored |-> {<<A>>, <<ADash>>}, tracked |-> {<<ADash>>, <<A, ADash, B>>}, unsaved |-> {<<A, ADash, B>>}, bases |-> << <<>> >>],
   [files |-> (<<A, A>> :> Matching) @@ (<<A, B>> :> Indented) @@ (<<B, A>> :> OneLine) @@ (<<B, B, B>> :> Indented)
                @@ (<<B, B, A>> :> Matching) @@ (<<B, ADash>> :> Matching),
    ignored |-> {<<A>>, <<B, A>>}, tracked |-> {<<ADash>>}, unsaved |-> {}, bases |-> << <<A>>, <<B>> >>],
   [files |-> (<<A, A, A, A>> :> Matching) @@ (<<A, B>> :> Indented) @@ (<<B>> :> OneLine),
    ignored |-> {<<A, A>>}, tracked |-> {<<A, A, A, A>>}, unsaved |-> {<<B>>}, bases |-> << <<>> >>]}
SearchGlobs == {None, <<"*">>, <<"*", "*", "/", "a">>, <<"?", "/", "*">>, <<"a", "*", "*">>, <<"*", "*", "/", "b", "*">>}

VARIABLES tree, listing, query, found  \* of Search
searchVars == <<tree, listing, query, found>>
Grep == INSTANCE Search WITH
          order <- listing, answer <- found, Trees <- SearchTrees, Globs <- SearchGlobs, NoGlob <- None,
          Limits <- {1, 2, 3, 5, 9}, Contexts <- {0, 1}, MaxFiles <- 4, MaxDepth <- 2, MaxLine <- 4

MaxServed == 3  \* bound: workspaces the two clients make

NoSearch == tree = None /\ listing = None /\ query = None /\ found = <<>>
NoWorkspaces == work = <<>> /\ order = <<>> /\ pinned = None /\ minted = {}
NoRequests == known = None /\ unheard = {} /\ exchange = None
NoCalls ==
  /\ client = None /\ buf = None /\ disk = <<>>
  /\ undo = None /\ node = None /\ call = None
  /\ version = 0 /\ stamped = 0 /\ synced = 0 /\ drifted = FALSE /\ served = FALSE

NoWords == tool = None /\ said = <<>> /\ answer = None

ServerInit ==
  \/ Init /\ NoRequests /\ NoCalls /\ NoWords /\ NoSearch
  \/ TransportInit /\ NoCalls /\ NoWords /\ NoSearch
  \/ Calls!Init /\ NoWorkspaces /\ NoRequests /\ NoWords /\ NoSearch
  \/ Words!Init /\ NoWorkspaces /\ NoRequests /\ NoCalls /\ NoSearch
  \/ Grep!SearchInit /\ NoWorkspaces /\ NoRequests /\ NoCalls /\ NoWords
ServerNext ==
  \/ client = None /\ tool = None /\ known = None /\ query = None /\ Next /\ UNCHANGED <<known, unheard, exchange, callVars, wordVars, searchVars>>
  \/ known # None /\ TransportNext /\ Cardinality(minted') <= MaxServed /\ UNCHANGED <<callVars, wordVars, searchVars>>
  \/ client # None /\ Calls!Next /\ UNCHANGED <<vars, known, unheard, exchange, wordVars, searchVars>>
  \/ tool # None /\ Words!Next /\ UNCHANGED <<vars, known, unheard, exchange, callVars, searchVars>>
  \/ query # None /\ Grep!SearchNext /\ UNCHANGED <<vars, known, unheard, exchange, callVars, wordVars>>
ServerSpec == ServerInit /\ [][ServerNext]_<<vars, known, unheard, exchange, callVars, wordVars, searchVars>>

(* A call edits what its names, patterns and anchors say, or is refused    *)
(* and leaves the text alone (Edits).                                      *)
EditsLandWhereNamed == Calls!EditsLandWhereNamed

(* A call asks for one thing, whatever the spelling of its keys, or is     *)
(* refused; no key is passed over (Arguments).                             *)
CallsSayOneThing == Words!CallsSayOneThing

(* What grep tells is there, and what it leaves out it says it has left    *)
(* out, in whatever order the directories were read (Search).              *)
GrepIsExact == query # None => Grep!GrepIsExact
=============================================================================
