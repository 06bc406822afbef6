-------------------------------- MODULE Edits --------------------------------
(***************************************************************************)
(* The editing tools that name their place instead of counting to it:      *)
(* replace_text and insert_text with their patterns, anchors, scopes and   *)
(* things (src/src/mcp.rs), and the edits of syntax nodes                  *)
(* (src/src/builtins.rs), on one warm session whose file others write.     *)
(*                                                                         *)
(* A call is one program, or four in a row when it names a thing; before   *)
(* each, a clean buffer whose file has changed is read again (Serve).  The *)
(* store is module Buffer's, the things are Scanner's.  The syntax tree is *)
(* external: groups of brackets and single characters; a group that begins *)
(* with a letter defines that name, and the @ before it decorate it.       *)
(***************************************************************************)
EXTENDS Integers, Sequences, FiniteSets, SequencesExt, TLC

CONSTANTS
  Clients,  \* by its name, what a client works on and asks for:
            \*   texts      what the file may hold
            \*   requests   of replace_text: the edits in order, the scope
            \*   places     of insert_text
            \*   selectors  the things both are asked for
            \*   spots      where programs go, hold nodes, and narrow between
            \*   versions   bound: versions given out
  Snippet,  \* the text the calls insert
  Nothing

VARIABLES
  client,   \* the name of the client
  buf,      \* the store of the session
  version,  \* its version
  stamped,  \* the last version given out
  synced,   \* the version the file was read or written at
  disk,     \* the text of the file
  drifted,  \* whether another program wrote the file since
  undo,     \* the store before the last edit and its version
  node,     \* the node a program keeps: a span of the text it was parsed from
  served,   \* whether the buffer was compared with the file for the next program
  call      \* the call under way, or the one just answered
vars == <<client, buf, version, stamped, synced, disk, drifted, undo, node, served, call>>

Its == Clients[client]

B == INSTANCE Buffer WITH
       NL <- "\n", Nowhere <- Nothing, frames <- <<>>, kept <- Nothing, EditsOutside <- FALSE,
       MaxMarkers <- 0, MaxFrames <- 0, InitialTexts <- {}, Inserts <- {}, Replacements <- {},
       Needles <- {}, Regexes <- {}, Positions <- {}, LineCounts <- {}

S == INSTANCE Scanner WITH
       lang <- "go", text <- buf.text, view <- [lo |-> B!PointMin(buf), hi |-> B!PointMax(buf)],
       cursor <- buf.point, kills <- <<>>, Files <- {}, Spots <- {}, Counts <- {}, MaxKills <- 0

Top(b) == B!GotoChar(b, B!PointMin(b))
Accessible(b, span) == B!PointMin(b) <= span.start /\ span.end <= B!PointMax(b)

(***************************************************************************)
(* The syntax tree.                                                        *)
(***************************************************************************)
Letters == {"a", "b"}
Spans(n, p) == n.start <= p /\ p < n.end
Innermost(nodes) == CHOOSE n \in nodes : \A m \in nodes : m.start <= n.start

Balanced(text, i, j) ==
  Cardinality({k \in i..j : text[k] = "("}) = Cardinality({k \in i..j : text[k] = ")"})
Closers(text, i) == {j \in i..Len(text) : text[j] = ")" /\ Balanced(text, i, j)}
Groups(text) ==
  {[start |-> i, end |-> Min(Closers(text, i)) + 1] :
     i \in {k \in DOMAIN text : text[k] = "(" /\ Closers(text, k) # {}}}
Atoms(text) ==
  {[start |-> i, end |-> i + 1] : i \in {k \in DOMAIN text : text[k] \in Letters \cup {"@"}}}
Root(text) == [start |-> 1, end |-> Len(text) + 1]

NodeAt(text, p) ==
  LET over == {n \in Groups(text) \cup Atoms(text) : Spans(n, p)}
  IN  IF over = {} THEN Root(text) ELSE Innermost(over)
ParentOf(text, n) ==
  LET over == {g \in Groups(text) : Spans(g, n.start) /\ g # n}
  IN  IF n = Root(text) THEN Nothing ELSE IF over = {} THEN Root(text) ELSE Innermost(over)

Defuns(text) == {g \in Groups(text) : text[g.start + 1] \in Letters}
(* A definition begins where its decoration does. *)
DefunExtent(text, d) ==
  LET decoration == {i \in 1..d.start : \A k \in i..(d.start - 1) : text[k] \in {"@", "\n"}}
  IN  [d EXCEPT !.start = Min({i \in decoration : i = d.start \/ text[i] = "@"})]
EnclosingDefun(text, p) ==
  LET decorated == {d \in Defuns(text) : /\ p \in DOMAIN text /\ text[p] = "@"
                                         /\ p < d.start /\ Spans(DefunExtent(text, d), p)}
      around == {d \in Defuns(text) : Spans(d, p)}
  IN  IF decorated # {} THEN CHOOSE d \in decorated : TRUE
      ELSE IF around # {} THEN Innermost(around) ELSE Nothing

(* The first one of the name in the text. *)
FindDefun(text, name) ==
  LET named == {d \in Defuns(text) : text[d.start + 1] = name}
  IN  IF named = {} THEN Nothing ELSE CHOOSE d \in named : \A e \in named : d.start <= e.start

(* treesit-goto-defun. *)
GotoDefun(b, name) == B!GotoChar(b, DefunExtent(b.text, FindDefun(b.text, name)).start)

(***************************************************************************)
(* replace_text.                                                           *)
(***************************************************************************)
Searched(p, b) ==
  IF p.regex THEN B!ReSearchForward(b, p, Nothing) ELSE B!SearchForward(b, p.body, Nothing)
Finds(p, b) == Searched(p, [b EXCEPT !.match = Nothing]).match # Nothing

(* Whether a pattern is found again after a match; an empty one is stepped   *)
(* over.                                                                     *)
FindsAgain(p, b) ==
  IF b.match.start # b.match.end THEN Finds(p, b)
  ELSE b.point < B!PointMax(b) /\ Finds(p, B!GotoChar(b, b.point + 1))
IsUnique(p, b) == Finds(p, b) /\ ~FindsAgain(p, Searched(p, b))

Spliced(b, start, end, new) ==
  B!Insert(B!GotoChar(B!DeleteRegion(b, start, end), start), new)

ReplaceOnce(e, b) ==
  LET hit == Searched(e.pattern, b)
  IN  IF e.pattern.regex THEN B!ReplaceMatch(hit, e.rep)
      ELSE B!Insert(B!DeleteRegion(hit, hit.match.start, hit.point), e.rep.pre)

(* Every match is located first; each edit then moves those after it.        *)
ReplaceEvery(e, b) ==
  LET width == Len(e.pattern.body)
      hits == B!ReMatches(b, e.pattern, b.point, B!PointMax(b))
      apart == FoldLeft(LAMBDA ms, i : IF i \in hits /\ (ms = <<>> \/ Last(ms) + width <= i)
                                       THEN Append(ms, i) ELSE ms,
                        <<>>, [i \in 1..B!PointMax(b) |-> i])
      edit(c, i) == Spliced(c, i + c.len - b.len, i + c.len - b.len + width,
                            B!ExpandBackrefs(e.rep, e.pattern.body))
  IN  FoldLeft(edit, b, apart)

Applies(e, b) == IF e.how = "unique" THEN IsUnique(e.pattern, Top(b)) ELSE Finds(e.pattern, Top(b))
Edited(e, b) == IF e.how = "all" THEN ReplaceEvery(e, Top(b)) ELSE ReplaceOnce(e, Top(b))

(* One transaction: each edit sees the text the one before it left. *)
Done(b) == [ok |-> TRUE, b |-> b]
Refused(b) == [ok |-> FALSE, b |-> b]
RunEdits(edits, b) ==
  FoldLeft(LAMBDA r, e : IF r.ok /\ Applies(e, r.b) THEN Done(Edited(e, r.b)) ELSE Refused(b),
           Done(b), edits)

(* scope: the definition point is in after going to the one of the name; the *)
(* restriction is put back as the numbers it was.                            *)
NarrowToDefun(b) ==
  LET d == EnclosingDefun(b.text, b.point)
  IN  IF d = Nothing THEN b
      ELSE B!NarrowToRegion(b, DefunExtent(b.text, d).start, d.end)
InScope(name, b, edits) ==
  LET r == RunEdits(edits, NarrowToDefun(GotoDefun(b, name)))
  IN  [r EXCEPT !.b = B!SetRestriction(@, b.narrowing)]

ReplaceIn(b, r) ==
  IF r.scope = Nothing THEN RunEdits(r.edits, b)
  ELSE IF FindDefun(b.text, r.scope) = Nothing THEN Refused(b)
  ELSE InScope(r.scope, b, r.edits)

(***************************************************************************)
(* insert_text.                                                            *)
(***************************************************************************)
Literally(body) == [body |-> body, bol |-> FALSE, eol |-> FALSE, regex |-> FALSE]

(* The one line that has the text, with point behind the text; where there   *)
(* is none, or more, point stays where the search left it.                   *)
UniqueLine(b, body) ==
  IF ~Finds(Literally(body), Top(b)) THEN Refused(Top(b))
  ELSE LET hit == Searched(Literally(body), Top(b))
       IN  IF FindsAgain(Literally(body), hit) THEN Refused(hit) ELSE Done(hit)

BesideLine(b, where) ==
  IF where = "after" THEN B!EndOfLine(b) ELSE B!BeginningOfLine(B!GotoChar(b, b.match.start))
(* No definition ends behind point when point could not reach the one named. *)
BesideDefun(b, where) ==
  LET d == EnclosingDefun(b.text, b.point)
  IN  CASE where = "before" -> Done(b)
        [] where = "after" -> IF d = Nothing THEN Refused(b) ELSE Done(B!GotoChar(b, d.end))

Placed(b, place) ==
  CASE place.at = "point" -> Done(b)
    [] place.at = "pos" -> Done(B!GotoChar(b, place.pos))
    [] place.at = "bob" -> Done(Top(b))
    [] place.at = "eob" -> Done(B!GotoChar(b, B!PointMax(b)))
    [] place.at = "line" ->
         LET r == UniqueLine(b, place.text)
         IN  IF r.ok THEN Done(BesideLine(r.b, place.where)) ELSE r
    [] place.at = "defun" ->
         IF FindDefun(b.text, place.name) = Nothing THEN Refused(b)
         ELSE BesideDefun(GotoDefun(b, place.name), place.where)
InsertedAt(b, place) ==
  LET r == Placed(b, place) IN IF r.ok THEN Done(B!Insert(r.b, Snippet)) ELSE r

(***************************************************************************)
(* Calls.  A program that changes the text takes a new version and leaves  *)
(* the store it found as the state to go back to.                          *)
(***************************************************************************)
Answered == call # Nothing /\ call.phase \in {"done", "refused"}

(* auto_revert_if_clean. *)
Serve ==
  /\ ~served /\ ~Answered
  /\ served' = TRUE
  /\ IF version = synced /\ drifted
     THEN /\ stamped < Its.versions
          /\ buf' = B!GotoChar(B!FromString(disk), buf.point)
          /\ version' = stamped + 1 /\ stamped' = stamped + 1 /\ synced' = stamped + 1
          /\ drifted' = FALSE
          /\ undo' = Nothing
     ELSE UNCHANGED <<buf, version, stamped, synced, drifted, undo>>
  /\ UNCHANGED <<disk, node, call>>

Reads == served /\ served' = FALSE /\ UNCHANGED <<version, stamped, synced, disk, drifted, undo>>
(* save_after_edit: refused when the file has drifted, and the edit stays.  *)
SavesOrNot(base) ==
  \/ ~drifted /\ disk' = buf'.text /\ synced' = version'
  \/ disk' = disk /\ synced' = base
(* An edit that puts back what it took leaves no step to undo, and a clean    *)
(* buffer clean.                                                             *)
Answers(r, c) ==
  /\ served /\ served' = FALSE
  /\ buf' = r.b
  /\ call' = [phase |-> IF r.ok THEN "done" ELSE "refused", before |-> buf] @@ c
  /\ CASE ~r.ok -> UNCHANGED <<version, stamped, undo, synced, disk>>
       [] r.ok ->
            /\ stamped < Its.versions
            /\ version' = stamped + 1 /\ stamped' = stamped + 1
            /\ IF r.b.text = buf.text
               THEN /\ synced' = IF version = synced THEN version' ELSE synced
                    /\ UNCHANGED <<undo, disk>>
               ELSE /\ undo' = [b |-> buf, version |-> version]
                    /\ SavesOrNot(synced)
  /\ UNCHANGED drifted
Idle == call = Nothing /\ stamped < Its.versions

ReplaceText ==
  /\ Idle
  /\ \E r \in Its.requests : Answers(ReplaceIn(buf, r), [tool |-> "replace", asked |-> r])
  /\ UNCHANGED node
InsertText ==
  /\ Idle
  /\ \E place \in Its.places : Answers(InsertedAt(buf, place), [tool |-> "insert", asked |-> place])
  /\ UNCHANGED node

(***************************************************************************)
(* Things.  The version is taken first, then the anchor line is found,     *)
(* then the thing, then the edit made; the edit is refused when a re-read  *)
(* came between.                                                           *)
(***************************************************************************)
DefunThing(sel) ==
  LET named == CASE sel.at = "pos" -> {EnclosingDefun(buf.text, sel.pos)} \ {Nothing}
                 [] sel.at = "after" -> {d \in Defuns(buf.text) : d.start >= call.line}
                 [] sel.at = "before" -> {d \in Defuns(buf.text) : d.end <= call.line}
      extents == {DefunExtent(buf.text, d) : d \in named}
  IN  IF extents = {} THEN Nothing
      ELSE IF sel.at = "before" THEN CHOOSE x \in extents : \A y \in extents : y.end <= x.end
      ELSE CHOOSE x \in extents : \A y \in extents : x.start <= y.start

(* A scan stays in the restriction; the line may be one of a longer text.    *)
Reached == Min({call.line, B!PointMax(buf)})
ScannedThing(sel) ==
  CASE sel.at = "pos" -> IF Accessible(buf, [start |-> sel.pos, end |-> sel.pos])
                         THEN S!BoundsOf(sel.kind, sel.pos, sel.up) ELSE S!Nothing
    [] sel.at = "after" -> S!ThingAfter(sel.kind, Reached, sel.up)
    [] sel.at = "before" -> S!ThingBefore(sel.kind, Reached, sel.up)

Thing(sel) ==
  IF sel.kind = "defun" THEN DefunThing(sel)
  ELSE LET t == ScannedThing(sel)
       IN  IF S!Found(t) THEN [start |-> t.start, end |-> t.end] ELSE Nothing

BeginThing ==
  /\ Idle /\ Reads
  /\ \E sel \in Its.selectors, what \in {"replace", "before", "after"} :
       call' = [phase |-> IF sel.at = "pos" THEN "thing" ELSE "line", tool |-> "thing",
                asked |-> sel, what |-> what, version |-> version, line |-> 1, seen |-> {}]
  /\ UNCHANGED <<buf, node>>

FailThing == call' = [phase |-> "refused", tool |-> "thing", asked |-> call.asked, before |-> buf]

(* save-excursion keeps point and the mark. *)
FindAnchorLine ==
  /\ call # Nothing /\ call.phase = "line"
  /\ LET r == UniqueLine(buf, call.asked.text)
     IN  /\ buf' = [r.b EXCEPT !.point = buf.point]
         /\ IF r.ok
            THEN call' = [call EXCEPT !.phase = "thing", !.seen = @ \cup {buf.text},
                                  !.line = BesideLine(r.b, "before").point]
            ELSE FailThing
  /\ Reads /\ UNCHANGED node

FindThing ==
  /\ call # Nothing /\ call.phase = "thing"
  /\ LET thing == Thing(call.asked)
     IN  IF thing = Nothing THEN FailThing
         ELSE call' = [phase |-> "apply", span |-> thing, seen |-> call.seen \cup {buf.text}] @@ call
  /\ Reads /\ UNCHANGED <<buf, node>>

(* Mutant: the edit goes where the thing was, whatever came between.         *)
StillTrue(c) == TRUE
(* run_in_session_expecting. *)
Resolved(c) == version = c.version

InsertBeside(b, p) == B!Insert(B!GotoChar(b, p), Snippet)
ThingEdited(b, c) ==
  CASE c.what = "replace" ->
         B!Insert(B!DeleteRegion(B!GotoChar(b, c.span.start), c.span.start, c.span.end), Snippet)
    [] c.what = "before" -> InsertBeside(b, c.span.start)
    [] c.what = "after" -> InsertBeside(b, c.span.end)
ApplyThing ==
  /\ call # Nothing /\ call.phase = "apply"
  /\ Answers(IF Resolved(call) THEN Done(ThingEdited(buf, call)) ELSE Refused(buf), call)
  /\ UNCHANGED node

(***************************************************************************)
(* Nodes.  A node value keeps its parse; only a parse of the version the   *)
(* buffer has now may be edited, and only inside the restriction.          *)
(***************************************************************************)
Node(n, b, v) == [start |-> n.start, end |-> n.end, text |-> b.text, version |-> v]
Live == node # Nothing /\ node.version = version

HoldNode == \E p \in Its.spots : Idle /\ Reads /\ node' = Node(NodeAt(buf.text, p), buf, version)
                            /\ UNCHANGED <<buf, call>>
Editing == [start |-> node.start, end |-> node.end]
HoldParent ==
  /\ Idle /\ Live /\ ParentOf(node.text, Editing) # Nothing
  /\ Reads /\ node' = Node(ParentOf(node.text, Editing), buf, version)
  /\ UNCHANGED <<buf, call>>

(* The span an edit of a node needs: its own, or its parent's. *)
NodeSpan(op) == IF op = "raise" THEN ParentOf(node.text, Editing) ELSE Editing
NodeText == SubSeq(node.text, node.start, node.end - 1)

NodeEdited(op, b) ==
  LET span == NodeSpan(op)
  IN  CASE op = "replace" -> Spliced(b, span.start, span.end, Snippet)
        [] op = "raise" -> Spliced(b, span.start, span.end, NodeText)
        [] op = "wrap" -> InsertBeside(InsertBeside(b, span.end), span.start)
        [] op = "kill" -> B!GotoChar(B!DeleteRegion(b, span.start, span.end), span.start)
        [] op = "sibling before" -> InsertBeside(b, span.start)
        [] op = "sibling after" -> InsertBeside(b, span.end)
NodeOps == {"replace", "raise", "wrap", "kill", "sibling before", "sibling after"}

(* The node that comes back is what now covers the place of the edit. *)
NodeAfter(op, b, v) ==
  IF op = "kill" THEN node
  ELSE Node(NodeAt(b.text, IF op = "sibling after" THEN node.end ELSE NodeSpan(op).start), b, v)

EditNode ==
  /\ Idle /\ node # Nothing
  /\ \E op \in NodeOps :
       LET ok == Live /\ NodeSpan(op) # Nothing /\ Accessible(buf, NodeSpan(op))
       IN  /\ Answers(IF ok THEN Done(NodeEdited(op, buf)) ELSE Refused(buf),
                      [tool |-> "node", asked |-> op, node |-> node])
           /\ node' = IF ok THEN NodeAfter(op, buf', version') ELSE node

(***************************************************************************)
(* Other calls, and other programs.                                        *)
(***************************************************************************)
Goto == \E p \in Its.spots : buf' = B!GotoChar(buf, p)
Narrow == \E p, q \in Its.spots : p < q /\ buf' = B!NarrowToRegion(buf, p, q)
Widen == buf.narrowing # Nothing /\ buf' = B!Widen(buf)
RunProgram == Idle /\ (Goto \/ Narrow \/ Widen) /\ Reads /\ UNCHANGED <<node, call>>

Answer ==
  /\ Answered
  /\ call' = Nothing
  /\ UNCHANGED <<buf, version, stamped, synced, disk, drifted, undo, node, served>>

UndoLast ==
  /\ Idle /\ served /\ served' = FALSE
  /\ undo # Nothing
  /\ buf' = undo.b /\ version' = undo.version /\ undo' = Nothing
  /\ SavesOrNot(synced)
  /\ UNCHANGED <<stamped, drifted, node, call>>

SaveBuffer ==
  /\ Idle /\ ~drifted
  /\ disk' = buf.text /\ synced' = version
  /\ UNCHANGED <<buf, version, stamped, drifted, undo, node, served, call>>

(* Writes in a row, and those no call sees, are one. *)
WriteFile ==
  /\ ~Answered /\ ~drifted
  /\ disk' \in Its.texts /\ drifted' = TRUE
  /\ UNCHANGED <<buf, version, stamped, synced, undo, node, served, call>>

Init ==
  /\ client \in DOMAIN Clients
  /\ disk \in Its.texts /\ buf = B!FromString(disk)
  /\ version = 1 /\ stamped = 1 /\ synced = 1
  /\ drifted = FALSE /\ served = FALSE
  /\ undo = Nothing /\ node = Nothing /\ call = Nothing

Step ==
  \/ Serve \/ ReplaceText \/ InsertText
  \/ BeginThing \/ FindAnchorLine \/ FindThing \/ ApplyThing
  \/ HoldNode \/ HoldParent \/ EditNode
  \/ RunProgram \/ Answer \/ UndoLast \/ SaveBuffer \/ WriteFile
Next == Step /\ UNCHANGED client
Spec == Init /\ [][Next]_vars

(***************************************************************************)
(* Where a call says its edit goes, read off the text without a search.    *)
(***************************************************************************)
Region(b) == [lo |-> B!PointMin(b), hi |-> B!PointMax(b)]
Within(region, span) == region.lo <= span.start /\ span.end <= region.hi
Put(text, start, end, new) == SubSeq(text, 1, start - 1) \o new \o SubSeq(text, end, Len(text))

Occurrences(p, text, region) ==
  {i \in region.lo..(region.hi - Len(p.body)) :
     LET end == i + Len(p.body)
     IN  /\ SubSeq(text, i, end - 1) = p.body
         /\ p.bol => i = region.lo \/ text[i - 1] = "\n"
         /\ p.eol => end = region.hi \/ text[end] = "\n"}
Meet(p, i, j) == i = j \/ (i < j /\ j < i + Len(p.body)) \/ (j < i /\ i < j + Len(p.body))

(* The matches an edit replaces: the only one, the first one, all that do    *)
(* not begin in another; none when it must refuse.                           *)
Chosen(e, text, region) ==
  LET found == Occurrences(e.pattern, text, region)
      first == {i \in found : \A j \in found : i <= j}
      apart == {D \in SUBSET found :
                  \A i \in found : i \in D <=> ~\E j \in D : j < i /\ Meet(e.pattern, i, j)}
  IN  CASE e.how = "unique" -> {i \in first : \A j \in found : Meet(e.pattern, i, j)}
        [] e.how = "first" -> first
        [] e.how = "all" -> UNION apart

Replaced(e, text, D) ==
  LET new == B!ExpandBackrefs(e.rep, e.pattern.body)
      kept(k) == k <= Len(text) /\ ~\E i \in D : i <= k /\ k < i + Len(e.pattern.body)
  IN  FlattenSeq([k \in 1..(Len(text) + 1) |->
        (IF k \in D THEN new ELSE <<>>) \o (IF kept(k) THEN <<text[k]>> ELSE <<>>)])

(* What edits in a row leave of a region, Nothing when one must refuse.      *)
Rewritten(edits, text, region) ==
  FoldLeft(LAMBDA t, e :
             IF t = Nothing THEN Nothing
             ELSE LET now == [region EXCEPT !.hi = @ + Len(t) - Len(text)]
                      D == Chosen(e, t, now)
                  IN  IF D = {} THEN Nothing ELSE Replaced(e, t, D),
           text, edits)

Refuses(c) == c.phase = "refused" /\ buf.text = c.before.text
Leaves(c, text) == c.phase = "done" /\ buf.text = text
LandsAt(c, p) == Leaves(c, Put(c.before.text, p, p, Snippet))

(* A definition that begins outside the restriction is not claimed to be     *)
(* found: point stops at the edge (README, known divergences).               *)
ReplacesWhatItNames(c) ==
  LET b == c.before
      d == FindDefun(b.text, c.asked.scope)
      leaves(region) ==
        LET text == Rewritten(c.asked.edits, b.text, region)
        IN  IF text = Nothing THEN Refuses(c) ELSE Leaves(c, text)
  IN  CASE c.asked.scope = Nothing -> leaves(Region(b))
        [] c.asked.scope # Nothing /\ d = Nothing -> Refuses(c)
        [] c.asked.scope # Nothing /\ d # Nothing ->
             LET x == DefunExtent(b.text, d)
             IN  x.start \in Region(b).lo..Region(b).hi => leaves([lo |-> x.start, hi |-> x.end])

(* The ends of the line of a position, as far as they are accessible.        *)
LineEdge(text, region, p, where) ==
  IF where = "after" THEN Min({q \in p..region.hi : q = region.hi \/ text[q] = "\n"})
  ELSE Max({q \in region.lo..p : q = region.lo \/ text[q - 1] = "\n"})

InsertsWhereItNames(c) ==
  LET b == c.before
      region == Region(b)
      place == c.asked
      only(body) == Chosen([pattern |-> Literally(body), how |-> "unique"], b.text, region)
  IN  CASE place.at = "point" -> LandsAt(c, b.point)
        [] place.at = "pos" -> LandsAt(c, Min({region.hi, Max({region.lo, place.pos})}))
        [] place.at = "bob" -> LandsAt(c, region.lo)
        [] place.at = "eob" -> LandsAt(c, region.hi)
        [] place.at = "line" ->
             IF only(place.text) = {} THEN Refuses(c)
             ELSE \E i \in only(place.text) : LandsAt(c, LineEdge(b.text, region, i, place.where))
        [] place.at = "defun" ->
             LET d == FindDefun(b.text, place.name)
             IN  IF d = Nothing THEN Refuses(c)
                 ELSE Within(region, DefunExtent(b.text, d)) =>
                      LandsAt(c, IF place.where = "after" THEN d.end ELSE DefunExtent(b.text, d).start)

(* All the texts the call read are the one it edits.                         *)
EditsTheThing(c) ==
  c.phase = "done" =>
    /\ c.seen = {c.before.text}
    /\ c.asked.kind # "defun" => Within(Region(c.before), c.span)
    /\ Within(Region(c.before), c.span) =>
         CASE c.what = "replace" -> Leaves(c, Put(c.before.text, c.span.start, c.span.end, Snippet))
           [] c.what = "before" -> LandsAt(c, c.span.start)
           [] c.what = "after" -> LandsAt(c, c.span.end)

EditsTheNode(c) ==
  LET text == c.node.text
      n == [start |-> c.node.start, end |-> c.node.end]
      around == ParentOf(text, n)
  IN  c.phase = "done" =>
        /\ c.before.text = text
        /\ Leaves(c,
             CASE c.asked = "replace" -> Put(text, n.start, n.end, Snippet)
               [] c.asked = "kill" -> Put(text, n.start, n.end, <<>>)
               [] c.asked = "wrap" ->
                    Put(text, n.start, n.end, Snippet \o SubSeq(text, n.start, n.end - 1) \o Snippet)
               [] c.asked = "raise" ->
                    Put(text, around.start, around.end, SubSeq(text, n.start, n.end - 1))
               [] c.asked = "sibling before" -> Put(text, n.start, n.start, Snippet)
               [] c.asked = "sibling after" -> Put(text, n.end, n.end, Snippet))

(* An edit lands exactly where the call names, in the text the call named it *)
(* in: the only match and not the first of several, each match of the text   *)
(* as it stood, the line that has the anchor, the thing and the node as they *)
(* were read, whatever was narrowed, undone, or written to the file in       *)
(* between; and a call that refuses leaves the text alone.                   *)
EditsLandWhereNamed ==
  Answered =>
    /\ call.phase = "refused" => Refuses(call)
    /\ CASE call.tool = "replace" -> ReplacesWhatItNames(call)
         [] call.tool = "insert" -> InsertsWhereItNames(call)
         [] call.tool = "thing" -> EditsTheThing(call)
         [] call.tool = "node" -> EditsTheNode(call)
=============================================================================
