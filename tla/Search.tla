------------------------------- MODULE Search -------------------------------
(***************************************************************************)
(* The grep tool (mcp.rs): a walk over the files under some directories,   *)
(* which leaves out what git ignores and gives up at a bound, and the      *)
(* lines it tells of, up to a limit, from the files as they are on disk.   *)
(*                                                                         *)
(* A name is a sequence of characters and a path a sequence of names.  The *)
(* pattern is the character "x"; a text is a sequence of lines.            *)
(***************************************************************************)
EXTENDS Integers, Sequences, FiniteSets, SequencesExt, TLC

CONSTANTS
  Trees,    \* [files, ignored, tracked, unsaved, bases]: path -> what is
            \* there, what git ignores and tracks, the files with a warm
            \* buffer that has unsaved edits, the directories to search
  Globs,    \* globs, or NoGlob
  NoGlob,
  Limits,   \* matches to tell of
  Contexts, \* lines of context
  MaxFiles, \* bounds of the walk
  MaxDepth,
  MaxLine   \* characters of a line that are shown

VARIABLES
  tree,    \* one of Trees
  order,   \* directory -> its entries as read_dir returns them
  query,   \* [glob, limit, nlines]
  answer   \* what grep said: a sequence of one, once it has

searchVars == <<tree, order, query, answer>>

NoText == <<<<"binary">>>>  \* or a file too large
Link == <<<<"link">>>>

-----------------------------------------------------------------------------
(* Names in order: bytes, and bytes with the names' ends before them all.  *)
Bytes == <<"-", ".", "/", "a", "b">>
Components == <<"/", "-", ".", "a", "b">>
Rank(alphabet, c) == CHOOSE i \in 1..Len(alphabet) : alphabet[i] = c
Less(alphabet, s, t) ==
  \E i \in 1..Len(t) :
    /\ Len(s) >= i - 1 /\ SubSeq(s, 1, i - 1) = SubSeq(t, 1, i - 1)
    /\ Len(s) = i - 1 \/ Rank(alphabet, s[i]) < Rank(alphabet, t[i])
Sorted(alphabet, texts) == SetToSortSeq(texts, LAMBDA s, t : Less(alphabet, s, t))

TextOf(path) ==
  IF path = <<>> THEN <<>> ELSE FoldLeft(LAMBDA text, name : text \o <<"/">> \o name, path[1], Tail(path))

(* glob_to_regex: a glob as what its characters match.                     *)
GlobItems(glob) ==
  LET at(i, c) == i <= Len(glob) /\ glob[i] = c
      from[i \in 1..Len(glob) + 3] ==
        IF i > Len(glob) THEN <<>>
        ELSE IF at(i, "*") /\ at(i + 1, "*")
             THEN <<"any">> \o from[IF at(i + 2, "/") THEN i + 3 ELSE i + 2]
             ELSE <<CASE glob[i] = "*" -> "star" [] glob[i] = "?" -> "one" [] OTHER -> glob[i]>> \o from[i + 1]
  IN  from[1]

Keeps(glob, text) ==
  LET items == GlobItems(glob)
      m[i \in 1..Len(items) + 1, j \in 1..Len(text) + 1] ==
        IF i > Len(items) THEN j > Len(text)
        ELSE \/ items[i] \in {"any", "star"} /\ m[i + 1, j]
             \/ /\ j <= Len(text)
                /\ \/ items[i] = "any" /\ m[i, j + 1]
                   \/ items[i] = "star" /\ text[j] # "/" /\ m[i, j + 1]
                   \/ items[i] = "one" /\ text[j] # "/" /\ m[i + 1, j + 1]
                   \/ items[i] = text[j] /\ m[i + 1, j + 1]
  IN  m[1, 1]

-----------------------------------------------------------------------------
(* The walk.                                                               *)
IsIgnored(path) == \E p \in tree.ignored : IsPrefix(p, path)

(* Mutant: what is ignored is left out, tracked or not. *)
CoversNone(path, isDir) == FALSE

(* Tracked::covers: is the file tracked, or a file under the directory:    *)
(* the first of the sorted paths that is not before "directory/".          *)
Covers(path, isDir) ==
  LET paths == Sorted(Bytes, {TextOf(p) : p \in tree.tracked})
      prefix == Append(TextOf(path), "/")
      i == Cardinality({k \in 1..Len(paths) : Less(Bytes, paths[k], prefix)}) + 1
  IN  IF isDir THEN i <= Len(paths) /\ IsPrefix(prefix, paths[i])
      ELSE \E k \in 1..Len(paths) : paths[k] = TextOf(path)

Hidden(path) == Last(path)[1] = "."
IsDirectory(path) == path \in DOMAIN order

(* Walk::collect, over one entry; w is [visited, capped, out].             *)
RECURSIVE Collect(_, _, _)
Visit(w, path, base) ==
  LET filters == ~IsIgnored(base)
      rel == SubSeq(path, Len(base) + 1, Len(path))
      kept == query.glob = NoGlob \/ Keeps(query.glob, TextOf(rel))
  IN  IF Hidden(path) THEN w
      ELSE IF filters /\ IsIgnored(path) /\ ~Covers(path, IsDirectory(path)) THEN w
      ELSE IF w.visited >= MaxFiles THEN [w EXCEPT !.capped = TRUE]
      ELSE IF IsDirectory(path) THEN Collect(w, path, base)
      ELSE IF tree.files[path] = Link THEN w
      ELSE [w EXCEPT !.visited = @ + 1, !.out = IF kept THEN Append(@, path) ELSE @]
Collect(w, dir, base) ==
  IF Len(dir) - Len(base) > MaxDepth THEN [w EXCEPT !.capped = TRUE]
  ELSE FoldLeft(LAMBDA v, name : Visit(v, Append(dir, name), base), w, order[dir])

-----------------------------------------------------------------------------
(* grep_matches: the first match of each line that has one, and where it   *)
(* is in the text.                                                         *)
Column(line) == SelectInSeq(line, LAMBDA c : c = "x")
StartOf(lines, i) == 1 + FoldLeft(LAMBDA n, l : n + Len(l) + 1, 0, SubSeq(lines, 1, i - 1))
GrepMatches(lines) ==
  LET hits == SelectSeq([i \in 1..Len(lines) |-> i], LAMBDA i : Column(lines[i]) > 0)
  IN  [h \in 1..Len(hits) |-> [line |-> hits[h], at |-> StartOf(lines, hits[h]) + Column(lines[hits[h]]) - 1]]

Least(a, b) == IF a < b THEN a ELSE b
Most(a, b) == IF a > b THEN a ELSE b

(* clamp_line: the part of a line that is shown, around a column.          *)
ClampLine(line, focus) ==
  LET start == Least(Most(focus - 1 - MaxLine \div 2, 0), Len(line) - MaxLine)
  IN  IF Len(line) <= MaxLine THEN [from |-> 1, to |-> Len(line)]
      ELSE [from |-> start + 1, to |-> start + MaxLine]

(* What is printed of a file: the hits and the lines around them.          *)
Printed(lines, hits) ==
  LET near == {i \in 1..Len(lines) : \E h \in 1..Len(hits) : i \in hits[h].line - query.nlines..hits[h].line + query.nlines}
      told(i) == SelectSeq(hits, LAMBDA h : h.line = i)
      focus(i) == IF told(i) = <<>> THEN 1 ELSE Column(lines[i])
      shown(i) == [line |-> i, hit |-> told(i) # <<>>, window |-> ClampLine(lines[i], focus(i))]
      rows == SelectSeq([i \in 1..Len(lines) |-> i], LAMBDA i : i \in near)
  IN  [k \in 1..Len(rows) |-> shown(rows[k])]

(* One file; g is [total, stopped, told, unsaved].                         *)
GrepFile(g, path) ==
  LET lines == tree.files[path]
      hits == GrepMatches(lines)
      remaining == query.limit - g.total
      render == Least(Len(hits), remaining)
  IN  IF g.stopped \/ lines = NoText \/ hits = <<>> THEN g
      ELSE IF remaining = 0 THEN [g EXCEPT !.stopped = TRUE]
      ELSE [total |-> g.total + render,
            stopped |-> render < Len(hits),
            told |-> Append(g.told, [path |-> path, of |-> Len(hits), hits |-> SubSeq(hits, 1, render),
                                     rows |-> Printed(lines, SubSeq(hits, 1, render))]),
            unsaved |-> IF path \in tree.unsaved THEN Append(g.unsaved, path) ELSE g.unsaved]

(* tool_grep: the bounds of the walk and the limit go on from one          *)
(* directory to the next.                                                  *)
GrepIn(st, base) ==
  LET w == Collect([visited |-> st.visited, capped |-> st.capped, out |-> <<>>], base, base)
      files == SetToSortSeq(ToSet(w.out), LAMBDA p, q : Less(Components, TextOf(p), TextOf(q)))
  IN  IF st.g.stopped THEN st
      ELSE [visited |-> w.visited, capped |-> w.capped, g |-> FoldLeft(GrepFile, st.g, files)]

ToolGrep ==
  FoldLeft(GrepIn,
           [visited |-> 0, capped |-> FALSE, g |-> [total |-> 0, stopped |-> FALSE, told |-> <<>>, unsaved |-> <<>>]],
           tree.bases)

-----------------------------------------------------------------------------
Directories(t) == UNION {{SubSeq(p, 1, n) : n \in 0..Len(p) - 1} : p \in DOMAIN t.files}
Entries(t, dir) ==
  {p[Len(dir) + 1] : p \in {q \in DOMAIN t.files : Len(q) > Len(dir) /\ IsPrefix(dir, q)}}

(* Directories may be read forward, or backward.                           *)
SearchInit ==
  /\ tree \in Trees
  /\ \E turned \in SUBSET Directories(tree) :
       order = [d \in Directories(tree) |->
                  LET there == Sorted(Components, Entries(tree, d))
                  IN  IF d \in turned THEN Reverse(there) ELSE there]
  /\ query \in [glob : Globs, limit : Limits, nlines : Contexts]
  /\ answer = <<>>

SearchNext ==
  /\ answer = <<>>
  /\ answer' = <<ToolGrep>>
  /\ UNCHANGED <<tree, order, query>>

SearchSpec == SearchInit /\ [][SearchNext]_searchVars

-----------------------------------------------------------------------------
(* What is to be searched: every file of text under the directories that   *)
(* no hidden name and no link leads to, that the glob keeps, and that git  *)
(* tracks or does not ignore, unless the directory itself is ignored.      *)
Eligible ==
  {p \in DOMAIN tree.files :
     /\ tree.files[p] \notin {NoText, Link}
     /\ \E b \in ToSet(tree.bases) :
          LET rel == SubSeq(p, Len(b) + 1, Len(p)) IN
          /\ IsPrefix(b, p) /\ rel # <<>>
          /\ \A n \in 1..Len(rel) : rel[n][1] # "."
          /\ query.glob = NoGlob \/ Keeps(query.glob, TextOf(rel))
          /\ IsIgnored(b) \/ p \in tree.tracked \/ ~IsIgnored(p)}

(* The whole text of a file, and which of its characters are told of.      *)
Text(p) == FlattenSeq([i \in 1..Len(tree.files[p]) |-> Append(tree.files[p][i], "\n")])
LinesWith(p) == {i \in 1..Len(tree.files[p]) : \E c \in 1..Len(tree.files[p][i]) : tree.files[p][i][c] = "x"}

(* What grep tells is there: each line once, at a place where the text has *)
(* a match, and shown around it.  What it does not tell, it says it has    *)
(* left out: when it says neither that it stopped nor that it was capped,  *)
(* every match in every eligible file is told, in whatever order the       *)
(* directories were read; it says it stopped only when the limit is used   *)
(* up and there is more; and a file whose warm buffer has unsaved edits is *)
(* marked.                                                                 *)
GrepIsExact ==
  \A i \in DOMAIN answer :
    LET said == answer[i]
        told == said.g.told
        hits(p) == UNION {ToSet(told[k].hits) : k \in {j \in 1..Len(told) : told[j].path = p}}
        count == FoldLeft(LAMBDA n, f : n + Len(f.hits), 0, told)
    IN
    /\ \A k \in 1..Len(told) :
         LET f == told[k] IN
         /\ f.path \in Eligible /\ \A j \in 1..k - 1 : told[j].path # f.path
         /\ f.of = Cardinality(LinesWith(f.path))
         /\ \A h \in ToSet(f.hits) :
              /\ Text(f.path)[h.at] = "x"
              /\ h.line = 1 + Cardinality({c \in 1..h.at : Text(f.path)[c] = "\n"})
              /\ \E r \in ToSet(f.rows) :
                   /\ r.hit /\ r.line = h.line
                   /\ Column(tree.files[f.path][r.line]) \in r.window.from..r.window.to
         /\ Cardinality({r.line : r \in ToSet(f.rows)}) = Len(f.rows)
         /\ f.path \in tree.unsaved <=> f.path \in ToSet(said.g.unsaved)
    /\ count = said.g.total /\ count <= query.limit
    /\ ~said.capped =>
         LET untold == {p \in Eligible : {h.line : h \in hits(p)} # LinesWith(p)} IN
         said.g.stopped <=> untold # {}
    /\ said.g.stopped => count = query.limit
=============================================================================
