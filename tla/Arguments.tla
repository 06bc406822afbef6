------------------------------ MODULE Arguments ------------------------------
(***************************************************************************)
(* How the tool front end reads the arguments of a call (src/src/mcp.rs):  *)
(* borrowed spellings are rewritten to the tool's own, undeclared keys     *)
(* refused, and what is left parsed to the one thing asked for.            *)
(*                                                                         *)
(* Arguments are a function from the keys given to their values; a value   *)
(* is a pair of its JSON type and what it holds.  An operator that may     *)
(* refuse returns the set of what it returns: none, or one.                *)
(***************************************************************************)
EXTENDS Integers, Sequences, FiniteSets, TLC

CONSTANTS
  Offers,   \* for each tool: what its calls start with, and the arguments
            \* clients add, keys with a value
  MaxKeys,  \* bound: arguments in a call
  None

VARIABLES
  tool,   \* the tool called
  said,   \* the arguments as the client spelled them
  answer  \* None until the call is sent, then what it asked for, if anything
vars == <<tool, said, answer>>

Num(n) == <<"integer", n>>
Text(s) == <<"string", s>>
Flag(b) == <<"boolean", b>>
List(s) == <<"array", s>>
Object(f) == <<"object", f>>

Given(a, k) == k \in DOMAIN a
Is(a, k, type) == Given(a, k) /\ a[k][1] = type
AnyOf(a, keys) == keys \cap DOMAIN a # {}
Without(a, keys) == [k \in DOMAIN a \ keys |-> a[k]]
With(a, k, v) == (k :> v) @@ a
Or(a, k, type, default) == IF Is(a, k, type) THEN a[k][2] ELSE default

-----------------------------------------------------------------------------
(***************************************************************************)
(* Spellings.                                                              *)
(***************************************************************************)
Renames(t) ==
  CASE t = "occur" -> <<<<"regexp", "pattern">>, <<"regex", "pattern">>>>
    [] t = "replace_text" ->
         <<<<"old", "pattern">>, <<"old_text", "pattern">>, <<"find", "pattern">>, <<"new", "replacement">>,
           <<"new_text", "replacement">>, <<"replace", "replacement">>, <<"replace_all", "all">>>>
    [] t = "insert_text" -> <<<<"location", "pos">>, <<"position", "pos">>, <<"at", "pos">>>>
    [] t = "fill_text" ->
         <<<<"fill_column", "column">>, <<"width", "column">>, <<"fill_prefix", "prefix">>,
           <<"position", "pos">>, <<"at", "pos">>>>
    [] t = "view" -> <<<<"from", "start">>, <<"to", "end">>, <<"count", "context">>>>
    [] t = "git_rebase" -> <<<<"upstream", "from">>, <<"path", "repo">>>>
    [] t = "git_fixup" -> <<<<"commit", "target">>, <<"path", "repo">>>>
    [] t = "git_blame" -> <<<<"file", "path">>>>
    [] t = "git_reword" -> <<<<"path", "repo">>>>
    [] OTHER -> <<>>

(* Mutant: of two keys that mean the same, the borrowed one wins.            *)
RenamedOver(a, r) ==
  IF ~Given(a, r[1]) THEN {a} ELSE {With(Without(a, {r[1]}), r[2], a[r[1]])}

Renamed(a, r) ==
  IF ~Given(a, r[1]) THEN {a}
  ELSE IF Given(a, r[2]) THEN {}
  ELSE {With(Without(a, {r[1]}), r[2], a[r[1]])}

Rewrite(t, a) ==
  LET rewritten[n \in 0..Len(Renames(t))] ==
        IF n = 0 THEN {a} ELSE UNION {Renamed(b, Renames(t)[n]) : b \in rewritten[n - 1]}
  IN  rewritten[Len(Renames(t))]

(* The entries of `edits` are spelled like the arguments themselves.         *)
RewriteEdits(t, a) ==
  LET items == a["edits"][2]
      new(i) == IF items[i][1] = "object" THEN {Object(e) : e \in Rewrite(t, items[i][2])} ELSE {items[i]}
  IN  IF ~Is(a, "edits", "array") THEN {a}
      ELSE IF \E i \in DOMAIN items : new(i) = {} THEN {}
      ELSE {With(a, "edits", List([i \in DOMAIN items |-> CHOOSE e \in new(i) : TRUE]))}

(* before and after stand for an anchor, in the call or in the anchor.       *)
Sides(a) == {"before", "after"} \cap DOMAIN a
Lifted(a) ==
  IF Sides(a) = {} THEN {a}
  ELSE IF Cardinality(Sides(a)) = 2 \/ AnyOf(a, {"anchor", "pos"}) THEN {}
  ELSE {With(Without(a, Sides(a)), "anchor", Object([s \in Sides(a) |-> a[s]]))}
Anchored(a) ==
  LET anchor == a["anchor"][2]
      side == CHOOSE s \in Sides(anchor) : TRUE
  IN  IF ~Is(a, "anchor", "object") THEN {a}
      ELSE IF Sides(anchor) = {} THEN {a}
      ELSE IF Cardinality(Sides(anchor)) = 2 \/ AnyOf(anchor, {"pattern", "defun", "where"})
              \/ ~Is(anchor, side, "string") THEN {}
      ELSE {With(a, "anchor", Object(With(With(Without(anchor, {side}), "pattern", anchor[side]),
                                          "where", Text(side))))}
InsertSugar(a) == UNION {Anchored(b) : b \in Lifted(a)}

(* A number of lines is context; start_line and end_line are lines, or line. *)
ContextGuess(a) ==
  IF ~Is(a, "lines", "integer") THEN {a}
  ELSE IF Given(a, "context") THEN {}
  ELSE {With(Without(a, {"lines"}), "context", a["lines"])}
LineGuess(a) ==
  LET rest == Without(a, {"start_line", "end_line"})
      key == IF Given(a, "end_line") THEN "lines" ELSE "line"
  IN  IF ~AnyOf(a, {"start_line", "end_line"}) THEN {a}
      ELSE IF ~Given(a, "start_line") \/ Given(a, key) THEN {}
      ELSE {With(rest, key, IF key = "line" THEN a["start_line"] ELSE List(<<a["start_line"], a["end_line"]>>))}
ViewGuesses(a) == UNION {LineGuess(b) : b \in ContextGuess(a)}

(* regexp says more than the name of a key. *)
WithIntent(t, a, b) ==
  IF t = "occur" /\ AnyOf(a, {"regexp", "regex"}) /\ ~Given(a, "mode") THEN With(b, "mode", Text("regex")) ELSE b

OneReadingValues(t, a) ==
  IF t = "close_session" /\ Or(a, "session", "string", "") = "*"
  THEN IF Given(a, "all") THEN {} ELSE {With(Without(a, {"session"}), "all", Flag(TRUE))}
  ELSE {a}

NormalizeAliases(t, a) ==
  LET guessed == IF t = "insert_text" THEN InsertSugar(a) ELSE IF t = "view" THEN ViewGuesses(a) ELSE {a}
      renamed == UNION {{WithIntent(t, b, c) : c \in Rewrite(t, b)} : b \in guessed}
  IN  UNION {OneReadingValues(t, c) : c \in UNION {RewriteEdits(t, b) : b \in renamed}}

-----------------------------------------------------------------------------
(***************************************************************************)
(* What is declared.                                                       *)
(***************************************************************************)
Addressing == {"session", "path"}
Git == {"git_rebase", "git_fixup", "git_commit", "git_reword", "git_blame"}
Saves == {"save", "rehearse"}
ViewKeys == Addressing \cup {"lines", "line", "pos", "context", "start", "end", "thing"}
InsertKeys == Addressing \cup Saves \cup {"text", "pos", "anchor", "expect_unique", "thing", "where"}
ReplaceKeys ==
  Addressing \cup Saves
    \cup {"pattern", "replacement", "thing", "mode", "all", "expect_unique", "scope", "edits"}
FillKeys == Addressing \cup Saves \cup {"pos", "anchor", "lines", "all", "column", "prefix"}
OccurKeys == Addressing \cup {"pattern", "mode", "case_insensitive", "nlines", "limit", "scope"}
CloseKeys == Addressing \cup {"sessions", "paths", "all", "force"}
RebaseKeys == {"repo", "onto", "from", "plan", "autosquash", "fill", "rehearse", "update_refs"}
FixupKeys == {"repo", "target", "source", "paths", "hunks", "worktree", "rehearse", "update_refs"}
CommitKeys == {"repo", "paths", "hunks", "message", "after", "fill", "update_refs"}
RewordKeys == {"repo", "commit", "message", "message_edits", "fill", "rehearse", "update_refs"}
BlameKeys == {"repo", "path", "lines", "since", "worktree", "group_by"}
Keys(t) ==
  CASE t = "view" -> ViewKeys [] t = "insert_text" -> InsertKeys [] t = "replace_text" -> ReplaceKeys
    [] t = "fill_text" -> FillKeys [] t = "occur" -> OccurKeys [] t = "close_session" -> CloseKeys
    [] t = "git_rebase" -> RebaseKeys [] t = "git_fixup" -> FixupKeys [] t = "git_commit" -> CommitKeys
    [] t = "git_reword" -> RewordKeys [] t = "git_blame" -> BlameKeys
Nested(t, k) ==
  CASE k = "hunks" -> {"path", "lines", "contains"}
    [] k = "plan" -> {"commit", "action", "message", "message_edits"}
    [] k = "autosquash" -> {"commit", "into", "action"}
    [] k = "message_edits" -> {"find", "replace", "append", "delete"}
    [] k = "thing" -> {"kind", "at", "after", "before", "up"}
    [] k = "anchor" -> IF t = "fill_text" THEN {"pattern"} ELSE {"defun", "pattern", "where", "before", "after"}
    [] k = "scope" -> {"defun"}
    [] k = "edits" -> {"pattern", "replacement", "all", "expect_unique", "mode"}
    [] OTHER -> {}
Declared(t, k, v) ==
  /\ v[1] = "object" => DOMAIN v[2] \subseteq Nested(t, k)
  /\ v[1] = "array" => \A i \in DOMAIN v[2] : v[2][i][1] = "object" => DOMAIN v[2][i][2] \subseteq Nested(t, k)
ValidateArgs(t, a) == DOMAIN a \subseteq Keys(t) /\ \A k \in DOMAIN a : Declared(t, k, a[k])

StrictBool(a, k) == Given(a, k) => a[k][1] = "boolean"
BoolArg(a, k) == Or(a, k, "boolean", FALSE)

-----------------------------------------------------------------------------
(***************************************************************************)
(* What is asked for.                                                      *)
(***************************************************************************)
SessionOf(a) ==
  IF Is(a, "path", "string") THEN IF Is(a, "session", "string") THEN {} ELSE {a["path"]}
  ELSE {<<"session", Or(a, "session", "string", "default")>>}

Locators(o) == {"at", "after", "before"} \cap DOMAIN o
ThingSpec(a) ==
  LET o == a["thing"][2]
      by == CHOOSE k \in Locators(o) : TRUE
      up == Or(o, "up", "integer", 0)
  IN  IF ~Given(a, "thing") THEN {None}
      ELSE IF ~Is(a, "thing", "object") THEN {}
      ELSE IF /\ Is(o, "kind", "string") /\ Cardinality(Locators(o)) = 1
              /\ IF by = "at" THEN Is(o, by, "integer") /\ o[by][2] >= 1
                 ELSE Is(o, by, "string") /\ o[by][2] # ""
              /\ Given(o, "up") => Is(o, "up", "integer") /\ up >= 0
              /\ up > 0 => o["kind"][2] \in {"sexp", "list"}
      THEN {[kind |-> o["kind"][2], by |-> by, at |-> o[by], up |-> up]} ELSE {}

LineRange(a) ==
  LET s == a["lines"][2]
  IN  IF ~Given(a, "lines") THEN {None}
      ELSE IF ~Is(a, "lines", "array") THEN {}
      ELSE IF /\ Len(s) = 2 /\ \A i \in DOMAIN s : s[i][1] = "integer"
              /\ 1 <= s[1][2] /\ s[1][2] <= s[2][2]
      THEN {<<s[1][2], s[2][2]>>} ELSE {}

(* One form, and context only around a line, a position or the cursor.       *)
ViewForms(a) ==
  {f \in {{"lines"}, {"line", "pos"}, {"start", "end"}, {"thing"}} : AnyOf(a, f)}
CenterOf(a) ==
  IF Given(a, "line") THEN IF Or(a, "line", "integer", 0) >= 1 THEN {a["line"]} ELSE {}
  ELSE IF Given(a, "pos") THEN IF Is(a, "pos", "integer") THEN {<<"pos", a["pos"]>>} ELSE {}
  ELSE {<<"point", 0>>}
ViewForm(a) ==
  LET n == Or(a, "context", "integer", IF Given(a, "context") THEN -1 ELSE 4)
  IN  IF \/ Cardinality(ViewForms(a)) > 1 \/ {"line", "pos"} \subseteq DOMAIN a
         \/ Given(a, "context") /\ ViewForms(a) \notin {{}, {{"line", "pos"}}} THEN {}
      ELSE IF Given(a, "thing") THEN {<<"thing", s>> : s \in ThingSpec(a)}
      ELSE IF Given(a, "lines") THEN {<<"lines", r>> : r \in LineRange(a)}
      ELSE IF AnyOf(a, {"start", "end"})
      THEN IF /\ Is(a, "start", "integer") /\ Is(a, "end", "integer") /\ a["start"][2] <= a["end"][2]
           THEN {<<"chars", a["start"][2], a["end"][2]>>} ELSE {}
      ELSE IF n < 0 THEN {} ELSE {<<"around", c, n>> : c \in CenterOf(a)}

(* anchor: a definition or the line that holds a text, and the side of it.   *)
AnchorOf(a) ==
  LET o == a["anchor"][2]
      side == Or(o, "where", "string", "after")
      names == {k \in {"defun", "pattern"} : Is(o, k, "string")}
  IN  IF ~Given(a, "anchor") THEN {None}
      ELSE IF /\ Is(a, "anchor", "object") /\ side \in {"after", "before"} /\ Cardinality(names) = 1
              /\ ~("pattern" \in names /\ o["pattern"][2] = "")
      THEN {[by |-> k, at |-> o[k], side |-> side] : k \in names} ELSE {}
PosOf(a) ==
  IF ~Given(a, "pos") THEN {<<"point", 0>>}
  ELSE IF Is(a, "pos", "integer") THEN {a["pos"]}
  ELSE {<<"edge", e>> : e \in {x \in {"eob", "end", "bob", "start"} : Is(a, "pos", "string") /\ a["pos"][2] = x}}

Where(a) == IF Given(a, "where") THEN {s \in {"after", "before"} : a["where"] = Text(s)} ELSE {"after"}
InsertPlace(a) ==
  IF Or(a, "expect_unique", "boolean", TRUE) = FALSE \/ ~Is(a, "text", "string") THEN {}
  ELSE IF Given(a, "thing")
  THEN IF AnyOf(a, {"pos", "anchor"}) THEN {}
       ELSE {<<"thing", s, w>> : s \in ThingSpec(a), w \in Where(a)}
  ELSE IF Given(a, "where") \/ {"anchor", "pos"} \subseteq DOMAIN a THEN {}
  ELSE IF Given(a, "anchor") THEN {<<"anchor", s>> : s \in AnchorOf(a)}
  ELSE PosOf(a)

Unique(o) ==
  LET all == BoolArg(o, "all")
  IN  IF Or(o, "expect_unique", "boolean", FALSE) /\ all THEN {} ELSE {Or(o, "expect_unique", "boolean", ~all)}
RegexMode(o) ==
  IF Is(o, "mode", "string") THEN {m = "regex" : m \in {o["mode"][2]} \cap {"exact", "regex"}} ELSE {FALSE}
ScopeOf(a) ==
  IF ~Given(a, "scope") THEN {None}
  ELSE IF Is(a, "scope", "object") /\ Is(a["scope"][2], "defun", "string") THEN {a["scope"][2]["defun"][2]} ELSE {}

SingleEdit(o) ==
  IF Is(o, "pattern", "string") /\ Is(o, "replacement", "string") /\ o["pattern"][2] # ""
  THEN {[pattern |-> o["pattern"][2], by |-> o["replacement"][2], all |-> BoolArg(o, "all"), unique |-> u, regex |-> r] :
          u \in Unique(o), r \in RegexMode(o)}
  ELSE {}
DefaultMode(a, o) == IF Given(a, "mode") /\ ~Given(o, "mode") THEN With(o, "mode", a["mode"]) ELSE o
BatchEdits(a) ==
  LET items == a["edits"][2]
      edit(i) == IF items[i][1] = "object" THEN SingleEdit(DefaultMode(a, items[i][2])) ELSE {}
  IN  IF ~Is(a, "edits", "array") THEN {}
      ELSE IF items = <<>> \/ \E i \in DOMAIN items : edit(i) = {} THEN {}
      ELSE {[i \in DOMAIN items |-> CHOOSE e \in edit(i) : TRUE]}
ReplaceWhat(a) ==
  IF Given(a, "thing")
  THEN IF AnyOf(a, {"pattern", "edits", "all", "mode", "expect_unique", "scope"})
          \/ ~Is(a, "replacement", "string") THEN {}
       ELSE {<<"thing", s, a["replacement"]>> : s \in ThingSpec(a)}
  ELSE IF Given(a, "edits")
  THEN IF AnyOf(a, {"pattern", "replacement"}) THEN {}
       ELSE {<<"batch", e, s>> : e \in BatchEdits(a), s \in ScopeOf(a)}
  ELSE {<<"edit", e, s>> : e \in SingleEdit(a), s \in ScopeOf(a)}

FillTargets(a) == {k \in {"pos", "anchor", "lines"} : Given(a, k)} \cup (IF BoolArg(a, "all") THEN {"all"} ELSE {})
FillTarget(a) ==
  LET at == CHOOSE k \in FillTargets(a) : TRUE
  IN  IF Cardinality(FillTargets(a)) > 1 \/ ~StrictBool(a, "all") THEN {}
      ELSE IF FillTargets(a) = {} THEN {<<"point", 0>>}
      ELSE CASE at = "pos" -> IF Is(a, "pos", "integer") THEN {a["pos"]} ELSE {}
             [] at = "anchor" -> {<<"anchor", s>> : s \in AnchorOf(a)}
             [] at = "lines" -> {<<"lines", r>> : r \in LineRange(a)}
             [] at = "all" -> {<<"all", 0>>}
FillWhat(a) ==
  IF \/ Given(a, "column") /\ Or(a, "column", "integer", 0) < 1
     \/ Given(a, "prefix") /\ Or(a, "prefix", "string", "") = "" THEN {}
  ELSE {<<"fill", t, Or(a, "column", "integer", 80), Or(a, "prefix", "string", "")>> : t \in FillTarget(a)}

OccurWhat(a) ==
  IF ~Is(a, "pattern", "string") THEN {}
  ELSE {<<"occur", a["pattern"][2], r, BoolArg(a, "case_insensitive"), Or(a, "nlines", "integer", 0),
          Or(a, "limit", "integer", 100), s>> : r \in RegexMode(a), s \in ScopeOf(a)}

CloseWhat(a) ==
  LET one == AnyOf(a, Addressing)
      many == AnyOf(a, {"sessions", "paths"})
  IN  IF ~StrictBool(a, "all") \/ (BoolArg(a, "all") /\ (one \/ many)) THEN {}
      ELSE IF BoolArg(a, "all") THEN {<<"every", BoolArg(a, "force")>>}
      ELSE {<<"close", IF one \/ ~many THEN {s} ELSE {}, Or(a, "paths", "array", <<>>),
              Or(a, "sessions", "array", <<>>), BoolArg(a, "force")>> : s \in SessionOf(a)}

-----------------------------------------------------------------------------
(***************************************************************************)
(* The history tools.                                                      *)
(***************************************************************************)
Each(s, Parsed(_)) ==
  IF \E i \in DOMAIN s : Parsed(s[i]) = {} THEN {} ELSE {[i \in DOMAIN s |-> CHOOSE v \in Parsed(s[i]) : TRUE]}

FillArg(a) ==
  IF ~Given(a, "fill") \/ a["fill"] = Flag(TRUE) THEN {72}
  ELSE IF a["fill"] = Flag(FALSE) THEN {0}
  ELSE {n \in {Or(a, "fill", "integer", 0)} : n >= 1}

(* A selector names a file, and its lines or a text they hold.               *)
HunkSel(v) ==
  LET o == v[2]
  IN  IF v[1] # "object" THEN {}
      ELSE IF ~Is(o, "path", "string") \/ Given(o, "lines") = Given(o, "contains") THEN {}
      ELSE IF Given(o, "contains") THEN {<<o["path"], c>> : c \in {o["contains"]} \cap {Text(Or(o, "contains", "string", ""))}}
      ELSE {<<o["path"], r>> : r \in LineRange(o)}
Hunks(a) ==
  IF ~Given(a, "hunks") THEN {<<>>} ELSE IF Is(a, "hunks", "array") THEN Each(a["hunks"][2], HunkSel) ELSE {}
Strings(a, k) ==
  IF ~Given(a, k) THEN {<<>>}
  ELSE IF Is(a, k, "array") /\ \A i \in DOMAIN a[k][2] : a[k][2][i][1] = "string" THEN {a[k][2]} ELSE {}
OptStrings(a, k) == SelectSeq(Or(a, k, "array", <<>>), LAMBDA v : v[1] = "string")

(* Deleting text is asked for by leaving out the replacement, or by saying   *)
(* so, and then a text to find is needed.                                    *)
MsgEdit(v) ==
  LET o == v[2]
      part(k) == Or(o, k, "string", None)
  IN  IF BoolArg(o, "delete") /\ (Given(o, "replace") \/ ~Given(o, "find")) THEN {}
      ELSE {[find |-> part("find"), replace |-> part("replace"), append |-> part("append")]}
MsgEdits(o) == Each(Or(o, "message_edits", "array", <<>>), MsgEdit)

PlanStep(v) ==
  {[commit |-> Or(v[2], "commit", "string", ""), action |-> Or(v[2], "action", "string", "pick"),
    message |-> Or(v[2], "message", "string", None), edits |-> e] : e \in MsgEdits(v[2])}
PlanArg(a) == IF Is(a, "plan", "array") THEN Each(a["plan"][2], PlanStep) ELSE {None}
Directive(v) == {<<Or(v[2], "commit", "string", ""), Or(v[2], "into", "string", ""), Or(v[2], "action", "string", "fixup")>>}
Autosquash(a) ==
  IF ~Given(a, "autosquash") \/ a["autosquash"] = Flag(FALSE) THEN {None}
  ELSE IF a["autosquash"] = Flag(TRUE) THEN {<<"markers">>}
  ELSE IF Or(a, "autosquash", "array", <<>>) = <<>> THEN {} ELSE Each(a["autosquash"][2], Directive)

(* A plan lists its commits, so it takes no start of a range; what autosquash *)
(* folds it derives by itself.                                               *)
RebaseWhat(a) ==
  LET from == Or(a, "from", "string", None)
  IN  IF ~Is(a, "onto", "string") \/ (Given(a, "from") /\ from = None) THEN {}
      ELSE {<<a["onto"], from, IF q = None THEN p ELSE None, q, f>> :
              p \in {x \in PlanArg(a) : from = None \/ x = None}, q \in Autosquash(a), f \in FillArg(a)}

FixupWhat(a) ==
  UNION {LET worktree == BoolArg(a, "worktree") \/ OptStrings(a, "paths") # <<>> \/ h # <<>>
         IN  IF ~Is(a, "target", "string") \/ worktree = Given(a, "source") THEN {}
             ELSE IF worktree THEN {<<a["target"], OptStrings(a, "paths"), h>>}
             ELSE {<<a["target"], s>> : s \in {a["source"]} \cap {Text(Or(a, "source", "string", ""))}} : h \in Hunks(a)}

CommitWhat(a) ==
  IF ~Is(a, "message", "string") \/ (Given(a, "after") /\ ~Is(a, "after", "string")) THEN {}
  ELSE {w \in {<<p, h, a["message"], Or(a, "after", "string", None), f>> :
                  p \in Strings(a, "paths"), h \in Hunks(a), f \in FillArg(a)} :
          (w[1] # <<>> \/ w[2] # <<>>) /\ (w[4] # None => w[2] = <<>>)}

RewordWhat(a) ==
  IF ~Is(a, "commit", "string") THEN {}
  ELSE {w \in {<<a["commit"], Or(a, "message", "string", None), e, f>> : e \in MsgEdits(a), f \in FillArg(a)} :
          w[2] # None \/ w[3] # <<>> \/ w[4] # 0}

(* Who set a file's lines, or the lines changed since: a window of lines     *)
(* that is none is the whole file, and a sweep of the changes has no window. *)
BlameWhat(a) ==
  LET s == Or(a, "lines", "array", <<>>)
      worktree == BoolArg(a, "worktree")
      grouped == Given(a, "group_by") /\ Is(a, "group_by", "string")
      window == IF worktree \/ Len(s) < 2 THEN None ELSE <<s[1], s[2]>>
  IN  IF \/ grouped /\ (a["group_by"][2] # "commit" \/ ~worktree)
         \/ ~worktree /\ ~Is(a, "path", "string") THEN {}
      ELSE {<<Or(a, "path", "string", None), window, Or(a, "since", "string", None), worktree, grouped>>}

-----------------------------------------------------------------------------
(* Whether the call writes the file: never, when it changed something, or    *)
(* always.                                                                   *)
Saving(a) == IF Given(a, "save") THEN IF a["save"][2] THEN "always" ELSE "never" ELSE "changed"

Wanted(t, a) ==
  CASE t = "view" -> ViewForm(a) [] t = "insert_text" -> InsertPlace(a) [] t = "replace_text" -> ReplaceWhat(a)
    [] t = "fill_text" -> FillWhat(a) [] t = "occur" -> OccurWhat(a)
    [] t = "git_rebase" -> RebaseWhat(a) [] t = "git_fixup" -> FixupWhat(a) [] t = "git_commit" -> CommitWhat(a)
    [] t = "git_reword" -> RewordWhat(a) [] t = "git_blame" -> BlameWhat(a)
DispatchGit(t, a) ==
  IF ~Is(a, "repo", "string") THEN {}
  ELSE {[of |-> a["repo"], what |-> w, refs |-> Or(a, "update_refs", "boolean", TRUE),
         rehearse |-> BoolArg(a, "rehearse")] : w \in Wanted(t, a)}
SessionTool(t, a) ==
  IF BoolArg(a, "rehearse") /\ BoolArg(a, "save") THEN {}
  ELSE {[of |-> s, what |-> w, text |-> IF t = "insert_text" THEN a["text"] ELSE None,
         saving |-> IF BoolArg(a, "rehearse") THEN "rehearsed" ELSE Saving(a)] : s \in SessionOf(a), w \in Wanted(t, a)}

ToolsCallResult(t, a) ==
  UNION {IF ~ValidateArgs(t, b) \/ \E k \in {"save", "rehearse", "update_refs"} : ~StrictBool(b, k) THEN {}
         ELSE IF t \in Git THEN DispatchGit(t, b)
         ELSE IF t = "close_session" THEN CloseWhat(b)
         ELSE SessionTool(t, b) : b \in NormalizeAliases(t, a)}

-----------------------------------------------------------------------------
Init ==
  /\ tool \in DOMAIN Offers
  /\ said = Offers[tool].start /\ answer = None

Say ==
  /\ answer = None /\ Cardinality(DOMAIN said \ DOMAIN Offers[tool].start) < MaxKeys
  /\ \E o \in Offers[tool].more : ~Given(said, o[1]) /\ said' = With(said, o[1], o[2])
  /\ UNCHANGED <<tool, answer>>
Send ==
  /\ answer = None
  /\ answer' = [asked |-> ToolsCallResult(tool, said)]
  /\ UNCHANGED <<tool, said>>
Next == Say \/ Send

Spec == Init /\ [][Next]_vars

-----------------------------------------------------------------------------
(* Keys that mean the same to a tool.                                        *)
Synonyms(t) ==
  CASE t = "occur" -> {{"pattern", "regexp", "regex"}}
    [] t = "replace_text" -> {{"pattern", "old", "old_text", "find"}, {"replacement", "new", "new_text", "replace"},
                              {"all", "replace_all"}}
    [] t = "insert_text" -> {{"pos", "location", "position", "at"}}
    [] t = "fill_text" -> {{"column", "fill_column", "width"}, {"prefix", "fill_prefix"}, {"pos", "position", "at"}}
    [] t = "view" -> {{"start", "from"}, {"end", "to"}, {"context", "count"}}
    [] t = "git_rebase" -> {{"from", "upstream"}, {"repo", "path"}}
    [] t = "git_fixup" -> {{"target", "commit"}, {"repo", "path"}}
    [] t = "git_reword" -> {{"repo", "path"}}
    [] t = "git_blame" -> {{"path", "file"}}
    [] OTHER -> {}

(* A key that only says what holds without it: a default, a flag implied by  *)
(* another key, and the keys the code passes over (README).                  *)
SaysNothing(t, a, k) ==
  \/ k = "mode" /\ (a[k] = Text("exact") \/ AnyOf(a, {"regexp", "regex"}))
  \/ k = "expect_unique" /\ (t = "insert_text" \/ AnyOf(a, {"all", "replace_all", "edits"}) \/ a[k] = Flag(TRUE))
  \/ k \in {"all", "replace_all"} /\ Given(a, "edits")
  \/ k = "lines" /\ BoolArg(a, "worktree")
  \/ k = "worktree" /\ AnyOf(a, {"paths", "hunks"})
  \/ k = "save" /\ BoolArg(a, "rehearse")
  \/ k = "plan" /\ Given(a, "autosquash")

(* A call asks for one thing or is refused.  Spelling a key another way asks *)
(* for the same, two spellings of one key are refused, and rewriting a call  *)
(* again changes nothing; no key is dropped on the way: without it the call  *)
(* asks for something else (mcp.rs tools_call_result, normalize_aliases).    *)
CallsSayOneThing ==
  answer # None /\ answer.asked # {} =>
    /\ Cardinality(answer.asked) = 1
    /\ \A s \in Synonyms(tool) :
         /\ Cardinality(s \cap DOMAIN said) <= 1
         /\ \A k \in s \cap DOMAIN said, other \in s :
              \/ tool = "occur" /\ ~Given(said, "mode")
              \/ ToolsCallResult(tool, With(Without(said, {k}), other, said[k])) = answer.asked
    /\ \A a \in NormalizeAliases(tool, said) : ToolsCallResult(tool, a) = answer.asked
    /\ \A k \in DOMAIN said :
         ToolsCallResult(tool, Without(said, {k})) = answer.asked => SaysNothing(tool, said, k)
=============================================================================
