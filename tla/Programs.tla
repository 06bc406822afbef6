------------------------------ MODULE Programs ------------------------------
(***************************************************************************)
(* Where the forms of a program text are, found without evaluating it: the *)
(* stepper splits a script into its top-level forms (tui_step.rs), and the *)
(* repl collects lines until they make a form (cli.rs).  Each scans the    *)
(* text in its own way over strings, comments and character literals.      *)
(*                                                                         *)
(* A text is made here of data, whose extents are known, and of the gaps   *)
(* before them; the quote and the backslash go by their names.             *)
(***************************************************************************)
EXTENDS Integers, Sequences, SequencesExt

CONSTANTS
  Data,     \* data as they are written
  Gaps,     \* what may stand before a datum
  MaxForms  \* bound: data in a program

VARIABLE program  \* sequence of [gap, datum]

-----------------------------------------------------------------------------
Space == {" ", "\n"}
Openers == {"(", "["}
Closers == {")", "]"}

(* s without the white space at its end. *)
TrimEnd(s) ==
  SubSeq(s, 1, SelectLastInSeq(s, LAMBDA c : c \notin Space))

(***************************************************************************)
(* split_forms.  depth is how many brackets are open, start where the form *)
(* being read began (0: between forms) and from on which line; opens says  *)
(* that a question mark here begins a character literal.                   *)
(***************************************************************************)
Unread == [mode |-> "code", depth |-> 0, start |-> 0, from |-> 0, line |-> 1, opens |-> TRUE, forms |-> <<>>]

Closed(src, st, last) ==
  LET text == TrimEnd(SubSeq(src, st.start, last)) IN
  IF st.start = 0 THEN st
  ELSE [st EXCEPT !.start = 0, !.forms = IF text = <<>> THEN @ ELSE Append(@, [text |-> text, line |-> st.from])]

(* A character outside strings, comments and literals. *)
Code(src, st, p) ==
  LET c == src[p]
      begun == IF st.start = 0 THEN [st EXCEPT !.start = p, !.from = st.line] ELSE st
      ends(s, last) == IF s.depth = 0 THEN Closed(src, s, last) ELSE s
      read == CASE c = ";" -> [ends(st, p - 1) EXCEPT !.mode = "comment"]
                [] c = "dquote" -> [begun EXCEPT !.mode = "string"]
                [] c = "?" /\ st.opens -> [begun EXCEPT !.mode = "literal"]
                [] c \in Openers -> [begun EXCEPT !.depth = @ + 1]
                [] c \in Closers -> ends([st EXCEPT !.depth = IF @ = 0 THEN 0 ELSE @ - 1], p)
                [] c \in Space -> ends(st, p - 1)
                [] OTHER -> begun
  IN  [read EXCEPT !.opens = c \in Openers \cup Space \cup {";"}]

Scan(src, at, p) ==
  LET c == src[p]
      st == IF c = "\n" /\ at.mode # "escaped" THEN [at EXCEPT !.line = @ + 1] ELSE at
      to(mode) == [st EXCEPT !.mode = mode, !.opens = FALSE]
  IN  CASE st.mode = "string" -> to(IF c = "backslash" THEN "escaped" ELSE IF c = "dquote" THEN "code" ELSE "string")
        [] st.mode = "escaped" -> to("string")
        [] st.mode = "literal" -> to(IF c = "backslash" THEN "escaped literal" ELSE "code")
        [] st.mode = "escaped literal" -> to("code")
        [] st.mode = "comment" /\ c # "\n" -> st
        [] OTHER -> Code(src, [st EXCEPT !.mode = "code"], p)

SplitForms(src) ==
  LET read[p \in 0..Len(src)] == IF p = 0 THEN Unread ELSE Scan(src, read[p - 1], p)
  IN  Closed(src, read[Len(src)], Len(src)).forms

(***************************************************************************)
(* form_complete: the text holds a form, or a bracket too many.  Here any  *)
(* question mark begins a literal, and a backslash hides what follows it   *)
(* inside strings and out.                                                 *)
(***************************************************************************)
Empty == [mode |-> "code", hidden |-> FALSE, depth |-> 0, atom |-> FALSE, whole |-> FALSE]

Collect(st, c) ==
  CASE st.whole -> st
    [] ~st.whole /\ st.mode = "comment" -> IF c = "\n" THEN [st EXCEPT !.mode = "code"] ELSE st
    [] ~st.whole /\ st.mode # "comment" /\ st.hidden -> [st EXCEPT !.hidden = FALSE]
    [] ~st.whole /\ ~st.hidden /\ st.mode = "literal" ->
         [st EXCEPT !.mode = "code", !.atom = TRUE, !.hidden = c = "backslash"]
    [] ~st.whole /\ ~st.hidden /\ st.mode = "string" ->
         [st EXCEPT !.mode = IF c = "dquote" THEN "code" ELSE @, !.hidden = c = "backslash"]
    [] OTHER ->
         CASE c = "backslash" -> [st EXCEPT !.hidden = TRUE]
           [] c = "dquote" -> [st EXCEPT !.mode = "string", !.atom = TRUE]
           [] c = "?" -> [st EXCEPT !.mode = "literal"]
           [] c = ";" -> [st EXCEPT !.mode = "comment"]
           [] c \in Openers -> [st EXCEPT !.depth = @ + 1, !.atom = TRUE]
           [] c \in Closers -> [st EXCEPT !.depth = @ - 1, !.atom = TRUE, !.whole = st.depth <= 1]
           [] c \in Space -> st
           [] OTHER -> [st EXCEPT !.atom = TRUE]

FormComplete(src) ==
  LET st == FoldLeft(Collect, Empty, src)
  IN  st.whole \/ (st.depth = 0 /\ st.mode \notin {"string", "comment"} /\ st.atom)

(* The lines of a text, each with its line break. *)
Lines(src) ==
  LET breaks == {i \in 1..Len(src) : src[i] = "\n"} \cup {0, Len(src)}
      after(i) == CHOOSE j \in breaks : j > i /\ \A k \in breaks : k > i => j <= k
      from[i \in breaks] == IF i = Len(src) THEN <<>> ELSE <<SubSeq(src, i + 1, after(i))>> \o from[after(i)]
  IN  from[0]

(* repl_loop: what it evaluates, in order.  A blank line submits what      *)
(* there is, and so does the end of the input.                             *)
Blank(s) == TrimEnd(s) = <<>>
Submissions(src) ==
  LET take(st, line) ==
        LET pending == st.pending \o line IN
        CASE Blank(pending) -> [st EXCEPT !.pending = <<>>]
          [] ~Blank(pending) /\ (Blank(line) \/ FormComplete(pending)) ->
               [pending |-> <<>>, sent |-> Append(st.sent, pending)]
          [] OTHER -> [st EXCEPT !.pending = pending]
      end == FoldLeft(take, [pending |-> <<>>, sent |-> <<>>], Lines(src))
  IN  IF Blank(end.pending) THEN end.sent ELSE Append(end.sent, end.pending)

-----------------------------------------------------------------------------
ProgramInit == program = <<>>
ProgramNext ==
  /\ Len(program) < MaxForms
  /\ \E g \in Gaps, d \in Data :
       \* a question mark begins a literal behind a bracket or white space only
       /\ (program # <<>> /\ g = <<>>) => (Last(Last(program).datum) \in Closers /\ d[1] # "?")
       /\ program' = Append(program, [gap |-> g, datum |-> d])
ProgramSpec == ProgramInit /\ [][ProgramNext]_program

Source(items) == FlattenSeq([i \in 1..Len(items) |-> items[i].gap \o items[i].datum])
LineOf(i) == 1 + Len(SelectSeq(Source(SubSeq(program, 1, i - 1)) \o program[i].gap, LAMBDA c : c = "\n"))

(* The forms the stepper runs one by one are the data of the script, whole *)
(* and in order, each at its line; and the repl, given data that begin on  *)
(* lines of their own, evaluates each exactly when its last line is in.    *)
ProgramsReadAsWritten ==
  LET src == Source(program)
      sent == Submissions(src)
      apart == \A i \in 2..Len(program) : program[i].gap # <<>> /\ Last(program[i].gap) = "\n"
  IN
  /\ SplitForms(src) = [i \in 1..Len(program) |-> [text |-> program[i].datum, line |-> LineOf(i)]]
  /\ apart => /\ Len(sent) = Len(program)
              /\ \A i \in 1..Len(sent) :
                   LET forms == SplitForms(sent[i]) IN Len(forms) = 1 /\ forms[1].text = program[i].datum
=============================================================================
