------------------------------ MODULE MCQuire ------------------------------
(***************************************************************************)
(* Quire beside the buffer it stands for.  The history variables shown and *)
(* shownKept hold Abs of the store and of the snapshot, so that TLC works  *)
(* them out once a state and not at every mention in Buffer's actions.     *)
(***************************************************************************)
EXTENDS Quire
CONSTANTS aa, bb   \* two characters of one byte
VARIABLES shown, shownKept

AbsKept(q) == IF q = Nothing THEN Nothing ELSE Abs(q)

MCInit == Init /\ shown = Abs(store) /\ shownKept = Nothing
MCNext == Next /\ shown' = Abs(store') /\ shownKept' = AbsKept(kept')
MCSpec == MCInit /\ [][MCNext]_<<vars, shown, shownKept>>

Buf == INSTANCE Buffer WITH
         buf <- shown,
         kept <- shownKept,
         InitialTexts <- {FullText(Open(f)) : f \in Files}

(* The piece tree implements the in-memory buffer: every call leaves the     *)
(* text, cursor, restriction, markers and match data the oracle leaves, and  *)
(* a read, a save or a change of coding leaves them alone (the module doc of *)
(* quire.rs promises it byte for byte).                                      *)
ImplementsBuffer == Buf!Spec

(* What programs read without changing the store is what the oracle reads:   *)
(* characters and line numbers over cached counts and remembered seeks,      *)
(* looking-at through windows, the shortfall of a line motion.               *)
ReadsAgree ==
  LET buffer == shown
      last == CharLen(store) + 1
  IN  /\ \A p \in 1..last :
           /\ LET c == CharAfter(store, p).char
                  d == Buf!CharAfter(buffer, p)
              IN  c = d \/ (c = None /\ d = Nothing)
           /\ LineNumberAtPos(store, p) = Buf!LineNumberAtPos(buffer, p)
      /\ \A re \in Regexes : LookingAt(store, re) = Buf!LookingAt(buffer, re)
      /\ \A n \in LineCounts : ForwardLine(store, n).left = Buf!ForwardLine(buffer, n).left

(* What the store keeps from one call to the next, so as not to count again, *)
(* is true of its text: point, mark, restriction, markers and match (what    *)
(* Buffer promises of itself), the counts in the pieces and up the tree, and *)
(* the place the last seek remembered; of the live store, and of the         *)
(* snapshot that shares its tree.                                            *)
WhatIsKeptIsTrue == Buf!CursorsInText /\ CountsMatchBytes /\ MemoTrue

(* A Unix file with a long character; a DOS file with a byte-order mark, a   *)
(* bare newline and a bare CR; a plain DOS file.                             *)
MCFiles == {<<aa, NL, Lead, Cont, NL>>, <<Bom, CR, NL, bb, NL, CR>>, <<bb, CR, NL>>}
MCCodings == {[bom |-> FALSE, dos |-> TRUE], [bom |-> FALSE, dos |-> FALSE]}
MCInserts == {<<Lead, NL>>}
MCReplacements == {[pre |-> <<>>, whole |-> FALSE, post |-> <<>>],
                   [pre |-> <<bb>>, whole |-> TRUE, post |-> <<>>]}
MCNeedles == {<<NL>>}
MCRegexes == {[body |-> <<>>, bol |-> TRUE, eol |-> TRUE], [body |-> <<bb>>, bol |-> FALSE, eol |-> TRUE]}
MCPositions == {2, 3}
MCLineCounts == {1, 0 - 1}
=============================================================================
