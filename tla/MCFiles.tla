------------------------------- MODULE MCFiles -------------------------------
(* Processes and the files they share: two that save one and the same file,  *)
(* one that visits a large file a page at a time, or a daemon and those who  *)
(* ask it to edit and save.                                                  *)
EXTENDS AtomicSave, FileVisit, Daemon

VARIABLE kind  \* "save", "visit" or "daemon"

(* Two runs of mime that edit, fail, save, close or open a session, and a    *)
(* peer that opens, rehearses and saves over one connection; a second        *)
(* session visits the same file, and another program puts one of its own     *)
(* there.                                                                    *)
On(id, op) == [op |-> op, session |-> id]
Program(op, mark, fails) == [op |-> op, session |-> "s", edit |-> <<mark>>, fails |-> fails]
OpenAt(id, file, text, readOnly) == [op |-> "open", session |-> id, file |-> file, text |-> text, readOnly |-> readOnly]
SaveTo(id, file) == [op |-> "save", session |-> id, path |-> file]
MCRequests ==
  [one |-> {Program("run", "one", FALSE), Program("run", "one", TRUE), OpenAt("t", "f", NoPath, FALSE)},
   other |-> {OpenAt("s", "f", NoPath, TRUE), On("s", "close"), SaveTo("t", "f"), SaveTo("s", "g")},
   peer |-> {OpenAt("s", "f", NoPath, FALSE), OpenAt("s", NoPath, <<"peer">>, FALSE), Program("rehearse", "peer", FALSE), SaveTo("s", "f")}]

MCPaths == [f |-> <<"disk">>, g |-> NoPath]
MCElsewhere == [f |-> {<<"them">>}, g |-> {}]

NoSave == Init /\ disk.text = CHOOSE t \in Text : TRUE
NoVisit ==
  /\ data = <<>> /\ path = 0 /\ written = 0 /\ fd = 0 /\ stamp = 0 /\ index = <<>> /\ cache = <<>>
  /\ lru = <<>> /\ drifted = FALSE /\ statted = FALSE /\ todo = <<>> /\ place = "closed"
NoDaemon == DaemonInit

FilesInit ==
  \/ kind = "save" /\ Init /\ NoVisit /\ NoDaemon
  \/ kind = "visit" /\ VisitInit /\ NoSave /\ NoDaemon
  \/ kind = "daemon" /\ DaemonInit /\ NoSave /\ NoVisit

FilesNext ==
  \/ kind = "save" /\ Next /\ UNCHANGED <<kind, visitVars, daemonVars>>
  \/ kind = "visit" /\ VisitNext /\ UNCHANGED <<kind, vars, daemonVars>>
  \/ kind = "daemon" /\ DaemonNext /\ UNCHANGED <<kind, vars, visitVars>>

FilesSpec == FilesInit /\ [][FilesNext]_<<kind, vars, visitVars, daemonVars>> /\ VisitFairness /\ DaemonFairness

(* Nobody waits for ever: a read ends, and a mime that asked gets to its end *)
(* (FileVisit, Daemon).                                                      *)
WaitersAreServed == ReadsEnd /\ AskersAreServed
=============================================================================
