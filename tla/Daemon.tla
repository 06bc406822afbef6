------------------------------- MODULE Daemon -------------------------------
(***************************************************************************)
(* The editing daemon (daemon.rs) and the clients on its socket: mime with *)
(* a session, which asks one thing and leaves (run_daemon in cli.rs), and  *)
(* other programs that keep a connection.  The daemon serves one           *)
(* connection to its end, then the next.  A client may go away, and the    *)
(* daemon may die; its sessions die with it.  Other programs put files of  *)
(* their own in place of those there are, or remove them; what writing one *)
(* in place does to the reader of its pages is FileVisit's.                *)
(*                                                                         *)
(* A text is a sequence of marks, one for each edit.                       *)
(***************************************************************************)
EXTENDS Integers, Sequences, SequencesExt

CONSTANTS
  Cli,         \* clients that are runs of mime --session
  Peer,        \* clients that keep their connection
  Requests,    \* client -> the requests it may send
  Mark,        \* what texts are made of
  Paths,       \* files there are from the start, and files
  NoPath,      \* that are not: their text is NoPath
  Nobody,
  Elsewhere,   \* file -> what other programs may make of it
  MaxLines,    \* bound: lines a peer sends
  MaxDeaths,   \* bound: deaths of the daemon
  MaxOthers    \* bound: files other programs write

VARIABLES
  sessions,  \* id -> [text, file, stamp, readOnly]: file is NoPath for a session
             \* opened with a text, which visits none
  files,      \* path -> [text, stamp]
  conn,      \* client -> [open, unread, heard, lines]: its connection, the lines
             \* the daemon has not read, the replies that came back
  backlog,   \* connections not accepted yet, in order
  serving,   \* the connection being served
  up,        \* the daemon runs
  exit,      \* client -> the exit code of a mime, or Nobody
  deaths, others,
  told       \* history: session -> the edits its clients were told are in

daemonVars == <<sessions, files, conn, backlog, serving, up, exit, deaths, others, told>>

Client == Cli \cup Peer
Silent == [open |-> FALSE, unread |-> <<>>, heard |-> <<>>, lines |-> 0]

(* A request names the files there may be; what it lacks is answered as an *)
(* error before anything is done.                                          *)
IsRequest(req) ==
  /\ req.op = "open" => /\ req.file \in DOMAIN Paths \cup {NoPath}
                        /\ req.file = NoPath => req.text \in Seq(Mark)
                        /\ req.readOnly \in BOOLEAN
  /\ req.op \in {"run", "rehearse"} => req.edit \in Seq(Mark) /\ req.fails \in BOOLEAN
  /\ req.op = "save" => req.path \in DOMAIN Paths

ASSUME DaemonAssumption ==
  /\ Nobody \notin Client
  /\ NoPath \notin DOMAIN Paths \cup Seq(Mark)
  /\ \A p \in DOMAIN Paths : {Paths[p]} \cup Elsewhere[p] \subseteq Seq(Mark) \cup {NoPath}
  /\ \A c \in Client : \A req \in Requests[c] : IsRequest(req)

-----------------------------------------------------------------------------
(* Replies, and what a request makes of sessions and files.                *)
World == [sessions |-> sessions, files |-> files]
Ok(w) == [w |-> w, ok |-> TRUE]
Err == [w |-> World, ok |-> FALSE]

(* How the file system serves a request: well; not at all; or the file is   *)
(* written and cannot be opened again.                                     *)
Disk == {"serves", "fails", "not again"}

Known(req) == req.session \in DOMAIN sessions
With(s, ws) == [id \in DOMAIN sessions \cup {s} |-> IF id = s THEN ws ELSE sessions[id]]

(* op_open: a new session in place of one of that name; only once the file *)
(* could be opened.                                                        *)
OpOpen(req, how) ==
  LET ws == IF req.file = NoPath
            THEN [text |-> req.text, file |-> NoPath, stamp |-> 0, readOnly |-> req.readOnly]
            ELSE [text |-> files[req.file].text, file |-> req.file, stamp |-> files[req.file].stamp,
                  readOnly |-> req.readOnly]
  IN  IF req.file # NoPath /\ (files[req.file].text = NoPath \/ how = "fails") THEN Err
      ELSE Ok([World EXCEPT !.sessions = With(req.session, ws)])

(* op_run: a program edits, or fails after an edit, or only reads; a       *)
(* failure and an edit of a read-only session are rolled back, and so is   *)
(* every rehearsal.                                                        *)
OpRun(req, rehearse) ==
  LET ws == sessions[req.session]
      edited == With(req.session, [ws EXCEPT !.text = @ \o req.edit])
  IN  IF ~Known(req) THEN Err
      ELSE IF req.fails \/ (ws.readOnly /\ req.edit # <<>> /\ ~rehearse) THEN Err
      ELSE IF rehearse THEN Ok(World) ELSE Ok([World EXCEPT !.sessions = edited])

(* op_save: refused over the visited file when it has drifted; anywhere     *)
(* else it writes over what is there.  The session then visits what it     *)
(* wrote; one opened with a text stays without a file, and one whose file  *)
(* cannot be opened again stays as it was (save_to, rebase_to_file).       *)
Drifted(ws, path) == ws.file = path /\ ws.stamp # files[path].stamp
Written(ws, path) == [files EXCEPT ![path] = [text |-> ws.text, stamp |-> @.stamp + 1]]
Rebased(ws, path, how) ==
  IF ws.file = NoPath \/ how = "not again" THEN ws
  ELSE [ws EXCEPT !.file = path, !.stamp = files[path].stamp + 1]

(* Mutant: nobody looks whether the file is still what the session read. *)
OpSaveUnchecked(req, how) ==
  LET ws == sessions[req.session]
  IN  IF ~Known(req) \/ how = "fails" THEN Err
      ELSE Ok([sessions |-> With(req.session, Rebased(ws, req.path, how)), files |-> Written(ws, req.path)])

OpSave(req, how) ==
  LET ws == sessions[req.session]
  IN  IF ~Known(req) THEN Err
      ELSE IF Drifted(ws, req.path) \/ how = "fails" THEN Err
      ELSE Ok([sessions |-> With(req.session, Rebased(ws, req.path, how)), files |-> Written(ws, req.path)])

OpClose(req) == Ok([World EXCEPT !.sessions = [id \in DOMAIN sessions \ {req.session} |-> sessions[id]]])

(* handle_line; a line that is not a request is answered too. *)
HandleLine(req, how) ==
  CASE req.op = "open" -> OpOpen(req, how)
    [] req.op \in {"run", "rehearse"} -> OpRun(req, req.op = "rehearse")
    [] req.op = "save" -> OpSave(req, how)
    [] req.op = "close" -> OpClose(req)
    [] req.op = "status" -> Ok(World)
    [] OTHER -> Err

-----------------------------------------------------------------------------
DaemonInit ==
  /\ sessions = [id \in {} |-> <<>>]
  /\ files = [p \in DOMAIN Paths |-> [text |-> Paths[p], stamp |-> 0]]
  /\ conn = [c \in Client |-> Silent]
  /\ backlog = <<>> /\ serving = Nobody /\ up = TRUE
  /\ exit = [c \in Client |-> Nobody]
  /\ deaths = 0 /\ others = 0
  /\ told = [id \in {} |-> {}]

served == <<sessions, files, serving, up, deaths, others, told>>

(* request: mime connects, writes its line and waits; or there is no       *)
(* daemon.                                                                 *)
Ask(c) ==
  /\ c \in Cli /\ exit[c] = Nobody /\ ~conn[c].open /\ conn[c].lines = 0
  /\ IF up
     THEN /\ \E req \in Requests[c] : conn' = [conn EXCEPT ![c] = [Silent EXCEPT !.open = TRUE, !.unread = <<req>>, !.lines = 1]]
          /\ backlog' = Append(backlog, c)
          /\ UNCHANGED exit
     ELSE exit' = [exit EXCEPT ![c] = 2] /\ UNCHANGED <<conn, backlog>>
  /\ UNCHANGED served

(* The reply is printed and its failure becomes the exit code; without one *)
(* mime says so.                                                           *)
Finish(c) ==
  /\ c \in Cli /\ conn[c].open
  /\ conn[c].heard # <<>> \/ (c # serving /\ ~Contains(backlog, c))
  /\ conn' = [conn EXCEPT ![c].open = FALSE, ![c].heard = <<>>]
  /\ exit' = [exit EXCEPT ![c] = IF conn[c].heard = <<>> THEN 2 ELSE IF conn[c].heard[1] THEN 0 ELSE 1]
  /\ UNCHANGED <<served, backlog>>

Connect(c) ==
  /\ c \in Peer /\ up /\ ~conn[c].open /\ c # serving /\ ~Contains(backlog, c) /\ conn[c].lines < MaxLines
  /\ conn' = [conn EXCEPT ![c].open = TRUE, ![c].unread = <<>>, ![c].heard = <<>>]
  /\ backlog' = Append(backlog, c)
  /\ UNCHANGED <<served, exit>>

Send(c) ==
  /\ c \in Peer /\ conn[c].open /\ conn[c].lines < MaxLines /\ (c = serving \/ Contains(backlog, c))
  /\ \E req \in Requests[c] : conn' = [conn EXCEPT ![c].unread = Append(@, req), ![c].lines = @ + 1]
  /\ UNCHANGED <<served, backlog, exit>>

(* A client goes away, whatever it waits for; what it wrote stays to be    *)
(* read.                                                                   *)
HangUp(c) ==
  /\ conn[c].open
  /\ conn' = [conn EXCEPT ![c].open = FALSE, ![c].heard = <<>>]
  /\ exit' = IF c \in Cli THEN [exit EXCEPT ![c] = 2] ELSE exit
  /\ UNCHANGED <<served, backlog>>

-----------------------------------------------------------------------------
(* run: the next connection. *)
Accept ==
  /\ up /\ serving = Nobody /\ backlog # <<>>
  /\ serving' = Head(backlog)
  /\ backlog' = Tail(backlog)
  /\ UNCHANGED <<sessions, files, conn, up, exit, deaths, others, told>>

Edits(req) == IF req.op = "run" THEN ToSet(req.edit) ELSE {}
TellOf(req, r, heard) ==
  [id \in DOMAIN r.w.sessions |->
     LET before == IF id \in DOMAIN told THEN told[id] ELSE {} IN
     IF r.ok /\ req.op = "open" /\ req.session = id THEN {}
     ELSE IF r.ok /\ heard /\ req.op = "run" /\ req.session = id THEN before \cup Edits(req) ELSE before]

(* serve: one line, one reply.  A reply nobody takes ends the connection,  *)
(* with the lines after it.                                                *)
Answer ==
  /\ up /\ serving # Nobody /\ conn[serving].unread # <<>>
  /\ \E how \in Disk :
       LET req == Head(conn[serving].unread)
           r == HandleLine(req, how)
       IN  /\ sessions' = r.w.sessions
           /\ files' = r.w.files
           /\ told' = TellOf(req, r, conn[serving].open)
           /\ conn' = [conn EXCEPT ![serving].unread = Tail(@),
                                   ![serving].heard = IF conn[serving].open THEN Append(@, r.ok) ELSE @]
           /\ serving' = IF conn[serving].open THEN serving ELSE Nobody
  /\ UNCHANGED <<backlog, up, exit, deaths, others>>

EndOfConnection ==
  /\ up /\ serving # Nobody /\ conn[serving].unread = <<>> /\ ~conn[serving].open
  /\ serving' = Nobody
  /\ UNCHANGED <<sessions, files, conn, backlog, up, exit, deaths, others, told>>

DaemonDies ==
  /\ up /\ deaths < MaxDeaths
  /\ up' = FALSE /\ deaths' = deaths + 1
  /\ sessions' = [id \in {} |-> <<>>] /\ told' = [id \in {} |-> {}]
  /\ backlog' = <<>> /\ serving' = Nobody
  /\ conn' = [c \in Client |-> [conn[c] EXCEPT !.unread = <<>>]]
  /\ UNCHANGED <<files, exit, others>>

(* run: the socket file a dead daemon left is removed. *)
Restart == ~up /\ up' = TRUE /\ UNCHANGED <<sessions, files, conn, backlog, serving, exit, deaths, others, told>>

OthersWrite ==
  /\ others < MaxOthers /\ others' = others + 1
  /\ \E p \in DOMAIN Paths : \E t \in Elsewhere[p] :
       files' = [files EXCEPT ![p] = [text |-> t, stamp |-> @.stamp + 1]]
  /\ UNCHANGED <<sessions, conn, backlog, serving, up, exit, deaths, told>>

DaemonNext ==
  \/ \E c \in Client : Ask(c) \/ Finish(c) \/ Connect(c) \/ Send(c) \/ HangUp(c)
  \/ Accept \/ Answer \/ EndOfConnection \/ DaemonDies \/ Restart \/ OthersWrite

(* The daemon goes on while it is up, and a mime that has its reply leaves. *)
DaemonFairness ==
  /\ WF_daemonVars(Accept \/ Answer \/ EndOfConnection)
  /\ \A c \in Cli : WF_daemonVars(Finish(c))

DaemonSpec == DaemonInit /\ [][DaemonNext]_daemonVars /\ DaemonFairness

-----------------------------------------------------------------------------
(* An edit a client was told of is in the session until somebody opens or  *)
(* closes it.                                                              *)
ToldEditsStay == \A id \in DOMAIN sessions : told[id] \subseteq ToSet(sessions[id].text)

(* A refused request changes nothing; a session that is read-only keeps    *)
(* its text; and a save over the file its session visits only adds to what *)
(* is there, be it by another session or another program: it is refused    *)
(* unless the session began with that.  (A save over any other file, and   *)
(* every one of a session that visits none, is not looked at.)             *)
OverVisited(p) ==
  /\ files'[p] # files[p] /\ others' = others
  /\ LET saver == Head(conn[serving].unread).session
     IN  saver \in DOMAIN sessions /\ sessions[saver].file = p
RefusalsKeepAll ==
  LET heard(c) == Len(conn'[c].heard) > Len(conn[c].heard) IN
  /\ \A c \in Client : heard(c) /\ ~Last(conn'[c].heard) => sessions' = sessions /\ files' = files
  /\ \A id \in DOMAIN sessions \cap DOMAIN sessions' :
       LET a == sessions[id]
           b == sessions'[id]
       IN  (a.readOnly /\ b.readOnly /\ a.file = b.file /\ a.stamp = b.stamp /\ a.file # NoPath) => a.text = b.text
  /\ \A p \in DOMAIN Paths : OverVisited(p) => IsPrefix(files[p].text, files'[p].text)

(* Both, of every step of the daemon and its clients (handle_line).        *)
DaemonKeepsEdits == []ToldEditsStay /\ [][RefusalsKeepAll]_daemonVars

(* A mime that asked gets to its end, unless a client that keeps its       *)
(* connection and says nothing is served for ever.                         *)
HeldOpen == serving \in Peer /\ conn[serving].open /\ conn[serving].unread = <<>>
AskersAreServed ==
  []<>(~HeldOpen) => \A c \in Cli : (conn[c].open ~> ~conn[c].open)
=============================================================================
