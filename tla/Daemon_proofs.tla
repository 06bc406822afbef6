---------------------------- MODULE Daemon_proofs ----------------------------
(***************************************************************************)
(* What the clients of the daemon can count on, for any number of them,    *)
(* any requests, files and deaths of the daemon.                           *)
(*                                                                         *)
(* The argument: only the answer to a request changes a session or what    *)
(* clients were told, and only that and other programs change a file, each *)
(* in one step.  Whatever writes a file stamps it past every stamp there   *)
(* is, so a session whose stamp is still the file's began with what is in  *)
(* the file and has added to it, and a read-only one shows it.             *)
(***************************************************************************)
EXTENDS Daemon, TLAPS

Request == UNION {Requests[c] : c \in Client}
Session == [text : Seq(Mark), file : DOMAIN Paths \cup {NoPath}, stamp : Nat, readOnly : BOOLEAN]
File == [text : Seq(Mark) \cup {NoPath}, stamp : Nat]
Connection == [open : BOOLEAN, unread : Seq(Request), heard : Seq(BOOLEAN), lines : Nat]

(* What sessions and files are made of. *)
AreSessions(ss) == ss \in [DOMAIN ss -> Session]
AreFiles(d) == d \in [DOMAIN Paths -> File]

(* No session is ahead of its file, and one that is not behind has all of  *)
(* it, and no more when it may not be edited.                              *)
Shows(ws, f) ==
  /\ f.text \in Seq(Mark)
  /\ IsPrefix(f.text, ws.text)
  /\ ws.readOnly => ws.text = f.text
Current(ws, f) == ws.stamp <= f.stamp /\ (ws.stamp = f.stamp => Shows(ws, f))
Stamped(ss, d) == \A id \in DOMAIN ss : ss[id].file # NoPath => Current(ss[id], d[ss[id].file])

DaemonInv ==
  /\ AreSessions(sessions)
  /\ AreFiles(files)
  /\ Stamped(sessions, files)
  /\ conn \in [Client -> Connection]
  /\ backlog \in Seq(Client)
  /\ serving \in Client \cup {Nobody}
  /\ others \in Nat
  /\ DOMAIN told = DOMAIN sessions
  /\ ToldEditsStay

-----------------------------------------------------------------------------
(* What an answer may do to sessions and files. *)

(* The second and third part of RefusalsKeepAll: a read-only session, and  *)
(* the file that the session asked to save visits.                         *)
Unedited(ss) ==
  \A id \in DOMAIN sessions \cap DOMAIN ss :
    LET a == sessions[id]
        b == ss[id]
    IN  (a.readOnly /\ b.readOnly /\ a.file = b.file /\ a.stamp = b.stamp /\ a.file # NoPath) => a.text = b.text
Extends(req, d) ==
  \A p \in DOMAIN Paths :
    d[p] # files[p] /\ req.session \in DOMAIN sessions /\ sessions[req.session].file = p
      => IsPrefix(files[p].text, d[p].text)

(* Every session still has its edits but one that was opened anew, and an  *)
(* edit that was made is in.                                               *)
Keeps(req, ok, ss) ==
  \A id \in DOMAIN ss : ~(ok /\ req.op = "open" /\ req.session = id) =>
    /\ id \in DOMAIN sessions
    /\ ToSet(sessions[id].text) \subseteq ToSet(ss[id].text)
    /\ ok /\ req.op = "run" /\ req.session = id => ToSet(req.edit) \subseteq ToSet(ss[id].text)

Proper(req, r) ==
  /\ r.ok \in BOOLEAN
  /\ ~r.ok => r.w = World
  /\ AreSessions(r.w.sessions)
  /\ AreFiles(r.w.files)
  /\ Stamped(r.w.sessions, r.w.files)
  /\ Unedited(r.w.sessions)
  /\ Extends(req, r.w.files)
  /\ Keeps(req, r.ok, r.w.sessions)

LEMMA Appended ==
  ASSUME NEW S, NEW s \in Seq(S), NEW t \in Seq(S)
  PROVE  /\ s \o t \in Seq(S)
         /\ ToSet(s \o t) = ToSet(s) \cup ToSet(t)
<1>1. s \o t \in Seq(S) /\ Len(s \o t) = Len(s) + Len(t) /\ Len(s) \in Nat /\ Len(t) \in Nat
  OBVIOUS
<1>2. /\ DOMAIN s = 1..Len(s) /\ DOMAIN t = 1..Len(t)
      /\ DOMAIN (s \o t) = 1..Len(s) + Len(t)
  BY <1>1
<1>3. ASSUME NEW i \in 1..Len(s) + Len(t)
      PROVE  (s \o t)[i] \in ToSet(s) \cup ToSet(t)
  <2>1. CASE i <= Len(s)
    BY <1>1, <1>2, <2>1 DEF ToSet
  <2>2. CASE i > Len(s)
    <3>1. i - Len(s) \in 1..Len(t) /\ (s \o t)[i] = t[i - Len(s)]
      BY <1>1, <2>2
    <3> QED
      BY <1>2, <3>1 DEF ToSet
  <2> QED
    BY <1>1, <2>1, <2>2
<1>4. ASSUME NEW i \in 1..Len(s)
      PROVE  s[i] \in ToSet(s \o t)
  <2>1. i \in 1..Len(s) + Len(t) /\ (s \o t)[i] = s[i]
    BY <1>1
  <2> QED
    BY <1>2, <2>1 DEF ToSet
<1>5. ASSUME NEW i \in 1..Len(t)
      PROVE  t[i] \in ToSet(s \o t)
  <2>1. i + Len(s) \in 1..Len(s) + Len(t) /\ (s \o t)[i + Len(s)] = t[i]
    BY <1>1
  <2> QED
    BY <1>2, <2>1 DEF ToSet
<1> QED
  BY <1>1, <1>2, <1>3, <1>4, <1>5 DEF ToSet

(* What is added to a text leaves it a beginning of the whole. *)
LEMMA BeginningsStay ==
  ASSUME NEW S, NEW s \in Seq(S), NEW t \in Seq(S), IsPrefix(s, t), NEW e \in Seq(S)
  PROVE  IsPrefix(s, t \o e)
<1>1. Len(s) \in Nat /\ Len(t) \in Nat /\ Len(s) <= Len(t) /\ s = SubSeq(t, 1, Len(s))
  <2>1. Len(s) <= Len(t) /\ SubSeq(s, 1, Len(s)) = SubSeq(t, 1, Len(s))
    BY DEF IsPrefix
  <2>2. SubSeq(s, 1, Len(s)) = s
    OBVIOUS
  <2> QED
    BY <2>1, <2>2
<1>2. t \o e \in Seq(S) /\ Len(t \o e) \in Nat /\ Len(s) <= Len(t \o e)
  <2>1. t \o e \in Seq(S) /\ Len(t \o e) = Len(t) + Len(e) /\ Len(e) \in Nat
    OBVIOUS
  <2> QED
    BY <1>1, <2>1
<1>3. \A i \in 1..Len(s) : (t \o e)[i] = t[i]
  BY <1>1
<1>4. SubSeq(t \o e, 1, Len(s)) = SubSeq(t, 1, Len(s))
  BY <1>1, <1>2, <1>3
<1> QED
  BY <1>1, <1>2, <1>4 DEF IsPrefix

LEMMA WholeIsBeginning ==
  ASSUME NEW S, NEW s \in Seq(S)
  PROVE  IsPrefix(s, s)
BY DEF IsPrefix

LEMMA NothingDone ==
  ASSUME DaemonInv, NEW req, NEW r, r.w = World, r.ok \in BOOLEAN,
         r.ok => req.op \notin {"open", "run"}
  PROVE  Proper(req, r)
<1>1. r.w.sessions = sessions /\ r.w.files = files
  BY DEF World
<1> QED
  BY <1>1 DEF Proper, DaemonInv, Unedited, Extends, Keeps

LEMMA Opened ==
  ASSUME DaemonInv, NEW req, IsRequest(req), req.op = "open", NEW how
  PROVE  Proper(req, OpOpen(req, how))
<1> DEFINE ws == IF req.file = NoPath
                 THEN [text |-> req.text, file |-> NoPath, stamp |-> 0, readOnly |-> req.readOnly]
                 ELSE [text |-> files[req.file].text, file |-> req.file, stamp |-> files[req.file].stamp,
                       readOnly |-> req.readOnly]
           r == OpOpen(req, how)
<1>1. CASE req.file # NoPath /\ (files[req.file].text = NoPath \/ how = "fails")
  <2>1. r = Err
    BY <1>1 DEF OpOpen
  <2>2. r.w = World /\ r.ok = FALSE
    BY <2>1 DEF Err
  <2> QED
    BY <2>2, NothingDone
<1>2. CASE ~(req.file # NoPath /\ (files[req.file].text = NoPath \/ how = "fails"))
  <2>1. r = Ok([World EXCEPT !.sessions = With(req.session, ws)])
    BY <1>2 DEF OpOpen
  <2>2. /\ r.ok = TRUE
        /\ r.w.sessions = With(req.session, ws)
        /\ r.w.files = files
    BY <2>1 DEF Ok, World
  <2>3. /\ req.file \in DOMAIN Paths \cup {NoPath} /\ req.readOnly \in BOOLEAN
        /\ req.file = NoPath => req.text \in Seq(Mark)
    BY DEF IsRequest
  <2>4. ws \in Session
    <3>1. CASE req.file = NoPath
      BY <2>3, <3>1 DEF Session
    <3>2. CASE req.file # NoPath
      <4>1. files[req.file] \in File
        BY <2>3, <3>2 DEF DaemonInv, AreFiles
      <4> QED
        BY <1>2, <2>3, <3>2, <4>1 DEF File, Session
    <3> QED
      BY <3>1, <3>2
  <2>5. ws.file # NoPath => ws.stamp = files[ws.file].stamp /\ ws.text = files[ws.file].text
    OBVIOUS
  <2>6. \A f \in DOMAIN Paths : files[f].stamp \in Nat
    BY DEF DaemonInv, AreFiles, File
  <2> HIDE DEF ws, r
  <2> DEFINE ss == With(req.session, ws)
  <2>7. /\ DOMAIN ss = DOMAIN sessions \cup {req.session}
        /\ ss[req.session] = ws
        /\ \A id \in DOMAIN sessions : id # req.session => ss[id] = sessions[id]
    BY DEF With
  <2> HIDE DEF ss
  <2>8. AreSessions(ss)
    <3>1. \A id \in DOMAIN ss : ss[id] \in Session
      BY <2>4, <2>7 DEF DaemonInv, AreSessions
    <3>2. ss = [id \in DOMAIN ss |-> ss[id]]
      BY DEF ss, With
    <3> QED
      BY <3>1, <3>2 DEF AreSessions
  <2>9. Stamped(ss, files)
    <3>1. ws.file # NoPath => Current(ws, files[ws.file])
      <4> SUFFICES ASSUME ws.file # NoPath
                   PROVE  Current(ws, files[ws.file])
        OBVIOUS
      <4>1. ws.file \in DOMAIN Paths /\ ws.text \in Seq(Mark)
        BY <2>4 DEF Session
      <4>2. IsPrefix(ws.text, ws.text)
        BY <4>1, WholeIsBeginning
      <4> QED
        BY <2>5, <2>6, <4>1, <4>2 DEF Current, Shows
    <3> QED
      BY <2>7, <3>1 DEF DaemonInv, Stamped
  <2>10. Unedited(ss) /\ Extends(req, files)
    <3>1. ASSUME sessions[req.session].readOnly, req.session \in DOMAIN sessions,
                 sessions[req.session].file = ws.file, sessions[req.session].stamp = ws.stamp,
                 ws.file # NoPath
          PROVE  sessions[req.session].text = ws.text
      BY <2>5, <3>1 DEF DaemonInv, Stamped, Current, Shows
    <3> QED
      BY <2>7, <3>1 DEF Unedited, Extends
  <2>11. Keeps(req, TRUE, ss)
    BY <2>7 DEF Keeps
  <2>12. AreFiles(files)
    BY DEF DaemonInv
  <2> QED
    BY <2>2, <2>8, <2>9, <2>10, <2>11, <2>12 DEF Proper, ss, r
<1> QED
  BY <1>1, <1>2
LEMMA RanOrRehearsed ==
  ASSUME DaemonInv, NEW req, IsRequest(req), req.op \in {"run", "rehearse"}
  PROVE  Proper(req, OpRun(req, req.op = "rehearse"))
<1> DEFINE ws == sessions[req.session]
           new == [ws EXCEPT !.text = @ \o req.edit]
           r == OpRun(req, req.op = "rehearse")
<1>1. req.edit \in Seq(Mark) /\ req.fails \in BOOLEAN
  BY DEF IsRequest
<1>2. CASE ~(Known(req) /\ req.op = "run" /\ ~req.fails /\ (ws.readOnly => req.edit = <<>>))
  <2>1. r = Err \/ (req.op = "rehearse" /\ r = Ok(World))
    BY <1>1, <1>2 DEF OpRun
  <2> HIDE DEF r
  <2>2. r.w = World /\ r.ok \in BOOLEAN /\ (r.ok => req.op = "rehearse")
    <3>1. CASE r = Err
      BY <3>1 DEF Err
    <3>2. CASE req.op = "rehearse" /\ r = Ok(World)
      BY <3>2 DEF Ok
    <3> QED
      BY <2>1, <3>1, <3>2
  <2>3. Proper(req, r)
    BY <2>2, NothingDone
  <2> QED
    BY <2>3 DEF r
<1>3. CASE Known(req) /\ req.op = "run" /\ ~req.fails /\ (ws.readOnly => req.edit = <<>>)
  <2>1. r = Ok([World EXCEPT !.sessions = With(req.session, new)])
    BY <1>1, <1>3 DEF OpRun
  <2> HIDE DEF r, new
  <2>2. /\ r.ok = TRUE
        /\ r.w.sessions = With(req.session, new)
        /\ r.w.files = files
    BY <2>1 DEF Ok, World
  <2>3. req.session \in DOMAIN sessions /\ ws \in Session
    BY <1>3 DEF Known, DaemonInv, AreSessions
  <2>4. /\ new \in Session
        /\ new.text = ws.text \o req.edit /\ new.file = ws.file
        /\ new.stamp = ws.stamp /\ new.readOnly = ws.readOnly
    <3>1. ws.text \o req.edit \in Seq(Mark)
      BY <1>1, <2>3 DEF Session
    <3> QED
      BY <2>3, <3>1 DEF Session, new
  <2>5. /\ ToSet(new.text) = ToSet(ws.text) \cup ToSet(req.edit)
        /\ ws.readOnly => new.text = ws.text
    <3>1. ws.text \in Seq(Mark)
      BY <2>3 DEF Session
    <3>2. req.edit = <<>> => ws.text \o req.edit = ws.text
      BY <3>1
    <3>3. ToSet(ws.text \o req.edit) = ToSet(ws.text) \cup ToSet(req.edit)
      BY <1>1, <3>1, Appended
    <3> HIDE DEF ws
    <3> QED
      BY <1>3, <2>4, <3>2, <3>3
  <2> DEFINE ss == With(req.session, new)
  <2>6. /\ DOMAIN ss = DOMAIN sessions
        /\ ss = [id \in DOMAIN ss |-> ss[id]]
        /\ ss[req.session] = new
        /\ \A id \in DOMAIN sessions : id # req.session => ss[id] = sessions[id]
    BY <2>3 DEF With
  <2> HIDE DEF ss
  <2>7. AreSessions(ss)
    <3>1. \A id \in DOMAIN ss : ss[id] \in Session
      BY <2>4, <2>6 DEF DaemonInv, AreSessions
    <3> QED
      BY <2>6, <3>1 DEF AreSessions
  <2>8. Stamped(ss, files)
    <3> SUFFICES ASSUME NEW id \in DOMAIN sessions, ss[id].file # NoPath
                 PROVE  Current(ss[id], files[ss[id].file])
      BY <2>6 DEF Stamped
    <3>1. Current(sessions[id], files[ss[id].file])
      <4>1. sessions[id].file = ss[id].file
        BY <2>4, <2>6
      <4> QED
        BY <4>1 DEF DaemonInv, Stamped
    <3>2. CASE id # req.session
      BY <2>6, <3>1, <3>2
    <3>3. CASE id = req.session
      <4> DEFINE f == files[ss[id].file]
      <4> HIDE DEF f
      <4>1. ss[id] = new /\ sessions[id] = ws /\ Current(ws, f)
        BY <2>6, <3>1, <3>3 DEF f
      <4>2. new.text = ws.text \o req.edit /\ ws.text \in Seq(Mark)
        BY <2>3, <2>4 DEF Session
      <4>3. Shows(ws, f) => Shows(new, f)
        <5> HIDE DEF ws
        <5> SUFFICES ASSUME Shows(ws, f)
                     PROVE  Shows(new, f)
          OBVIOUS
        <5>1. IsPrefix(f.text, ws.text \o req.edit)
          BY <1>1, <4>2, BeginningsStay DEF Shows
        <5>2. new.readOnly => new.text = f.text
          BY <2>4, <2>5 DEF Shows
        <5> QED
          BY <4>2, <5>1, <5>2 DEF Shows
      <4> HIDE DEF ws
      <4>4. Current(new, f)
        BY <2>4, <4>1, <4>3 DEF Current
      <4> QED
        BY <4>1, <4>4 DEF f
    <3> QED
      BY <3>2, <3>3
  <2>9. Unedited(ss) /\ Extends(req, files)
    BY <2>4, <2>5, <2>6 DEF Unedited, Extends
  <2>10. Keeps(req, TRUE, ss)
    BY <2>5, <2>6 DEF Keeps
  <2>11. Proper(req, r)
    BY <2>2, <2>7, <2>8, <2>9, <2>10 DEF Proper, ss, DaemonInv
  <2> QED
    BY <2>11 DEF r
<1> QED
  BY <1>2, <1>3

LEMMA Saved ==
  ASSUME DaemonInv, NEW req, IsRequest(req), req.op = "save", NEW how
  PROVE  Proper(req, OpSave(req, how))
<1> DEFINE ws == sessions[req.session]
           now == files[req.path].stamp + 1
           r == OpSave(req, how)
           new == Rebased(ws, req.path, how)
           d == Written(ws, req.path)
<1>1. CASE ~Known(req) \/ Drifted(ws, req.path) \/ how = "fails"
  <2>1. r = Err
    BY <1>1 DEF OpSave
  <2>2. r.w = World /\ r.ok = FALSE
    BY <2>1 DEF Err
  <2> QED
    BY <2>2, NothingDone
<1>2. CASE ~(~Known(req) \/ Drifted(ws, req.path) \/ how = "fails")
  <2>1. r = Ok([sessions |-> With(req.session, new), files |-> d])
    BY <1>2 DEF OpSave
  <2> HIDE DEF r, new, d
  <2>2. /\ r.ok = TRUE
        /\ r.w.sessions = With(req.session, new)
        /\ r.w.files = d
    BY <2>1 DEF Ok
  <2>3. req.session \in DOMAIN sessions /\ ws \in Session
    BY <1>2 DEF Known, DaemonInv, AreSessions
  <2>4. /\ req.path \in DOMAIN Paths /\ req.path # NoPath
        /\ files[req.path] \in File /\ now \in Nat
        /\ DOMAIN files = DOMAIN Paths
    BY DaemonAssumption DEF IsRequest, DaemonInv, AreFiles, File
  <2>5. /\ new \in Session
        /\ new.text = ws.text /\ new.readOnly = ws.readOnly
        /\ new = ws \/ (new.file = req.path /\ new.stamp = now)
    <3>1. [ws EXCEPT !.file = req.path, !.stamp = now] \in Session
      BY <2>3, <2>4 DEF Session
    <3>2. new = ws \/ new = [ws EXCEPT !.file = req.path, !.stamp = now]
      BY DEF new, Rebased
    <3> QED
      BY <2>3, <3>1, <3>2 DEF Session
  <2>6. /\ d[req.path].text = ws.text /\ d[req.path].stamp = now
        /\ now = files[req.path].stamp + 1
        /\ \A f \in DOMAIN Paths : f # req.path => d[f] = files[f]
    BY <2>4 DEF d, Written
  <2>7. AreFiles(d)
    <3>1. [text |-> ws.text, stamp |-> now] \in File
      BY <2>3, <2>4 DEF Session, File
    <3> QED
      BY <2>4, <3>1 DEF DaemonInv, AreFiles, d, Written
  <2> HIDE DEF now
  <2> DEFINE ss == With(req.session, new)
  <2>8. /\ DOMAIN ss = DOMAIN sessions
        /\ ss = [id \in DOMAIN ss |-> ss[id]]
        /\ ss[req.session] = new
        /\ \A id \in DOMAIN sessions : id # req.session => ss[id] = sessions[id]
    BY <2>3 DEF With
  <2> HIDE DEF ss
  <2>9. AreSessions(ss)
    <3>1. \A id \in DOMAIN ss : ss[id] \in Session
      BY <2>5, <2>8 DEF DaemonInv, AreSessions
    <3> QED
      BY <2>8, <3>1 DEF AreSessions
  <2>10. Stamped(ss, d)
    <3> SUFFICES ASSUME NEW id \in DOMAIN ss, ss[id].file # NoPath
                 PROVE  Current(ss[id], d[ss[id].file])
      BY DEF Stamped
    <3>1. CASE ss[id].file = req.path /\ ss[id].stamp = now /\ ss[id].text = ws.text
      <4>1. ws.text \in Seq(Mark) /\ IsPrefix(ws.text, ws.text)
        BY <2>3, WholeIsBeginning DEF Session
      <4> QED
        BY <2>4, <2>6, <3>1, <4>1 DEF Current, Shows
    <3>2. CASE ss[id] = sessions[id]
      <4>1. /\ sessions[id] \in Session
            /\ sessions[id].file \in DOMAIN Paths
            /\ Current(sessions[id], files[sessions[id].file])
        BY <2>8, <3>2 DEF DaemonInv, AreSessions, Session, Stamped
      <4>2. CASE sessions[id].file # req.path
        BY <2>6, <3>2, <4>1, <4>2
      <4>3. CASE sessions[id].file = req.path
        <5>1. sessions[id].stamp \in Nat /\ files[req.path].stamp \in Nat
          BY <2>4, <4>1 DEF Session, File
        <5>2. sessions[id].stamp < d[req.path].stamp
          BY <2>6, <4>1, <4>3, <5>1 DEF Current
        <5> QED
          BY <2>6, <3>2, <4>3, <5>1, <5>2 DEF Current
      <4> QED
        BY <4>2, <4>3
    <3> QED
      BY <2>5, <2>8, <3>1, <3>2
  <2>11. Unedited(ss)
    BY <2>5, <2>8 DEF Unedited
  <2>12. Extends(req, d)
    <3> SUFFICES ASSUME NEW p \in DOMAIN Paths, d[p] # files[p], ws.file = p
                 PROVE  IsPrefix(files[p].text, d[p].text)
      BY DEF Extends
    <3>1. p = req.path
      BY <2>6
    <3>2. ws.stamp = files[p].stamp
      BY <1>2, <3>1 DEF Drifted
    <3>3. Current(ws, files[p])
      BY <2>3, <2>4, <3>1 DEF DaemonInv, Stamped
    <3> QED
      BY <2>6, <3>1, <3>2, <3>3 DEF Current, Shows
  <2>13. Keeps(req, TRUE, ss)
    BY <2>5, <2>8 DEF Keeps
  <2>14. Proper(req, r)
    BY <2>2, <2>7, <2>9, <2>10, <2>11, <2>12, <2>13 DEF Proper, ss
  <2> QED
    BY <2>14 DEF r
<1> QED
  BY <1>1, <1>2

LEMMA Closed ==
  ASSUME DaemonInv, NEW req, req.op = "close"
  PROVE  Proper(req, OpClose(req))
<1> DEFINE r == OpClose(req)
           ss == [id \in DOMAIN sessions \ {req.session} |-> sessions[id]]
<1>1. r.ok = TRUE /\ r.w.sessions = ss /\ r.w.files = files
  BY DEF OpClose, Ok, World
<1>2. /\ AreSessions(ss) /\ Stamped(ss, files)
      /\ Unedited(ss) /\ Extends(req, files) /\ Keeps(req, TRUE, ss)
  BY DEF DaemonInv, AreSessions, Stamped, Unedited, Extends, Keeps
<1> QED
  BY <1>1, <1>2 DEF Proper, DaemonInv

LEMMA Handled ==
  ASSUME DaemonInv, NEW req \in Request, NEW how
  PROVE  Proper(req, HandleLine(req, how))
<1>1. IsRequest(req)
  BY DaemonAssumption DEF Request
<1>2. CASE req.op = "open"
  BY <1>1, <1>2, Opened DEF HandleLine
<1>3. CASE req.op \in {"run", "rehearse"}
  BY <1>1, <1>3, RanOrRehearsed DEF HandleLine
<1>4. CASE req.op = "save"
  BY <1>1, <1>4, Saved DEF HandleLine
<1>5. CASE req.op = "close"
  BY <1>1, <1>5, Closed DEF HandleLine
<1>6. CASE req.op \notin {"open", "run", "rehearse", "save", "close"}
  <2> DEFINE r == HandleLine(req, how)
  <2>1. r = Err \/ r = Ok(World)
    BY <1>6 DEF HandleLine
  <2> HIDE DEF r
  <2>2. r.w = World /\ r.ok \in BOOLEAN
    <3>1. CASE r = Err
      BY <3>1 DEF Err
    <3>2. CASE r = Ok(World)
      BY <3>2 DEF Ok
    <3> QED
      BY <2>1, <3>1, <3>2
  <2>3. Proper(req, r)
    BY <1>6, <2>2, NothingDone
  <2> QED
    BY <2>3 DEF r
<1> QED
  BY <1>2, <1>3, <1>4, <1>5, <1>6

-----------------------------------------------------------------------------
(* The steps. *)

(* What a step has to show: the invariant, and RefusalsKeepAll unless      *)
(* nothing changed but connections.                                        *)
Good == DaemonInv' /\ RefusalsKeepAll

(* A step that touches no session and no file, and tells nobody anything.  *)
LEMMA Apart ==
  ASSUME DaemonInv, UNCHANGED <<sessions, files, others, told>>,
         conn' \in [Client -> Connection], backlog' \in Seq(Client),
         serving' \in Client \cup {Nobody},
         \A c \in Client : conn'[c].heard \in {conn[c].heard, <<>>}
  PROVE  Good
<1>1. DaemonInv'
  BY DEF DaemonInv, AreSessions, AreFiles, Stamped, ToldEditsStay
<1>2. ASSUME NEW c \in Client
      PROVE  ~(Len(conn'[c].heard) > Len(conn[c].heard))
  <2>1. conn[c].heard \in Seq(BOOLEAN)
    BY DEF DaemonInv, Connection
  <2> QED
    BY <2>1
<1>3. RefusalsKeepAll
  BY <1>2 DEF RefusalsKeepAll, OverVisited
<1> QED
  BY <1>1, <1>3 DEF Good

LEMMA ClientsGood ==
  ASSUME DaemonInv, NEW c \in Client, Ask(c) \/ Finish(c) \/ Connect(c) \/ Send(c) \/ HangUp(c)
  PROVE  Good
<1>1. conn \in [Client -> Connection] /\ backlog \in Seq(Client) /\ serving \in Client \cup {Nobody}
  BY DEF DaemonInv
<1>2. conn[c] \in Connection
  BY <1>1
<1>3. \A req \in Requests[c] : req \in Request
  BY DEF Request
<1>4. Append(backlog, c) \in Seq(Client) /\ <<>> \in Seq(Request) /\ <<>> \in Seq(BOOLEAN)
  BY <1>1
<1>5. CASE Ask(c)
  <2>1. CASE up
    <3>1. PICK req \in Requests[c] :
            conn' = [conn EXCEPT ![c] = [Silent EXCEPT !.open = TRUE, !.unread = <<req>>, !.lines = 1]]
      BY <1>5, <2>1 DEF Ask
    <3>2. <<req>> \in Seq(Request)
      BY <1>3
    <3>3. /\ [Silent EXCEPT !.open = TRUE, !.unread = <<req>>, !.lines = 1] \in Connection
          /\ [Silent EXCEPT !.open = TRUE, !.unread = <<req>>, !.lines = 1].heard = <<>>
      BY <1>4, <3>2 DEF Silent, Connection
    <3>4. conn' \in [Client -> Connection] /\ \A k \in Client : conn'[k].heard \in {conn[k].heard, <<>>}
      BY <1>1, <3>1, <3>3
    <3> QED
      BY <1>1, <1>4, <1>5, <2>1, <3>4, Apart DEF Ask, served
  <2>2. CASE ~up
    BY <1>1, <1>5, <2>2, Apart DEF Ask, served
  <2> QED
    BY <2>1, <2>2
<1>6. CASE Finish(c) \/ HangUp(c)
  <2>1. conn' = [conn EXCEPT ![c].open = FALSE, ![c].heard = <<>>] /\ UNCHANGED <<served, backlog>>
    BY <1>6 DEF Finish, HangUp
  <2>2. conn' \in [Client -> Connection] /\ \A k \in Client : conn'[k].heard \in {conn[k].heard, <<>>}
    BY <1>1, <1>2, <1>4, <2>1 DEF Connection
  <2> QED
    BY <1>1, <2>1, <2>2, Apart DEF served
<1>7. CASE Connect(c)
  <2> DEFINE k == [conn[c] EXCEPT !.open = TRUE, !.unread = <<>>, !.heard = <<>>]
  <2>1. conn' = [conn EXCEPT ![c] = k]
    BY <1>1, <1>7 DEF Connect
  <2>2. k \in Connection /\ k.heard = <<>>
    BY <1>2, <1>4 DEF Connection
  <2> HIDE DEF k
  <2>3. conn' \in [Client -> Connection] /\ \A x \in Client : conn'[x].heard \in {conn[x].heard, <<>>}
    BY <1>1, <2>1, <2>2
  <2> QED
    BY <1>1, <1>4, <1>7, <2>3, Apart DEF Connect, served
<1>8. CASE Send(c)
  <2>1. PICK req \in Requests[c] : conn' = [conn EXCEPT ![c].unread = Append(@, req), ![c].lines = @ + 1]
    BY <1>8 DEF Send
  <2>2. Append(conn[c].unread, req) \in Seq(Request)
    BY <1>2, <1>3 DEF Connection
  <2> DEFINE k == [conn[c] EXCEPT !.unread = Append(@, req), !.lines = @ + 1]
  <2>3. conn' = [conn EXCEPT ![c] = k]
    BY <1>1, <2>1
  <2>4. k \in Connection /\ k.heard = conn[c].heard
    <3>1. conn[c].lines + 1 \in Nat
      BY <1>2 DEF Connection
    <3> QED
      BY <1>2, <2>2, <3>1 DEF Connection
  <2> HIDE DEF k
  <2>5. conn' \in [Client -> Connection] /\ \A x \in Client : conn'[x].heard \in {conn[x].heard, <<>>}
    BY <1>1, <2>3, <2>4
  <2> QED
    BY <1>1, <1>8, <2>5, Apart DEF Send, served
<1> QED
  BY <1>5, <1>6, <1>7, <1>8

LEMMA AnswerGood ==
  ASSUME DaemonInv, Answer
  PROVE  Good
<1> DEFINE req == Head(conn[serving].unread)
<1>0. PICK how \in Disk :
        LET a == HandleLine(req, how) IN
        /\ sessions' = a.w.sessions
        /\ files' = a.w.files
        /\ told' = TellOf(req, a, conn[serving].open)
        /\ conn' = [conn EXCEPT ![serving].unread = Tail(@),
                                ![serving].heard = IF conn[serving].open THEN Append(@, a.ok) ELSE @]
        /\ serving' = IF conn[serving].open THEN serving ELSE Nobody
  BY DEF Answer
<1> DEFINE r == HandleLine(req, how)
<1>1. /\ serving \in Client /\ conn[serving] \in Connection
      /\ conn[serving].unread # <<>> /\ req \in Request
      /\ Tail(conn[serving].unread) \in Seq(Request)
  BY DEF DaemonInv, Answer, Connection
<1>2. Proper(req, r)
  BY <1>1, Handled
<1>3. /\ sessions' = r.w.sessions
      /\ files' = r.w.files
      /\ told' = TellOf(req, r, conn[serving].open)
      /\ conn' = [conn EXCEPT ![serving].unread = Tail(@),
                              ![serving].heard = IF conn[serving].open THEN Append(@, r.ok) ELSE @]
      /\ serving' = IF conn[serving].open THEN serving ELSE Nobody
      /\ backlog' = backlog /\ others' = others
  BY <1>0 DEF Answer
<1> HIDE DEF req, r
<1>4. r.ok \in BOOLEAN
  BY <1>2 DEF Proper
<1>5. /\ conn' \in [Client -> Connection]
      /\ \A c \in Client : c # serving => conn'[c].heard = conn[c].heard
      /\ conn'[serving].heard \in {conn[serving].heard, Append(conn[serving].heard, r.ok)}
  <2>1. Append(conn[serving].heard, r.ok) \in Seq(BOOLEAN)
    BY <1>1, <1>4 DEF Connection
  <2> QED
    BY <1>1, <1>3, <2>1 DEF Connection, DaemonInv
<1>6. DOMAIN told' = DOMAIN sessions'
  BY <1>3 DEF TellOf
<1>7. ToldEditsStay'
  <2> SUFFICES ASSUME NEW id \in DOMAIN sessions'
               PROVE  told'[id] \subseteq ToSet(sessions'[id].text)
    BY DEF ToldEditsStay
  <2>1. CASE r.ok /\ req.op = "open" /\ req.session = id
    BY <1>3, <2>1 DEF TellOf
  <2>2. CASE ~(r.ok /\ req.op = "open" /\ req.session = id)
    <3>1. /\ id \in DOMAIN sessions
          /\ ToSet(sessions[id].text) \subseteq ToSet(sessions'[id].text)
          /\ r.ok /\ req.op = "run" /\ req.session = id => Edits(req) \subseteq ToSet(sessions'[id].text)
      BY <1>2, <1>3, <2>2 DEF Proper, Keeps, Edits
    <3>2. told'[id] \subseteq told[id] \cup (IF r.ok /\ req.op = "run" /\ req.session = id THEN Edits(req) ELSE {})
      BY <1>3, <2>2, <3>1 DEF TellOf, DaemonInv
    <3>3. told[id] \subseteq ToSet(sessions[id].text)
      BY <3>1 DEF DaemonInv, ToldEditsStay
    <3> QED
      BY <3>1, <3>2, <3>3
  <2> QED
    BY <2>1, <2>2
<1>8. DaemonInv'
  <2>1. AreSessions(sessions)' /\ AreFiles(files)' /\ Stamped(sessions, files)'
    BY <1>2, <1>3 DEF Proper, AreSessions, AreFiles, Stamped
  <2>2. serving' \in Client \cup {Nobody} /\ backlog' \in Seq(Client) /\ others' \in Nat
    BY <1>1, <1>3 DEF DaemonInv
  <2> QED
    BY <1>5, <1>6, <1>7, <2>1, <2>2 DEF DaemonInv
<1>9. ASSUME NEW c \in Client, Len(conn'[c].heard) > Len(conn[c].heard), ~Last(conn'[c].heard)
      PROVE  sessions' = sessions /\ files' = files
  <2>1. conn[c].heard \in Seq(BOOLEAN)
    BY DEF DaemonInv, Connection
  <2>2. conn'[c].heard # conn[c].heard
    BY <1>9, <2>1
  <2>3. conn'[c].heard = Append(conn[c].heard, r.ok)
    BY <1>5, <2>2
  <2>4. Last(conn'[c].heard) = r.ok
    BY <2>1, <2>3, <1>4 DEF Last
  <2>5. r.w = World
    BY <1>2, <1>9, <2>4 DEF Proper
  <2> QED
    BY <1>3, <2>5 DEF World
<1>10. RefusalsKeepAll
  <2>1. Unedited(sessions') /\ Extends(req, files')
    BY <1>2, <1>3 DEF Proper
  <2>2. \A p \in DOMAIN Paths : OverVisited(p) => IsPrefix(files[p].text, files'[p].text)
    BY <2>1 DEF Extends, OverVisited, req
  <2> QED
    BY <1>9, <2>1, <2>2 DEF RefusalsKeepAll, Unedited
<1> QED
  BY <1>8, <1>10 DEF Good

LEMMA OthersGood ==
  ASSUME DaemonInv, OthersWrite
  PROVE  Good
<1>0. PICK p \in DOMAIN Paths :
        \E t \in Elsewhere[p] : files' = [files EXCEPT ![p] = [text |-> t, stamp |-> @.stamp + 1]]
  BY DEF OthersWrite
<1>1. PICK t \in Elsewhere[p] : files' = [files EXCEPT ![p] = [text |-> t, stamp |-> @.stamp + 1]]
  BY <1>0
<1>2. /\ sessions' = sessions /\ conn' = conn /\ backlog' = backlog
      /\ serving' = serving /\ told' = told /\ others' = others + 1
  BY DEF OthersWrite
<1>3. /\ files \in [DOMAIN Paths -> File] /\ files[p].stamp \in Nat
      /\ others \in Nat /\ t \in Seq(Mark) \cup {NoPath}
  BY DaemonAssumption DEF DaemonInv, AreFiles, File
<1>4. /\ files'[p].stamp = files[p].stamp + 1
      /\ \A f \in DOMAIN Paths : f # p => files'[f] = files[f]
  BY <1>1, <1>3
<1>5. AreFiles(files')
  <2>1. [text |-> t, stamp |-> files[p].stamp + 1] \in File
    BY <1>3 DEF File
  <2> QED
    BY <1>1, <1>3, <2>1 DEF AreFiles
<1>6. Stamped(sessions, files')
  <2> SUFFICES ASSUME NEW id \in DOMAIN sessions, sessions[id].file # NoPath
               PROVE  Current(sessions[id], files'[sessions[id].file])
    BY DEF Stamped
  <2>1. /\ sessions[id].file \in DOMAIN Paths /\ sessions[id].stamp \in Nat
        /\ Current(sessions[id], files[sessions[id].file])
    BY DEF DaemonInv, AreSessions, Session, Stamped
  <2>2. CASE sessions[id].file # p
    BY <1>4, <2>1, <2>2
  <2>3. CASE sessions[id].file = p
    <3>1. sessions[id].stamp < files'[p].stamp
      BY <1>3, <1>4, <2>1, <2>3 DEF Current
    <3> QED
      BY <1>3, <1>4, <2>1, <2>3, <3>1 DEF Current
  <2> QED
    BY <2>2, <2>3
<1>7. DaemonInv'
  <2>1. AreSessions(sessions)' /\ AreFiles(files)' /\ Stamped(sessions, files)' /\ others' \in Nat
    BY <1>2, <1>3, <1>5, <1>6 DEF DaemonInv, AreSessions, AreFiles, Stamped
  <2> QED
    BY <1>2, <2>1 DEF DaemonInv, ToldEditsStay
<1>8. RefusalsKeepAll
  <2>1. ASSUME NEW c \in Client
        PROVE  ~(Len(conn'[c].heard) > Len(conn[c].heard))
    <3>1. conn[c].heard \in Seq(BOOLEAN)
      BY DEF DaemonInv, Connection
    <3> QED
      BY <1>2, <3>1
  <2>2. others' # others
    BY <1>2, <1>3
  <2> QED
    BY <1>2, <2>1, <2>2 DEF RefusalsKeepAll, OverVisited
<1> QED
  BY <1>7, <1>8 DEF Good

LEMMA DaemonGood ==
  ASSUME DaemonInv, [DaemonNext]_daemonVars
  PROVE  Good
<1>1. conn \in [Client -> Connection] /\ backlog \in Seq(Client) /\ serving \in Client \cup {Nobody}
  BY DEF DaemonInv
<1>2. ASSUME NEW c \in Client, Ask(c) \/ Finish(c) \/ Connect(c) \/ Send(c) \/ HangUp(c)
      PROVE  Good
  BY <1>2, ClientsGood
<1>3. CASE Accept
  <2>1. Head(backlog) \in Client /\ Tail(backlog) \in Seq(Client)
    BY <1>1, <1>3 DEF Accept
  <2> QED
    BY <1>1, <1>3, <2>1, Apart DEF Accept
<1>4. CASE Answer
  BY <1>4, AnswerGood
<1>5. CASE EndOfConnection
  BY <1>1, <1>5, Apart DEF EndOfConnection
<1>6. CASE DaemonDies
  <2>1. /\ DOMAIN sessions' = {} /\ sessions' = [id \in {} |-> <<>>] /\ DOMAIN told' = {}
        /\ files' = files /\ others' = others /\ backlog' = <<>> /\ serving' = Nobody
        /\ conn' = [c \in Client |-> [conn[c] EXCEPT !.unread = <<>>]]
    BY <1>6 DEF DaemonDies
  <2>2. conn' \in [Client -> Connection] /\ \A c \in Client : conn'[c].heard = conn[c].heard
    <3>1. ASSUME NEW c \in Client
          PROVE  /\ [conn[c] EXCEPT !.unread = <<>>] \in Connection
                 /\ [conn[c] EXCEPT !.unread = <<>>].heard = conn[c].heard
      <4>1. conn[c] \in Connection /\ <<>> \in Seq(Request)
        BY <1>1
      <4> QED
        BY <4>1 DEF Connection
    <3> QED
      BY <2>1, <3>1
  <2>3. DaemonInv'
    BY <2>1, <2>2 DEF DaemonInv, AreSessions, AreFiles, Stamped, ToldEditsStay
  <2>4. RefusalsKeepAll
    <3>1. ASSUME NEW c \in Client
          PROVE  ~(Len(conn'[c].heard) > Len(conn[c].heard))
      <4>1. conn[c].heard \in Seq(BOOLEAN)
        BY <1>1 DEF Connection
      <4> QED
        BY <2>2, <4>1
    <3> QED
      BY <2>1, <3>1 DEF RefusalsKeepAll, OverVisited
  <2> QED
    BY <2>3, <2>4 DEF Good
<1>7. CASE Restart \/ UNCHANGED daemonVars
  BY <1>1, <1>7, Apart DEF Restart, daemonVars
<1>8. CASE OthersWrite
  BY <1>8, OthersGood
<1> QED
  BY <1>2, <1>3, <1>4, <1>5, <1>6, <1>7, <1>8 DEF DaemonNext

LEMMA DaemonStarts ==
  ASSUME DaemonInit
  PROVE  DaemonInv
<1>1. AreFiles(files)
  BY DaemonAssumption DEF DaemonInit, AreFiles, File
<1>2. conn \in [Client -> Connection]
  BY DEF DaemonInit, Silent, Connection
<1> QED
  BY <1>1, <1>2 DEF DaemonInit, DaemonInv, AreSessions, Stamped, ToldEditsStay

(* Whatever clients ask, whenever they or the daemon go away and whatever  *)
(* others make of the files: an edit a client was told of is in the        *)
(* session until it is opened anew or closed, a refused request changes no *)
(* session and no file, a read-only session keeps its text, and a save     *)
(* over the file its session visits only adds to what is there, be that    *)
(* another session's or another program's (handle_line, serve, save_to).   *)
THEOREM EditsAreKept == DaemonSpec => DaemonKeepsEdits
<1>1. DaemonInit => DaemonInv
  BY DaemonStarts
<1>2. DaemonInv /\ [DaemonNext]_daemonVars => DaemonInv' /\ [RefusalsKeepAll]_daemonVars
  BY DaemonGood DEF Good
<1>3. DaemonInv => ToldEditsStay
  BY DEF DaemonInv
<1> QED
  BY <1>1, <1>2, <1>3, PTL DEF DaemonSpec, DaemonKeepsEdits
=============================================================================
