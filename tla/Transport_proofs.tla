-------------------------- MODULE Transport_proofs --------------------------
(***************************************************************************)
(* What holds of the store and of the requests of any number of clients,   *)
(* for every set of handles and every cap: making room costs no work, and  *)
(* the workspaces stay with those they were made for.  A request is        *)
(* followed from the tool it calls outwards, through the protocol layer    *)
(* and the router, and at each layer what it may do and what it may say    *)
(* are stated once.                                                        *)
(***************************************************************************)
EXTENDS Transport, TLAPS

-----------------------------------------------------------------------------
(* The store of workspaces. *)

(* Only what may be dropped is dropped. *)
LEMMA VictimsAreIdle ==
  ASSUME NEW o, NEW idle, NEW cap
  PROVE  Victims(o, idle, cap) \subseteq idle
BY DEF Victims

(* Taking in a workspace keeps every one with unsaved edits, and the pin.  *)
LEMMA InsertKeepsWork ==
  ASSUME NEW h, NEW unsaved, Insert(h, unsaved), NEW k \in DOMAIN work,
         work[k] \/ k = pinned
  PROVE  k \in DOMAIN work'
<1> DEFINE gone == Victims(order, Idle, Cap)
           kept == Keep(DOMAIN work \ gone)
<1>1. k \notin gone
  BY VictimsAreIdle DEF Idle
<1>2. DOMAIN kept = DOMAIN work \ gone
  BY DEF Keep
<1>3. DOMAIN work' = DOMAIN kept \cup {h}
  BY DEF Insert
<1> QED
  BY <1>1, <1>2, <1>3

(* Making room never drops a workspace with unsaved edits or the pinned    *)
(* one; only the client's close_workspace does (evict_for_room).           *)
THEOREM WorkIsNeverEvicted == Spec => RoomCostsNoWork
<1>1. ASSUME [Next]_vars, NEW h \in Handle, Dropped(h), work[h] \/ h = pinned
      PROVE  CloseWorkspace(h)
  <2>1. CASE UNCHANGED vars
    BY <1>1, <2>1 DEF vars, Dropped
  <2>2. ASSUME NEW k \in Handle, Mint(k)
        PROVE  CloseWorkspace(h)
    BY <1>1, <2>2, InsertKeepsWork DEF Mint, Dropped
  <2>3. ASSUME NEW k \in Handle, BareCall(k)
        PROVE  CloseWorkspace(h)
    BY <1>1, <2>3, InsertKeepsWork DEF BareCall, Dropped
  <2>4. ASSUME NEW k \in Handle, CallIn(k)
        PROVE  CloseWorkspace(h)
    BY <1>1, <2>4 DEF CallIn, Dropped
  <2>5. ASSUME NEW k \in Handle, CloseWorkspace(k)
        PROVE  CloseWorkspace(h)
    <3>1. DOMAIN work' = DOMAIN work \ {k}
      BY <2>5 DEF CloseWorkspace, Keep
    <3>2. h = k
      BY <1>1, <3>1 DEF Dropped
    <3> QED
      BY <2>5, <3>2
  <2> QED
    BY <1>1, <2>1, <2>2, <2>3, <2>4, <2>5 DEF Next
<1>2. [Next]_vars =>
        [\A h \in Handle : Dropped(h) /\ (work[h] \/ h = pinned) => CloseWorkspace(h)]_vars
  BY <1>1
<1> QED
  BY <1>2, PTL DEF Spec, RoomCostsNoWork

-----------------------------------------------------------------------------
(* Requests. *)

(* What a request may do to the store, when it comes with these handles.   *)
Acts(does, handles, polls) ==
  /\ does.op \in {"nothing", "insert", "call", "close"}
  /\ does.op = "insert" => minted # Handle
  /\ does.op \in {"call", "close"} => does.at \in handles /\ does.at \in DOMAIN work
  /\ polls => \/ does.op = "nothing"
              \/ does.op = "call" /\ does.unsaved = work[does.at]

(* The handles that come to be with it.                                    *)
Born(does) == IF does.op = "insert" THEN {NewHandle} ELSE {}

(* What the reply to it may say.                                           *)
Says(does, reply, handles) ==
  /\ reply.structured \in {{}, reply.text}
  /\ reply.text \subseteq (handles \cap DOMAIN work) \cup Born(does)
  /\ does.op # "nothing" => reply.kind # "error" /\ reply.code = 0

Polls(name) == name \in Stateful /\ ~ToolOf[name].makes

Store ==
  /\ minted \subseteq Handle
  /\ work = [h \in DOMAIN work |-> work[h]]
  /\ DOMAIN work \subseteq minted

-----------------------------------------------------------------------------
(* Until they run out, there is a handle nobody was given.                  *)
LEMMA NewHandleIsNew ==
  ASSUME Store, minted # Handle
  PROVE  NewHandle \in Handle /\ NewHandle \notin minted /\ NewHandle # None
BY WorkspaceStoreAssumption DEF NewHandle, Store

(* A call in a workspace stays there; one beside the store may bring one   *)
(* in, and over HTTP then says so.                                         *)
LEMMA CallsStayPut ==
  ASSUME Store, NEW name \in Stateful, NEW h \in DOMAIN work \cup {None},
         NEW reports \in BOOLEAN, NEW o \in CallOutcomes(name, h, reports)
  PROVE  /\ Acts(o.does, {h} \ {None}, Polls(name))
         /\ Says(o.does, o.reply, {h} \ {None})
         /\ ~reports => o.reply.text = {}
         /\ reports /\ o.does.op = "insert" => o.reply.text = {NewHandle}
         /\ h # None => o.does.op # "insert"
<1>1. CASE h # None
  <2>1. PICK u \in IF ToolOf[name].makes THEN BOOLEAN ELSE {work[h]}, failed \in BOOLEAN :
          o = [does |-> [op |-> "call", at |-> h, unsaved |-> u],
               reply |-> Reported(name, failed, IF reports THEN h ELSE None)]
    BY <1>1 DEF CallOutcomes
  <2>2. /\ o.does.op = "call" /\ o.does.at = h
        /\ ~ToolOf[name].makes => o.does.unsaved = work[h]
    BY <2>1
  <2>3. /\ o.reply.kind = "result" /\ o.reply.code = 0
        /\ o.reply.text = IF reports THEN {h} ELSE {}
        /\ o.reply.structured \in {{}, o.reply.text}
    <3> DEFINE r == Reported(name, failed, IF reports THEN h ELSE None)
    <3>1. /\ r.kind = "result" /\ r.code = 0
          /\ r.text = IF reports THEN {h} ELSE {}
          /\ r.structured \in {{}, r.text}
      BY <1>1 DEF Reported, Result, NoReply
    <3>2. o.reply = r
      BY <2>1
    <3> QED
      BY <3>1, <3>2
  <2> QED
    BY <1>1, <2>2, <2>3 DEF Acts, Says, Polls, Born
<1>2. CASE h = None
  <2>1. ASSUME NEW failed \in BOOLEAN,
               o = [does |-> Nothing, reply |-> Reported(name, failed, None)]
        PROVE  /\ o.does.op = "nothing"
               /\ o.reply.text = {} /\ o.reply.structured = {}
    <3>1. o.reply = Reported(name, failed, None) /\ o.does.op = "nothing"
      BY <2>1 DEF Nothing
    <3> QED
      BY <3>1 DEF Reported, Result, NoReply
  <2>2. ASSUME NEW u \in IF ToolOf[name].makes /\ minted # Handle THEN BOOLEAN ELSE {},
               NEW failed \in BOOLEAN,
               o = [does |-> Makes(u),
                    reply |-> Reported(name, failed, IF reports THEN NewHandle ELSE None)]
        PROVE  /\ o.does.op = "insert" /\ ToolOf[name].makes /\ minted # Handle
               /\ o.reply.kind = "result" /\ o.reply.code = 0
               /\ o.reply.text = IF reports THEN {NewHandle} ELSE {}
               /\ o.reply.structured \in {{}, o.reply.text}
    <3> DEFINE r == Reported(name, failed, IF reports THEN NewHandle ELSE None)
    <3>1. o.reply = r /\ o.does.op = "insert"
      BY <2>2 DEF Makes
    <3>2. ToolOf[name].makes /\ minted # Handle /\ NewHandle # None
      BY <2>2, NewHandleIsNew
    <3>3. /\ r.kind = "result" /\ r.code = 0
          /\ r.text = IF reports THEN {NewHandle} ELSE {}
          /\ r.structured \in {{}, r.text}
      BY <3>2 DEF Reported, Result, NoReply
    <3> QED
      BY <3>1, <3>2, <3>3
  <2>3. \/ \E failed \in BOOLEAN : o = [does |-> Nothing, reply |-> Reported(name, failed, None)]
        \/ \E u \in IF ToolOf[name].makes /\ minted # Handle THEN BOOLEAN ELSE {},
              failed \in BOOLEAN :
              o = [does |-> Makes(u),
                   reply |-> Reported(name, failed, IF reports THEN NewHandle ELSE None)]
    BY <1>2 DEF CallOutcomes
  <2> QED
    BY <1>2, <2>1, <2>2, <2>3 DEF Acts, Says, Polls, Born
<1> QED
  BY <1>1, <1>2

(* tools_call: what a tool does is done in the workspace that is named, or *)
(* that the transport implies.                                             *)
LEMMA ToolsStayPut ==
  ASSUME Store, NEW params, NEW implicit, NEW stdio \in BOOLEAN,
         NEW o \in ToolsCall(params, implicit, stdio)
  PROVE  LET handles == {params.workspace, implicit} \ {None} IN
         /\ Acts(o.does, handles, Polls(params.tool))
         /\ Says(o.does, o.reply, handles)
         /\ stdio => o.reply.text = {}
         /\ stdio /\ implicit # None => o.does.op \in {"nothing", "call"}
         /\ implicit # None \/ Era(params) = "modern" =>
              (o.does.op = "insert" => stdio \/ o.reply.text = {NewHandle})
<1> DEFINE handles == {params.workspace, implicit} \ {None}
           name == params.tool
           h == Named(params, implicit)
<1>1. ASSUME o.reply = Result({}, {}), o.does = Nothing
      PROVE  /\ Acts(o.does, handles, Polls(name)) /\ Says(o.does, o.reply, handles)
             /\ o.reply.text = {} /\ o.does.op = "nothing"
  BY <1>1 DEF Acts, Says, Polls, Born, Result, NoReply, Nothing
<1>2. CASE ~Listed(name, stdio) \/ name = "git_log"
  <2>1. o \in {[does |-> Nothing, reply |-> Result({}, {})]}
    BY <1>2 DEF ToolsCall
  <2>2. o.reply = Result({}, {}) /\ o.does = Nothing
    BY <2>1
  <2> HIDE DEF handles, name
  <2> QED
    BY <1>1, <2>2 DEF handles, name
<1>3. CASE Listed(name, stdio) /\ name = "open_workspace"
  <2>1. minted # Handle /\ o = [does |-> Makes(FALSE), reply |-> Result({NewHandle}, {NewHandle})]
    BY <1>3 DEF ToolsCall
  <2>2. /\ o.does.op = "insert" /\ o.reply.kind = "result" /\ o.reply.code = 0
        /\ o.reply.text = {NewHandle} /\ o.reply.structured = {NewHandle}
    BY <2>1 DEF Makes, Result, NoReply
  <2>3. ~stdio /\ ~Polls(name)
    BY <1>3 DEF Listed, Polls, Stateful, ToolOf
  <2> QED
    BY <2>1, <2>2, <2>3 DEF Acts, Says, Born
<1>4. CASE Listed(name, stdio) /\ name = "close_workspace"
  <2>1. ~stdio /\ ~Polls(name)
    BY <1>4 DEF Listed, Polls, Stateful, ToolOf
  <2>2. \/ /\ params.workspace \in DOMAIN work
           /\ o = [does |-> [op |-> "close", at |-> params.workspace], reply |-> Result({}, {})]
        \/ o = [does |-> Nothing, reply |-> Result({}, {})]
    BY <1>4 DEF ToolsCall
  <2>3. CASE o = [does |-> Nothing, reply |-> Result({}, {})]
    <3>1. o.reply = Result({}, {}) /\ o.does = Nothing
      BY <2>3
    <3> HIDE DEF handles, name
    <3> QED
      BY <1>1, <3>1 DEF handles, name
  <2>4. CASE /\ params.workspace \in DOMAIN work
             /\ o = [does |-> [op |-> "close", at |-> params.workspace], reply |-> Result({}, {})]
    <3>1. /\ o.does.op = "close" /\ o.does.at = params.workspace
          /\ o.reply.kind = "result" /\ o.reply.code = 0
          /\ o.reply.text = {} /\ o.reply.structured = {}
      BY <2>4 DEF Result, NoReply
    <3>2. params.workspace # None
      BY <2>4, WorkspaceStoreAssumption DEF Store
    <3> QED
      BY <2>1, <2>4, <3>1, <3>2 DEF Acts, Says, Born
  <2> QED
    BY <2>2, <2>3, <2>4
<1>5. CASE Listed(name, stdio) /\ name \notin {"git_log", "open_workspace", "close_workspace"}
  <2>1. name \in Stateful
    BY <1>5 DEF Listed
  <2>2. o \in IF h # None /\ h \notin DOMAIN work THEN {[does |-> Nothing, reply |-> Result({}, {})]}
              ELSE CallOutcomes(name, h, Era(params) = "modern" /\ ~stdio)
    BY <1>5 DEF ToolsCall
  <2>3. CASE h # None /\ h \notin DOMAIN work
    <3>1. o.reply = Result({}, {}) /\ o.does = Nothing
      BY <2>2, <2>3
    <3> HIDE DEF handles, name
    <3> QED
      BY <1>1, <3>1 DEF handles, name
  <2>4. CASE h \in DOMAIN work \cup {None}
    <3> DEFINE reports == Era(params) = "modern" /\ ~stdio
    <3>1. o \in CallOutcomes(name, h, reports) /\ reports \in BOOLEAN
      BY <2>2, <2>4, WorkspaceStoreAssumption DEF Store
    <3>2. /\ Acts(o.does, {h} \ {None}, Polls(name))
          /\ Says(o.does, o.reply, {h} \ {None})
          /\ ~reports => o.reply.text = {}
          /\ reports /\ o.does.op = "insert" => o.reply.text = {NewHandle}
          /\ h # None => o.does.op # "insert"
      <4> HIDE DEF reports, h, name
      <4> QED
        BY <2>1, <2>4, <3>1, CallsStayPut
    <3>3. {h} \ {None} \subseteq handles /\ (implicit # None => h # None)
      BY DEF Named
    <3>4. stdio => name \notin {"open_workspace", "close_workspace"}
      BY <1>5
    <3>5. stdio /\ implicit # None => o.does.op \in {"nothing", "call"}
      <4>1. o.does.op # "close"
        <5>1. CASE h # None
          BY <5>1, <3>1 DEF CallOutcomes
        <5>2. CASE h = None
          BY <5>2, <3>2 DEF Acts
        <5> QED
          BY <5>1, <5>2
      <4> QED
        BY <3>2, <3>3, <4>1 DEF Acts
    <3> HIDE DEF h, name, handles
    <3> QED
      BY <3>2, <3>3, <3>5 DEF Acts, Says, handles, name
  <2> QED
    BY <2>3, <2>4
<1> QED
  BY <1>2, <1>3, <1>4, <1>5

(* handle_request: a notification is not answered, and what is refused, or *)
(* is no call of a tool, does nothing.                                     *)
Handled(o, req, implicit, stdio) ==
  LET handles == {req.params.workspace, implicit} \ {None} IN
  /\ Acts(o.does, handles, Polls(req.params.tool))
  /\ Says(o.does, o.reply, handles)
  /\ stdio \/ ~req.id => o.reply.text = {}
  /\ stdio /\ implicit # None => o.does.op \in {"nothing", "call"}
  /\ implicit # None \/ Era(req.params) = "modern" =>
       (o.does.op = "insert" => stdio \/ ~req.id \/ o.reply.text = {NewHandle})
  /\ req.method = "initialize" /\ Era(req.params) # "modern" =>
       o.does.op = "nothing" /\ o.reply.text = {} /\ o.reply.kind # "error" /\ o.reply.code = 0

LEMMA RequestsAreHandled ==
  ASSUME Store, NEW req, NEW implicit, NEW stdio \in BOOLEAN,
         NEW o \in HandleRequest(req, implicit, stdio)
  PROVE  Handled(o, req, implicit, stdio)
<1> USE DEF Handled
<1> DEFINE handles == {req.params.workspace, implicit} \ {None}
           bad == IF Era(req.params) = "modern" THEN MetaError(req.params) ELSE 0
<1>1. ASSUME NEW reply, reply.text = {}, reply.structured = {},
             o = [does |-> Nothing, reply |-> Heard(req, reply)]
      PROVE  /\ Acts(o.does, handles, Polls(req.params.tool))
             /\ Says(o.does, o.reply, handles)
             /\ o.reply.text = {} /\ o.does.op = "nothing"
             /\ o.reply \in {reply, NoReply}
  <2>1. o.does = Nothing /\ o.does.op = "nothing" /\ o.reply \in {reply, NoReply}
    BY <1>1 DEF Heard, Nothing
  <2>2. o.reply.text = {} /\ o.reply.structured = {}
    BY <1>1, <2>1 DEF NoReply
  <2> QED
    BY <2>1, <2>2 DEF Acts, Says, Born
<1>2. CASE bad = 0 /\ req.method = "tools/call"
  <2>1. PICK t \in ToolsCall(req.params, implicit, stdio) :
          o = [does |-> t.does, reply |-> Heard(req, t.reply)]
    BY <1>2 DEF HandleRequest
  <2>2. /\ Acts(t.does, handles, Polls(req.params.tool))
        /\ Says(t.does, t.reply, handles)
        /\ stdio => t.reply.text = {}
        /\ stdio /\ implicit # None => t.does.op \in {"nothing", "call"}
        /\ implicit # None \/ Era(req.params) = "modern" =>
             (t.does.op = "insert" => stdio \/ t.reply.text = {NewHandle})
    BY ToolsStayPut
  <2>4. o.does = t.does /\ o.reply = IF req.id THEN t.reply ELSE NoReply
    BY <2>1 DEF Heard
  <2>5. CASE req.id
    BY <2>5, <2>2, <2>4, <1>2
  <2>6. CASE ~req.id
    <3>1. o.reply.text = {} /\ o.reply.structured = {} /\ o.reply.kind # "error" /\ o.reply.code = 0
      BY <2>6, <2>4 DEF NoReply
    <3> QED
      BY <2>6, <2>2, <2>4, <3>1, <1>2 DEF Says
  <2> QED
    BY <2>5, <2>6
<1>3. CASE bad = 0 /\ req.method \in {"initialize", "tools/list"}
  <2>1. o = [does |-> Nothing, reply |-> Heard(req, Result({}, {}))]
    BY <1>3 DEF HandleRequest
  <2>2. /\ Result({}, {}).text = {} /\ Result({}, {}).structured = {}
        /\ Result({}, {}).kind = "result" /\ Result({}, {}).code = 0
        /\ NoReply.kind = "none" /\ NoReply.code = 0
    BY DEF Result, NoReply
  <2> HIDE DEF handles
  <2> QED
    BY <1>1, <2>1, <2>2 DEF handles
<1>4. CASE bad = 0 /\ req.method = "initialized"
  <2>1. o = [does |-> Nothing, reply |-> Heard(req, NoReply)]
    BY <1>4 DEF HandleRequest
  <2>2. NoReply.text = {} /\ NoReply.structured = {}
    BY DEF NoReply
  <2> HIDE DEF handles
  <2> QED
    BY <1>1, <1>4, <2>1, <2>2 DEF handles
<1>5. ASSUME bad # 0 \/ req.method \notin {"tools/call", "initialize", "tools/list", "initialized"}
      PROVE  \E code : o = [does |-> Nothing, reply |-> Heard(req, Failure(code))]
  <2>1. CASE bad # 0
    BY <2>1 DEF HandleRequest
  <2>2. CASE bad = 0
    BY <1>5, <2>2 DEF HandleRequest
  <2> QED
    BY <2>1, <2>2
<1>6. CASE bad # 0 \/ req.method \notin {"tools/call", "initialize", "tools/list", "initialized"}
  <2>1. PICK code : o = [does |-> Nothing, reply |-> Heard(req, Failure(code))]
    BY <1>5, <1>6
  <2>2. Failure(code).text = {} /\ Failure(code).structured = {}
    BY DEF Failure, NoReply
  <2>3. req.method = "initialize" => Era(req.params) = "modern"
    BY <1>6
  <2> HIDE DEF handles, bad
  <2> QED
    BY <1>1, <2>1, <2>2, <2>3 DEF handles
<1> QED
  BY <1>2, <1>3, <1>4, <1>6

-----------------------------------------------------------------------------
(* What a reply over HTTP tells its reader.                                *)
Told(answer) == Said(answer.reply) \cup ({answer.session} \ {None})

(* What comes of a request over HTTP that names these handles: nothing     *)
(* that is refused is done, and whoever has a workspace made hears of it,  *)
(* unless it sent a notification.                                          *)
Served(o, req, handles) ==
  /\ Acts(o.does, handles, Polls(req.params.tool))
  /\ o.answer.reply.structured \in {{}, o.answer.reply.text}
  /\ Told(o.answer) \subseteq (handles \cap DOMAIN work) \cup Born(o.does)
  /\ o.does.op # "nothing" => ~(o.answer.status >= 400) /\ o.answer.reply.kind # "error"
  /\ o.does.op = "insert" => NewHandle \in Told(o.answer) \/ (Told(o.answer) = {} /\ ~req.id)

OverHttp(req, implicit) == HandleRequest(req, implicit, FALSE)

(* http::dispatch passes on what the protocol layer did and said.          *)
LEMMA DispatchPassesOn ==
  ASSUME NEW req, NEW implicit, NEW session, NEW era,
         NEW o \in Dispatch(req, implicit, session, era)
  PROVE  \E p \in OverHttp(req, implicit) :
           /\ o.does = p.does /\ o.answer.reply = p.reply /\ o.answer.session = session
           /\ p.reply.kind # "error" /\ p.reply.code = 0 => ~(o.answer.status >= 400)
<1> DEFINE status(reply) == IF reply.kind = "none" THEN 202
                            ELSE IF era = "modern" THEN ModernStatus(reply.code) ELSE 200
<1>1. PICK p \in OverHttp(req, implicit) :
        o = [does |-> p.does, answer |-> Http(status(p.reply), session, p.reply)]
  BY DEF Dispatch, OverHttp
<1>2. /\ o.does = p.does /\ o.answer.reply = p.reply /\ o.answer.session = session
      /\ o.answer.status = status(p.reply)
  BY <1>1 DEF Http
<1>3. p.reply.code = 0 => status(p.reply) \in {200, 202}
  BY DEF ModernStatus
<1>4. p.reply.code = 0 => ~(o.answer.status >= 400)
  <2> HIDE DEF status
  <2> QED
    BY <1>2, <1>3
<1> QED
  BY <1>2, <1>4

(* The routes a request may take.                                          *)
LEMMA BareIsServed ==
  ASSUME NEW req, NEW handles, NEW status \in Int, NEW o \in Bare(status)
  PROVE  Served(o, req, handles)
<1>1. /\ o.does.op = "nothing" /\ o.answer.session = None
      /\ o.answer.reply.text = {} /\ o.answer.reply.structured = {}
  BY DEF Bare, Http, NoReply, Nothing
<1> QED
  BY <1>1 DEF Served, Acts, Told, Said, Born

LEMMA SilenceIsServed ==
  ASSUME NEW req, NEW handles, NEW status, NEW reply, NEW o,
         reply.text = {}, reply.structured = {},
         o = [does |-> Nothing, answer |-> Http(status, None, reply)]
  PROVE  Served(o, req, handles)
<1>1. /\ o.does.op = "nothing" /\ o.answer.session = None /\ o.answer.reply = reply
  BY DEF Http, Nothing
<1> QED
  BY <1>1 DEF Served, Acts, Told, Said, Born

LEMMA FailureSaysNothing ==
  ASSUME NEW code, NEW req
  PROVE  /\ Failure(code).text = {} /\ Failure(code).structured = {}
         /\ Heard(req, Failure(code)).text = {} /\ Heard(req, Failure(code)).structured = {}
<1>1. Failure(code).text = {} /\ Failure(code).structured = {}
  BY DEF Failure, NoReply
<1>2. NoReply.text = {} /\ NoReply.structured = {}
  BY DEF NoReply
<1> QED
  BY <1>1, <1>2 DEF Heard

LEMMA DispatchIsServed ==
  ASSUME Store, NEW req, NEW implicit, NEW era,
         implicit # None \/ Era(req.params) = "modern",
         NEW o \in Dispatch(req, implicit, None, era)
  PROVE  Served(o, req, {req.params.workspace, implicit} \ {None})
<1> DEFINE handles == {req.params.workspace, implicit} \ {None}
<1>1. PICK p \in OverHttp(req, implicit) :
        /\ o.does = p.does /\ o.answer.reply = p.reply /\ o.answer.session = None
        /\ p.reply.kind # "error" /\ p.reply.code = 0 => ~(o.answer.status >= 400)
  BY DispatchPassesOn
<1>2. /\ Acts(p.does, handles, Polls(req.params.tool))
      /\ Says(p.does, p.reply, handles)
      /\ ~req.id => p.reply.text = {}
      /\ p.does.op = "insert" => ~req.id \/ p.reply.text = {NewHandle}
  BY RequestsAreHandled DEF OverHttp, Handled
<1>3. Told(o.answer) = p.reply.text
  BY <1>1, <1>2 DEF Told, Said, Says
<1> HIDE DEF handles
<1> QED
  BY <1>1, <1>2, <1>3 DEF Served, Says, handles

LEMMA LegacyIsServed ==
  ASSUME Store, NEW req, Era(req.params) # "modern",
         req.method = "initialize" => ~Polls(req.params.tool),
         NEW o \in RouteLegacy(req)
  PROVE  Served(o, req, {req.params.workspace, req.session} \ {None})
<1>1. CASE req.method = "initialize"
  <2>1. minted # Handle
    BY <1>1 DEF RouteLegacy
  <2>2. PICK d \in Dispatch(req, NewHandle, NewHandle, "legacy") :
          o = [does |-> Makes(FALSE), answer |-> d.answer]
    BY <1>1, <2>1 DEF RouteLegacy
  <2>3. PICK p \in OverHttp(req, NewHandle) :
          /\ d.answer.reply = p.reply /\ d.answer.session = NewHandle
          /\ p.reply.kind # "error" /\ p.reply.code = 0 => ~(d.answer.status >= 400)
    BY DispatchPassesOn
  <2>4. /\ p.reply.text = {} /\ p.reply.kind # "error" /\ p.reply.code = 0
        /\ p.reply.structured \in {{}, p.reply.text}
    BY <1>1, RequestsAreHandled DEF Says, OverHttp, Handled
  <2>5. o.does.op = "insert" /\ o.answer = d.answer
    BY <2>2 DEF Makes
  <2>6. Told(o.answer) = {NewHandle}
    BY <2>1, <2>3, <2>4, <2>5, NewHandleIsNew DEF Told, Said
  <2> QED
    BY <1>1, <2>1, <2>3, <2>4, <2>5, <2>6 DEF Served, Acts, Born
<1>2. CASE req.method # "initialize" /\ req.session \in DOMAIN work
  <2>1. o \in Dispatch(req, req.session, None, "legacy") /\ req.session # None
    BY <1>2, WorkspaceStoreAssumption DEF RouteLegacy, Store
  <2> QED
    BY <2>1, DispatchIsServed
<1>3. CASE req.method # "initialize" /\ req.session \notin DOMAIN work
  BY <1>3, BareIsServed DEF RouteLegacy
<1> QED
  BY <1>1, <1>2, <1>3

LEMMA ModernIsServed ==
  ASSUME Store, NEW req, Era(req.params) = "modern", NEW o \in RouteModern(req)
  PROVE  Served(o, req, {req.params.workspace} \ {None})
<1>1. CASE ~HeadersAgree(req)
  <2>1. o = [does |-> Nothing, answer |-> Http(400, None, Heard(req, Failure(-32020)))]
    BY <1>1 DEF RouteModern
  <2> QED
    BY <2>1, FailureSaysNothing, SilenceIsServed
<1>2. CASE HeadersAgree(req)
  <2>1. RouteModern(req) = Dispatch(req, None, None, "modern")
    BY <1>2 DEF RouteModern
  <2>2. Served(o, req, {req.params.workspace, None} \ {None})
    BY <2>1, DispatchIsServed
  <2>3. {req.params.workspace, None} \ {None} = {req.params.workspace} \ {None}
    OBVIOUS
  <2> QED
    BY <2>2, <2>3
<1> QED
  BY <1>1, <1>2

LEMMA ServedMore ==
  ASSUME NEW o, NEW req, NEW few, NEW many, few \subseteq many, Served(o, req, few)
  PROVE  Served(o, req, many)
BY DEF Served, Acts

(* http::route: whatever is amiss with it, a request acts in the           *)
(* workspaces it names or carries, and says of no other.                   *)
LEMMA RoutesAreServed ==
  ASSUME Store, NEW req,
         req.method = "initialize" \/ req.verb = "DELETE" => ~Polls(req.params.tool),
         NEW o \in Route(req)
  PROVE  Served(o, req, {req.params.workspace, req.session} \ {None})
<1> DEFINE handles == {req.params.workspace, req.session} \ {None}
<1>1. CASE ~Admitted(req)
  <2>1. o \in Bare(413) \/ o \in Bare(403)
    BY <1>1 DEF Route, Admitted
  <2> QED
    BY <2>1, BareIsServed
<1>2. CASE Admitted(req) /\ req.path # "/mcp"
  <2>1. o \in Bare(404)
    BY <1>2 DEF Route, Admitted
  <2> QED
    BY <2>1, BareIsServed
<1>3. CASE Admitted(req) /\ req.path = "/mcp" /\ req.verb = "DELETE"
  <2>1. \/ o \in Bare(404)
        \/ /\ req.session \in DOMAIN work
           /\ o = [does |-> [op |-> "close", at |-> req.session], answer |-> Http(204, None, NoReply)]
    BY <1>3 DEF Route, Admitted
  <2>2. CASE /\ req.session \in DOMAIN work
             /\ o = [does |-> [op |-> "close", at |-> req.session], answer |-> Http(204, None, NoReply)]
    <3>1. /\ o.does.op = "close" /\ o.does.at = req.session
          /\ o.answer.status = 204 /\ o.answer.session = None /\ o.answer.reply = NoReply
      BY <2>2 DEF Http
    <3>2. NoReply.text = {} /\ NoReply.structured = {} /\ NoReply.kind = "none"
      BY DEF NoReply
    <3>3. Told(o.answer) = {}
      BY <3>1, <3>2 DEF Told, Said
    <3>4. req.session # None
      BY <2>2, WorkspaceStoreAssumption DEF Store
    <3> QED
      BY <1>3, <2>2, <3>1, <3>2, <3>3, <3>4 DEF Served, Acts
  <2> QED
    BY <2>1, <2>2, BareIsServed
<1>4. CASE Admitted(req) /\ req.path = "/mcp" /\ req.verb \notin {"DELETE", "POST"}
  <2>1. o \in Bare(405)
    BY <1>4 DEF Route, Admitted
  <2> QED
    BY <2>1, BareIsServed
<1>5. CASE Admitted(req) /\ req.path = "/mcp" /\ req.verb = "POST"
  <2>1. o \in IF ~req.parses THEN Garbage(req)
              ELSE IF Era(req.params) = "modern" THEN RouteModern(req) ELSE RouteLegacy(req)
    BY <1>5 DEF Route, Admitted
  <2>2. CASE ~req.parses
    <3>1. \/ o \in Bare(404)
          \/ \E status \in {200, 400} :
               o = [does |-> Nothing, answer |-> Http(status, None, Failure(-32700))]
      BY <2>1, <2>2 DEF Garbage
    <3> QED
      BY <3>1, BareIsServed, FailureSaysNothing, SilenceIsServed
  <2>3. CASE req.parses /\ Era(req.params) = "modern"
    <3>1. Served(o, req, {req.params.workspace} \ {None})
      BY <2>1, <2>3, ModernIsServed
    <3> QED
      BY <3>1, ServedMore
  <2>4. CASE req.parses /\ Era(req.params) # "modern"
    BY <2>1, <2>4, LegacyIsServed
  <2> QED
    BY <2>2, <2>3, <2>4
<1> QED
  BY <1>1, <1>2, <1>3, <1>4, <1>5

-----------------------------------------------------------------------------
(* A client names no handle but those it may know, and neither polls nor   *)
(* initializes while it closes.                                            *)
Proper(req, handles) ==
  /\ req.params.workspace \in handles \cup {None}
  /\ req.session \in handles \cup {None}
  /\ req.method = "initialize" \/ req.verb = "DELETE" => ~Polls(req.params.tool)

SpoiltBy(meta, s) == Request("tools/call", Params("run_program", None, meta), s, TRUE)

LEMMA RequestsAreProper ==
  ASSUME NEW handles, NEW req \in Requests(handles)
  PROVE  Proper(req, handles)
<1>1. ASSUME NEW method, NEW tool, NEW h \in handles \cup {None}, NEW meta,
             NEW s \in handles \cup {None}, NEW id \in BOOLEAN,
             method = "initialize" => tool = Forged
      PROVE  Proper(Request(method, Params(tool, h, meta), s, id), handles)
  <2>1. ~Polls(Forged)
    BY TransportAssumption DEF Polls
  <2> QED
    BY <1>1, <2>1 DEF Proper, Request, Params
<1>2. ASSUME NEW r \in CallsOf(handles)
      PROVE  Proper(r, handles)
  BY <1>1 DEF CallsOf
<1>3. ASSUME NEW r \in OthersOf(handles)
      PROVE  Proper(r, handles)
  BY <1>1 DEF OthersOf
<1> DEFINE Spoilt == {SpoiltBy(meta, s) :
                        meta \in Metas, s \in handles \cup {None}}
<1>4. ASSUME NEW r \in Spoilt
      PROVE  Proper(r, handles) /\ ~Polls(r.params.tool)
  <2>1. PICK meta \in Metas, s \in handles \cup {None} :
          r = SpoiltBy(meta, s)
    OBVIOUS
  <2>2. /\ r.params.workspace = None /\ r.session = s
        /\ r.method = "tools/call" /\ r.params.tool = "run_program"
    BY <2>1 DEF SpoiltBy, Request, Params
  <2>3. ~Polls("run_program")
    BY DEF Polls, Stateful, ToolOf, Tool
  <2> QED
    BY <2>2, <2>3 DEF Proper
<1>5. ASSUME NEW r \in Spoilt, NEW b \in Amiss(r)
      PROVE  Proper(b, handles)
  <2>1. PICK meta \in Metas, s \in handles \cup {None} :
          r = SpoiltBy(meta, s)
    OBVIOUS
  <2>2. {"params", "session", "method"} \subseteq DOMAIN r
    BY <2>1 DEF SpoiltBy, Request
  <2> DEFINE Rest == {"fits", "origin", "path", "verb", "parses", "version", "saysMethod", "saysName"}
  <2>3. \E f \in Rest : \E v : b = [r EXCEPT ![f] = v]
    BY DEF Amiss
  <2>4. b.params = r.params /\ b.session = r.session /\ b.method = r.method
    BY <2>2, <2>3
  <2> HIDE DEF Spoilt
  <2> QED
    BY <1>4, <2>4 DEF Proper
<1>6. Requests(handles) = CallsOf(handles) \cup OthersOf(handles) \cup Spoilt
                            \cup UNION {Amiss(r) : r \in Spoilt}
  BY DEF Requests, SpoiltBy
<1> HIDE DEF Spoilt
<1> QED
  BY <1>2, <1>3, <1>4, <1>5, <1>6

(* What a request does to the store touches the workspace it acts in, and, *)
(* to make room for a new one, those without unsaved edits.                *)
LEMMA ApplyTouches ==
  ASSUME Store, NEW does, NEW handles, NEW polls \in BOOLEAN,
         Acts(does, handles, polls), Apply(does)
  PROVE  /\ Store' /\ pinned' = pinned /\ minted' = minted \cup Born(does)
         /\ DOMAIN work' \subseteq DOMAIN work \cup Born(does)
         /\ \A h \in DOMAIN work :
              \/ h \in DOMAIN work' /\ work'[h] = work[h]
              \/ h \in handles
              \/ h \notin DOMAIN work' /\ ~work[h] /\ minted' # minted
         /\ does.op = "nothing" \/ polls => UNCHANGED vars
<1>1. CASE does.op = "nothing"
  <2>1. UNCHANGED vars
    BY <1>1 DEF Apply
  <2> QED
    BY <1>1, <2>1 DEF vars, Store, Born
<1>2. CASE does.op = "insert"
  <2>1. Insert(NewHandle, does.unsaved) /\ pinned' = pinned
    BY <1>2 DEF Apply
  <2>2. NewHandle \in Handle /\ NewHandle \notin minted
    BY <1>2, NewHandleIsNew DEF Acts
  <2> DEFINE gone == Victims(order, Idle, Cap)
             kept == Keep(DOMAIN work \ gone)
  <2>3. minted' = minted \cup {NewHandle}
    BY <2>1 DEF Insert
  <2>4. DOMAIN kept = DOMAIN work \ gone /\ \A h \in DOMAIN kept : kept[h] = work[h]
    BY DEF Keep
  <2>5. work' = [k \in DOMAIN kept \cup {NewHandle} |-> IF k = NewHandle THEN does.unsaved ELSE kept[k]]
    BY <2>1 DEF Insert
  <2>6. \A h \in gone : ~work[h]
    BY VictimsAreIdle DEF Idle
  <2> HIDE DEF gone, kept
  <2>7. Store'
    BY <2>2, <2>3, <2>4, <2>5 DEF Store
  <2>8. ASSUME NEW h \in DOMAIN work
        PROVE  \/ h \in DOMAIN work' /\ work'[h] = work[h]
               \/ h \notin DOMAIN work' /\ ~work[h] /\ minted' # minted
    <3>1. h # NewHandle
      BY <2>2 DEF Store
    <3>2. CASE h \in gone
      BY <3>1, <3>2, <2>2, <2>3, <2>4, <2>5, <2>6
    <3>3. CASE h \notin gone
      BY <3>1, <3>3, <2>4, <2>5
    <3> QED
      BY <3>2, <3>3
  <2>9. ~polls
    BY <1>2 DEF Acts
  <2> QED
    BY <1>2, <2>1, <2>3, <2>4, <2>5, <2>7, <2>8, <2>9 DEF Born
<1>3. CASE does.op = "call"
  <2>1. work' = [work EXCEPT ![does.at] = does.unsaved] /\ UNCHANGED <<order, pinned, minted>>
    BY <1>3 DEF Apply
  <2>2. does.at \in handles
    BY <1>3 DEF Acts
  <2>3. polls => work' = work
    BY <1>3, <2>1 DEF Acts, Store
  <2> QED
    BY <1>3, <2>1, <2>2, <2>3 DEF Born, Store, vars
<1>4. CASE does.op = "close"
  <2>1. CloseWorkspace(does.at)
    BY <1>4 DEF Apply
  <2>2. does.at \in handles /\ ~polls
    BY <1>4 DEF Acts
  <2>3. work' = [h \in DOMAIN work \ {does.at} |-> work[h]] /\ minted' = minted /\ pinned' = pinned
    BY <2>1 DEF CloseWorkspace, Keep
  <2> QED
    BY <1>4, <2>2, <2>3 DEF Born, Store
<1> QED
  BY <1>1, <1>2, <1>3, <1>4 DEF Acts

-----------------------------------------------------------------------------
(* Clients know of workspaces that were made, of no two the same, and of   *)
(* all there are.                                                          *)
TransportInv ==
  /\ Store
  /\ known \in [Client -> SUBSET minted]
  /\ HandlesStayPrivate
  /\ WorkspacesAreReachable
  /\ RepliesSayOneThing

Harmless == OnlyHoldersTouch /\ RefusalsChangeNothing

(* A request over HTTP.                                                    *)
ServesBy(c, req, o) ==
  /\ Apply(o.does)
  /\ known' = [known EXCEPT ![c] = @ \cup Told(o.answer)]
  /\ unheard' = unheard \cup IF Told(o.answer) = {} /\ ~req.id THEN minted' \ minted ELSE {}
  /\ exchange' = [by |-> c, refused |-> o.answer.status >= 400 \/ o.answer.reply.kind = "error",
                  polls |-> Polls(req.params.tool),
                  text |-> o.answer.reply.text, structured |-> o.answer.reply.structured]

LEMMA ServeKeepsApart ==
  ASSUME TransportInv, NEW c \in Client, Serve(c)
  PROVE  TransportInv' /\ Harmless
<1>1. PICK req \in Requests(known[c] \cup {Forged}) : \E o \in Route(req) : ServesBy(c, req, o)
  BY DEF Serve, ServesBy, Told, Polls
<1>2. PICK o \in Route(req) : ServesBy(c, req, o)
  BY <1>1
<1> DEFINE handles == {req.params.workspace, req.session} \ {None}
           told == Told(o.answer)
<1>0. Proper(req, known[c] \cup {Forged})
  BY RequestsAreProper
<1>3. Served(o, req, handles)
  BY <1>0, RoutesAreServed DEF TransportInv, Proper
<1>4. handles \subseteq known[c] \cup {Forged} /\ Forged \notin DOMAIN work
  BY <1>0, TransportAssumption DEF Proper, TransportInv, Store
<1>5. /\ exchange'.by = c
      /\ exchange'.refused = (o.answer.status >= 400 \/ o.answer.reply.kind = "error")
      /\ exchange'.polls = Polls(req.params.tool)
      /\ exchange'.text = o.answer.reply.text /\ exchange'.structured = o.answer.reply.structured
  BY <1>2 DEF ServesBy
<1> HIDE DEF handles, told
<1>6. /\ Store' /\ pinned' = pinned /\ minted' = minted \cup Born(o.does)
      /\ DOMAIN work' \subseteq DOMAIN work \cup Born(o.does)
      /\ \A h \in DOMAIN work :
           \/ h \in DOMAIN work' /\ work'[h] = work[h]
           \/ h \in handles
           \/ h \notin DOMAIN work' /\ ~work[h] /\ minted' # minted
      /\ o.does.op = "nothing" \/ Polls(req.params.tool) => UNCHANGED vars
  <2>1. Polls(req.params.tool) \in BOOLEAN
    BY DEF Polls
  <2>2. Store /\ Acts(o.does, handles, Polls(req.params.tool)) /\ Apply(o.does)
    BY <1>2, <1>3 DEF Served, TransportInv, ServesBy
  <2> QED
    BY <2>1, <2>2, ApplyTouches
<1>7. told \subseteq known[c] \cup Born(o.does)
  BY <1>3, <1>4 DEF Served, told
<1>8. o.does.op = "insert" => NewHandle \notin minted
  BY <1>3, NewHandleIsNew DEF Served, Acts, TransportInv
<1>9. known' = [known EXCEPT ![c] = known[c] \cup told]
  BY <1>2 DEF told, ServesBy
<1>10. known' \in [Client -> SUBSET minted']
  BY <1>6, <1>7, <1>9 DEF TransportInv
<1>11. HandlesStayPrivate'
  <2>1. Born(o.does) \cap minted = {}
    BY <1>8 DEF Born
  <2>2. \A d \in Client : known[d] \subseteq minted
    BY DEF TransportInv
  <2>3. \A d \in Client : known'[d] = IF d = c THEN known[c] \cup told ELSE known[d]
    BY <1>9 DEF TransportInv
  <2>4. \A d \in Client : d # c => (known[c] \cup told) \cap known[d] = {}
    BY <1>7, <2>1, <2>2 DEF TransportInv, HandlesStayPrivate
  <2>5. \A d, e \in Client : d # e => known'[d] \cap known'[e] = {}
    BY <2>3, <2>4 DEF TransportInv, HandlesStayPrivate
  <2>6. pinned' = None
    BY <1>6 DEF Serve
  <2> QED
    BY <2>5, <2>6 DEF HandlesStayPrivate
<1>12. WorkspacesAreReachable'
  <2>1. DOMAIN work \subseteq (UNION {known'[d] : d \in Client}) \cup unheard' \cup {pinned'}
    <3>1. \A d \in Client : known[d] \subseteq known'[d]
      BY <1>9 DEF TransportInv
    <3>2. unheard \subseteq unheard'
      BY <1>2 DEF ServesBy
    <3> QED
      BY <3>1, <3>2, <1>6 DEF TransportInv, WorkspacesAreReachable
  <2>2. Born(o.does) \subseteq known'[c] \cup unheard'
    <3>1. CASE o.does.op = "insert" /\ NewHandle \in told
      BY <3>1, <1>9 DEF TransportInv, Born
    <3>2. CASE o.does.op = "insert" /\ told = {} /\ ~req.id
      <4>1. unheard' = unheard \cup (minted' \ minted)
        BY <3>2, <1>2 DEF told, ServesBy
      <4> QED
        BY <3>2, <4>1, <1>6, <1>8 DEF Born
    <3>3. CASE o.does.op # "insert"
      BY <3>3 DEF Born
    <3> QED
      BY <3>1, <3>2, <3>3, <1>3 DEF Served, told
  <2> DEFINE Known == UNION {known'[d] : d \in Client}
  <2>3. known'[c] \subseteq Known
    OBVIOUS
  <2>4. DOMAIN work' \subseteq Known \cup unheard' \cup {pinned'}
    <3> HIDE DEF Known
    <3>1. DOMAIN work \subseteq Known \cup unheard' \cup {pinned'}
      BY <2>1 DEF Known
    <3> QED
      BY <3>1, <2>2, <2>3, <1>6
  <2> QED
    BY <2>4 DEF WorkspacesAreReachable
<1>13. RepliesSayOneThing'
  BY <1>3, <1>5 DEF Served, RepliesSayOneThing
<1>14. OnlyHoldersTouch
  BY <1>4, <1>5, <1>6 DEF OnlyHoldersTouch
<1>15. RefusalsChangeNothing
  <2>1. o.answer.status >= 400 \/ o.answer.reply.kind = "error" => o.does.op = "nothing"
    BY <1>3 DEF Served
  <2> QED
    BY <2>1, <1>5, <1>6 DEF RefusalsChangeNothing
<1> QED
  BY <1>6, <1>10, <1>11, <1>12, <1>13, <1>14, <1>15 DEF TransportInv, Harmless

(* A line over stdio, where no handle is ever said.                        *)
OverStdio(req) == HandleRequest(req, pinned, TRUE)

LEMMA LinesSayNothing ==
  ASSUME Store, pinned # None, NEW req, NEW o \in HandleLine(req)
  PROVE  /\ Acts(o.does, {req.params.workspace, pinned} \ {None}, FALSE)
         /\ o.does.op \in {"nothing", "call"}
         /\ o.reply.text = {} /\ o.reply.structured = {}
         /\ o.reply.kind = "error" => o.does.op = "nothing"
<1>1. CASE req.parses
  <2>1. HandleLine(req) = OverStdio(req)
    BY <1>1 DEF HandleLine, OverStdio
  <2>2. Handled(o, req, pinned, TRUE)
    BY <2>1, RequestsAreHandled DEF OverStdio
  <2>3. /\ Acts(o.does, {req.params.workspace, pinned} \ {None}, Polls(req.params.tool))
        /\ Says(o.does, o.reply, {req.params.workspace, pinned} \ {None})
        /\ o.reply.text = {}
        /\ o.does.op \in {"nothing", "call"}
    BY <2>2 DEF Handled
  <2> QED
    BY <2>3 DEF Acts, Says
<1>2. CASE ~req.parses
  <2>1. o = [does |-> Nothing, reply |-> Failure(-32700)]
    BY <1>2 DEF HandleLine
  <2>2. o.does.op = "nothing" /\ o.reply = Failure(-32700)
    BY <2>1 DEF Nothing
  <2> QED
    BY <2>2, FailureSaysNothing DEF Acts
<1> QED
  BY <1>1, <1>2

LineBy(c, o) ==
  /\ Apply(o.does)
  /\ known' = [known EXCEPT ![c] = @ \cup Said(o.reply)]
  /\ exchange' = [by |-> c, refused |-> o.reply.kind = "error", polls |-> FALSE,
                  text |-> o.reply.text, structured |-> o.reply.structured]

LEMMA LineKeepsApart ==
  ASSUME TransportInv, NEW c \in Client, Line(c)
  PROVE  TransportInv' /\ Harmless
<1>1. PICK req \in Requests({Forged}) : \E o \in HandleLine(req) : LineBy(c, o)
  BY DEF Line, LineBy
<1>2. PICK o \in HandleLine(req) : LineBy(c, o)
  BY <1>1
<1> DEFINE handles == {req.params.workspace, pinned} \ {None}
<1>3. /\ Acts(o.does, handles, FALSE) /\ o.does.op \in {"nothing", "call"}
      /\ o.reply.text = {} /\ o.reply.structured = {}
      /\ o.reply.kind = "error" => o.does.op = "nothing"
  BY LinesSayNothing DEF TransportInv, Line
<1>4. Proper(req, {Forged})
  BY RequestsAreProper
<1>5. handles \subseteq {Forged, pinned} /\ Forged \notin DOMAIN work
  BY <1>4, TransportAssumption DEF Proper, TransportInv, Store
<1>6. /\ exchange'.by = c /\ exchange'.refused = (o.reply.kind = "error") /\ exchange'.polls = FALSE
      /\ exchange'.structured = {}
  BY <1>2, <1>3 DEF LineBy
<1> HIDE DEF handles
<1>7. /\ Store' /\ pinned' = pinned /\ minted' = minted
      /\ DOMAIN work' \subseteq DOMAIN work
      /\ \A h \in DOMAIN work :
           \/ h \in DOMAIN work' /\ work'[h] = work[h]
           \/ h \in handles
           \/ h \notin DOMAIN work' /\ ~work[h] /\ minted' # minted
      /\ o.does.op = "nothing" => UNCHANGED vars
  <2>1. Store /\ Acts(o.does, handles, FALSE) /\ Apply(o.does)
    BY <1>2, <1>3 DEF TransportInv, LineBy
  <2>2. Born(o.does) = {}
    BY <1>3 DEF Born
  <2> QED
    BY <2>1, <2>2, ApplyTouches
<1>8. known' = known /\ unheard' = unheard
  <2>1. known' = [known EXCEPT ![c] = known[c] \cup Said(o.reply)] /\ unheard' = unheard
    BY <1>2 DEF LineBy, Line
  <2>2. Said(o.reply) = {}
    BY <1>3 DEF Said
  <2> QED
    BY <2>1, <2>2 DEF TransportInv
<1>9. known' \in [Client -> SUBSET minted'] /\ HandlesStayPrivate'
  BY <1>7, <1>8 DEF TransportInv, HandlesStayPrivate
<1>10. WorkspacesAreReachable'
  BY <1>7, <1>8 DEF TransportInv, WorkspacesAreReachable
<1>11. RepliesSayOneThing'
  BY <1>6 DEF RepliesSayOneThing
<1>12. OnlyHoldersTouch
  BY <1>5, <1>6, <1>7 DEF OnlyHoldersTouch
<1>13. RefusalsChangeNothing
  BY <1>3, <1>6, <1>7 DEF RefusalsChangeNothing
<1> QED
  BY <1>7, <1>9, <1>10, <1>11, <1>12, <1>13 DEF TransportInv, Harmless

(* A step that leaves the store alone harms nobody.                        *)
LEMMA IdleIsHarmless ==
  ASSUME TransportInv, UNCHANGED <<vars, known, unheard>>, exchange' \in {None, exchange}
  PROVE  TransportInv' /\ Harmless
<1>1. /\ work' = work /\ minted' = minted /\ pinned' = pinned /\ UNCHANGED vars
      /\ known' = known /\ unheard' = unheard
  BY DEF vars
<1> QED
  BY <1>1 DEF TransportInv, Store, HandlesStayPrivate, WorkspacesAreReachable, RepliesSayOneThing,
              Harmless, OnlyHoldersTouch, RefusalsChangeNothing

LEMMA StepsKeepApart == TransportInv /\ [TransportNext]_rpcVars => TransportInv' /\ Harmless
<1> SUFFICES ASSUME TransportInv, [TransportNext]_rpcVars
             PROVE  TransportInv' /\ Harmless
  OBVIOUS
<1>1. CASE WriteReply \/ UNCHANGED rpcVars
  BY <1>1, IdleIsHarmless DEF WriteReply, rpcVars
<1>2. CASE \E c \in Client : Serve(c) \/ Line(c)
  BY <1>2, ServeKeepsApart, LineKeepsApart
<1> QED
  BY <1>1, <1>2 DEF TransportNext

LEMMA StartsApart == TransportInit => TransportInv
<1> SUFFICES ASSUME TransportInit
             PROVE  TransportInv
  OBVIOUS
<1>1. CASE pinned = None /\ order = <<>>
  <2>1. ToSet(order) = {}
    BY <1>1 DEF ToSet
  <2>2. DOMAIN work = {} /\ minted = {}
    BY <2>1 DEF TransportInit, Init
  <2> QED
    BY <1>1, <2>2 DEF TransportInit, Init, TransportInv, Store, HandlesStayPrivate,
                      WorkspacesAreReachable, RepliesSayOneThing
<1>2. CASE pinned \in Handle /\ order = <<pinned>>
  <2>1. ToSet(order) = {pinned}
    BY <1>2 DEF ToSet
  <2>2. DOMAIN work = {pinned} /\ minted = {pinned}
    BY <2>1 DEF TransportInit, Init
  <2> QED
    BY <1>2, <2>2 DEF TransportInit, Init, TransportInv, Store, HandlesStayPrivate,
                      WorkspacesAreReachable, RepliesSayOneThing
<1> QED
  BY <1>1, <1>2 DEF TransportInit, Init

(* Whatever any number of clients send, in either era, over HTTP or stdio, *)
(* well-formed or not: no two are told of one workspace, every workspace   *)
(* can be returned to, nobody's is changed or closed by another, and what  *)
(* is refused does nothing (http::route, rpc::tools_call).                 *)
THEOREM ClientsAreKeptApart == TransportSpec => ClientsKeepTheirWorkspaces
<1>1. TransportInv => (known # None => HandlesStayPrivate /\ WorkspacesAreReachable /\ RepliesSayOneThing)
  BY DEF TransportInv
<1>2. TransportInv /\ [TransportNext]_rpcVars =>
        [known # None => OnlyHoldersTouch /\ RefusalsChangeNothing]_rpcVars
  BY StepsKeepApart DEF Harmless
<1> QED
  BY <1>1, <1>2, StartsApart, StepsKeepApart, PTL DEF TransportSpec, ClientsKeepTheirWorkspaces
=============================================================================
