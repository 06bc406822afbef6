----------------------------- MODULE Transport -----------------------------
(***************************************************************************)
(* The two front ends of the server over its workspaces: the HTTP routing  *)
(* (http.rs) and the protocol layer both share (rpc.rs).  A legacy client  *)
(* initializes and carries a session id on every request; a modern one     *)
(* describes each request by itself and passes the handle of a workspace   *)
(* as an argument; over stdio there is one workspace and no handle.        *)
(*                                                                         *)
(* A client sends any request with any handle it has been told of, or with *)
(* one nobody ever made.  A tool is known by what it leaves warm and how   *)
(* it says its result.                                                     *)
(***************************************************************************)
EXTENDS WorkspaceStore

CONSTANTS
  Client,   \* those who send requests
  Forged    \* a handle the server never made, a tool and a method it has not

VARIABLES
  known,    \* known[c]: the handles c has been told
  unheard,  \* the handles made for a notification, which has no reply
  exchange  \* the request being answered: its client, and what came of it

rpcVars == <<vars, known, unheard, exchange>>

-----------------------------------------------------------------------------
(* What a tool leaves in the session map of a call that had none, and how  *)
(* it says its result: text alone, prose beside a structured value, or the *)
(* structured value itself.                                                *)
Tool(makes, shape, failure) == [makes |-> makes, shape |-> shape, failure |-> failure]
ToolOf ==
  [session_status |-> Tool(FALSE, "json", "text"),
   grep           |-> Tool(FALSE, "both", "text"),
   run_program    |-> Tool(TRUE, "json", "json"),
   replace_text   |-> Tool(TRUE, "text", "text")]
Stateful == DOMAIN ToolOf

ASSUME TransportAssumption == Forged \notin Handle \cup {None} \cup Stateful

(* tool_listed: those that act on the store are offered over HTTP alone.   *)
Listed(name, stdio) ==
  \/ name \in Stateful \cup {"git_log"}
  \/ name \in {"open_workspace", "close_workspace"} /\ ~stdio

-----------------------------------------------------------------------------
(* era_of and validate_modern_meta: a request is modern when its _meta has *)
(* a version at all, and is refused when that is not a string, when the    *)
(* capabilities are missing, or when the version is not one of ours.       *)
Era(params) == IF params.meta = "none" THEN "legacy" ELSE "modern"
MetaError(params) ==
  CASE params.meta \in {"not a string", "no capabilities"} -> -32602
    [] params.meta = "other version" -> -32022
    [] OTHER -> 0

(* A reply of the protocol layer: nothing for a notification, an error and *)
(* its code, or a result and the handles it says, in its text and in its   *)
(* structured value.                                                       *)
NoReply == [kind |-> "none", code |-> 0, text |-> {}, structured |-> {}]
Failure(code) == [NoReply EXCEPT !.kind = "error", !.code = code]
Result(text, structured) == [NoReply EXCEPT !.kind = "result", !.text = text, !.structured = structured]
Said(reply) == reply.text \cup reply.structured

(* What a request does to the store.                                       *)
Nothing == [op |-> "nothing"]
Makes(unsaved) == [op |-> "insert", unsaved |-> unsaved]

(* Mutant: a call that fails keeps its handle to itself.                   *)
ReportedOnSuccess(name, failed, h) ==
  LET shape == IF failed THEN ToolOf[name].failure ELSE ToolOf[name].shape
      handle == IF h = None \/ failed THEN {} ELSE {h}
  IN  Result(handle, IF shape = "text" THEN {} ELSE handle)

(* The handle joins the structured value when there is one, and the text   *)
(* follows: rendered again when it is the value's JSON, one more line when *)
(* it is prose (tools_call, ToolOutput::rerender).                         *)
Reported(name, failed, h) ==
  LET shape == IF failed THEN ToolOf[name].failure ELSE ToolOf[name].shape
      handle == IF h = None THEN {} ELSE {h}
  IN  Result(handle, IF shape = "text" THEN {} ELSE handle)

-----------------------------------------------------------------------------
NewHandle == CHOOSE h \in Handle : h \notin minted

(* resolve_workspace: the handle the call names, else the one its          *)
(* transport implies; either must still be in the store.                   *)
Named(params, implicit) == IF params.workspace # None THEN params.workspace ELSE implicit

(* The outcomes of a call in session map h, or in a fresh one: each is     *)
(* what it does to the store and what it replies.                          *)
CallOutcomes(name, h, reports) ==
  LET shown(g) == IF reports THEN g ELSE None IN
  IF h # None
  THEN {[does |-> [op |-> "call", at |-> h, unsaved |-> u], reply |-> Reported(name, failed, shown(h))] :
          u \in IF ToolOf[name].makes THEN BOOLEAN ELSE {work[h]}, failed \in BOOLEAN}
  ELSE {[does |-> Nothing, reply |-> Reported(name, failed, None)] : failed \in BOOLEAN}
         \cup {[does |-> Makes(u), reply |-> Reported(name, failed, shown(NewHandle))] :
                 u \in IF ToolOf[name].makes /\ minted # Handle THEN BOOLEAN ELSE {}, failed \in BOOLEAN}

(* rpc::tools_call.                                                        *)
ToolsCall(params, implicit, stdio) ==
  LET name == params.tool
      h == Named(params, implicit)
      says(does) == {[does |-> does, reply |-> Result({}, {})]}
  IN
  CASE ~Listed(name, stdio) \/ name = "git_log" -> says(Nothing)
    [] Listed(name, stdio) /\ name = "open_workspace" ->
         IF minted = Handle THEN {}
         ELSE {[does |-> Makes(FALSE), reply |-> Result({NewHandle}, {NewHandle})]}
    [] Listed(name, stdio) /\ name = "close_workspace" ->
         IF params.workspace \in DOMAIN work
         THEN says([op |-> "close", at |-> params.workspace]) ELSE says(Nothing)
    [] OTHER ->
         IF h # None /\ h \notin DOMAIN work THEN says(Nothing)
         ELSE CallOutcomes(name, h, Era(params) = "modern" /\ ~stdio)

(* handle_request: what may come of one request.  A notification acts, and *)
(* is answered by nothing, whatever came of it.                            *)
Heard(req, reply) == IF req.id THEN reply ELSE NoReply
HandleRequest(req, implicit, stdio) ==
  LET only(reply) == {[does |-> Nothing, reply |-> Heard(req, reply)]}
      bad == IF Era(req.params) = "modern" THEN MetaError(req.params) ELSE 0
  IN
  CASE bad # 0 -> only(Failure(bad))
    [] bad = 0 /\ req.method = "tools/call" ->
         {[does |-> o.does, reply |-> Heard(req, o.reply)] : o \in ToolsCall(req.params, implicit, stdio)}
    [] bad = 0 /\ req.method \in {"initialize", "tools/list"} -> only(Result({}, {}))
    [] bad = 0 /\ req.method = "initialized" -> only(NoReply)
    [] OTHER -> only(Failure(-32601))

-----------------------------------------------------------------------------
(* An HTTP reply: its status, the session id in its header and the body.   *)
Http(status, session, reply) == [status |-> status, session |-> session, reply |-> reply]
Bare(status) == {[does |-> Nothing, answer |-> Http(status, None, NoReply)]}

(* The code of an error shows in a modern status.                          *)
ModernStatus(code) ==
  CASE code = -32601 -> 404
    [] code \in {-32602, -32022, -32020, -32700} -> 400
    [] OTHER -> 200

(* http::dispatch: a request that has no reply is a 202.                   *)
Dispatch(req, implicit, session, era) ==
  LET status(reply) ==
        IF reply.kind = "none" THEN 202 ELSE IF era = "modern" THEN ModernStatus(reply.code) ELSE 200
  IN  {[does |-> o.does, answer |-> Http(status(o.reply), session, o.reply)] : o \in HandleRequest(req, implicit, FALSE)}

(* route_legacy: initialize makes a workspace, whose handle is the session *)
(* id; any other request carries the id of one that is still there.        *)
RouteLegacy(req) ==
  IF req.method = "initialize"
  THEN IF minted = Handle THEN {}
       ELSE {[does |-> Makes(FALSE), answer |-> o.answer] : o \in Dispatch(req, NewHandle, NewHandle, "legacy")}
  ELSE IF req.session \in DOMAIN work THEN Dispatch(req, req.session, None, "legacy") ELSE Bare(404)

(* decode_mcp_name: a name as it is, or in base64, where Garbled is what    *)
(* does not decode.                                                        *)
Garbled == "garbled"
Decoded(said) == IF said = [base64 |-> TRUE, name |-> Garbled] THEN None ELSE said.name

(* route_modern: the headers must say what the body says.                  *)
HeadersAgree(req) ==
  /\ req.params.meta # "not a string" => req.version = req.params.meta
  /\ req.saysMethod = req.method
  /\ req.method = "tools/call" => Decoded(req.saysName) = req.params.tool
RouteModern(req) ==
  IF HeadersAgree(req) THEN Dispatch(req, None, None, "modern")
  ELSE {[does |-> Nothing, answer |-> Http(400, None, Heard(req, Failure(-32020)))]}

(* http::serve and route.  A body over the cap is not read; one that does  *)
(* not parse names no era, and the version header says which answer its    *)
(* sender understands.                                                     *)
Garbage(req) ==
  LET broken(status) == {[does |-> Nothing, answer |-> Http(status, None, Failure(-32700))]} IN
  IF req.version = "ours" THEN broken(400)
  ELSE IF req.session \in DOMAIN work THEN broken(200) ELSE Bare(404)

Admitted(req) == req.fits /\ req.origin # "remote"
Route(req) ==
  CASE ~req.fits -> Bare(413)
    [] req.fits /\ req.origin = "remote" -> Bare(403)
    [] Admitted(req) /\ req.path # "/mcp" -> Bare(404)
    [] Admitted(req) /\ req.path = "/mcp" /\ req.verb = "DELETE" ->
         IF req.session \in DOMAIN work
         THEN {[does |-> [op |-> "close", at |-> req.session], answer |-> Http(204, None, NoReply)]}
         ELSE Bare(404)
    [] Admitted(req) /\ req.path = "/mcp" /\ req.verb \notin {"DELETE", "POST"} -> Bare(405)
    [] OTHER ->
         IF ~req.parses THEN Garbage(req)
         ELSE IF Era(req.params) = "modern" THEN RouteModern(req) ELSE RouteLegacy(req)

-----------------------------------------------------------------------------
(* The requests there are: well-formed ones of either era, and those with  *)
(* one thing amiss.                                                        *)
Params(tool, workspace, meta) == [tool |-> tool, workspace |-> workspace, meta |-> meta]
Request(method, params, session, id) ==
  [fits |-> TRUE, origin |-> "none", path |-> "/mcp", verb |-> "POST", parses |-> TRUE,
   version |-> IF params.meta = "none" THEN None ELSE params.meta,
   saysMethod |-> method, saysName |-> [base64 |-> FALSE, name |-> params.tool],
   method |-> method, params |-> params, session |-> session, id |-> id]
Amiss(req) ==
  {[req EXCEPT !.fits = FALSE], [req EXCEPT !.origin = "remote"], [req EXCEPT !.path = "/"], [req EXCEPT !.verb = "DELETE"],
   [req EXCEPT !.verb = "GET"], [req EXCEPT !.parses = FALSE], [req EXCEPT !.version = None],
   [req EXCEPT !.saysMethod = "initialized"], [req EXCEPT !.saysName.base64 = TRUE],
   [req EXCEPT !.saysName = [base64 |-> TRUE, name |-> Garbled]]}
Metas == {"none", "ours", "not a string", "no capabilities", "other version"}
Tools == Stateful \cup {"git_log", "open_workspace", "close_workspace", Forged}
CallsOf(handles) ==
  {Request("tools/call", Params(tool, h, "none"), s, id) :
     tool \in Tools, h \in handles \cup {None}, s \in handles \cup {None}, id \in BOOLEAN}
  \cup {Request("tools/call", Params(tool, h, "ours"), None, id) :
     tool \in Tools, h \in handles \cup {None}, id \in BOOLEAN}
OthersOf(handles) ==
  {Request(method, Params(Forged, None, meta), s, id) :
     method \in {"initialize", "initialized", "tools/list", Forged}, meta \in Metas,
     s \in handles \cup {None}, id \in BOOLEAN}
Requests(handles) ==
  LET good == CallsOf(handles) \cup OthersOf(handles)
      spoilt == {Request("tools/call", Params("run_program", None, meta), s, TRUE) :
                   meta \in Metas, s \in handles \cup {None}}
  IN  good \cup spoilt \cup UNION {Amiss(req) : req \in spoilt}

(* The store under what a request does to it.                              *)
Apply(does) ==
  CASE does.op = "nothing" -> UNCHANGED vars
    [] does.op = "insert" -> Insert(NewHandle, does.unsaved) /\ UNCHANGED pinned
    [] does.op = "call" ->
         work' = [work EXCEPT ![does.at] = does.unsaved] /\ UNCHANGED <<order, pinned, minted>>
    [] OTHER -> CloseWorkspace(does.at)

TransportInit ==
  /\ Init
  /\ known = [c \in Client |-> {}]
  /\ unheard = {}
  /\ exchange = None

(* A request over HTTP, from a client that knows some handles.             *)
Serve(c) ==
  /\ pinned = None /\ exchange = None
  /\ \E req \in Requests(known[c] \cup {Forged}) : \E o \in Route(req) :
       LET told == Said(o.answer.reply) \cup ({o.answer.session} \ {None}) IN
       /\ Apply(o.does)
       /\ known' = [known EXCEPT ![c] = @ \cup told]
       /\ unheard' = unheard \cup IF told = {} /\ ~req.id THEN minted' \ minted ELSE {}
       /\ exchange' = [by |-> c, refused |-> o.answer.status >= 400 \/ o.answer.reply.kind = "error",
                       polls |-> req.params.tool \in Stateful /\ ~ToolOf[req.params.tool].makes,
                       text |-> o.answer.reply.text, structured |-> o.answer.reply.structured]

(* A line over stdio, in the one workspace, which is pinned.               *)
HandleLine(req) ==
  IF req.parses THEN HandleRequest(req, pinned, TRUE) ELSE {[does |-> Nothing, reply |-> Failure(-32700)]}
Line(c) ==
  /\ pinned # None /\ exchange = None
  /\ \E req \in Requests({Forged}) : \E o \in HandleLine(req) :
       /\ Apply(o.does)
       /\ known' = [known EXCEPT ![c] = @ \cup Said(o.reply)]
       /\ exchange' = [by |-> c, refused |-> o.reply.kind = "error", polls |-> FALSE,
                       text |-> o.reply.text, structured |-> o.reply.structured]
  /\ UNCHANGED unheard

(* The reply is written before the next request is read (http::serve and   *)
(* the loop over stdin).                                                   *)
WriteReply == exchange # None /\ exchange' = None /\ UNCHANGED <<vars, known, unheard>>

TransportNext == WriteReply \/ \E c \in Client : Serve(c) \/ Line(c)

TransportSpec == TransportInit /\ [][TransportNext]_rpcVars

-----------------------------------------------------------------------------
(* A workspace is nobody's but its client's: no two are told one handle,   *)
(* and over stdio none is ever said.                                       *)
HandlesStayPrivate ==
  /\ \A c, d \in Client : c # d => known[c] \cap known[d] = {}
  /\ pinned # None => \A c \in Client : known[c] = {}

(* Every workspace in the store can be returned to: somebody was told its  *)
(* handle, unless it was made for a notification, or it is stdio's own.    *)
WorkspacesAreReachable ==
  DOMAIN work \subseteq (UNION {known[c] : c \in Client}) \cup unheard \cup {pinned}

(* Where a reply has a structured value, it and the text name one handle.  *)
RepliesSayOneThing ==
  exchange # None => exchange.structured \in {{}, exchange.text}

(* What becomes of a workspace comes from a client that was told of it, or *)
(* from eviction, which takes what has no unsaved edits.                   *)
OnlyHoldersTouch ==
  \A h \in DOMAIN work :
    \/ h \in DOMAIN work' /\ work'[h] = work[h]
    \/ h \in known[exchange'.by] \cup {pinned}
    \/ h \notin DOMAIN work' /\ ~work[h] /\ minted' # minted

(* A refused request leaves the store as it was, evicting nothing, and so  *)
(* does a poll.                                                            *)
RefusalsChangeNothing ==
  exchange' # None => (exchange'.refused \/ exchange'.polls => UNCHANGED vars)

(* A client's workspaces stay its own and within its reach, whatever it or *)
(* another sends in whatever era (http::route, rpc::tools_call).           *)
ClientsKeepTheirWorkspaces ==
  /\ [](known # None => HandlesStayPrivate /\ WorkspacesAreReachable /\ RepliesSayOneThing)
  /\ [][known # None => OnlyHoldersTouch /\ RefusalsChangeNothing]_rpcVars
=============================================================================
