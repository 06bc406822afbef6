--------------------------- MODULE WorkspaceStore ---------------------------
(***************************************************************************)
(* The workspaces of one server (rpc.rs): a map from handles to session    *)
(* maps, bounded by evicting the oldest idle one.  A legacy HTTP client    *)
(* gets a workspace from initialize, a modern one from open_workspace or   *)
(* from any call that leaves something warm; stdio has one from the start, *)
(* and pins it.  The tools that open and close workspaces are not offered  *)
(* over stdio today; the store is modelled as if they were, as its pin and *)
(* its tests foresee.                                                      *)
(***************************************************************************)
EXTENDS Integers, Sequences, SequencesExt, Eviction

CONSTANTS
  Handle,   \* the handles there are to mint
  None,     \* no workspace
  Cap       \* WORKSPACE_CAP

ASSUME WorkspaceStoreAssumption ==
  /\ None \notin Handle
  /\ Cap \in Nat \ {0}

VARIABLES
  work,    \* work[h]: whether a session of workspace h has unsaved edits
  order,   \* the handles, oldest first
  pinned,  \* the handle eviction must not take, or None
  minted   \* every handle given out so far (new_handle never repeats one)

vars == <<work, order, pinned, minted>>

(* Mutant: the pin is forgotten.                                           *)
IdleOrPinned == {h \in DOMAIN work : ~work[h]}

(* What eviction may take: no unsaved edits in any session, not pinned.    *)
Idle == {h \in DOMAIN work : ~work[h] /\ h # pinned}

Keep(handles) == [h \in handles |-> work[h]]

(* WorkspaceStore::insert: room is made, then the newcomer goes last. *)
Insert(h, unsaved) ==
  LET gone == Victims(order, Idle, Cap)
      kept == Keep(DOMAIN work \ gone)
  IN
  /\ h \notin minted
  /\ minted' = minted \cup {h}
  /\ work' = [k \in DOMAIN kept \cup {h} |-> IF k = h THEN unsaved ELSE kept[k]]
  /\ order' = Append(SelectSeq(order, LAMBDA k : k \notin gone), h)

(* stdio_store mints its one workspace and pins it; an HTTP server starts  *)
(* empty.                                                                  *)
Init ==
  /\ \/ pinned = None /\ order = <<>>
     \/ pinned \in Handle /\ order = <<pinned>>
  /\ work = [h \in ToSet(order) |-> FALSE]
  /\ minted = ToSet(order)

(* open_workspace, and the initialize of a legacy HTTP session. *)
Mint(h) == Insert(h, FALSE) /\ UNCHANGED pinned

(* A call without a handle runs beside the store; what it left warm is     *)
(* taken in afterwards, unsaved edits and all (tools_call).                *)
BareCall(h) ==
  /\ pinned = None
  /\ \E unsaved \in BOOLEAN : Insert(h, unsaved)
  /\ UNCHANGED pinned

(* A call in a workspace the store knows edits, saves, opens or closes.    *)
CallIn(h) ==
  /\ h \in DOMAIN work
  /\ \E unsaved \in BOOLEAN : work' = [work EXCEPT ![h] = unsaved]
  /\ UNCHANGED <<order, pinned, minted>>

(* close_workspace and the HTTP DELETE.  The one stdio workspace is        *)
(* refused.                                                                *)
CloseWorkspace(h) ==
  /\ h \in DOMAIN work
  /\ h # pinned
  /\ work' = Keep(DOMAIN work \ {h})
  /\ order' = SelectSeq(order, LAMBDA k : k # h)
  /\ UNCHANGED <<pinned, minted>>

Next == \E h \in Handle : Mint(h) \/ BareCall(h) \/ CallIn(h) \/ CloseWorkspace(h)

Spec == Init /\ [][Next]_vars

-----------------------------------------------------------------------------
(* The eviction order lists exactly the workspaces there are, once each: a *)
(* handle left behind would be picked as victim forever after.             *)
TypeOK ==
  /\ DOMAIN work \subseteq minted
  /\ minted \subseteq Handle
  /\ \A h \in DOMAIN work : work[h] \in BOOLEAN
  /\ ToSet(order) = DOMAIN work /\ IsInjective(order)
  /\ pinned \in DOMAIN work \cup {None}

Dropped(h) == h \in DOMAIN work /\ h \notin DOMAIN work'

(* Room for a new workspace never costs unsaved edits, nor the workspace   *)
(* every call of a stdio client lands in (evict_for_room, pin).            *)
RoomCostsNoWork ==
  [][\A h \in Handle : Dropped(h) /\ (work[h] \/ h = pinned) => CloseWorkspace(h)]_vars

=============================================================================
