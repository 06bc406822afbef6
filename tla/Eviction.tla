------------------------------ MODULE Eviction ------------------------------
(***************************************************************************)
(* The policy by which mime bounds what it keeps warm, written once for    *)
(* the sessions of a workspace (mcp.rs evict_for_room) and once for the    *)
(* workspaces of a server (rpc.rs WorkspaceStore::evict_for_room): room is *)
(* made for one more by dropping the oldest that may be dropped, until it  *)
(* fits or none is left.                                                   *)
(***************************************************************************)
EXTENDS Integers, Sequences, FiniteSets

(* Of order, oldest first, the members from the front to place i in idle.  *)
IdleTo(order, idle, i) == {k \in 1..i : order[k] \in idle}

(* order lists what is kept, oldest first; idle is what may be dropped.    *)
Victims(order, idle, cap) ==
  {order[i] : i \in {k \in DOMAIN order :
     /\ order[k] \in idle
     /\ Cardinality(IdleTo(order, idle, k)) <= Len(order) - cap + 1}}
=============================================================================
