------------------------------- MODULE Nodes -------------------------------
(***************************************************************************)
(* The `nodes` table as the session handlers read it: which rows a         *)
(* resolution lists, and which of them it may name as the default.         *)
(*                                                                         *)
(* A table maps every node id to its row; an id that was never written     *)
(* has status "none" (rows are never deleted, only marked offline).  The   *)
(* column is free text: RegisterNode and nodes.json store any spelling,    *)
(* and the code compares it case-insensitively in one place and exactly    *)
(* in another, so "Online" is kept apart from "online".                    *)
(***************************************************************************)
CONSTANTS Node, NoNode

ASSUME NoNodeAssumption == NoNode \notin Node

NodeStatus == {"none", "online", "Online", "offline"}

NodeRow == [status : NodeStatus, isDefault : BOOLEAN]

NoRow == [status |-> "none", isDefault |-> FALSE]

ListNodes(table) == {n \in Node : table[n].status # "none"}

FilterOnlineNodes(table, listed) ==
  {n \in listed : table[n].status \in {"online", "Online"}}

ResolveAllNodes(table) == FilterOnlineNodes(table, ListNodes(table))

\* An empty allow list means every node; nothing filters on the status here.
ResolveNodesForAccessLink(table, allowed) ==
  IF allowed = {} THEN ListNodes(table) ELSE ListNodes(table) \cap allowed

\* Mutant: the preferred node is the default whether it is listed or not.
PreferredAnyway(table, listed, preferred) ==
  IF preferred \in Node THEN {preferred} ELSE listed

\* chooseDefaultNode takes the first of a list ordered by is_default and name.
\* The order among equals is left open: the set holds every possible first.
DefaultCandidates(table, listed, preferred) ==
  LET defaults == {n \in listed : table[n].isDefault}
      online   == {n \in listed : table[n].status = "online"}
  IN  CASE preferred \in listed -> {preferred}
        [] preferred \notin listed /\ defaults # {} -> defaults
        [] preferred \notin listed /\ defaults = {} /\ online # {} -> online
        [] OTHER -> listed

\* What the sessions rely on in every write of the registry: whichever rows it
\* rewrites, and however many of them it makes a default, none vanishes.
TableChange(before, after) == ListNodes(before) \subseteq ListNodes(after)
=============================================================================
