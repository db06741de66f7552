--------------------------- MODULE MCNodeRegistry ---------------------------
(***************************************************************************)
(* Instances of NodeRegistry for TLC: machines of one country, "a" and "b" *)
(* by their addresses, of which "b" runs a daemon that registers as pl-2.  *)
(***************************************************************************)
EXTENDS NodeRegistry

MCFleet ==
  <<[country |-> "PL", address |-> "a"], [country |-> "PL", address |-> "b"]>>

MCNodeID == [c \in Country |-> <<"pl-1", "pl-2">>]

\* "node-1" comes before "pl-1" and "pl-2".
MCPosition ==
  [n \in Node |-> IF n = "node-1" THEN 1 ELSE IF n = "pl-1" THEN 2 ELSE 3]

\* nodes.json names "a" and one more node of that country, both online and both
\* marked as the default.
MCFileRows ==
  <<[id |-> "node-1", row |-> [OnlineRow("PL", "f") EXCEPT !.isDefault = TRUE]],
    [id |-> "pl-1", row |-> [OnlineRow("PL", "a") EXCEPT !.isDefault = TRUE]]>>

NoFileRows == <<>>

MCRegistration == [d \in Daemon |-> [id |-> "pl-2", row |-> OnlineRow("PL", "b")]]
=============================================================================
