--------------------------- MODULE MCProxyDaemon ---------------------------
(***************************************************************************)
(* Instances of ProxyDaemon for TLC: one connection to the daemon of each  *)
(* node.  Node "n1" is the backend's own host.                             *)
(***************************************************************************)
EXTENDS ProxyDaemon, MCBrowserSessions

MCDaemonNode == [c \in Connection |-> IF c = "c1" THEN "n1" ELSE "n2"]

OnBackendHost == {c \in Connection : MCDaemonNode[c] = "n1"}
=============================================================================
