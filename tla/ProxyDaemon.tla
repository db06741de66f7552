---------------------------- MODULE ProxyDaemon ----------------------------
(***************************************************************************)
(* The HTTPS proxy daemons beside the session core.  A connection shows a  *)
(* pair the client was handed; the daemon asks the backend to judge it, or *)
(* the database itself when it runs beside the backend, and the verdict is *)
(* on its way while sessions, sources and nodes change.  Then the target   *)
(* is dialled, and a tunnel is two goroutines that copy until one ends.    *)
(*                                                                         *)
(* Every step of BrowserSessions is a step of this system in which the     *)
(* daemons stand still, and the other way round.                           *)
(***************************************************************************)
EXTENDS BrowserSessions, Integers

CONSTANTS
  Connection,      \* connections that clients hold to the daemons
  DaemonNode,      \* the node its daemon serves: [Connection -> Node]
  Beside,          \* the connections to a daemon in the backend's own process
  MaxConnections   \* bound of the model: proxy requests ever sent

ASSUME DaemonAssumption ==
  /\ DaemonNode \in [Connection -> Node]
  /\ Beside \subseteq Connection
  /\ MaxConnections \in Nat

VARIABLES
  conn,       \* the request each connection is serving
  opened      \* how many proxy requests were ever sent

daemonVars == <<conn, opened>>
systemVars == <<vars, daemonVars>>

Direction == {"up", "down"}

NoPair == [session |-> NoSession, node |-> NoNode, user |-> 0, version |-> 0]

\* "admitted" is history: the instant of the verdict.  An end of the tunnel is
\* "gone" when its peer left and "closed" when the daemon closed it; "done"
\* counts what the channel of pipe holds.
NoConnection ==
  [at |-> "idle", method |-> "CONNECT", pair |-> NoPair, ok |-> FALSE,
   admitted |-> 0, client |-> "closed", upstream |-> "closed",
   copy |-> [d \in Direction |-> "ended"], done |-> 0]

Step(c, next) ==
  /\ conn' = [conn EXCEPT ![c] = next]
  /\ UNCHANGED <<vars, opened>>

\* Mutant: a request ends and its upstream connection stays open.
RefuseLeaking(c) ==
  Step(c, [NoConnection EXCEPT !.upstream = conn[c].upstream])

\* The request is answered, with 403, 407 or 502, or its response is complete.
Refuse(c) == Step(c, NoConnection)

-----------------------------------------------------------------------------
(* authenticate.                                                           *)

\* A proxy request with a well-formed Proxy-Authorization; others get 407.
SendProxyRequest(c) == \E pair \in handed, method \in {"CONNECT", "GET"} :
  /\ conn[c].at = "idle"
  /\ opened < MaxConnections
  /\ opened' = opened + 1
  /\ conn' = [conn EXCEPT ![c] = [NoConnection EXCEPT !.at = "ask",
                !.method = method, !.pair = pair, !.client = "open"]]
  /\ UNCHANGED vars

\* The node a daemon names when it asks: NODE_DEFAULT_ID on a proxy node, and
\* none where the daemon runs in the backend's process and calls it directly.
AskedAs(c) == IF c \in Beside THEN NoNode ELSE DaemonNode[c]

\* The backend judges the pair now; the answer travels.
JudgePair(c) ==
  /\ conn[c].at = "ask"
  /\ Step(c, [conn[c] EXCEPT !.at = "verdict", !.admitted = clock,
                !.ok = ValidateProxyCredentials(conn[c].pair, AskedAs(c))])

\* Mutant: every answered question lets the request through.
AcceptAnyAnswer(c) ==
  /\ conn[c].at = "verdict"
  /\ Step(c, [conn[c] EXCEPT !.at = "dial", !.ok = FALSE])

\* The verdict arrives, and the target is one that allowTarget accepts.
AcceptVerdict(c) ==
  /\ conn[c].at = "verdict" /\ conn[c].ok
  /\ Step(c, [conn[c] EXCEPT !.at = "dial", !.ok = FALSE])

\* A refusal, an answer that is lost or late, or a target that is denied.
RefuseRequest(c) ==
  /\ conn[c].at \in {"ask", "verdict"}
  /\ Refuse(c)

-----------------------------------------------------------------------------
(* handleForward and handleConnect.                                        *)

\* The dial of RoundTrip or of handleConnect; errors are answered with 502.
Dial(c) ==
  LET next == IF conn[c].method = "CONNECT" THEN "hijack" ELSE "forward"
  IN  /\ conn[c].at = "dial"
      /\ \/ Refuse(c)
         \/ Step(c, [conn[c] EXCEPT !.at = next, !.upstream = "open"])

\* The response was copied, or one of its two ends failed.
EndForward(c) ==
  /\ conn[c].at = "forward"
  /\ Refuse(c)

\* A connection that cannot be taken over: its upstream is closed.
FailHijack(c) ==
  /\ conn[c].at = "hijack"
  /\ Refuse(c)

OpenTunnel(c) ==
  /\ conn[c].at = "hijack"
  /\ Step(c, [conn[c] EXCEPT !.at = "pipe",
                             !.copy = [d \in Direction |-> "reading"]])

-----------------------------------------------------------------------------
(* pipe, and the two goroutines of copyAndClose.                           *)

From(t, d) == IF d = "up" THEN t.client ELSE t.upstream
To(t, d) == IF d = "up" THEN t.upstream ELSE t.client

\* A peer leaves, whoever it is and whatever is still under way.
ClientLeaves(c) ==
  /\ conn[c].at = "pipe" /\ conn[c].client = "open"
  /\ Step(c, [conn[c] EXCEPT !.client = "gone"])

UpstreamLeaves(c) ==
  /\ conn[c].at = "pipe" /\ conn[c].upstream = "open"
  /\ Step(c, [conn[c] EXCEPT !.upstream = "gone"])

\* io.Copy alternates: it reads what the source sends...
ReadBytes(c, d) ==
  /\ conn[c].copy[d] = "reading" /\ From(conn[c], d) = "open"
  /\ Step(c, [conn[c] EXCEPT !.copy[d] = "writing"])

\* ...and is blocked in Write, which has no deadline, until the destination
\* has taken it.
WriteEnds(c, d) ==
  /\ conn[c].copy[d] = "writing" /\ To(conn[c], d) # "closed"
  /\ Step(c, [conn[c] EXCEPT !.copy[d] = "reading"])

\* It returns when it reads the end of its source, or finds it closed...
CopyEnds(c, d) ==
  /\ conn[c].copy[d] = "reading" /\ From(conn[c], d) # "open"
  /\ Step(c, [conn[c] EXCEPT !.copy[d] = "sending"])

\* ...or when its destination left or was closed under the Write.
WriteFails(c, d) ==
  /\ conn[c].copy[d] = "writing" /\ To(conn[c], d) # "open"
  /\ Step(c, [conn[c] EXCEPT !.copy[d] = "sending"])

\* Mutant: done <- struct{}{} on a channel without a buffer.
SendUnbuffered(c, d) ==
  /\ conn[c].copy[d] = "sending" /\ conn[c].at = "pipe" /\ conn[c].done = 0
  /\ Step(c, [conn[c] EXCEPT !.copy[d] = "ended", !.done = @ + 1])

\* done <- struct{}{}, on a channel with room for both.
SendDone(c, d) ==
  /\ conn[c].copy[d] = "sending" /\ conn[c].done < 2
  /\ Step(c, [conn[c] EXCEPT !.copy[d] = "ended", !.done = @ + 1])

\* Mutant: pipe closes both connections without waiting for a direction.
CloseAtOnce(c) ==
  /\ conn[c].at = "pipe"
  /\ Step(c, [conn[c] EXCEPT !.at = "closed", !.done = @ - 1,
                             !.client = "closed", !.upstream = "closed"])

\* <-done: the first direction that ends closes both connections.
CloseBoth(c) ==
  /\ conn[c].at = "pipe" /\ conn[c].done > 0
  /\ Step(c, [conn[c] EXCEPT !.at = "closed", !.done = @ - 1,
                             !.client = "closed", !.upstream = "closed"])

\* Both goroutines are gone, and with them the channel.
Release(c) ==
  /\ conn[c].at = "closed"
  /\ \A d \in Direction : conn[c].copy[d] = "ended"
  /\ Step(c, NoConnection)

SameDaemon(c, d) ==
  DaemonNode[c] = DaemonNode[d] /\ (c \in Beside <=> d \in Beside)

\* The daemon stops, and its sockets with it, and starts again.
RestartDaemon(c) ==
  /\ conn[c].at # "idle"
  /\ conn' = [d \in Connection |-> IF SameDaemon(c, d) THEN NoConnection ELSE conn[d]]
  /\ UNCHANGED <<vars, opened>>

Pipe(c) ==
  \/ \E d \in Direction : CopyEnds(c, d) \/ WriteFails(c, d) \/ SendDone(c, d)
  \/ CloseBoth(c)
  \/ Release(c)

DaemonStep(c) ==
  \/ SendProxyRequest(c)
  \/ JudgePair(c)
  \/ AcceptVerdict(c)
  \/ RefuseRequest(c)
  \/ Dial(c)
  \/ EndForward(c)
  \/ FailHijack(c)
  \/ OpenTunnel(c)
  \/ ClientLeaves(c)
  \/ UpstreamLeaves(c)
  \/ \E d \in Direction : ReadBytes(c, d) \/ WriteEnds(c, d)
  \/ Pipe(c)

SystemInit ==
  /\ Init
  /\ conn = [c \in Connection |-> NoConnection]
  /\ opened = 0

SystemNext ==
  \/ Next /\ UNCHANGED daemonVars
  \/ \E c \in Connection : DaemonStep(c) \/ RestartDaemon(c)

SystemSpec == SystemInit /\ [][SystemNext]_systemVars

\* Goroutines that can run do run.  Peers and clients owe nothing: neither to
\* send, nor to leave, nor to take what is written to them.
FairSystemSpec ==
  SystemSpec /\ \A c \in Connection : WF_systemVars(Pipe(c))

-----------------------------------------------------------------------------
Connected ==
  [at : {"idle", "ask", "verdict", "dial", "forward", "hijack", "pipe", "closed"},
   method : {"CONNECT", "GET"}, pair : Pair \cup {NoPair}, ok : BOOLEAN,
   admitted : Nat, client : {"open", "gone", "closed"},
   upstream : {"open", "gone", "closed"},
   copy : [Direction -> {"reading", "writing", "sending", "ended"}], done : 0..2]

\* Every connection has the shape of a request in ServeHTTP or of a tunnel.
DaemonTypeOK == conn \in [Connection -> Connected] /\ opened \in Nat

\* The request was let through to its target.
LetThrough(c) == conn[c].at \in {"dial", "forward", "hijack", "pipe", "closed"}

\* However late a verdict arrives, and however long a tunnel lasts, no request
\* reaches a target whose pair was judged after the deadline of its session:
\* one session TTL past the last instant a subscription was valid, that very
\* instant for a local link.
AdmittedInTime ==
  \A c \in Connection : LetThrough(c) =>
    conn[c].admitted <= AccessDeadline(conn[c].pair.session)

\* A client of a link restricted to some nodes reaches a target only with a
\* pair made for one of them, and through no proxy node outside them.  The
\* daemon in the backend's process is another matter: it names no node, and
\* every pair of the link passes it, whichever node it serves.
TunnelsOnAllowedNodes ==
  \A c \in Connection : LetThrough(c) =>
    LET pair == conn[c].pair
        x    == sess[pair.session].source
    IN  SourceType[x] = "local_access_link" /\ AllowedNodeIDs[x] # {} =>
          /\ pair.node \in AllowedNodeIDs[x]
          /\ c \notin Beside => DaemonNode[c] \in AllowedNodeIDs[x]

\* No upstream connection outlives the request it was dialled for: not a
\* failed hijack, not a tunnel whose first direction has ended.
UpstreamsAreOwned ==
  \A c \in Connection :
    conn[c].upstream # "closed" => conn[c].at \in {"forward", "hijack", "pipe"}

\* A direction is blocked in Write to a peer that is still there.
Stalled(c) ==
  /\ conn[c].at = "pipe"
  /\ \E d \in Direction :
       conn[c].copy[d] = "writing" /\ To(conn[c], d) = "open"

\* A tunnel that loses a peer ends: both connections are closed and both
\* goroutines return, even while the other peer stays and says nothing.  It is
\* left open in one case only, where the peer that stays has stopped reading
\* and the copy to it is blocked in one Write for ever.
TunnelsDrain ==
  \A c \in Connection :
    conn[c].at = "pipe" /\ (conn[c].client = "gone" \/ conn[c].upstream = "gone")
      ~> (conn[c].at = "idle" \/ []Stalled(c))

-----------------------------------------------------------------------------
(* What the documentation says and the code does not do.                   *)

\* README.md on proxy_credentials: "`node_id`: target node for which
\* credentials are valid".  The daemon in the backend's process names no node
\* and lets a pair made for any other node through.
PairsOpenTheirNodeOnly ==
  \A c \in Connection : LetThrough(c) => conn[c].pair.node = DaemonNode[c]
=============================================================================
