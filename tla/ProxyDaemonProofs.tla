------------------------- MODULE ProxyDaemonProofs -------------------------
(***************************************************************************)
(* Theorems about the daemons together with the session core: what the     *)
(* core guarantees at the instant a pair is judged still bounds the        *)
(* requests that were let through when the verdict arrives, and later.     *)
(***************************************************************************)
EXTENDS ProxyDaemon, BrowserSessionsCredentials

\* The pair was judged and found good, whether the answer arrived or not.
Vetted(t) ==
  \/ t.at \in {"dial", "forward", "hijack", "pipe", "closed"}
  \/ t.at = "verdict" /\ t.ok

\* What stays true of a pair that was found good.
Good(c, t) ==
  /\ t.pair.session \in Session /\ t.pair.node \in Node
  /\ sess[t.pair.session].status # "none"
  /\ t.admitted <= AccessDeadline(t.pair.session)
  /\ Permitted(sess[t.pair.session].source, t.pair.node)
  /\ AskedAs(c) \in {NoNode, t.pair.node}

Owned(t) == t.upstream # "closed" => t.at \in {"forward", "hijack", "pipe"}

\* A request shows a pair that was handed out, which a session only gets after
\* its source was found valid.
Asked(t) ==
  t.at # "idle" =>
    /\ t.pair \in Pair
    /\ sess[t.pair.session].status # "none"
    /\ Confirmed(t.pair.session)

DaemonInv ==
  /\ DaemonTypeOK
  /\ \A c \in Connection :
       /\ Asked(conn[c])
       /\ Owned(conn[c])
       /\ Vetted(conn[c]) => Good(c, conn[c])

CoreInv == Inv /\ CredentialInv

-----------------------------------------------------------------------------
(* The core under the daemons is the core alone.                           *)

LEMMA CoreStep == [SystemNext]_systemVars => [Next]_vars
<1> SUFFICES ASSUME [SystemNext]_systemVars PROVE [Next]_vars
  OBVIOUS
<1>1. CASE UNCHANGED systemVars
  BY <1>1 DEF systemVars
<1>2. CASE Next /\ UNCHANGED daemonVars
  BY <1>2
<1>3. ASSUME NEW c \in Connection, DaemonStep(c)
      PROVE  UNCHANGED vars
  BY <1>3 DEF DaemonStep, Pipe, SendProxyRequest, JudgePair, AcceptVerdict,
       RefuseRequest, Dial, EndForward, FailHijack, OpenTunnel, ClientLeaves,
       UpstreamLeaves, ReadBytes, WriteEnds, WriteFails, CopyEnds, SendDone, CloseBoth, Release, Refuse, Step
<1>4. ASSUME NEW c \in Connection, RestartDaemon(c)
      PROVE  UNCHANGED vars
  BY <1>4 DEF RestartDaemon
<1> QED
  BY <1>1, <1>2, <1>3, <1>4 DEF SystemNext

\* No proxy request, verdict or tunnel does anything the session core does not
\* do by itself: what is proved of the core holds beside the daemons.
THEOREM DaemonsOnlyWatch == SystemSpec => Spec
<1>1. SystemInit => Init
  BY DEF SystemInit
<1> QED
  BY <1>1, CoreStep, PTL DEF SystemSpec, Spec

-----------------------------------------------------------------------------
(* The steps of a connection.                                              *)

LEMMA NoConnectionFits ==
  /\ NoConnection \in Connected /\ NoConnection.at = "idle"
  /\ Asked(NoConnection) /\ Owned(NoConnection) /\ ~Vetted(NoConnection)
BY DEF NoConnection, Connected, Asked, Owned, Vetted, Direction

\* A pair that is judged good is the stored one, so the core vouches for it.
LEMMA JudgedGood ==
  ASSUME CoreInv, NEW pair \in Pair, NEW daemon, Confirmed(pair.session),
         ValidateProxyCredentials(pair, daemon)
  PROVE  /\ sess[pair.session].status # "none"
         /\ clock <= AccessDeadline(pair.session)
         /\ Permitted(sess[pair.session].source, pair.node)
         /\ daemon \in {NoNode, pair.node}
<1>1. pair.session \in Session /\ pair.node \in Node
  BY DEF Pair
<1>2. /\ cred[pair.session][pair.node].user = pair.user
      /\ cred[pair.session][pair.node].version = pair.version
      /\ pair.user # 0
      /\ sess[pair.session].status = "active"
      /\ daemon \in {NoNode, pair.node}
  BY DEF ValidateProxyCredentials, StoresUsername
<1>3. clock <= AccessDeadline(pair.session)
  BY <1>1, <1>2, OpenWithinLease DEF ValidateProxyCredentials, CoreInv
<1>4. Permitted(sess[pair.session].source, pair.node)
  BY <1>1, <1>2 DEF CoreInv, CredentialInv, RowsInv, RowFits
<1> QED
  BY <1>2, <1>3, <1>4

\* One connection moves to a sound state, the core and the others stand still.
Moves(c, t) ==
  /\ conn' = [conn EXCEPT ![c] = t] /\ UNCHANGED vars
  /\ t \in Connected /\ Asked(t) /\ Owned(t) /\ (Vetted(t) => Good(c, t))

LEMMA ConnectionMoves ==
  ASSUME CoreInv, DaemonInv, NEW c \in Connection, DaemonStep(c)
  PROVE  \E t : Moves(c, t)
<1> DEFINE k == conn[c]
<1>k. /\ k \in Connected /\ Asked(k) /\ Owned(k) /\ (Vetted(k) => Good(c, k))
      /\ clock \in Nat /\ handed \subseteq Pair
  BY TypedFacts DEF DaemonInv, DaemonTypeOK, CoreInv, Inv, Typed, TypeOK
<1>s. ASSUME NEW t \in Connected, Step(c, t), Asked(t), Owned(t), Vetted(t) => Good(c, t)
      PROVE  \E u : Moves(c, u)
  BY <1>s DEF Moves, Step
<1>r. Refuse(c) => \E u : Moves(c, u)
  BY <1>s, NoConnectionFits DEF Refuse
<1>1. CASE SendProxyRequest(c)
  <2>1. PICK pair \in handed, method \in {"CONNECT", "GET"} :
          conn' = [conn EXCEPT ![c] = [NoConnection EXCEPT !.at = "ask",
                     !.method = method, !.pair = pair, !.client = "open"]]
    BY <1>1 DEF SendProxyRequest
  <2> DEFINE t == [NoConnection EXCEPT !.at = "ask", !.method = method,
                                       !.pair = pair, !.client = "open"]
  <2>2. /\ t \in Connected /\ t.at = "ask" /\ t.pair = pair /\ t.upstream = "closed"
    BY <1>k, NoConnectionFits DEF Connected, NoConnection
  <2>3. Asked(t) /\ Owned(t) /\ ~Vetted(t)
    BY <1>k, <2>2 DEF Asked, Owned, Vetted, CoreInv, Inv, LeaseInv, ClientInv
  <2>4. UNCHANGED vars
    BY <1>1 DEF SendProxyRequest
  <2> QED
    BY <2>1, <2>2, <2>3, <2>4 DEF Moves
<1>2. CASE JudgePair(c)
  <2> DEFINE ok == ValidateProxyCredentials(k.pair, AskedAs(c))
             t == [k EXCEPT !.at = "verdict", !.admitted = clock, !.ok = ok]
  <2>1. k.at = "ask" /\ Step(c, t) /\ k.pair \in Pair
        /\ Confirmed(k.pair.session)
    BY <1>2, <1>k DEF JudgePair, Asked
  <2>2. ok \in BOOLEAN
    BY DEF ValidateProxyCredentials
  <2>3. /\ t \in Connected /\ t.at = "verdict" /\ t.pair = k.pair /\ t.ok = ok
        /\ t.admitted = clock /\ t.upstream = k.upstream
    BY <1>k, <2>2 DEF Connected
  <2>4. ok => Good(c, t)
    BY <2>1, <2>3, JudgedGood DEF Good, Pair
  <2> HIDE DEF ok, t
  <2>5. Asked(t) /\ Owned(t) /\ (Vetted(t) => Good(c, t))
    BY <1>k, <2>1, <2>3, <2>4 DEF Asked, Owned, Vetted
  <2> QED
    BY <1>s, <2>1, <2>3, <2>5
<1>3. CASE AcceptVerdict(c)
  <2> DEFINE t == [k EXCEPT !.at = "dial", !.ok = FALSE]
  <2>1. k.at = "verdict" /\ k.ok /\ Step(c, t)
    BY <1>3 DEF AcceptVerdict
  <2>2. /\ t \in Connected /\ t.at = "dial" /\ t.pair = k.pair
        /\ t.admitted = k.admitted /\ t.upstream = k.upstream
    BY <1>k DEF Connected
  <2> HIDE DEF t
  <2>3. Asked(t) /\ Owned(t) /\ (Vetted(t) => Good(c, t))
    BY <1>k, <2>1, <2>2 DEF Asked, Owned, Vetted, Good
  <2> QED
    BY <1>s, <2>1, <2>2, <2>3
<1>4. CASE RefuseRequest(c) \/ EndForward(c) \/ FailHijack(c) \/ Release(c)
  BY <1>4, <1>r DEF RefuseRequest, EndForward, FailHijack, Release, Refuse
<1>o. ASSUME NEW t \in Connected, Step(c, t), t.pair = k.pair, t.admitted = k.admitted,
             Vetted(k), Owned(t), t.at # "idle" => k.at # "idle"
      PROVE  \E u : Moves(c, u)
  BY <1>k, <1>o, <1>s DEF Asked, Good
<1>5. CASE Dial(c)
  <2> DEFINE next == IF k.method = "CONNECT" THEN "hijack" ELSE "forward"
             t == [k EXCEPT !.at = next, !.upstream = "open"]
  <2>1. k.at = "dial" /\ (Refuse(c) \/ Step(c, t))
    BY <1>5 DEF Dial
  <2>2. next \in {"hijack", "forward"}
    OBVIOUS
  <2>3. /\ t \in Connected /\ t.at = next /\ t.pair = k.pair
        /\ t.admitted = k.admitted /\ Owned(t) /\ Vetted(k)
    BY <1>k, <2>1, <2>2 DEF Connected, Owned, Vetted
  <2> HIDE DEF t, next
  <2> QED
    BY <1>o, <1>r, <2>1, <2>3
<1>6. CASE OpenTunnel(c)
  <2> DEFINE t == [k EXCEPT !.at = "pipe", !.copy = [d \in Direction |-> "reading"]]
  <2>1. k.at = "hijack" /\ Step(c, t)
    BY <1>6 DEF OpenTunnel
  <2>2. /\ t \in Connected /\ t.at = "pipe" /\ t.pair = k.pair
        /\ t.admitted = k.admitted /\ Owned(t) /\ Vetted(k)
    BY <1>k, <2>1 DEF Connected, Owned, Vetted
  <2> HIDE DEF t
  <2> QED
    BY <1>o, <2>1, <2>2
<1>7. CASE ClientLeaves(c) \/ UpstreamLeaves(c)
  <2>1. PICK t \in {[k EXCEPT !.client = "gone"], [k EXCEPT !.upstream = "gone"]} :
          k.at = "pipe" /\ Step(c, t)
    BY <1>7 DEF ClientLeaves, UpstreamLeaves
  <2>2. /\ t \in Connected /\ t.at = "pipe" /\ t.pair = k.pair
        /\ t.admitted = k.admitted /\ Owned(t) /\ Vetted(k)
    BY <1>k, <2>1 DEF Connected, Owned, Vetted
  <2> QED
    BY <1>o, <2>1, <2>2
<1>8. CASE CloseBoth(c)
  <2> DEFINE t == [k EXCEPT !.at = "closed", !.done = @ - 1,
                            !.client = "closed", !.upstream = "closed"]
  <2>1. k.at = "pipe" /\ k.done > 0 /\ Step(c, t)
    BY <1>8 DEF CloseBoth
  <2>2. k.done - 1 \in 0..2
    BY <1>k, <2>1 DEF Connected
  <2>3. /\ t \in Connected /\ t.at = "closed" /\ t.pair = k.pair
        /\ t.admitted = k.admitted /\ Owned(t) /\ Vetted(k)
    BY <1>k, <2>1, <2>2 DEF Connected, Owned, Vetted
  <2> HIDE DEF t
  <2> QED
    BY <1>o, <2>1, <2>3
<1>9. ASSUME NEW d \in Direction,
             \/ ReadBytes(c, d) \/ WriteEnds(c, d) \/ CopyEnds(c, d)
             \/ WriteFails(c, d) \/ SendDone(c, d)
      PROVE  \E u : Moves(c, u)
  <2>1. PICK e \in {"reading", "writing", "sending", "ended"}, n \in 0..2 :
          Step(c, [k EXCEPT !.copy[d] = e, !.done = n])
    <3>1. CASE ~SendDone(c, d)
      <4>1. PICK e \in {"reading", "writing", "sending"} :
              Step(c, [k EXCEPT !.copy[d] = e])
        BY <1>9, <3>1 DEF ReadBytes, WriteEnds, CopyEnds, WriteFails
      <4>2. [k EXCEPT !.copy[d] = e] = [k EXCEPT !.copy[d] = e, !.done = k.done]
        BY <1>k DEF Connected
      <4>3. k.done \in 0..2
        BY <1>k DEF Connected
      <4> QED
        BY <4>1, <4>2, <4>3
    <3>2. CASE SendDone(c, d)
      <4>1. Step(c, [k EXCEPT !.copy[d] = "ended", !.done = k.done + 1]) /\ k.done < 2
        BY <3>2 DEF SendDone
      <4>2. k.done + 1 \in 0..2
        BY <1>k, <4>1 DEF Connected
      <4> QED
        BY <4>1, <4>2
    <3> QED
      BY <3>1, <3>2
  <2> DEFINE t == [k EXCEPT !.copy[d] = e, !.done = n]
  <2>2. /\ t \in Connected /\ t.at = k.at /\ t.pair = k.pair /\ t.ok = k.ok
        /\ t.admitted = k.admitted /\ t.upstream = k.upstream
    BY <1>k DEF Connected
  <2>3. Step(c, t)
    BY <2>1
  <2> HIDE DEF t
  <2>4. Asked(t) /\ Owned(t) /\ (Vetted(t) => Good(c, t))
    BY <1>k, <2>2 DEF Asked, Owned, Vetted, Good
  <2> QED
    BY <1>s, <2>2, <2>3, <2>4
<1> QED
  BY <1>1, <1>2, <1>3, <1>4, <1>5, <1>6, <1>7, <1>8, <1>9 DEF DaemonStep, Pipe

-----------------------------------------------------------------------------
(* The invariant, and what it means.                                       *)

\* What held when the pair was judged holds ever after: the deadline of a
\* session only moves away and its source never changes.
LEMMA GoodStays ==
  ASSUME Inv, Forward, NEW c \in Connection, NEW t \in Connected, Good(c, t)
  PROVE  Good(c, t)'
<1> DEFINE s == t.pair.session
           x == sess[s].source
<1>1. /\ s \in Session /\ sess[s].status # "none" /\ x \in Source
      /\ sess[s].created \in Nat /\ lastGood[x] \in Nat /\ t.admitted \in Nat
  BY TypedFacts DEF Good, Inv, LeaseInv, RowInv, SessionRow, Connected
<1>2. /\ sess'[s].status # "none" /\ sess'[s].source = x
      /\ sess'[s].created = sess[s].created
      /\ lastGood'[x] \in Nat /\ lastGood'[x] >= lastGood[x]
  BY <1>1 DEF Forward
<1>3. AccessDeadline(s) \in Nat /\ AccessDeadline(s)' >= AccessDeadline(s)
  BY <1>1, <1>2, DurationAssumption DEF AccessDeadline
<1>4. AccessDeadline(s)' \in Nat
  BY <1>2, DurationAssumption DEF AccessDeadline
<1>5. (t.admitted <= AccessDeadline(s))'
  BY <1>1, <1>3, <1>4 DEF Good
<1> QED
  BY <1>1, <1>2, <1>5 DEF Good, Permitted, Leased, AskedAs

LEMMA AskedStays ==
  ASSUME Inv, Forward, NEW t \in Connected, Asked(t)
  PROVE  Asked(t)'
<1>1. CASE t.at = "idle"
  BY <1>1 DEF Asked
<1>2. CASE t.at # "idle"
  <2>1. PICK s \in Session : s = t.pair.session
    BY <1>2 DEF Asked, Pair
  <2>2. sess[s].status # "none" /\ Confirmed(s)
    BY <1>2, <2>1 DEF Asked
  <2>3. sess'[s].status # "none" /\ Confirmed(s)'
    BY <2>2, ConfirmedStays DEF Inv, LeaseInv, Forward
  <2> QED
    BY <1>2, <2>1, <2>3 DEF Asked, Confirmed, Leased
<1> QED
  BY <1>1, <1>2

LEMMA DaemonStart == SystemInit => DaemonInv
BY NoConnectionFits DEF SystemInit, DaemonInv, DaemonTypeOK

LEMMA OpenedStays == DaemonInv /\ [SystemNext]_systemVars => opened' \in Nat
<1> SUFFICES ASSUME DaemonInv, [SystemNext]_systemVars PROVE opened' \in Nat
  OBVIOUS
<1>1. opened \in Nat
  BY DEF DaemonInv, DaemonTypeOK
<1>2. ASSUME NEW c \in Connection, DaemonStep(c)
      PROVE  opened' \in {opened, opened + 1}
  BY <1>2 DEF DaemonStep, Pipe, SendProxyRequest, JudgePair, AcceptVerdict,
       RefuseRequest, Dial, EndForward, FailHijack, OpenTunnel, ClientLeaves,
       UpstreamLeaves, ReadBytes, WriteEnds, WriteFails, CopyEnds, SendDone, CloseBoth, Release, Refuse, Step
<1> QED
  BY <1>1, <1>2 DEF SystemNext, systemVars, daemonVars, RestartDaemon

LEMMA DaemonKept ==
  CoreInv /\ DaemonInv /\ [SystemNext]_systemVars => DaemonInv'
<1> SUFFICES ASSUME CoreInv, DaemonInv, [SystemNext]_systemVars PROVE DaemonInv'
  OBVIOUS
<1>k. /\ conn \in [Connection -> Connected]
      /\ \A c \in Connection :
           Asked(conn[c]) /\ Owned(conn[c]) /\ (Vetted(conn[c]) => Good(c, conn[c]))
  BY DEF DaemonInv, DaemonTypeOK
<1>f. Forward /\ Inv
  BY CoreStep, NextForward DEF CoreInv
<1>g. \A c \in Connection, t \in Connected :
        (Good(c, t) => Good(c, t)') /\ (Asked(t) => Asked(t)')
  BY <1>f, GoodStays, AskedStays
<1>s. ASSUME conn' \in [Connection -> Connected],
             \A c \in Connection :
               /\ Asked(conn'[c]) /\ Owned(conn'[c])
               /\ Vetted(conn'[c]) => Good(c, conn'[c])
      PROVE  DaemonInv'
  <2>1. ASSUME NEW c \in Connection
        PROVE  Asked(conn[c])' /\ (Vetted(conn'[c]) => Good(c, conn[c])')
    <3>1. PICK t \in Connected : t = conn'[c]
      BY <1>s
    <3>2. Asked(t)' /\ (Vetted(t) => Good(c, t)')
      BY <1>g, <1>s, <3>1
    <3> QED
      BY <3>1, <3>2 DEF Asked, Confirmed, Good, AccessDeadline, Permitted, Leased, AskedAs
  <2> QED
    BY <1>s, <2>1, OpenedStays DEF DaemonInv, DaemonTypeOK, Owned, Vetted
<1>1. CASE UNCHANGED conn
  BY <1>1, <1>k, <1>s
<1>2. ASSUME NEW c \in Connection, DaemonStep(c)
      PROVE  DaemonInv'
  <2>1. PICK t : Moves(c, t)
    BY <1>2, ConnectionMoves
  <2>2. conn'[c] = t /\ \A d \in Connection \ {c} : conn'[d] = conn[d]
    BY <1>k, <2>1 DEF Moves
  <2>3. conn' \in [Connection -> Connected]
    BY <1>k, <2>1 DEF Moves
  <2> QED
    BY <1>k, <1>s, <2>1, <2>2, <2>3 DEF Moves
<1>3. ASSUME NEW c \in Connection, RestartDaemon(c)
      PROVE  DaemonInv'
  <2>1. /\ conn' \in [Connection -> Connected]
        /\ \A d \in Connection : conn'[d] \in {NoConnection, conn[d]}
    BY <1>3, <1>k, NoConnectionFits DEF RestartDaemon
  <2> QED
    BY <1>k, <1>s, <2>1, NoConnectionFits
<1> QED
  BY <1>1, <1>2, <1>3 DEF SystemNext, systemVars, daemonVars

LEMMA SystemHolds == SystemSpec => []DaemonInv
<1>1. SystemSpec => []CoreInv
  BY DaemonsOnlyWatch, SpecCredentials, PTL DEF CoreInv
<1> QED
  BY <1>1, DaemonStart, DaemonKept, PTL DEF SystemSpec

\* The daemons' requests and tunnels keep their shape: a channel with room for
\* two never holds a third message.
THEOREM DaemonTypes == SystemSpec => []DaemonTypeOK
<1>1. DaemonInv => DaemonTypeOK
  BY DEF DaemonInv
<1> QED
  BY <1>1, SystemHolds, PTL

\* However long a verdict travels and a tunnel lasts, its pair was judged before
\* the deadline of its session: the bound of the core carries over.
THEOREM Admission == SystemSpec => []AdmittedInTime
<1>1. DaemonInv => AdmittedInTime
  BY DEF DaemonInv, AdmittedInTime, LetThrough, Vetted, Good
<1> QED
  BY <1>1, SystemHolds, PTL

\* A client of a restricted link reaches a target only with a pair made for a
\* node of its allow list and, at the daemons of the proxy nodes, only on such a
\* node; the daemon beside the backend takes every pair of the link.
THEOREM TunnelsAllowed == SystemSpec => []TunnelsOnAllowedNodes
<1>1. DaemonInv => TunnelsOnAllowedNodes
  <2> SUFFICES ASSUME DaemonInv, NEW c \in Connection, LetThrough(c),
                      NEW x, x = sess[conn[c].pair.session].source,
                      SourceType[x] = "local_access_link", AllowedNodeIDs[x] # {}
               PROVE  /\ conn[c].pair.node \in AllowedNodeIDs[x]
                      /\ c \notin Beside => DaemonNode[c] \in AllowedNodeIDs[x]
    BY DEF TunnelsOnAllowedNodes
  <2>1. Good(c, conn[c])
    BY DEF DaemonInv, LetThrough, Vetted
  <2>2. conn[c].pair.node \in AllowedNodeIDs[x]
    BY <2>1 DEF Good, Permitted, Leased
  <2>3. c \notin Beside => DaemonNode[c] = conn[c].pair.node
    BY <2>1, DaemonAssumption, NoNodeAssumption DEF Good, AskedAs
  <2> QED
    BY <2>2, <2>3
<1> QED
  BY <1>1, SystemHolds, PTL

\* Every upstream connection that is open belongs to a request being served.
THEOREM NoUpstreamLeaks == SystemSpec => []UpstreamsAreOwned
<1>1. DaemonInv => UpstreamsAreOwned
  BY DEF DaemonInv, UpstreamsAreOwned, Owned
<1> QED
  BY <1>1, SystemHolds, PTL
=============================================================================
