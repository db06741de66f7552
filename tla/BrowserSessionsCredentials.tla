--------------------- MODULE BrowserSessionsCredentials ---------------------
(***************************************************************************)
(* The credentials of BrowserSessions: no row is ever made for a node the  *)
(* link is not allowed, no pair a client holds has a name that is stored   *)
(* with another password, and the first pair of a node runs its term.      *)
(* Where no two requests of a session overlap, every pair runs its term    *)
(* and a logout marks every credential.                                    *)
(***************************************************************************)
EXTENDS BrowserSessionsExposure

Permitted(x, n) ==
  Leased(x) \/ AllowedNodeIDs[x] = {} \/ n \in AllowedNodeIDs[x]

\* The first credential of a node is not usable any more.
Over(row, session, now) ==
  row.user = 1 => row.expires <= now \/ session.status = "revoked"

\* A pair read from a row: the row may have been rotated since.
Fits(pair, row) ==
  /\ pair.user # 0 /\ pair.user <= row.user
  /\ pair.user = row.user => pair.version = row.version

\* A row that exists; the first credential is revoked with its session only.
RowFits(row, session, n) ==
  row.user # 0 =>
    /\ session.status # "none"
    /\ Permitted(session.source, n)
    /\ row.user = 1 /\ row.revoked => session.status = "revoked"

\* What a request holds of the credential it is about to write or to hand out.
Knows(label, r, row, session, now) ==
  /\ label \in CredentialLabels \cup {"insert"} => Permitted(r.source, r.node)
  /\ label \in {"renew", "readback"} => row.user # 0
  /\ label = "renew" => Over(row, session, now)
  /\ label = "reply" /\ r.kind = "config" => Fits(r, row)

\* What one step may do to a row.
RowMoves(before, after, was, is, now) ==
  \/ after = before
  \/ after = RevokedCredential(before) /\ is.status = "revoked"
  \/ before.user = 0 /\ after.user = 1 /\ ~after.revoked
  \/ before.user # 0 /\ after.user = before.user + 1 /\ Over(before, was, now)

RowsInv == \A s \in Session, n \in Node : RowFits(cred[s][n], sess[s], n)

KnowledgeInv == \A w \in Worker :
  Knows(pc[w], req[w], cred[req[w].session][req[w].node], sess[req[w].session], clock)

HandedInv == \A pair \in handed : Fits(pair, cred[pair.session][pair.node])

CredentialInv == RowsInv /\ KnowledgeInv /\ HandedInv

RowsMove == \A s \in Session, n \in Node :
  RowMoves(cred[s][n], cred'[s][n], sess[s], sess'[s], clock)

\* A row that a step makes belongs to a session that is allowed its node.
NewRowsFit == \A s \in Session, n \in Node :
  cred[s][n].user = 0 /\ cred'[s][n].user # 0 =>
    sess'[s].status # "none" /\ Permitted(sess'[s].source, n)

-----------------------------------------------------------------------------
(* No step goes back.                                                      *)

\* Rows that exist keep their source and their birth and stay revoked, and the
\* clock and the sources' history only advance, in every step.
LEMMA NextForward == Inv /\ [Next]_vars => Forward
<1> SUFFICES ASSUME Inv, [Next]_vars PROVE Forward
  OBVIOUS
<1>t. /\ sess \in [Session -> SessionRow] /\ clock \in Nat
      /\ lastGood \in [Source -> Nat]
  BY TypedFacts DEF Inv
<1>k. UNCHANGED <<world, sess>> => Forward
  BY StillForward DEF Inv
<1>r. ASSUME NEW s \in Session, NEW row \in SessionRow, UNCHANGED world,
             sess' = [sess EXCEPT ![s] = row],
             sess[s].status # "none" =>
               /\ row.status # "none" /\ row.source = sess[s].source
               /\ row.created = sess[s].created
               /\ sess[s].status = "revoked" => row.status = "revoked"
      PROVE  Forward
  <2>1. sess'[s] = row /\ \A v \in Session \ {s} : sess'[v] = sess[v]
    BY <1>t, <1>r
  <2> QED
    BY <1>t, <1>r, <2>1 DEF Forward, world
<1>1. CASE UNCHANGED vars
  BY <1>1, <1>k DEF vars, database
<1>2. ASSUME NEW w \in Worker,
             StartExchange(w) \/ StartWithToken(w) \/ StartRefresh(w)
      PROVE  Forward
  BY <1>2, <1>k DEF StartExchange, StartWithToken, StartRefresh, Begin, database
<1>3. ASSUME NEW w \in Worker, Serve(w)
      PROVE  Forward
  <2> DEFINE s == req[w].session
  <2>1. CASE \/ LoadSession(w) \/ CheckSource(w) \/ AskRemna(w) \/ AskCompatibility(w)
             \/ JudgeAnswer(w) \/ FindAccessLink(w) \/ ListSessionNodes(w)
             \/ PickNode(w) \/ SelectCredential(w) \/ ReadBackCredential(w)
    BY <1>k, <2>1 DEF LoadSession, CheckSource, AskRemna, AskCompatibility,
         JudgeAnswer, FindAccessLink, ListSessionNodes, PickNode, SelectCredential,
         ReadBackCredential, database
  <2>2. CASE CreateProxyCredential(w) \/ RotateProxyCredential(w) \/ Reply(w)
    BY <1>k, <2>2 DEF CreateProxyCredential, RotateProxyCredential, Reply, database
  <2>3. CASE ExtendSession(w)
    <3>1. /\ s \in Session /\ req[w].next \in Nat
          /\ sess' = [sess EXCEPT ![s] = [sess[s] EXCEPT !.expires = req[w].next]]
      BY <2>3, InvFacts DEF ExtendSession, Shaped, Request
    <3>2. [sess[s] EXCEPT !.expires = req[w].next] \in SessionRow
      BY <1>t, <3>1 DEF SessionRow
    <3> QED
      BY <1>r, <1>t, <2>3, <3>1, <3>2 DEF ExtendSession, SessionRow
  <2>4. CASE RotateSessionToken(w)
    <3> DEFINE row == [sess[s] EXCEPT !.token = sess[s].token + 1,
                                      !.expires = req[w].expires]
    <3>1. /\ s \in Session /\ req[w].expires \in Nat
          /\ sess' = [sess EXCEPT ![s] = row]
      BY <2>4, InvFacts DEF RotateSessionToken, Shaped, Request
    <3>0. sess[s] \in SessionRow /\ sess[s].token + 1 \in Nat
      BY <1>t, <3>1 DEF SessionRow
    <3>2. row \in SessionRow
      BY <3>0, <3>1, RenewedRowType
    <3> QED
      BY <1>r, <1>t, <2>4, <3>1, <3>2 DEF RotateSessionToken, SessionRow
  <2>5. CASE DisownSession(w) \/ LogoutSession(w)
    <3> DEFINE row == [sess[s] EXCEPT !.status = "revoked"]
    <3>1. s \in Session /\ sess' = [sess EXCEPT ![s] = row]
      BY <2>5, InvFacts DEF DisownSession, LogoutSession, Revoked, Shaped
    <3>2. row \in SessionRow
      BY <1>t, <3>1 DEF SessionRow
    <3> QED
      BY <1>r, <1>t, <2>5, <3>1, <3>2 DEF DisownSession, LogoutSession, SessionRow
  <2>6. CASE CreateSession(w)
    <3> DEFINE row == [status |-> "active", source |-> req[w].source, token |-> 1,
                       expires |-> req[w].next, created |-> clock,
                       selected |-> req[w].node]
    <3>0. pc[w] = "insert" /\ UNCHANGED world /\ sess' = [sess EXCEPT ![s] = row]
      BY <2>6 DEF CreateSession
    <3>1. /\ s \in Session /\ sess[s].status = "none"
          /\ req[w].source \in Source /\ req[w].next \in Nat /\ req[w].node \in Node
      BY <3>0, InvFacts DEF Shaped, Sound, Creating, Request
    <3>2. row \in SessionRow
      BY <1>t, <3>1 DEF SessionRow
    <3> QED
      BY <1>r, <3>0, <3>1, <3>2
  <2> QED
    BY <1>3, <2>1, <2>2, <2>3, <2>4, <2>5, <2>6 DEF Serve
<1>4. ASSUME NEW w \in Worker, Abort(w)
      PROVE  Forward
  BY <1>4, <1>k DEF Abort, database
<1>5. CASE Tick
  <2>1. lastGood' = Seen(source, clock') /\ clock' = clock + 1 /\ sess' = sess
    BY <1>5 DEF Tick, database
  <2>2. \A x \in Source : lastGood'[x] \in {clock', lastGood[x]}
    BY <2>1 DEF Seen
  <2>3. \A x \in Source : lastGood[x] <= clock
    BY DEF Inv, LeaseInv, HistoryInv
  <2> QED
    BY <1>t, <2>1, <2>2, <2>3 DEF Forward
<1>6. CASE ChangeSource
  <2>1. lastGood' = Seen(source', clock) /\ clock' = clock /\ sess' = sess
    BY <1>6 DEF ChangeSource, database
  <2>2. \A x \in Source : lastGood'[x] \in {clock, lastGood[x]}
    BY <2>1 DEF Seen
  <2>3. \A x \in Source : lastGood[x] <= clock
    BY DEF Inv, LeaseInv, HistoryInv
  <2> QED
    BY <1>t, <2>1, <2>2, <2>3 DEF Forward
<1>7. CASE WriteNodes
  BY <1>7, <1>k DEF WriteNodes
<1> QED
  BY <1>1, <1>2, <1>3, <1>4, <1>5, <1>6, <1>7 DEF Next

-----------------------------------------------------------------------------
(* What a request knows survives, and what it leaves for its next label.   *)

\* A row that moved is as good as before for whoever read it.
LEMMA KnowsStays ==
  ASSUME NEW label, NEW r \in Request, NEW before \in CredentialRow,
         NEW after \in CredentialRow, NEW was, NEW is, NEW now \in Nat,
         NEW later \in Nat, now <= later,
         was.status = "revoked" => is.status = "revoked",
         RowMoves(before, after, was, is, now), Knows(label, r, before, was, now)
  PROVE  Knows(label, r, after, is, later)
<1>1. before.user \in Nat /\ before.expires \in Nat /\ r.user \in Nat
  BY DEF CredentialRow, Request
<1>2. CASE after = before
  BY <1>1, <1>2 DEF Knows, Over, Fits
<1>3. CASE after = RevokedCredential(before) /\ is.status = "revoked"
  BY <1>1, <1>3 DEF Knows, Over, Fits, RevokedCredential
<1>4. CASE before.user = 0 /\ after.user = 1 /\ ~after.revoked
  BY <1>1, <1>4 DEF Knows, Over, Fits
<1>5. CASE before.user # 0 /\ after.user = before.user + 1
  BY <1>1, <1>5 DEF Knows, Over, Fits
<1> QED
  BY <1>2, <1>3, <1>4, <1>5 DEF RowMoves

LEMMA FitsStays ==
  ASSUME NEW pair \in Pair, NEW before \in CredentialRow,
         NEW after \in CredentialRow, NEW was, NEW is, NEW now,
         RowMoves(before, after, was, is, now), Fits(pair, before)
  PROVE  Fits(pair, after)
<1>1. before.user \in Nat /\ pair.user \in Nat
  BY DEF CredentialRow, Pair
<1> QED
  BY <1>1 DEF RowMoves, Fits, RevokedCredential

LEMMA RowFitsStays ==
  ASSUME NEW n, NEW before \in CredentialRow,
         NEW after \in CredentialRow, NEW was, NEW is, NEW now,
         was.status # "none" => is.status # "none" /\ is.source = was.source,
         was.status = "revoked" => is.status = "revoked",
         before.user = 0 /\ after.user # 0 =>
           is.status # "none" /\ Permitted(is.source, n),
         RowMoves(before, after, was, is, now), RowFits(before, was, n)
  PROVE  RowFits(after, is, n)
<1>1. before.user \in Nat
  BY DEF CredentialRow
<1> QED
  BY <1>1 DEF RowMoves, RowFits, RevokedCredential

\* The rows, and what the other requests know, after a step of one request.
LEMMA StepKeeps ==
  ASSUME Inv, Inv', CredentialInv, Forward, RowsMove, NewRowsFit,
         NEW w \in Worker, NEW label, NEW r, Continue(w, label, r),
         Knows(label, r, cred[r.session][r.node], sess[r.session], clock)',
         \A pair \in handed' \ handed : Fits(pair, cred'[pair.session][pair.node])
  PROVE  CredentialInv'
<1>t. /\ cred \in [Session -> [Node -> CredentialRow]]
      /\ cred' \in [Session -> [Node -> CredentialRow]]
      /\ sess \in [Session -> SessionRow]
      /\ clock \in Nat /\ clock' \in Nat /\ clock <= clock'
      /\ pc \in [Worker -> Label] /\ req \in [Worker -> Request]
      /\ \A v \in Worker : Shaped(pc[v], req[v])
      /\ handed \subseteq Pair
  BY TypedFacts DEF Inv, Forward, Typed, TypeOK
<1>1. RowsInv'
  <2> SUFFICES ASSUME NEW s \in Session, NEW n \in Node
               PROVE  RowFits(cred'[s][n], sess'[s], n)
    BY DEF RowsInv
  <2>1. RowFits(cred[s][n], sess[s], n) /\ RowMoves(cred[s][n], cred'[s][n], sess[s], sess'[s], clock)
    BY DEF CredentialInv, RowsInv, RowsMove
  <2> QED
    BY <1>t, <2>1, RowFitsStays DEF Forward, NewRowsFit
<1>2. ASSUME NEW v \in Worker \ {w}
      PROVE  Knows(pc[v], req[v], cred'[req[v].session][req[v].node],
                   sess'[req[v].session], clock')
  <2>1. /\ req[v] \in Request /\ Shaped(pc[v], req[v])
        /\ Knows(pc[v], req[v], cred[req[v].session][req[v].node],
                 sess[req[v].session], clock)
    BY <1>t DEF CredentialInv, KnowledgeInv
  <2>2. CASE req[v].session \in Session /\ req[v].node \in Node
    <3>1. RowMoves(cred[req[v].session][req[v].node], cred'[req[v].session][req[v].node],
                   sess[req[v].session], sess'[req[v].session], clock)
      BY <2>2 DEF RowsMove
    <3>2. sess[req[v].session].status = "revoked" => sess'[req[v].session].status = "revoked"
      BY <2>2 DEF Forward
    <3> QED
      BY <1>t, <2>1, <2>2, <3>1, <3>2, KnowsStays
  <2>3. CASE ~(req[v].session \in Session /\ req[v].node \in Node)
    BY <2>1, <2>3 DEF Knows, Shaped, CredentialLabels
  <2> QED
    BY <2>2, <2>3
<1>3. KnowledgeInv'
  <2>1. /\ pc'[w] = label /\ req'[w] = r
        /\ \A v \in Worker \ {w} : pc'[v] = pc[v] /\ req'[v] = req[v]
    BY <1>t DEF Continue
  <2> QED
    BY <1>2, <2>1 DEF KnowledgeInv
<1>4. HandedInv'
  <2> SUFFICES ASSUME NEW pair \in handed'
               PROVE  Fits(pair, cred'[pair.session][pair.node])
    BY DEF HandedInv
  <2>1. CASE pair \in handed
    <3>1. pair \in Pair /\ pair.session \in Session /\ pair.node \in Node
      BY <1>t, <2>1 DEF Pair
    <3>2. /\ RowMoves(cred[pair.session][pair.node], cred'[pair.session][pair.node],
                      sess[pair.session], sess'[pair.session], clock)
          /\ Fits(pair, cred[pair.session][pair.node])
      BY <2>1, <3>1 DEF RowsMove, CredentialInv, HandedInv
    <3> QED
      BY <1>t, <3>1, <3>2, FitsStays
  <2> QED
    BY <2>1
<1> QED
  BY <1>1, <1>3, <1>4 DEF CredentialInv

-----------------------------------------------------------------------------
(* The steps.                                                              *)

\* A step that leaves the credentials alone, to a label that knows nothing.
LEMMA QuietStep ==
  ASSUME Inv, Inv', CredentialInv, Forward, UNCHANGED <<cred, handed>>,
         NEW w \in Worker, NEW label, NEW r, Continue(w, label, r),
         label \notin CredentialLabels \cup {"insert"},
         label = "reply" => r.kind # "config"
  PROVE  CredentialInv'
<1>1. RowsMove /\ NewRowsFit
  BY DEF RowsMove, RowMoves, NewRowsFit
<1>2. Knows(label, r, cred[r.session][r.node], sess[r.session], clock)'
  BY DEF Knows, CredentialLabels
<1> QED
  BY <1>1, <1>2, StepKeeps

\* The same, to a label that knows what holds in the state as it is.
LEMMA LookStep ==
  ASSUME Inv, Inv', CredentialInv, Forward, UNCHANGED <<world, sess, cred, handed>>,
         NEW w \in Worker, NEW label, NEW r, Continue(w, label, r),
         Knows(label, r, cred[r.session][r.node], sess[r.session], clock)
  PROVE  CredentialInv'
<1>1. RowsMove /\ NewRowsFit
  BY DEF RowsMove, RowMoves, NewRowsFit
<1>2. Knows(label, r, cred[r.session][r.node], sess[r.session], clock)'
  BY DEF world
<1> QED
  BY <1>1, <1>2, StepKeeps

\* A resolution lists no node that the source does not allow.
LEMMA ListedPermitted ==
  ASSUME NEW x \in Source, NEW n \in ResolveNodes(x)
  PROVE  Permitted(x, n)
BY SourceAssumption DEF ResolveNodes, Permitted, Leased, ResolveNodesForAccessLink, ListNodes

LEMMA CandidatesListed ==
  ASSUME NEW table, NEW listed, NEW preferred,
         NEW d \in DefaultCandidates(table, listed, preferred)
  PROVE  d \in listed
BY DEF DefaultCandidates

LEMMA QuietSteps ==
  ASSUME Inv, Inv', CredentialInv, Forward, NEW w \in Worker,
         \/ LoadSession(w) \/ CheckSource(w) \/ AskRemna(w) \/ AskCompatibility(w)
         \/ JudgeAnswer(w) \/ FindAccessLink(w) \/ ExtendSession(w)
         \/ RotateSessionToken(w) \/ Abort(w)
  PROVE  CredentialInv'
<1> DEFINE Quiet == {"idle", "check", "subscription", "compatibility", "judge", "link",
                     "extend", "rotate", "disown", "nodes"}
<1>1. UNCHANGED <<cred, handed>>
  BY DEF LoadSession, CheckSource, AskRemna, AskCompatibility, JudgeAnswer,
       FindAccessLink, ExtendSession, RotateSessionToken, Abort, database, clients
<1>2. ASSUME NEW label \in Quiet, NEW r, Continue(w, label, r)
      PROVE  CredentialInv'
  BY <1>1, <1>2, QuietStep DEF CredentialLabels
<1>3. Drop(w) => CredentialInv'
  BY <1>2 DEF Drop
<1>4. ASSUME NEW r, NEW end, Renew(w, r, end)
      PROVE  CredentialInv'
  BY <1>2, <1>3, <1>4 DEF Renew, AfterValidation
<1>5. RefuseSource(w) => CredentialInv'
  BY <1>2, <1>3 DEF RefuseSource
<1>6. RemnaAnswers(w) => CredentialInv'
  BY <1>2 DEF RemnaAnswers
<1>7. CASE LoadSession(w)
  BY <1>2, <1>3, <1>7 DEF LoadSession
<1>8. CASE CheckSource(w)
  BY <1>2, <1>3, <1>4, <1>8 DEF CheckSource
<1>9. CASE AskRemna(w) \/ AskCompatibility(w)
  BY <1>2, <1>5, <1>6, <1>9 DEF AskRemna, AskCompatibility
<1>10. CASE JudgeAnswer(w)
  BY <1>2, <1>4, <1>5, <1>10 DEF JudgeAnswer
<1>11. CASE FindAccessLink(w)
  BY <1>2, <1>3, <1>11 DEF FindAccessLink
<1>12. CASE ExtendSession(w) \/ RotateSessionToken(w)
  BY <1>2, <1>12 DEF ExtendSession, RotateSessionToken, AfterValidation
<1>13. CASE Abort(w)
  BY <1>3, <1>13 DEF Abort
<1> QED
  BY <1>7, <1>8, <1>9, <1>10, <1>11, <1>12, <1>13

\* The lists: a node is chosen among those the source allows.
LEMMA NodeSteps ==
  ASSUME Inv, Inv', CredentialInv, Forward, NEW w \in Worker,
         ListSessionNodes(w) \/ PickNode(w)
  PROVE  CredentialInv'
<1> DEFINE r == req[w]
<1>r. r \in Request /\ Shaped(pc[w], r) /\ r.source \in Source
  BY InvFacts DEF ListSessionNodes, PickNode, Shaped
<1>u. UNCHANGED <<world, sess, cred, handed>>
  BY DEF ListSessionNodes, PickNode, database, clients
<1>d. Drop(w) => CredentialInv'
  BY <1>u, QuietStep DEF Drop, CredentialLabels
<1>1. CASE ListSessionNodes(w)
  <2> DEFINE listed == ResolveNodes(r.source)
             cap == IF SourceType[r.source] = "remna_subscription"
                    THEN r.link.expires ELSE 0
             next == [session |-> "reply", refresh |-> "reply",
                      config |-> "pick", logout |-> "revoke"]
  <2>1. CASE r.kind # "exchange" /\ Continue(w, next[r.kind], r)
    <3>0. pc[w] = "nodes"
      BY <1>1 DEF ListSessionNodes
    <3>1. r.kind \in {"session", "refresh", "config", "logout"}
      BY <1>r, <2>1, <3>0 DEF Shaped, Kinds
    <3>2. PICK label : label = next[r.kind]
      OBVIOUS
    <3>3. label \in {"reply", "pick", "revoke"} /\ (label = "reply" => r.kind # "config")
      BY <3>1, <3>2
    <3>4. PICK c : c = r
      OBVIOUS
    <3> HIDE DEF next, r
    <3> QED
      BY <1>u, <2>1, <3>2, <3>3, <3>4, QuietStep DEF CredentialLabels
  <2>2. ASSUME NEW d \in DefaultCandidates(nodes, listed, PreferredNode(r.source)),
               Continue(w, "insert",
                        [r EXCEPT !.node = d, !.next = CappedExpiry(clock, cap)])
        PROVE  CredentialInv'
    <3>1. Permitted(r.source, d)
      BY <1>r, <2>2, CandidatesListed, ListedPermitted
    <3>2. PICK c : c = [r EXCEPT !.node = d, !.next = CappedExpiry(clock, cap)]
      OBVIOUS
    <3>3. c.source = r.source /\ c.node = d
      BY <1>r, <3>2 DEF Request
    <3>4. Knows("insert", c, cred[c.session][c.node], sess[c.session], clock)
      BY <3>1, <3>3 DEF Knows
    <3> QED
      BY <1>u, <2>2, <3>2, <3>4, LookStep
  <2> QED
    BY <1>1, <1>d, <2>1, <2>2 DEF ListSessionNodes
<1>2. CASE PickNode(w)
  <2> DEFINE target == IF r.node = NoNode THEN sess[r.session].selected ELSE r.node
  <2>1. CASE target \in ResolveNodes(r.source)
             /\ Continue(w, "credential", [r EXCEPT !.node = target])
    <3>1. Permitted(r.source, target)
      BY <1>r, <2>1, ListedPermitted
    <3>2. PICK c : c = [r EXCEPT !.node = target]
      OBVIOUS
    <3>3. c.source = r.source /\ c.node = target
      BY <1>r, <3>2 DEF Request
    <3>4. Knows("credential", c, cred[c.session][c.node], sess[c.session], clock)
      BY <3>1, <3>3 DEF Knows
    <3> QED
      BY <1>u, <2>1, <3>2, <3>4, LookStep
  <2> QED
    BY <1>2, <1>d, <2>1 DEF PickNode
<1> QED
  BY <1>1, <1>2

\* A revocation marks the credentials together with their session.
LEMMA RevokeStep ==
  ASSUME Inv, Inv', CredentialInv, Forward, NEW w \in Worker,
         DisownSession(w) \/ LogoutSession(w)
  PROVE  RowsMove /\ CredentialInv'
<1> DEFINE s == req[w].session
<1>1. /\ s \in Session /\ Revoked(s) /\ UNCHANGED handed
      /\ cred \in [Session -> [Node -> CredentialRow]]
      /\ sess \in [Session -> SessionRow]
  BY TypedFacts, InvFacts DEF Inv, DisownSession, LogoutSession, Shaped, clients
<1>2. /\ sess'[s].status = "revoked"
      /\ \A n \in Node : cred'[s][n] \in {cred[s][n], RevokedCredential(cred[s][n])}
      /\ \A v \in Session \ {s} : cred'[v] = cred[v]
  BY <1>1 DEF Revoked, SessionRow
<1>3. RowsMove
  BY <1>2 DEF RowsMove, RowMoves
<1>4. NewRowsFit
  <2>1. \A row : RevokedCredential(row).user = row.user
    BY DEF RevokedCredential
  <2>2. \A v \in Session, n \in Node : cred'[v][n].user = cred[v][n].user
    BY <1>2, <2>1
  <2> QED
    BY <2>2 DEF NewRowsFit
<1>5. PICK label \in {"idle", "reply"}, r \in {NoRequest, req[w]} :
        Continue(w, label, r) /\ (label = "reply" => r = req[w] /\ pc[w] = "revoke")
  BY DEF DisownSession, LogoutSession, Drop
<1>6. label = "reply" => r.kind # "config"
  BY <1>5, InvFacts DEF Shaped
<1>7. Knows(label, r, cred[r.session][r.node], sess[r.session], clock)'
  BY <1>5, <1>6 DEF Knows, CredentialLabels
<1> QED
  BY <1>1, <1>3, <1>4, <1>5, <1>7, StepKeeps

LEMMA CreateStep ==
  ASSUME Inv, Inv', CredentialInv, Forward, NEW w \in Worker, CreateSession(w)
  PROVE  CredentialInv'
<1> DEFINE r == req[w]
<1>1. pc[w] = "insert" /\ UNCHANGED <<cred, handed>> /\ r \in Request
  BY InvFacts DEF CreateSession, clients
<1>2. Permitted(r.source, r.node)
  BY <1>1 DEF CredentialInv, KnowledgeInv, Knows
<1>3. PICK c : c = [r EXCEPT !.token = 1, !.next = 0, !.link = NoRequest.link]
  OBVIOUS
<1>4. c.source = r.source /\ c.node = r.node
  BY <1>1, <1>3 DEF Request
<1>5. Knows("credential", c, cred[c.session][c.node], sess[c.session], clock)'
  BY <1>2, <1>4 DEF Knows
<1>6. Continue(w, "credential", c)
  BY <1>3 DEF CreateSession
<1>7. RowsMove /\ NewRowsFit
  BY <1>1 DEF RowsMove, RowMoves, NewRowsFit
<1> QED
  BY <1>1, <1>5, <1>6, <1>7, StepKeeps

\* What holds when a request stands at one of the labels of a credential.
LEMMA AtCredential ==
  ASSUME Inv, CredentialInv, NEW w \in Worker, pc[w] \in CredentialLabels
  PROVE  /\ req[w] \in Request /\ req[w].session \in Session /\ req[w].node \in Node
         /\ req[w].source = sess[req[w].session].source
         /\ sess[req[w].session].status # "none"
         /\ Permitted(req[w].source, req[w].node)
         /\ cred \in [Session -> [Node -> CredentialRow]]
         /\ cred[req[w].session][req[w].node] \in CredentialRow
         /\ clock \in Nat
         /\ Knows(pc[w], req[w], cred[req[w].session][req[w].node],
                  sess[req[w].session], clock)
         /\ RowFits(cred[req[w].session][req[w].node], sess[req[w].session], req[w].node)
<1>1. /\ req[w] \in Request /\ req[w].session \in Session /\ req[w].node \in Node
      /\ Bound(req[w]) /\ cred \in [Session -> [Node -> CredentialRow]] /\ clock \in Nat
  BY InvFacts, TypedFacts DEF Inv, Shaped, Sound, Creating, CredentialLabels
<1>2. /\ Knows(pc[w], req[w], cred[req[w].session][req[w].node],
               sess[req[w].session], clock)
      /\ RowFits(cred[req[w].session][req[w].node], sess[req[w].session], req[w].node)
  BY <1>1 DEF CredentialInv, KnowledgeInv, RowsInv
<1>3. Permitted(req[w].source, req[w].node)
  BY <1>2 DEF Knows
<1> QED
  BY <1>1, <1>2, <1>3 DEF Bound

LEMMA SelectStep ==
  ASSUME Inv, Inv', CredentialInv, Forward, NEW w \in Worker,
         SelectCredential(w) \/ ReadBackCredential(w)
  PROVE  CredentialInv'
<1> DEFINE r == req[w]
           row == cred[r.session][r.node]
<1>1. /\ r \in Request /\ row \in CredentialRow /\ clock \in Nat
      /\ Permitted(r.source, r.node)
      /\ RowFits(row, sess[r.session], r.node)
      /\ pc[w] = "readback" => row.user # 0
  BY AtCredential DEF SelectCredential, ReadBackCredential, Knows, CredentialLabels
<1>2. UNCHANGED <<world, sess, cred, handed>>
  BY DEF SelectCredential, ReadBackCredential, database, clients
<1>3. ASSUME row.user # 0,
             Continue(w, "reply", [r EXCEPT !.user = row.user, !.version = row.version])
      PROVE  CredentialInv'
  <2>1. PICK c : c = [r EXCEPT !.user = row.user, !.version = row.version]
    OBVIOUS
  <2>2. /\ c.session = r.session /\ c.node = r.node
        /\ c.user = row.user /\ c.version = row.version
    BY <1>1, <2>1 DEF Request
  <2>3. row.user \in Nat
    BY <1>1 DEF CredentialRow
  <2>4. Fits(c, cred[c.session][c.node])
    BY <1>3, <2>2, <2>3 DEF Fits
  <2>5. Knows("reply", c, cred[c.session][c.node], sess[c.session], clock)
    BY <2>4 DEF Knows, CredentialLabels
  <2> QED
    BY <1>2, <1>3, <2>1, <2>5, LookStep
<1>4. ASSUME NEW label \in {"create", "renew"},
             Continue(w, label, [r EXCEPT !.version = row.version + 1,
                                          !.next = clock + CredentialTTL]),
             label = "renew" => row.user # 0 /\ ~CredentialUsable(row, clock)
      PROVE  CredentialInv'
  <2>1. PICK c : c = [r EXCEPT !.version = row.version + 1,
                               !.next = clock + CredentialTTL]
    OBVIOUS
  <2>2. c.session = r.session /\ c.node = r.node /\ c.source = r.source
    BY <1>1, <2>1 DEF Request
  <2>3. label = "renew" => Over(row, sess[r.session], clock)
    BY <1>1, <1>4 DEF CredentialUsable, Over, RowFits, CredentialRow
  <2>4. Knows(label, c, cred[c.session][c.node], sess[c.session], clock)
    BY <1>1, <1>4, <2>2, <2>3 DEF Knows
  <2> QED
    BY <1>2, <1>4, <2>1, <2>4, LookStep
<1> HIDE DEF row, r
<1>5. CASE SelectCredential(w)
  BY <1>3, <1>4, <1>5 DEF SelectCredential, row, r
<1>6. CASE ReadBackCredential(w)
  BY <1>1, <1>3, <1>6 DEF ReadBackCredential, row, r
<1> QED
  BY <1>5, <1>6

LEMMA InsertStep ==
  ASSUME Inv, Inv', CredentialInv, Forward, NEW w \in Worker, CreateProxyCredential(w)
  PROVE  RowsMove /\ CredentialInv'
<1> DEFINE r == req[w]
           row == cred[r.session][r.node]
           new == [user |-> 1, version |-> r.version, expires |-> r.next, revoked |-> FALSE]
<1>1. /\ r \in Request /\ r.session \in Session /\ r.node \in Node
      /\ r.source = sess[r.session].source /\ sess[r.session].status # "none"
      /\ Permitted(r.source, r.node)
      /\ cred \in [Session -> [Node -> CredentialRow]]
  BY AtCredential DEF CreateProxyCredential, CredentialLabels
<1>2. UNCHANGED <<sess, handed>>
  BY DEF CreateProxyCredential, clients
<1>3. CASE row.user # 0
  <2>1. Drop(w) /\ UNCHANGED cred
    BY <1>3 DEF CreateProxyCredential
  <2>2. RowsMove
    BY <2>1 DEF RowsMove, RowMoves
  <2> QED
    BY <1>2, <2>1, <2>2, QuietStep DEF Drop, CredentialLabels
<1>4. CASE row.user = 0
  <2>0. IssuedCredential(row, r.version, r.next) = new /\ new.user = 1
    BY <1>4 DEF IssuedCredential
  <2>1. /\ cred' = [cred EXCEPT ![r.session][r.node] = new]
        /\ Continue(w, "reply", [r EXCEPT !.user = 1, !.next = 0])
    <3> HIDE DEF new
    <3> QED
      BY <1>4, <2>0 DEF CreateProxyCredential
  <2>2. cred'[r.session][r.node] = new
    BY <1>1, <2>1
  <2>3. \A s \in Session, n \in Node :
          (s = r.session /\ n = r.node) \/ cred'[s][n] = cred[s][n]
    BY <1>1, <2>1
  <2>4. RowsMove
    BY <1>4, <2>2, <2>3 DEF RowsMove, RowMoves
  <2>5. NewRowsFit
    BY <1>1, <1>2, <2>3 DEF NewRowsFit
  <2>6. PICK c : c = [r EXCEPT !.user = 1, !.next = 0]
    OBVIOUS
  <2>7. /\ c.session = r.session /\ c.node = r.node /\ c.user = 1
        /\ c.version = r.version
    BY <1>1, <2>6 DEF Request
  <2>8. Fits(c, cred'[c.session][c.node])
    BY <2>2, <2>7 DEF Fits
  <2>9. Knows("reply", c, cred[c.session][c.node], sess[c.session], clock)'
    BY <2>8 DEF Knows, CredentialLabels
  <2> QED
    BY <1>2, <2>1, <2>4, <2>5, <2>6, <2>9, StepKeeps
<1> QED
  BY <1>3, <1>4

LEMMA RotateStep ==
  ASSUME Inv, Inv', CredentialInv, Forward, NEW w \in Worker, RotateProxyCredential(w)
  PROVE  RowsMove /\ CredentialInv'
<1> DEFINE r == req[w]
           row == cred[r.session][r.node]
           new == IssuedCredential(row, r.version, r.next)
<1>1. /\ r \in Request /\ r.session \in Session /\ r.node \in Node
      /\ Permitted(r.source, r.node)
      /\ cred \in [Session -> [Node -> CredentialRow]] /\ row \in CredentialRow
      /\ row.user # 0 /\ Over(row, sess[r.session], clock)
  BY AtCredential DEF RotateProxyCredential, CredentialLabels, Knows
<1>2. /\ UNCHANGED <<sess, handed>>
      /\ cred' = [cred EXCEPT ![r.session][r.node] = new]
      /\ Continue(w, "readback", [r EXCEPT !.version = 0, !.next = 0])
  BY DEF RotateProxyCredential, clients
<1>3. /\ cred'[r.session][r.node] = new
      /\ \A s \in Session, n \in Node :
          (s = r.session /\ n = r.node) \/ cred'[s][n] = cred[s][n]
  BY <1>1, <1>2
<1>4. new.user = row.user + 1 /\ row.user \in Nat
  BY <1>1 DEF IssuedCredential, CredentialRow
<1>5. RowsMove
  BY <1>1, <1>3, <1>4 DEF RowsMove, RowMoves
<1>6. NewRowsFit
  BY <1>1, <1>3 DEF NewRowsFit
<1>7. PICK c : c = [r EXCEPT !.version = 0, !.next = 0]
  OBVIOUS
<1>8. c.session = r.session /\ c.node = r.node /\ c.source = r.source
  BY <1>1, <1>7 DEF Request
<1>9. cred'[c.session][c.node].user # 0
  BY <1>3, <1>4, <1>8
<1>10. Knows("readback", c, cred[c.session][c.node], sess[c.session], clock)'
  BY <1>1, <1>8, <1>9 DEF Knows
<1> QED
  BY <1>2, <1>5, <1>6, <1>7, <1>10, StepKeeps

\* The client is handed what the request holds.
LEMMA ReplyStep ==
  ASSUME Inv, Inv', CredentialInv, Forward, NEW w \in Worker, Reply(w)
  PROVE  CredentialInv'
<1> DEFINE r == req[w]
           pair == [session |-> r.session, node |-> r.node, user |-> r.user,
                    version |-> r.version]
<1>1. /\ pc[w] = "reply" /\ UNCHANGED <<sess, cred>> /\ Drop(w)
      /\ handed' = IF r.kind = "config" THEN handed \cup {pair} ELSE handed
  BY DEF Reply, database
<1>2. r.kind = "config" => Fits(r, cred[r.session][r.node])
  BY <1>1 DEF CredentialInv, KnowledgeInv, Knows
<1>3. r.kind = "config" => Fits(pair, cred[pair.session][pair.node])
  BY <1>2 DEF Fits
<1> HIDE DEF pair
<1>4. \A p \in handed' \ handed : Fits(p, cred'[p.session][p.node])
  BY <1>1, <1>3
<1>5. RowsMove /\ NewRowsFit
  BY <1>1 DEF RowsMove, RowMoves, NewRowsFit
<1>6. Knows("idle", NoRequest, cred[NoRequest.session][NoRequest.node],
            sess[NoRequest.session], clock)'
  BY DEF Knows, CredentialLabels
<1>7. Continue(w, "idle", NoRequest)
  BY <1>1 DEF Drop
<1> QED
  BY <1>4, <1>5, <1>6, <1>7, StepKeeps

LEMMA StartStep ==
  ASSUME Inv, Inv', CredentialInv, Forward, NEW w \in Worker,
         StartExchange(w) \/ StartWithToken(w) \/ StartRefresh(w)
  PROVE  CredentialInv'
<1>1. ASSUME NEW label \in {"load", "link", "subscription"}, NEW r, Begin(w, label, r)
      PROVE  CredentialInv'
  BY <1>1, QuietStep DEF Begin, database, CredentialLabels
<1> QED
  BY <1>1 DEF StartExchange, StartWithToken, StartRefresh

\* The clock, the operators and the registry touch no credential.
LEMMA SurroundingStep ==
  ASSUME Inv, Inv', CredentialInv, Forward, UNCHANGED <<sess, cred, pc, req, clients>>
  PROVE  CredentialInv'
<1>t. /\ cred \in [Session -> [Node -> CredentialRow]] /\ req \in [Worker -> Request]
      /\ clock \in Nat /\ clock' \in Nat /\ clock <= clock'
      /\ \A w \in Worker : Shaped(pc[w], req[w])
  BY TypedFacts DEF Inv, Forward
<1>1. RowsInv' /\ HandedInv'
  BY DEF CredentialInv, RowsInv, HandedInv, clients
<1>2. ASSUME NEW w \in Worker
      PROVE  Knows(pc[w], req[w], cred[req[w].session][req[w].node],
                   sess[req[w].session], clock')
  <2> DEFINE row == cred[req[w].session][req[w].node]
  <2>1. Knows(pc[w], req[w], row, sess[req[w].session], clock)
    BY DEF CredentialInv, KnowledgeInv
  <2>2. pc[w] = "renew" => row \in CredentialRow
    BY <1>t DEF Shaped, CredentialLabels
  <2> HIDE DEF row
  <2>3. pc[w] = "renew" => Over(row, sess[req[w].session], clock')
    BY <1>t, <2>1, <2>2 DEF Knows, Over, CredentialRow
  <2> QED
    BY <2>1, <2>3 DEF Knows, row
<1>3. KnowledgeInv'
  BY <1>2 DEF KnowledgeInv
<1> QED
  BY <1>1, <1>3 DEF CredentialInv

-----------------------------------------------------------------------------
(* The theorems.                                                           *)

LEMMA InitCredentials == Init => CredentialInv
<1> SUFFICES ASSUME Init PROVE CredentialInv
  OBVIOUS
<1>1. RowsInv
  BY DEF Init, RowsInv, RowFits, NoCredential
<1>2. KnowledgeInv
  BY DEF Init, KnowledgeInv, Knows, CredentialLabels
<1>3. HandedInv
  BY DEF Init, HandedInv
<1> QED
  BY <1>1, <1>2, <1>3 DEF CredentialInv

LEMMA NextCredentials == Inv /\ Inv' /\ CredentialInv /\ [Next]_vars => CredentialInv'
<1> SUFFICES ASSUME Inv, Inv', CredentialInv, [Next]_vars PROVE CredentialInv'
  OBVIOUS
<1>f. Forward
  BY NextForward
<1>1. CASE UNCHANGED vars
  BY <1>1, <1>f, SurroundingStep DEF vars, database
<1>2. ASSUME NEW w \in Worker,
             StartExchange(w) \/ StartWithToken(w) \/ StartRefresh(w)
      PROVE  CredentialInv'
  BY <1>2, <1>f, StartStep
<1>3. ASSUME NEW w \in Worker, Serve(w)
      PROVE  CredentialInv'
  BY <1>3, <1>f, QuietSteps, NodeSteps, RevokeStep, CreateStep, SelectStep, InsertStep,
     RotateStep, ReplyStep DEF Serve
<1>4. ASSUME NEW w \in Worker, Abort(w)
      PROVE  CredentialInv'
  BY <1>4, <1>f, QuietSteps
<1>5. CASE Tick \/ ChangeSource \/ WriteNodes
  BY <1>5, <1>f, SurroundingStep DEF Tick, ChangeSource, WriteNodes, database
<1> QED
  BY <1>1, <1>2, <1>3, <1>4, <1>5 DEF Next

LEMMA NextMoves == Inv /\ Inv' /\ CredentialInv /\ [Next]_vars => RowsMove
<1> SUFFICES ASSUME Inv, Inv', CredentialInv, [Next]_vars PROVE RowsMove
  OBVIOUS
<1>f. Forward
  BY NextForward
<1>k. UNCHANGED cred => RowsMove
  BY DEF RowsMove, RowMoves
<1>1. CASE UNCHANGED vars
  BY <1>1, <1>k DEF vars, database
<1>2. ASSUME NEW w \in Worker,
             StartExchange(w) \/ StartWithToken(w) \/ StartRefresh(w)
      PROVE  RowsMove
  BY <1>2, <1>k DEF StartExchange, StartWithToken, StartRefresh, Begin, database
<1>3. ASSUME NEW w \in Worker, Serve(w)
      PROVE  RowsMove
  <2>1. CASE \/ DisownSession(w) \/ LogoutSession(w) \/ CreateProxyCredential(w)
             \/ RotateProxyCredential(w)
    BY <1>f, <2>1, RevokeStep, InsertStep, RotateStep
  <2>2. CASE \/ LoadSession(w) \/ CheckSource(w) \/ AskRemna(w) \/ AskCompatibility(w)
             \/ JudgeAnswer(w) \/ FindAccessLink(w) \/ ListSessionNodes(w)
             \/ PickNode(w) \/ SelectCredential(w) \/ ReadBackCredential(w)
    BY <1>k, <2>2 DEF LoadSession, CheckSource, AskRemna, AskCompatibility,
         JudgeAnswer, FindAccessLink, ListSessionNodes, PickNode, SelectCredential,
         ReadBackCredential, database
  <2>3. CASE \/ ExtendSession(w) \/ RotateSessionToken(w) \/ CreateSession(w) \/ Reply(w)
    BY <1>k, <2>3 DEF ExtendSession, RotateSessionToken, CreateSession, Reply, database
  <2> QED
    BY <1>3, <2>1, <2>2, <2>3 DEF Serve
<1>4. ASSUME NEW w \in Worker, Abort(w)
      PROVE  RowsMove
  BY <1>4, <1>k DEF Abort, database
<1>5. CASE Tick \/ ChangeSource \/ WriteNodes
  BY <1>5, <1>k DEF Tick, ChangeSource, WriteNodes, database
<1> QED
  BY <1>1, <1>2, <1>3, <1>4, <1>5 DEF Next

LEMMA SpecCredentials == Spec => [](Inv /\ CredentialInv)
<1>1. Init => Inv /\ CredentialInv
  BY InitTypes, InitSound, InitCredentials DEF Inv
<1>2. Inv /\ CredentialInv /\ [Next]_vars => (Inv /\ CredentialInv)'
  BY NextTypes, NextSound, NextCredentials DEF Inv
<1> QED
  BY <1>1, <1>2, PTL DEF Spec

\* Whatever node a client asks for and whatever the registry writes between the
\* two resolutions of a request, a restricted link yields credentials for its
\* own nodes only.
THEOREM AllowListHolds == Spec => []CredentialsOnAllowedNodes
<1>1. Inv /\ CredentialInv => CredentialsOnAllowedNodes
  BY DEF CredentialInv, RowsInv, RowFits, Permitted, Leased, CredentialsOnAllowedNodes
<1> QED
  BY <1>1, SpecCredentials, PTL

\* Concurrent rotations may write one version twice, yet a client whose name is
\* still stored holds the password that goes with it.
THEOREM PairsMatch == Spec => []HandedPairsMatchStore
<1>1. Inv /\ CredentialInv => HandedPairsMatchStore
  BY DEF CredentialInv, HandedInv, Fits, HandedPairsMatchStore
<1> QED
  BY <1>1, SpecCredentials, PTL

\* The one race that may cut a credential short needs a rotation before it: the
\* first pair of every node lives to its end.
THEOREM FirstPairLasts == Spec => FirstCredentialRunsItsTerm
<1>1. Inv /\ Inv' /\ CredentialInv /\ [Next]_vars =>
        [\A s \in Session, n \in Node :
           cred[s][n].user = 1 /\ cred'[s][n].user # 1 => Ended(s, n)]_vars
  <2> SUFFICES ASSUME Inv, Inv', CredentialInv, [Next]_vars,
                      NEW s \in Session, NEW n \in Node,
                      cred[s][n].user = 1, cred'[s][n].user # 1
               PROVE  Ended(s, n)
    OBVIOUS
  <2>1. RowMoves(cred[s][n], cred'[s][n], sess[s], sess'[s], clock)
    BY NextMoves DEF RowsMove
  <2> QED
    BY <2>1 DEF RowMoves, RevokedCredential, Over, Ended
<1>2. Spec => [](Inv /\ CredentialInv)
  BY SpecCredentials
<1> QED
  BY <1>1, <1>2, PTL DEF FirstCredentialRunsItsTerm, Spec

-----------------------------------------------------------------------------
(* One request at a time.                                                  *)

\* Clients that wait for an answer before they send the next request of a session.
OneAtATime ==
  \A v, w \in Worker :
    v # w /\ req[v].session = req[w].session => req[v].session = NoSession

\* The labels a request reaches with a row that was not revoked.
Validating ==
  {"check", "subscription", "compatibility", "judge", "link", "extend", "rotate",
   "nodes", "pick", "insert", "credential", "create", "renew"}

\* What a request saw of the rows is still so.
Serves(label, session, row, now) ==
  /\ label \in Validating => session.status # "revoked"
  /\ label = "renew" => row.expires <= now

\* A credential is revoked with its session, and its session with it.
Alike(session, row) ==
  /\ row.revoked => session.status = "revoked"
  /\ session.status = "revoked" /\ row.user # 0 => row.revoked

SerialInv ==
  /\ \A s \in Session, n \in Node : Alike(sess[s], cred[s][n])
  /\ \A w \in Worker :
       Serves(pc[w], sess[req[w].session], cred[req[w].session][req[w].node], clock)

\* No step replaces the name of a credential that still runs.
TermKept == \A s \in Session, n \in Node :
  cred[s][n].user # 0 /\ cred'[s][n].user # cred[s][n].user => Ended(s, n)

\* A step of one request writes the rows of its own session only.
LEMMA SerialStep ==
  ASSUME Inv, OneAtATime, SerialInv, NEW w \in Worker, NEW label, NEW r,
         Continue(w, label, r), clock' = clock,
         \A s \in Session : s # req[w].session => sess'[s] = sess[s] /\ cred'[s] = cred[s],
         req[w].session \in Session =>
           \A n \in Node : Alike(sess'[req[w].session], cred'[req[w].session][n]),
         Serves(label, sess'[r.session], cred'[r.session][r.node], clock)
  PROVE  SerialInv'
<1>t. /\ pc \in [Worker -> Label] /\ req \in [Worker -> Request]
      /\ \A v \in Worker : Shaped(pc[v], req[v])
  BY TypedFacts DEF Inv
<1>1. /\ pc'[w] = label /\ req'[w] = r
      /\ \A v \in Worker \ {w} : pc'[v] = pc[v] /\ req'[v] = req[v]
  BY <1>t DEF Continue
<1>2. ASSUME NEW s \in Session, NEW n \in Node PROVE Alike(sess'[s], cred'[s][n])
  BY <1>2 DEF SerialInv
<1>3. ASSUME NEW v \in Worker \ {w}
      PROVE  Serves(pc[v], sess'[req[v].session], cred'[req[v].session][req[v].node], clock)
  <2>1. CASE pc[v] = "idle"
    BY <2>1 DEF Serves, Validating
  <2>2. CASE pc[v] # "idle"
    <3>1. req[v].session \in Session /\ req[v].session # req[w].session
      BY <1>t, <2>2, IdentityAssumption DEF Shaped, OneAtATime
    <3> QED
      BY <3>1 DEF SerialInv
  <2> QED
    BY <2>1, <2>2
<1> QED
  BY <1>1, <1>2, <1>3 DEF SerialInv

\* A step that only moves on.
LEMMA SerialMove ==
  ASSUME Inv, OneAtATime, SerialInv, NEW w \in Worker, NEW label, NEW r,
         Continue(w, label, r), UNCHANGED <<clock, sess, cred>>,
         \/ label \notin Validating
         \/ /\ pc[w] \in Validating /\ label # "renew"
            /\ r.session = req[w].session
  PROVE  SerialInv' /\ TermKept
<1>1. label = "renew" => label \in Validating
  BY DEF Validating
<1>2. Serves(label, sess[r.session], cred[r.session][r.node], clock)
  BY <1>1 DEF SerialInv, Serves
<1>3. \A s \in Session, n \in Node : Alike(sess[s], cred[s][n])
  BY DEF SerialInv
<1> QED
  BY <1>2, <1>3, SerialStep DEF TermKept

\* The requests that start, and all that comes before a credential.
LEMMA SerialStarts ==
  ASSUME Inv, OneAtATime, SerialInv, NEW w \in Worker,
         StartExchange(w) \/ StartWithToken(w) \/ StartRefresh(w)
  PROVE  SerialInv' /\ TermKept
<1>1. UNCHANGED <<clock, sess, cred>>
  BY DEF StartExchange, StartWithToken, StartRefresh, Begin, world, database
<1>2. CASE StartWithToken(w) \/ StartRefresh(w)
  <2>1. ASSUME NEW r, Begin(w, "load", r) PROVE SerialInv' /\ TermKept
    BY <1>1, <2>1, SerialMove DEF Begin, Validating
  <2> QED
    BY <1>2, <2>1 DEF StartWithToken, StartRefresh
<1>3. CASE StartExchange(w)
  <2>1. PICK s \in Session, x \in Source, label \in {"link", "subscription"} :
          /\ sess[s].status = "none"
          /\ Begin(w, label, [NoRequest EXCEPT !.kind = "exchange", !.session = s,
                                               !.source = x])
    BY <1>3 DEF StartExchange
  <2>2. PICK r : r = [NoRequest EXCEPT !.kind = "exchange", !.session = s, !.source = x]
    OBVIOUS
  <2>3. r.session = s
    BY <2>2 DEF NoRequest
  <2>4. Continue(w, label, r)
    BY <2>1, <2>2 DEF Begin
  <2>5. Serves(label, sess[r.session], cred[r.session][r.node], clock)
    BY <2>1, <2>3 DEF Serves
  <2>6. \A v \in Session, n \in Node : Alike(sess[v], cred[v][n])
    BY DEF SerialInv
  <2> QED
    BY <1>1, <2>4, <2>5, <2>6, SerialStep DEF TermKept
<1> QED
  BY <1>2, <1>3

LEMMA SerialReads ==
  ASSUME Inv, OneAtATime, SerialInv, NEW w \in Worker,
         \/ LoadSession(w) \/ CheckSource(w) \/ AskRemna(w) \/ AskCompatibility(w)
         \/ JudgeAnswer(w) \/ FindAccessLink(w) \/ ListSessionNodes(w) \/ PickNode(w)
         \/ ReadBackCredential(w) \/ Reply(w) \/ Abort(w)
  PROVE  SerialInv' /\ TermKept
<1> DEFINE r == req[w]
<1>r. r \in Request
  BY InvFacts
<1>1. UNCHANGED <<clock, sess, cred>>
  BY DEF LoadSession, CheckSource, AskRemna, AskCompatibility, JudgeAnswer,
       FindAccessLink, ListSessionNodes, PickNode, ReadBackCredential, Reply, Abort,
       world, database
<1>2. ASSUME NEW label, NEW c, Continue(w, label, c), pc[w] \in Validating,
             label # "renew", c.session = r.session
      PROVE  SerialInv' /\ TermKept
  BY <1>1, <1>2, SerialMove
<1>3. ASSUME NEW label \in {"idle", "disown", "revoke", "reply"}, NEW c,
             Continue(w, label, c)
      PROVE  SerialInv' /\ TermKept
  BY <1>1, <1>3, SerialMove DEF Validating
<1>4. Drop(w) => SerialInv' /\ TermKept
  BY <1>3 DEF Drop
<1>5. RefuseSource(w) => SerialInv' /\ TermKept
  BY <1>3, <1>4 DEF RefuseSource
<1>6. ASSUME NEW c \in Request, c.session = r.session, pc[w] \in Validating,
             NEW end, Renew(w, c, end)
      PROVE  SerialInv' /\ TermKept
  <2>1. ASSUME NEW next PROVE [c EXCEPT !.next = next].session = r.session
    BY <1>6 DEF Request
  <2>2. Validated(c, c.expires).session = r.session
    BY <1>6 DEF Validated, Request
  <2> QED
    BY <1>2, <1>4, <1>6, <2>1, <2>2 DEF Renew, AfterValidation
<1>7. CASE LoadSession(w)
  <2> DEFINE row == sess[r.session]
             c == [r EXCEPT !.source = row.source, !.expires = row.expires, !.token = 0,
                            !.link = IF SourceType[row.source] = "local_access_link"
                                     THEN source[row.source] ELSE @]
  <2>1. CASE row.status = "active" /\ Continue(w, "check", c)
    <3>1. c.session = r.session
      BY <1>r DEF Request
    <3>2. PICK d : d = c
      OBVIOUS
    <3>3. Serves("check", sess[d.session], cred[d.session][d.node], clock)
      BY <2>1, <3>1, <3>2 DEF Serves
    <3>4. \A v \in Session, n \in Node : Alike(sess[v], cred[v][n])
      BY DEF SerialInv
    <3> QED
      BY <1>1, <2>1, <3>2, <3>3, <3>4, SerialStep DEF TermKept
  <2> QED
    BY <1>4, <1>7, <2>1 DEF LoadSession
<1>8. CASE CheckSource(w)
  <2> DEFINE c == [r EXCEPT !.now = clock]
  <2>1. c \in Request /\ c.session = r.session /\ pc[w] \in Validating
    BY <1>r, <1>8, TypedFacts DEF Request, CheckSource, Validating, Inv
  <2> HIDE DEF c
  <2> QED
    BY <1>2, <1>4, <1>6, <1>8, <2>1 DEF CheckSource, c
<1>9. CASE AskRemna(w) \/ AskCompatibility(w)
  <2>1. pc[w] \in Validating
    BY <1>9 DEF AskRemna, AskCompatibility, Validating
  <2>2. ASSUME RemnaAnswers(w) PROVE SerialInv' /\ TermKept
    <3>1. [r EXCEPT !.link = source[r.source]].session = r.session
      BY <1>r DEF Request
    <3> QED
      BY <1>2, <2>1, <2>2, <3>1 DEF RemnaAnswers
  <2> QED
    BY <1>2, <1>5, <1>9, <2>1, <2>2 DEF AskRemna, AskCompatibility
<1>10. CASE JudgeAnswer(w)
  <2>1. pc[w] \in Validating
    BY <1>10 DEF JudgeAnswer, Validating
  <2> QED
    BY <1>r, <1>2, <1>5, <1>6, <1>10, <2>1 DEF JudgeAnswer
<1>11. CASE FindAccessLink(w)
  BY <1>2, <1>4, <1>11 DEF FindAccessLink, Validating
<1>12. CASE ListSessionNodes(w)
  <2>0. pc[w] \in Validating /\ pc[w] = "nodes"
    BY <1>12 DEF ListSessionNodes, Validating
  <2>1. ASSUME NEW d, NEW next,
               Continue(w, "insert", [r EXCEPT !.node = d, !.next = next])
        PROVE  SerialInv' /\ TermKept
    <3>1. [r EXCEPT !.node = d, !.next = next].session = r.session
      BY <1>r DEF Request
    <3> QED
      BY <1>2, <2>0, <2>1, <3>1
  <2>2. CASE /\ r.kind # "exchange"
             /\ Continue(w, [session |-> "reply", refresh |-> "reply", config |-> "pick",
                             logout |-> "revoke"][r.kind], r)
    <3>1. r.kind \in {"session", "refresh", "config", "logout"}
      BY <2>0, <2>2, InvFacts DEF Shaped, Kinds
    <3>2. PICK label \in {"reply", "pick", "revoke"} : Continue(w, label, r)
      BY <2>2, <3>1
    <3> QED
      BY <1>2, <2>0, <3>2
  <2> QED
    BY <1>4, <1>12, <2>1, <2>2 DEF ListSessionNodes
<1>13. CASE PickNode(w)
  <2>1. ASSUME NEW n PROVE [r EXCEPT !.node = n].session = r.session
    BY <1>r DEF Request
  <2> QED
    BY <1>2, <1>4, <1>13, <2>1 DEF PickNode, Validating
<1>14. CASE ReadBackCredential(w) \/ Reply(w) \/ Abort(w)
  BY <1>3, <1>4, <1>14 DEF ReadBackCredential, Reply, Abort
<1> QED
  BY <1>7, <1>8, <1>9, <1>10, <1>11, <1>12, <1>13, <1>14

\* A renewal or a refresh of a session that was not revoked, and its creation.
LEMMA SerialWrites ==
  ASSUME Inv, OneAtATime, SerialInv, NEW w \in Worker,
         ExtendSession(w) \/ RotateSessionToken(w) \/ CreateSession(w)
  PROVE  SerialInv' /\ TermKept
<1> DEFINE r == req[w]
<1>t. /\ r \in Request /\ r.session \in Session /\ sess \in [Session -> SessionRow]
      /\ UNCHANGED <<clock, cred>> /\ pc[w] \in Validating
  BY InvFacts, TypedFacts DEF Inv, Shaped, ExtendSession, RotateSessionToken, CreateSession,
     Validating, world
<1>1. sess[r.session].status # "revoked"
  BY <1>t DEF SerialInv, Serves
<1>2. PICK row : /\ sess' = [sess EXCEPT ![r.session] = row]
                 /\ row.status # "revoked"
  <2>1. CASE ExtendSession(w)
    <3> DEFINE row == [sess[r.session] EXCEPT !.expires = r.next]
    <3>1. sess' = [sess EXCEPT ![r.session] = row]
      BY <2>1 DEF ExtendSession
    <3>2. row.status = sess[r.session].status
      BY <1>t DEF SessionRow
    <3> QED
      BY <1>1, <3>1, <3>2
  <2>2. CASE RotateSessionToken(w)
    <3> DEFINE row == [sess[r.session] EXCEPT !.token = sess[r.session].token + 1,
                                             !.expires = r.expires]
    <3>1. sess' = [sess EXCEPT ![r.session] = row]
      BY <2>2 DEF RotateSessionToken
    <3>2. row.status = sess[r.session].status
      BY <1>t DEF SessionRow
    <3> QED
      BY <1>1, <3>1, <3>2
  <2>3. CASE CreateSession(w)
    <3> DEFINE row == [status |-> "active", source |-> r.source, token |-> 1,
                       expires |-> r.next, created |-> clock, selected |-> r.node]
    <3>1. sess' = [sess EXCEPT ![r.session] = row]
      BY <2>3 DEF CreateSession
    <3>2. row.status # "revoked"
      OBVIOUS
    <3> QED
      BY <3>1, <3>2
  <2> QED
    BY <2>1, <2>2, <2>3
<1>3. PICK label, c :
        /\ label \in {"rotate", "nodes", "credential"}
        /\ Continue(w, label, c) /\ c.session = r.session
  <2>1. ASSUME NEW expires, NEW d \in Request, d.session = r.session
        PROVE  Validated(d, expires).session = r.session
    BY <2>1 DEF Validated, Request
  <2>2. ASSUME NEW token PROVE [r EXCEPT !.token = token, !.expires = 0].session = r.session
    BY <1>t DEF Request
  <2>3. [r EXCEPT !.token = 1, !.next = 0, !.link = NoRequest.link].session = r.session
    BY <1>t DEF Request
  <2> QED
    <3>1. CASE ExtendSession(w)
      BY <1>t, <2>1, <3>1 DEF ExtendSession, AfterValidation
    <3>2. CASE RotateSessionToken(w)
      <4> DEFINE token == sess[r.session].token + 1
                 c == [r EXCEPT !.token = token, !.expires = 0]
      <4>1. Continue(w, "nodes", c)
        BY <3>2 DEF RotateSessionToken
      <4>2. c.session = r.session
        BY <2>2
      <4> HIDE DEF c
      <4> QED
        BY <4>1, <4>2
    <3>3. CASE CreateSession(w)
      <4> DEFINE c == [r EXCEPT !.token = 1, !.next = 0, !.link = NoRequest.link]
      <4>1. Continue(w, "credential", c)
        BY <3>3 DEF CreateSession
      <4>2. c.session = r.session
        BY <2>3
      <4> HIDE DEF c
      <4> QED
        BY <4>1, <4>2
    <3> QED
      BY <3>1, <3>2, <3>3
<1>4. /\ sess'[r.session] = row
      /\ \A s \in Session : s # r.session => sess'[s] = sess[s] /\ cred'[s] = cred[s]
  BY <1>t, <1>2
<1>5. ASSUME NEW n \in Node PROVE Alike(sess'[r.session], cred'[r.session][n])
  BY <1>t, <1>1, <1>2, <1>4 DEF SerialInv, Alike
<1>6. Serves(label, sess'[c.session], cred'[c.session][c.node], clock)
  BY <1>2, <1>3, <1>4 DEF Serves
<1> QED
  BY <1>t, <1>3, <1>4, <1>5, <1>6, SerialStep DEF TermKept

LEMMA SerialRevokes ==
  ASSUME Inv, OneAtATime, SerialInv, NEW w \in Worker,
         DisownSession(w) \/ LogoutSession(w)
  PROVE  SerialInv' /\ TermKept
<1> DEFINE s == req[w].session
<1>t. /\ s \in Session /\ Revoked(s) /\ UNCHANGED clock
      /\ sess \in [Session -> SessionRow] /\ cred \in [Session -> [Node -> CredentialRow]]
  BY InvFacts, TypedFacts DEF Inv, Shaped, DisownSession, LogoutSession, world
<1>1. PICK label \in {"idle", "reply"}, r \in {NoRequest, req[w]} : Continue(w, label, r)
  BY DEF DisownSession, LogoutSession, Drop
<1>2. /\ sess'[s].status = "revoked"
      /\ \A n \in Node :
           cred'[s][n] = IF cred[s][n].user = 0 THEN cred[s][n]
                         ELSE RevokedCredential(cred[s][n])
      /\ \A v \in Session : v # s => sess'[v] = sess[v] /\ cred'[v] = cred[v]
  BY <1>t DEF Revoked, SessionRow
<1>3. ASSUME NEW n \in Node
      PROVE  Alike(sess'[s], cred'[s][n]) /\ cred'[s][n].user = cred[s][n].user
  <2>1. \A row : /\ RevokedCredential(row).revoked
                 /\ RevokedCredential(row).user = row.user
    BY DEF RevokedCredential
  <2> QED
    BY <1>2, <2>1 DEF Alike
<1>4. TermKept
  <2>1. ASSUME NEW v \in Session, NEW n \in Node PROVE cred'[v][n].user = cred[v][n].user
    BY <1>2, <1>3
  <2> QED
    BY <2>1 DEF TermKept
<1>5. Serves(label, sess'[r.session], cred'[r.session][r.node], clock)
  BY DEF Serves, Validating
<1> QED
  BY <1>t, <1>1, <1>2, <1>3, <1>4, <1>5, SerialStep

\* The SELECT that finds no usable credential finds an expired one or none.
LEMMA SerialSelect ==
  ASSUME Inv, CredentialInv, OneAtATime, SerialInv, NEW w \in Worker, SelectCredential(w)
  PROVE  SerialInv' /\ TermKept
<1> DEFINE r == req[w]
           row == cred[r.session][r.node]
<1>1. /\ r \in Request /\ r.session \in Session /\ r.node \in Node
      /\ row \in CredentialRow /\ clock \in Nat
      /\ UNCHANGED <<clock, sess, cred>> /\ pc[w] = "credential"
  BY AtCredential DEF SelectCredential, CredentialLabels, world, database
<1>2. /\ sess[r.session].status # "revoked" /\ ~row.revoked
      /\ \A n \in Node : Alike(sess[r.session], cred[r.session][n])
  BY <1>1 DEF SerialInv, Serves, Validating, Alike
<1>3. CASE Continue(w, "reply", [r EXCEPT !.user = row.user, !.version = row.version])
  BY <1>1, <1>3, SerialMove DEF Validating
<1>4. ASSUME NEW label \in {"create", "renew"}, NEW c,
             c = [r EXCEPT !.version = row.version + 1, !.next = clock + CredentialTTL],
             Continue(w, label, c), label = "renew" => ~CredentialUsable(row, clock)
      PROVE  SerialInv' /\ TermKept
  <2>1. c.session = r.session /\ c.node = r.node
    BY <1>1, <1>4 DEF Request
  <2>2. label = "renew" => row.expires <= clock
    BY <1>1, <1>2, <1>4 DEF CredentialUsable, CredentialRow
  <2>3. Serves(label, sess[c.session], cred[c.session][c.node], clock)
    BY <1>2, <2>1, <2>2 DEF Serves
  <2> QED
    BY <1>1, <1>2, <1>4, <2>3, SerialStep DEF TermKept
<1> QED
  BY <1>3, <1>4 DEF SelectCredential

\* The statements that write a credential.
LEMMA SerialCredential ==
  ASSUME Inv, CredentialInv, OneAtATime, SerialInv, NEW w \in Worker,
         CreateProxyCredential(w) \/ RotateProxyCredential(w)
  PROVE  SerialInv' /\ TermKept
<1> DEFINE r == req[w]
           row == cred[r.session][r.node]
<1>1. /\ r \in Request /\ r.session \in Session /\ r.node \in Node
      /\ cred \in [Session -> [Node -> CredentialRow]] /\ UNCHANGED <<clock, sess>>
      /\ pc[w] \in {"create", "renew"}
  BY AtCredential DEF CreateProxyCredential, RotateProxyCredential, CredentialLabels, world
<1>2. /\ sess[r.session].status # "revoked"
      /\ pc[w] = "renew" => row.expires <= clock
      /\ \A n \in Node : Alike(sess[r.session], cred[r.session][n])
  BY <1>1 DEF SerialInv, Serves, Validating
<1>3. CASE UNCHANGED cred /\ Drop(w)
  BY <1>1, <1>3, SerialMove DEF Drop, Validating
<1>4. ASSUME NEW new, ~new.revoked, cred' = [cred EXCEPT ![r.session][r.node] = new],
             row.user # 0 => row.expires <= clock,
             NEW label \in {"reply", "readback"}, NEW c, Continue(w, label, c)
      PROVE  SerialInv' /\ TermKept
  <2>1. /\ cred'[r.session][r.node] = new
        /\ \A s \in Session, n \in Node :
             (s = r.session /\ n = r.node) \/ cred'[s][n] = cred[s][n]
        /\ \A s \in Session : s # r.session => cred'[s] = cred[s]
    BY <1>1, <1>4
  <2>2. \A n \in Node : Alike(sess'[r.session], cred'[r.session][n])
    BY <1>1, <1>2, <1>4, <2>1 DEF Alike
  <2>3. TermKept
    BY <1>1, <1>4, <2>1 DEF TermKept, Ended
  <2>4. Serves(label, sess'[c.session], cred'[c.session][c.node], clock)
    BY DEF Serves, Validating
  <2> QED
    BY <1>1, <1>4, <2>1, <2>2, <2>3, <2>4, SerialStep
<1>5. CASE CreateProxyCredential(w)
  <2> DEFINE new == [user |-> 1, version |-> r.version, expires |-> r.next,
                     revoked |-> FALSE]
  <2>1. CASE row.user = 0
    <3>0. IssuedCredential(row, r.version, r.next) = new /\ new.user = 1
      BY <2>1 DEF IssuedCredential
    <3>1. /\ cred' = [cred EXCEPT ![r.session][r.node] = new]
          /\ Continue(w, "reply", [r EXCEPT !.user = 1, !.next = 0])
      <4> HIDE DEF new
      <4> QED
        BY <1>5, <2>1, <3>0 DEF CreateProxyCredential
    <3>2. ~new.revoked
      OBVIOUS
    <3> HIDE DEF new
    <3> QED
      BY <1>4, <2>1, <3>1, <3>2
  <2>2. CASE row.user # 0
    BY <1>3, <1>5, <2>2 DEF CreateProxyCredential
  <2> QED
    BY <2>1, <2>2
<1>6. CASE RotateProxyCredential(w)
  <2> DEFINE new == IssuedCredential(row, r.version, r.next)
  <2>1. /\ cred' = [cred EXCEPT ![r.session][r.node] = new] /\ pc[w] = "renew"
        /\ Continue(w, "readback", [r EXCEPT !.version = 0, !.next = 0])
    BY <1>6 DEF RotateProxyCredential
  <2>2. ~new.revoked
    BY DEF IssuedCredential
  <2> HIDE DEF new
  <2> QED
    BY <1>2, <1>4, <2>1, <2>2
<1> QED
  BY <1>5, <1>6

\* The clock, the operators and the registry.
LEMMA SerialSurroundings ==
  ASSUME Inv, Inv', CredentialInv, SerialInv, UNCHANGED <<sess, cred, pc, req>>, Forward
  PROVE  SerialInv' /\ TermKept
<1>t. /\ cred \in [Session -> [Node -> CredentialRow]]
      /\ clock \in Nat /\ clock' \in Nat /\ clock <= clock'
      /\ \A w \in Worker : Shaped(pc[w], req[w])
  BY TypedFacts DEF Inv, Forward
<1>1. ASSUME NEW w \in Worker
      PROVE  Serves(pc[w], sess[req[w].session], cred[req[w].session][req[w].node], clock')
  <2>1. Serves(pc[w], sess[req[w].session], cred[req[w].session][req[w].node], clock)
    BY DEF SerialInv
  <2>2. pc[w] = "renew" => cred[req[w].session][req[w].node].expires \in Nat
    BY <1>t DEF Shaped, CredentialLabels, CredentialRow
  <2> QED
    BY <1>t, <2>1, <2>2 DEF Serves
<1>2. TermKept
  BY DEF TermKept
<1> QED
  BY <1>1, <1>2 DEF SerialInv

LEMMA NextSerial ==
  Inv /\ Inv' /\ CredentialInv /\ OneAtATime /\ SerialInv /\ [Next]_vars =>
    SerialInv' /\ TermKept
<1> SUFFICES ASSUME Inv, Inv', CredentialInv, OneAtATime, SerialInv, [Next]_vars
             PROVE  SerialInv' /\ TermKept
  OBVIOUS
<1>f. Forward
  BY NextForward
<1>1. CASE UNCHANGED vars
  BY <1>1, <1>f, SerialSurroundings DEF vars, database
<1>2. ASSUME NEW w \in Worker,
             StartExchange(w) \/ StartWithToken(w) \/ StartRefresh(w)
      PROVE  SerialInv' /\ TermKept
  BY <1>2, SerialStarts
<1>3. ASSUME NEW w \in Worker, Serve(w) \/ Abort(w)
      PROVE  SerialInv' /\ TermKept
  BY <1>3, SerialReads, SerialWrites, SerialRevokes, SerialSelect, SerialCredential DEF Serve
<1>4. CASE Tick \/ ChangeSource \/ WriteNodes
  BY <1>4, <1>f, SerialSurroundings DEF Tick, ChangeSource, WriteNodes, database
<1> QED
  BY <1>1, <1>2, <1>3, <1>4 DEF Next

LEMMA SpecSerial == Spec /\ []OneAtATime => [](Inv /\ CredentialInv /\ SerialInv)
<1>1. Init => SerialInv
  BY DEF Init, SerialInv, Serves, Validating, Alike, NoSessionRow, NoCredential
<1>2. Spec => [](Inv /\ CredentialInv)
  BY SpecCredentials
<1> QED
  BY <1>1, <1>2, NextSerial, PTL DEF Spec

\* README.md's "revokes the session plus proxy credentials" is true of a client
\* that waits for every answer: it takes two requests of one session to leave a
\* credential without its mark, however many there are of others.
THEOREM SerialLogoutRevokes == Spec /\ []OneAtATime => []LogoutRevokesCredentials
<1>1. Inv /\ SerialInv => LogoutRevokesCredentials
  <2> SUFFICES ASSUME Inv, SerialInv, NEW s \in loggedOut, NEW n \in Node,
                      cred[s][n].user # 0
               PROVE  cred[s][n].revoked
    BY DEF LogoutRevokesCredentials
  <2>1. s \in Session /\ sess[s].status = "revoked"
    BY TypedFacts DEF Inv, LeaseInv, ClientInv
  <2> QED
    BY <2>1 DEF SerialInv, Alike
<1> QED
  BY <1>1, SpecSerial, PTL

\* So is that a credential runs for its TTL: only requests of the same session
\* that overlap replace a name before its time.
THEOREM SerialTermRuns == Spec /\ []OneAtATime => CredentialRunsItsTerm
<1>1. Inv /\ Inv' /\ CredentialInv /\ OneAtATime /\ SerialInv /\ [Next]_vars =>
        [\A s \in Session, n \in Node :
           cred[s][n].user # 0 /\ cred'[s][n].user # cred[s][n].user =>
             Ended(s, n)]_vars
  BY NextSerial DEF TermKept
<1> QED
  BY <1>1, SpecSerial, PTL DEF CredentialRunsItsTerm, Spec
=============================================================================
