--------------------- MODULE BrowserSessionsRefinement ---------------------
(***************************************************************************)
(* The handlers implement LeasedAccess: every statement they issue maps to *)
(* one step of the lease or leaves it as it is.                            *)
(***************************************************************************)
EXTENDS BrowserSessionsExposure

LEMMA InitLease == Init => Lease!Init
<1> SUFFICES ASSUME Init PROVE Lease!Init
  OBVIOUS
<1>1. lastGood \in [Source -> 0 .. clock]
  BY DEF Init
<1> QED
  BY <1>1 DEF Init, Lease!Init, NoSessionRow

\* Steps that leave the sessions and the history alone are no lease step.
LEMMA LeaseStutters ==
  ASSUME UNCHANGED <<clock, lastGood, sess>>
  PROVE  UNCHANGED Lease!vars
BY DEF Lease!vars

LEMMA TimePasses ==
  ASSUME Inv, Tick \/ ChangeSource
  PROVE  Lease!Pass
<1>1. /\ clock \in Nat /\ clock' \in {clock, clock + 1} /\ clock' \in Nat
      /\ UNCHANGED sess
  BY TypedFacts DEF Inv, Tick, ChangeSource, database
<1>2. PICK state \in {source, source'} : lastGood' = Seen(state, clock')
  BY DEF Tick, ChangeSource
<1>3. lastGood' \in [Source -> Nat]
  BY <1>1, <1>2, TypedFacts DEF Inv, Seen
<1>4. \A x \in Source : lastGood'[x] \in {lastGood[x], clock'}
  BY <1>2 DEF Seen
<1> QED
  BY <1>1, <1>3, <1>4 DEF Lease!Pass

\* A row rewritten with another expiry that its source has granted.
LEMMA RewriteRenews ==
  ASSUME Inv, NEW s \in Session, NEW row \in SessionRow,
         sess[s].status # "none", sess' = [sess EXCEPT ![s] = row],
         row.status = sess[s].status, row.source = sess[s].source,
         row.created = sess[s].created, Granted(s, row.expires),
         UNCHANGED <<clock, lastGood>>
  PROVE  \E v \in Session : Lease!Renew(v)
<1> DEFINE before == [v \in Session |-> sess[v].expires]
           after  == [v \in Session |-> sess'[v].expires]
<1>1. /\ sess'[s] = row /\ sess' \in [Session -> SessionRow]
      /\ \A v \in Session \ {s} : sess'[v] = sess[v]
  BY TypedFacts DEF Inv
<1>2. after \in [Session -> Nat]
  BY <1>1 DEF SessionRow
<1>3. after = [before EXCEPT ![s] = after[s]]
  BY <1>1
<1>4. /\ [v \in Session |-> sess'[v].status] = [v \in Session |-> sess[v].status]
      /\ [v \in Session |-> sess'[v].source] = [v \in Session |-> sess[v].source]
      /\ [v \in Session |-> sess'[v].created] = [v \in Session |-> sess[v].created]
  BY <1>1
<1>5. after[s] = row.expires
  BY <1>1
<1>6. sess[s].source \in {x \in Source : SourceType[x] = "remna_subscription"} =>
        \/ after[s] <= lastGood[sess[s].source] + SessionTTL
        \/ after[s] <= sess[s].created + SessionTTL
  BY <1>5 DEF Granted, Leased
<1> QED
  BY <1>2, <1>3, <1>4, <1>6 DEF Lease!Renew

LEMMA ExtendRenews ==
  ASSUME Inv, NEW w \in Worker, ExtendSession(w) \/ RotateSessionToken(w)
  PROVE  \E v \in Session : Lease!Renew(v)
<1> DEFINE r == req[w]
           s == r.session
<1>1. /\ r \in Request /\ s \in Session /\ r.next \in Nat /\ r.expires \in Nat
      /\ Bound(r) /\ sess[s].status # "none"
      /\ sess[s] \in SessionRow
  BY InvFacts, TypedFacts DEF Inv, ExtendSession, RotateSessionToken, Shaped, Sound, Creating,
       Request, Bound
<1>2. CASE ExtendSession(w)
  <2> DEFINE row == [sess[s] EXCEPT !.expires = r.next]
  <2>1. row \in SessionRow /\ row.expires = r.next /\ row.status = sess[s].status
        /\ row.source = sess[s].source /\ row.created = sess[s].created
    BY <1>1 DEF SessionRow
  <2>2. Granted(s, r.next)
    BY <1>2, InvFacts DEF ExtendSession, Sound
  <2>3. sess' = [sess EXCEPT ![s] = row] /\ UNCHANGED <<clock, lastGood>>
    BY <1>2 DEF ExtendSession, world
  <2> HIDE DEF row
  <2> QED
    BY <1>1, <2>1, <2>2, <2>3, RewriteRenews
<1>3. CASE RotateSessionToken(w)
  <2> DEFINE token == sess[s].token + 1
             row == [sess[s] EXCEPT !.token = token, !.expires = r.expires]
  <2>1. token \in Nat
    BY <1>1 DEF SessionRow
  <2>2. row \in SessionRow /\ row.expires = r.expires /\ row.status = sess[s].status
        /\ row.source = sess[s].source /\ row.created = sess[s].created
    BY <1>1, <2>1 DEF SessionRow
  <2>3. Granted(s, r.expires)
    BY <1>3, InvFacts DEF RotateSessionToken, Sound, Shaped
  <2>4. sess' = [sess EXCEPT ![s] = row] /\ UNCHANGED <<clock, lastGood>>
    BY <1>3 DEF RotateSessionToken, world
  <2> HIDE DEF row
  <2> QED
    BY <1>1, <2>2, <2>3, <2>4, RewriteRenews
<1> QED
  BY <1>2, <1>3

LEMMA RevokeCloses ==
  ASSUME Inv, NEW w \in Worker, DisownSession(w) \/ LogoutSession(w)
  PROVE  \E v \in Session : Lease!Close(v)
<1> DEFINE s == req[w].session
           row == [sess[s] EXCEPT !.status = "revoked"]
<1>1. s \in Session /\ sess[s].status # "none"
  BY InvFacts DEF DisownSession, LogoutSession, Shaped, Sound, Creating, Bound
<1>2. sess \in [Session -> SessionRow] /\ sess[s] \in SessionRow
  BY <1>1, TypedFacts DEF Inv
<1>3. row.status = "revoked" /\ row.source = sess[s].source
      /\ row.created = sess[s].created /\ row.expires = sess[s].expires
  BY <1>2 DEF SessionRow
<1>4. sess' = [sess EXCEPT ![s] = row] /\ UNCHANGED <<clock, lastGood>>
  BY DEF DisownSession, LogoutSession, Revoked, world
<1>5. sess'[s] = row /\ \A v \in Session \ {s} : sess'[v] = sess[v]
  BY <1>1, <1>2, <1>4
<1> HIDE DEF row
<1>6. /\ [v \in Session |-> sess'[v].status]
           = [[v \in Session |-> sess[v].status] EXCEPT ![s] = "revoked"]
      /\ [v \in Session |-> sess'[v].source] = [v \in Session |-> sess[v].source]
      /\ [v \in Session |-> sess'[v].created] = [v \in Session |-> sess[v].created]
      /\ [v \in Session |-> sess'[v].expires] = [v \in Session |-> sess[v].expires]
  BY <1>3, <1>5
<1> QED
  BY <1>1, <1>4, <1>6 DEF Lease!Close

LEMMA CreateOpens ==
  ASSUME Inv, NEW w \in Worker, CreateSession(w)
  PROVE  \E v \in Session : Lease!Open(v)
<1> DEFINE r == req[w]
           s == r.session
           row == [status |-> "active", source |-> r.source, token |-> 1,
                   expires |-> r.next, created |-> clock, selected |-> r.node]
           after == [v \in Session |-> sess'[v].expires]
<1>1. /\ r \in Request /\ s \in Session /\ r.source \in Source /\ r.next \in Nat
      /\ sess[s].status = "none" /\ lastGood[r.source] > 0
      /\ r.next <= clock + SessionTTL
  BY InvFacts DEF CreateSession, Shaped, Sound, Creating, Request
<1>2. sess \in [Session -> SessionRow]
  BY TypedFacts DEF Inv
<1>3. sess' = [sess EXCEPT ![s] = row] /\ UNCHANGED <<clock, lastGood>>
  BY DEF CreateSession, world
<1>4. sess'[s] = row /\ \A v \in Session \ {s} : sess'[v] = sess[v]
  BY <1>1, <1>2, <1>3
<1>5. /\ row.status = "active" /\ row.source = r.source /\ row.created = clock
      /\ row.expires = r.next
  OBVIOUS
<1> HIDE DEF row
<1>6. /\ [v \in Session |-> sess'[v].status]
           = [[v \in Session |-> sess[v].status] EXCEPT ![s] = "active"]
      /\ [v \in Session |-> sess'[v].source]
           = [[v \in Session |-> sess[v].source] EXCEPT ![s] = r.source]
      /\ [v \in Session |-> sess'[v].created]
           = [[v \in Session |-> sess[v].created] EXCEPT ![s] = clock]
      /\ after = [[v \in Session |-> sess[v].expires] EXCEPT ![s] = after[s]]
  BY <1>4, <1>5
<1>7. after \in [Session -> Nat] /\ after[s] = r.next
  BY <1>1, <1>2, <1>4, <1>5 DEF SessionRow
<1> QED
  BY <1>1, <1>3, <1>6, <1>7 DEF Lease!Open

LEMMA NextLease == Inv /\ [Next]_vars => [Lease!Next]_(Lease!vars)
<1> SUFFICES ASSUME Inv, [Next]_vars PROVE Lease!Next \/ UNCHANGED Lease!vars
  OBVIOUS
<1>1. CASE UNCHANGED vars
  BY <1>1, LeaseStutters DEF vars, world, database
<1>2. CASE WriteNodes
  BY <1>2, LeaseStutters DEF WriteNodes, world
<1>3. CASE Tick \/ ChangeSource
  BY <1>3, TimePasses DEF Lease!Next
<1>4. ASSUME NEW w \in Worker,
             StartExchange(w) \/ StartWithToken(w) \/ StartRefresh(w)
      PROVE  UNCHANGED Lease!vars
  BY <1>4, LeaseStutters DEF StartExchange, StartWithToken, StartRefresh, Begin, world,
       database
<1>5. ASSUME NEW w \in Worker,
             \/ LoadSession(w) \/ CheckSource(w) \/ AskRemna(w)
             \/ AskCompatibility(w) \/ JudgeAnswer(w) \/ FindAccessLink(w) \/ ListSessionNodes(w)
             \/ PickNode(w) \/ SelectCredential(w) \/ ReadBackCredential(w)
             \/ CreateProxyCredential(w) \/ RotateProxyCredential(w) \/ Reply(w)
             \/ Abort(w)
      PROVE  UNCHANGED Lease!vars
  <2>1. UNCHANGED <<clock, lastGood, sess>>
    BY <1>5 DEF LoadSession, CheckSource, AskRemna, AskCompatibility, JudgeAnswer,
         FindAccessLink, ListSessionNodes, PickNode, SelectCredential, ReadBackCredential,
         CreateProxyCredential, RotateProxyCredential, Reply, Abort, world, database
  <2> QED
    BY <2>1, LeaseStutters
<1>6. ASSUME NEW w \in Worker,
             \/ ExtendSession(w) \/ RotateSessionToken(w)
             \/ DisownSession(w) \/ LogoutSession(w) \/ CreateSession(w)
      PROVE  Lease!Next
  BY <1>6, ExtendRenews, RevokeCloses, CreateOpens DEF Lease!Next
<1> QED
  BY <1>1, <1>2, <1>3, <1>4, <1>5, <1>6 DEF Next, Serve

\* The handlers, statement by statement, keep the promise of LeasedAccess: a
\* session is opened once, closed for good, and no write of any of them carries
\* a lease further than its source has granted.
THEOREM LeaseImplemented == Spec => ImplementsLeasedAccess
  BY InitLease, NextLease, SpecInv, PTL DEF Spec, ImplementsLeasedAccess, Lease!Spec
=============================================================================
