----------------------- MODULE BrowserSessionsProofs -----------------------
(***************************************************************************)
(* Theorems about BrowserSessions for every set of workers, sessions,      *)
(* sources and nodes, every duration and every bound: the types, and that  *)
(* a request in flight only advances.                                      *)
(***************************************************************************)
EXTENDS BrowserSessionsInvariant, TLAPS

\* The types, and that a session that may be loaded has a source.
Typed ==
  /\ TypeOK
  /\ \A s \in Session : sess[s].status = "active" => sess[s].source \in Source

USE DEF Kinds

LEMMA NoRequestType == NoRequest \in Request /\ Shaped("idle", NoRequest)
BY DEF NoRequest, Request, Shaped, SourceRecord, CredentialLabels

\* The requests in flight after a step have their types.
ReqTyped ==
  /\ pc' \in [Worker -> Label]
  /\ req' \in [Worker -> Request]
  /\ \A v \in Worker : Shaped(pc'[v], req'[v])

LEMMA ContinueType ==
  ASSUME Typed, NEW w \in Worker, NEW label \in Label, NEW r \in Request,
         Shaped(label, r), Continue(w, label, r)
  PROVE  ReqTyped
BY DEF ReqTyped, Typed, TypeOK, Continue

LEMMA DropType ==
  ASSUME Typed, NEW w \in Worker, Drop(w)
  PROVE  ReqTyped
<1>1. "idle" \in Label
  BY DEF Label
<1> QED
  BY <1>1, NoRequestType, ContinueType DEF Drop

\* A step that only moves a request on keeps the rest of the types.
LEMMA OnlyRequests ==
  ASSUME Typed, UNCHANGED <<world, database, clients>>, ReqTyped
  PROVE  Typed'
BY DEF ReqTyped, Typed, TypeOK, world, database, clients, Shaped

LEMMA StartTypes ==
  ASSUME Typed, NEW w \in Worker,
         StartExchange(w) \/ StartWithToken(w) \/ StartRefresh(w)
  PROVE  Typed'
<1>1. ASSUME NEW label \in {"load", "link", "subscription"}, NEW r \in Request,
             r.session \in Session, r.kind \in Kinds,
             label # "load" => r.source \in Source, Begin(w, label, r)
      PROVE  Typed'
  <2>1. Shaped(label, r) /\ label \in Label
    BY <1>1 DEF Shaped, Label, CredentialLabels
  <2>2. Continue(w, label, r)
    BY <1>1 DEF Begin
  <2>3. ReqTyped
    BY <2>1, <2>2, ContinueType
  <2> QED
    BY <1>1, <2>3 DEF ReqTyped, Typed, TypeOK, Begin, world, database, Shaped
<1>2. CASE StartExchange(w)
  <2>1. PICK s \in Session, x \in Source :
          Begin(w, IF AccessSourceMode = "local_only" THEN "link" ELSE "subscription",
                [NoRequest EXCEPT !.kind = "exchange", !.session = s, !.source = x])
    BY <1>2 DEF StartExchange
  <2>2. [NoRequest EXCEPT !.kind = "exchange", !.session = s, !.source = x] \in Request
    BY NoRequestType DEF Request, NoRequest
  <2> QED
    BY <1>1, <2>1, <2>2 DEF NoRequest
<1>3. CASE StartWithToken(w)
  <2>1. PICK s \in Session, k \in {"session", "logout", "config"},
             n \in Node \cup {NoNode} : \E t \in held[s] :
          Begin(w, "load", [NoRequest EXCEPT !.kind = k, !.session = s,
                                             !.token = t, !.node = n])
    BY <1>3 DEF StartWithToken
  <2>2. PICK t \in held[s] :
          Begin(w, "load", [NoRequest EXCEPT !.kind = k, !.session = s,
                                             !.token = t, !.node = n])
    BY <2>1
  <2>3. t \in Nat
    BY <2>2 DEF Typed, TypeOK
  <2>4. [NoRequest EXCEPT !.kind = k, !.session = s, !.token = t, !.node = n]
          \in Request
    BY <2>3, NoRequestType DEF Request, NoRequest
  <2> QED
    BY <1>1, <2>2, <2>4 DEF NoRequest
<1>4. CASE StartRefresh(w)
  <2>1. PICK s \in Session :
          Begin(w, "load", [NoRequest EXCEPT !.kind = "refresh", !.session = s])
    BY <1>4 DEF StartRefresh
  <2>2. [NoRequest EXCEPT !.kind = "refresh", !.session = s] \in Request
    BY NoRequestType DEF Request, NoRequest
  <2> QED
    BY <1>1, <2>1, <2>2 DEF NoRequest
<1> QED
  BY <1>2, <1>3, <1>4

\* The request a worker holds, and any copy of it with well-typed fields.
LEMMA RequestFields ==
  ASSUME Typed, NEW w \in Worker
  PROVE  /\ req[w] \in Request
         /\ Shaped(pc[w], req[w])
BY DEF Typed, TypeOK, Shaped

LEMMA CappedExpiryType ==
  \A now, sourceExpires \in Nat :
    /\ CappedExpiry(now, sourceExpires) \in Nat
    /\ CappedExpiry(now, sourceExpires) <= now + SessionTTL
BY DurationAssumption DEF CappedExpiry

LEMMA ValidatedType ==
  ASSUME NEW r \in Request, NEW expires \in Nat
  PROVE  /\ Validated(r, expires) \in Request
         /\ Validated(r, expires).session = r.session
         /\ Validated(r, expires).source = r.source
         /\ Validated(r, expires).kind = r.kind
BY DEF Validated, Request, NoRequest, SourceRecord

LEMMA RenewType ==
  ASSUME Typed, NEW w \in Worker, NEW r \in Request, NEW sourceExpires \in Nat,
         r.session \in Session, r.source \in Source, r.kind \in Kinds,
         Renew(w, r, sourceExpires)
  PROVE  ReqTyped
<1> DEFINE next == CappedExpiry(r.now, sourceExpires)
<1>1. CASE Drop(w)
  BY <1>1, DropType
<1>2. CASE Continue(w, "extend", [r EXCEPT !.next = next])
  <2>1. next \in Nat
    BY CappedExpiryType DEF Request
  <2>2. [r EXCEPT !.next = next] \in Request
    BY <2>1 DEF Request
  <2>3. Shaped("extend", [r EXCEPT !.next = next]) /\ "extend" \in Label
    BY DEF Shaped, Label, CredentialLabels, Request
  <2> QED
    BY <1>2, <2>2, <2>3, ContinueType
<1>3. CASE Continue(w, AfterValidation(r), Validated(r, r.expires))
  <2>1. r.expires \in Nat
    BY DEF Request
  <2>2. Validated(r, r.expires) \in Request
    BY <2>1, ValidatedType
  <2>3. /\ AfterValidation(r) \in Label
        /\ Shaped(AfterValidation(r), Validated(r, r.expires))
    BY <2>1, ValidatedType DEF AfterValidation, Shaped, Label, CredentialLabels
  <2> QED
    BY <1>3, <2>2, <2>3, ContinueType
<1> QED
  BY <1>1, <1>2, <1>3 DEF Renew
USE DEF Shaped, Label, CredentialLabels

LEMMA RemnaAnswersType ==
  ASSUME Typed, NEW w \in Worker, req[w] \in Request, req[w].session \in Session,
         req[w].source \in Source, req[w].kind \in Kinds, RemnaAnswers(w)
  PROVE  ReqTyped
<1> DEFINE q == [req[w] EXCEPT !.link = source[req[w].source]]
<1>1. source[req[w].source] \in SourceRecord
  BY DEF Typed, TypeOK
<1>2. q \in Request /\ Shaped("judge", q)
  BY <1>1 DEF Request
<1> QED
  BY <1>2, ContinueType DEF RemnaAnswers

LEMMA RefuseSourceType ==
  ASSUME Typed, NEW w \in Worker, req[w] \in Request, req[w].session \in Session,
         req[w].source \in Source, req[w].kind \in Kinds, RefuseSource(w)
  PROVE  ReqTyped
<1> DEFINE q == [req[w] EXCEPT !.expires = 0, !.now = 0, !.link = NoRequest.link]
<1>1. q \in Request /\ Shaped("disown", q)
  BY DEF Request, NoRequest, SourceRecord
<1> QED
  BY <1>1, DropType, ContinueType DEF RefuseSource

LEMMA ResolveNodesType ==
  /\ \A x \in Source : ResolveNodes(x) \subseteq Node
  /\ \A table, listed, preferred :
       listed \subseteq Node => DefaultCandidates(table, listed, preferred) \subseteq listed
BY DEF ResolveNodes, ResolveAllNodes, ResolveNodesForAccessLink, FilterOnlineNodes,
       ListNodes, DefaultCandidates

\* The steps that only read and compute: the tables stay, the request moves.
LEMMA ReadStepTypes ==
  ASSUME Typed, NEW w \in Worker,
         \/ LoadSession(w) \/ CheckSource(w) \/ AskRemna(w) \/ AskCompatibility(w)
         \/ JudgeAnswer(w) \/ FindAccessLink(w) \/ ListSessionNodes(w)
         \/ PickNode(w) \/ SelectCredential(w) \/ ReadBackCredential(w) \/ Abort(w)
  PROVE  Typed'
<1> DEFINE r == req[w]
<1>r. r \in Request /\ Shaped(pc[w], r)
  BY RequestFields
<1>s. /\ \A x \in Source : source[x] \in SourceRecord
      /\ \A s \in Session : sess[s] \in SessionRow
      /\ \A s \in Session : sess[s].status = "active" => sess[s].source \in Source
      /\ \A s \in Session, n \in Node : cred[s][n] \in CredentialRow
      /\ clock \in Nat
  BY DEF Typed, TypeOK
<1>d. Drop(w) => ReqTyped
  BY DropType
<1>1. CASE LoadSession(w)
  <2> DEFINE row == sess[r.session]
             moved == [r EXCEPT !.source = row.source, !.expires = row.expires,
                         !.token = 0,
                         !.link = IF SourceType[row.source] = "local_access_link"
                                  THEN source[row.source] ELSE @]
  <2>1. r.session \in Session /\ r.kind \in Kinds /\ row \in SessionRow
    BY <1>1, <1>r, <1>s DEF LoadSession
  <2>2. ASSUME Continue(w, "check", moved), row.status = "active"
        PROVE  ReqTyped
    <3>1. row.source \in Source
      BY <2>1, <2>2, <1>s
    <3>2. moved \in Request
      BY <2>1, <3>1, <1>r, <1>s DEF Request, SessionRow
    <3>3. Shaped("check", moved)
      BY <3>1, <2>1, <1>r DEF Request
    <3> QED
      BY <2>2, <3>2, <3>3, ContinueType
  <2>3. ReqTyped
    BY <1>1, <1>d, <2>2 DEF LoadSession
  <2> QED
    BY <1>1, <2>3, OnlyRequests DEF LoadSession
<1>2. CASE CheckSource(w)
  <2> DEFINE timed == [r EXCEPT !.now = clock]
  <2>1. timed \in Request /\ Shaped("subscription", timed)
    BY <1>2, <1>r, <1>s DEF CheckSource, Request
  <2>2. timed.link.expires \in Nat
    BY <2>1 DEF Request, SourceRecord
  <2>3. Renew(w, timed, timed.link.expires) => ReqTyped
    BY <2>1, <2>2, RenewType
  <2>4. Continue(w, "subscription", timed) => ReqTyped
    BY <2>1, ContinueType
  <2>5. ReqTyped
    BY <1>2, <1>d, <2>3, <2>4 DEF CheckSource
  <2> QED
    BY <1>2, <2>5, OnlyRequests DEF CheckSource
<1>3. CASE AskRemna(w) \/ AskCompatibility(w)
  <2>1. r.session \in Session /\ r.source \in Source /\ r.kind \in Kinds
    BY <1>3, <1>r DEF AskRemna, AskCompatibility
  <2>2. RemnaAnswers(w) => ReqTyped
    BY <2>1, <1>r, <1>s, RemnaAnswersType
  <2>3. RefuseSource(w) => ReqTyped
    BY <2>1, <1>r, RefuseSourceType
  <2>4. ASSUME NEW label \in {"compatibility", "link"}, Continue(w, label, r)
        PROVE  ReqTyped
    BY <2>1, <2>4, <1>r, ContinueType
  <2>5. ReqTyped
    BY <1>3, <2>2, <2>3, <2>4 DEF AskRemna, AskCompatibility
  <2> QED
    BY <1>3, <2>5, OnlyRequests DEF AskRemna, AskCompatibility
<1>4. CASE JudgeAnswer(w)
  <2>1. /\ r.session \in Session /\ r.source \in Source /\ r.kind \in Kinds
        /\ r.link.expires \in Nat
    BY <1>4, <1>r DEF JudgeAnswer, Request, SourceRecord
  <2>2. RefuseSource(w) => ReqTyped
    BY <2>1, <1>r, RefuseSourceType
  <2>3. Continue(w, "nodes", r) => ReqTyped
    BY <2>1, <1>r, ContinueType
  <2>4. Renew(w, r, r.link.expires) => ReqTyped
    BY <2>1, <1>r, RenewType
  <2>5. ReqTyped
    BY <1>4, <2>2, <2>3, <2>4 DEF JudgeAnswer
  <2> QED
    BY <1>4, <2>5, OnlyRequests DEF JudgeAnswer
<1>5. CASE FindAccessLink(w)
  <2>1. Continue(w, "nodes", r) => ReqTyped
    BY <1>5, <1>r, ContinueType DEF FindAccessLink
  <2>2. ReqTyped
    BY <1>5, <1>d, <2>1 DEF FindAccessLink
  <2> QED
    BY <1>5, <2>2, OnlyRequests DEF FindAccessLink
<1>6. CASE ListSessionNodes(w)
  <2> DEFINE cap == IF SourceType[r.source] = "remna_subscription"
                    THEN r.link.expires ELSE 0
             created(d) == [r EXCEPT !.node = d, !.next = CappedExpiry(clock, cap)]
  <2>1. r.session \in Session /\ r.source \in Source /\ r.kind \in Kinds
    BY <1>6, <1>r DEF ListSessionNodes
  <2>2. ASSUME NEW label \in {"reply", "pick", "revoke"}, Continue(w, label, r),
               r.kind = "config" => label = "pick",
               r.kind = "logout" <=> label = "revoke"
        PROVE  ReqTyped
    BY <2>1, <2>2, <1>r, ContinueType
  <2>3. ASSUME NEW d \in Node, Continue(w, "insert", created(d))
        PROVE  ReqTyped
    <3>1. CappedExpiry(clock, cap) \in Nat
      BY <1>r, <1>s, CappedExpiryType DEF Request, SourceRecord
    <3>2. created(d) \in Request
      BY <2>3, <3>1, <1>r DEF Request
    <3>3. Shaped("insert", created(d))
      BY <2>1, <2>3, <1>r DEF Request
    <3> QED
      BY <2>3, <3>2, <3>3, ContinueType
  <2>4. ReqTyped
    <3>1. CASE Drop(w)
      BY <3>1, <1>d
    <3>2. CASE /\ r.kind # "exchange"
               /\ Continue(w, [session |-> "reply", refresh |-> "reply",
                               config |-> "pick", logout |-> "revoke"][r.kind], r)
      BY <3>2, <2>1, <2>2
    <3>3. CASE \E d \in DefaultCandidates(nodes, ResolveNodes(r.source),
                                          PreferredNode(r.source)) :
                 Continue(w, "insert", created(d))
      BY <3>3, <2>1, <2>3, ResolveNodesType
    <3> QED
      BY <1>6, <3>1, <3>2, <3>3 DEF ListSessionNodes
  <2> QED
    BY <1>6, <2>4, OnlyRequests DEF ListSessionNodes
<1>7. CASE PickNode(w)
  <2> DEFINE target == IF r.node = NoNode THEN sess[r.session].selected ELSE r.node
  <2>1. r.session \in Session /\ r.source \in Source /\ r.kind \in Kinds
    BY <1>7, <1>r DEF PickNode
  <2>2. ASSUME target \in ResolveNodes(r.source),
               Continue(w, "credential", [r EXCEPT !.node = target])
        PROVE  ReqTyped
    <3>1. target \in Node
      BY <2>1, <2>2, ResolveNodesType
    <3>2. /\ [r EXCEPT !.node = target] \in Request
          /\ Shaped("credential", [r EXCEPT !.node = target])
      BY <2>1, <3>1, <1>r DEF Request
    <3> QED
      BY <2>2, <3>2, ContinueType
  <2>3. ReqTyped
    BY <1>7, <1>d, <2>2 DEF PickNode
  <2> QED
    BY <1>7, <2>3, OnlyRequests DEF PickNode
<1>8. CASE SelectCredential(w)
  <2> DEFINE row == cred[r.session][r.node]
             found == [r EXCEPT !.user = row.user, !.version = row.version]
             fresh == [r EXCEPT !.version = row.version + 1,
                                !.next = clock + CredentialTTL]
  <2>1. row \in CredentialRow
    BY <1>8, <1>r, <1>s DEF SelectCredential
  <2>2. found \in Request /\ Shaped("reply", found)
    BY <2>1, <1>8, <1>r DEF SelectCredential, Request, CredentialRow
  <2>3. fresh \in Request /\ Shaped("create", fresh) /\ Shaped("renew", fresh)
    <3>1. row.version + 1 \in Nat /\ clock + CredentialTTL \in Nat
      BY <2>1, <1>s, DurationAssumption DEF CredentialRow
    <3>2. fresh \in Request
      BY <3>1, <1>r DEF Request
    <3> QED
      BY <3>2, <1>8, <1>r DEF SelectCredential, Request
  <2>4. ReqTyped
    BY <1>8, <2>2, <2>3, ContinueType DEF SelectCredential
  <2> QED
    BY <1>8, <2>4, OnlyRequests DEF SelectCredential
<1>9. CASE ReadBackCredential(w)
  <2> DEFINE row == cred[r.session][r.node]
             found == [r EXCEPT !.user = row.user, !.version = row.version]
  <2>1. row \in CredentialRow
    BY <1>9, <1>r, <1>s DEF ReadBackCredential
  <2>2. found \in Request /\ Shaped("reply", found)
    BY <2>1, <1>9, <1>r DEF ReadBackCredential, Request, CredentialRow
  <2>3. ReqTyped
    BY <1>9, <2>2, ContinueType DEF ReadBackCredential
  <2> QED
    BY <1>9, <2>3, OnlyRequests DEF ReadBackCredential
<1>10. CASE Abort(w)
  BY <1>10, <1>d, OnlyRequests DEF Abort
<1> QED
  BY <1>1, <1>2, <1>3, <1>4, <1>5, <1>6, <1>7, <1>8, <1>9, <1>10
\* The tables a step may leave for the next one.
TablesTyped ==
  /\ sess \in [Session -> SessionRow]
  /\ \A s \in Session : sess[s].status = "active" => sess[s].source \in Source
  /\ cred \in [Session -> [Node -> CredentialRow]]

LEMMA WithTables ==
  ASSUME Typed, ReqTyped, TablesTyped', UNCHANGED <<world, nodes, clients>>
  PROVE  Typed'
BY DEF ReqTyped, TablesTyped, Typed, TypeOK, world, clients

LEMMA RenewedRowType ==
  ASSUME NEW row \in SessionRow, NEW token \in Nat, NEW expires \in Nat
  PROVE  /\ [row EXCEPT !.token = token, !.expires = expires] \in SessionRow
         /\ [row EXCEPT !.token = token, !.expires = expires].status = row.status
         /\ [row EXCEPT !.token = token, !.expires = expires].source = row.source
BY DEF SessionRow

LEMMA RevokedRowType ==
  ASSUME NEW row \in CredentialRow
  PROVE  RevokedCredential(row) \in CredentialRow
BY DEF RevokedCredential, CredentialRow

LEMMA RevokedTypes ==
  ASSUME Typed, NEW s \in Session, Revoked(s)
  PROVE  TablesTyped'
<1>s. /\ sess \in [Session -> SessionRow]
      /\ \A v \in Session : sess[v].status = "active" => sess[v].source \in Source
      /\ cred \in [Session -> [Node -> CredentialRow]]
  BY DEF Typed, TypeOK
<1>1. /\ sess' \in [Session -> SessionRow]
      /\ \A v \in Session : sess'[v].status = "active" => sess'[v].source \in Source
  <2>1. [sess[s] EXCEPT !.status = "revoked"] \in SessionRow
    BY <1>s DEF SessionRow
  <2>2. sess' = [sess EXCEPT ![s] = [sess[s] EXCEPT !.status = "revoked"]]
    BY DEF Revoked
  <2> QED
    BY <2>1, <2>2, <1>s DEF SessionRow
<1>2. cred' \in [Session -> [Node -> CredentialRow]]
  <2>1. ASSUME NEW n \in Node
        PROVE  RevokedCredential(cred[s][n]) \in CredentialRow
    BY <1>s, RevokedRowType
  <2> QED
    BY <2>1, <1>s DEF Revoked
<1> QED
  BY <1>1, <1>2 DEF TablesTyped

\* The steps that write the sessions or the credentials.
LEMMA WriteStepTypes ==
  ASSUME Typed, NEW w \in Worker,
         \/ ExtendSession(w) \/ RotateSessionToken(w) \/ DisownSession(w)
         \/ LogoutSession(w) \/ CreateSession(w) \/ CreateProxyCredential(w)
         \/ RotateProxyCredential(w)
  PROVE  Typed'
<1> DEFINE r == req[w]
<1>r. r \in Request /\ Shaped(pc[w], r)
  BY RequestFields
<1>s. /\ sess \in [Session -> SessionRow]
      /\ \A s \in Session : sess[s].status = "active" => sess[s].source \in Source
      /\ cred \in [Session -> [Node -> CredentialRow]]
      /\ clock \in Nat
  BY DEF Typed, TypeOK
<1>d. Drop(w) => ReqTyped
  BY DropType
<1>1. CASE ExtendSession(w)
  <2>1. r.session \in Session /\ r.source \in Source /\ r.kind \in Kinds /\ r.next \in Nat
    BY <1>1, <1>r DEF ExtendSession, Request
  <2>2. Validated(r, r.next) \in Request /\ Shaped(AfterValidation(r), Validated(r, r.next))
    BY <2>1, <1>r, ValidatedType DEF AfterValidation
  <2>3. ReqTyped
    BY <1>1, <2>2, ContinueType DEF ExtendSession, AfterValidation
  <2>4. [sess[r.session] EXCEPT !.expires = r.next] \in SessionRow
    BY <2>1, <1>s DEF SessionRow
  <2>5. TablesTyped'
    BY <1>1, <2>1, <2>4, <1>s DEF TablesTyped, ExtendSession
  <2> QED
    BY <1>1, <2>3, <2>5, WithTables DEF ExtendSession
<1>2. CASE RotateSessionToken(w)
  <2> DEFINE token == sess[r.session].token + 1
  <2>1. /\ r.session \in Session /\ r.source \in Source /\ r.kind \in Kinds
        /\ r.expires \in Nat
    BY <1>2, <1>r DEF RotateSessionToken, Request
  <2>2. token \in Nat
    BY <2>1, <1>s DEF SessionRow
  <2>3. /\ [r EXCEPT !.token = token, !.expires = 0] \in Request
        /\ Shaped("nodes", [r EXCEPT !.token = token, !.expires = 0])
    BY <2>1, <2>2, <1>r DEF Request
  <2>4. ReqTyped
    BY <1>2, <2>3, ContinueType DEF RotateSessionToken
  <2>5. [sess[r.session] EXCEPT !.token = token, !.expires = r.expires] \in SessionRow
    BY <2>1, <2>2, <1>s, RenewedRowType
  <2>6. TablesTyped'
    BY <1>2, <2>1, <2>5, <1>s DEF TablesTyped, RotateSessionToken
  <2> QED
    BY <1>2, <2>4, <2>6, WithTables DEF RotateSessionToken
<1>3. CASE DisownSession(w)
  BY <1>3, <1>r, <1>d, RevokedTypes, WithTables DEF DisownSession
<1>4. CASE LogoutSession(w)
  <2>1. Shaped("reply", r) /\ r.session \in Session
    BY <1>4, <1>r DEF LogoutSession
  <2>2. ReqTyped
    BY <1>4, <2>1, <1>r, ContinueType DEF LogoutSession
  <2> QED
    BY <1>4, <2>1, <2>2, RevokedTypes, WithTables DEF LogoutSession
<1>5. CASE CreateSession(w)
  <2> DEFINE moved == [r EXCEPT !.token = 1, !.next = 0, !.link = NoRequest.link]
             row == [status |-> "active", source |-> r.source, token |-> 1,
                     expires |-> r.next, created |-> clock, selected |-> r.node]
  <2>1. /\ r.session \in Session /\ r.source \in Source /\ r.kind \in Kinds
        /\ r.next \in Nat /\ r.node \in Node
    BY <1>5, <1>r DEF CreateSession, Request
  <2>2. moved \in Request /\ Shaped("credential", moved)
    BY <2>1, <1>r DEF Request, NoRequest, SourceRecord
  <2>3. ReqTyped
    BY <1>5, <2>2, ContinueType DEF CreateSession
  <2>4. row \in SessionRow
    BY <2>1, <1>s DEF SessionRow
  <2>5. TablesTyped'
    BY <1>5, <2>1, <2>4, <1>s DEF TablesTyped, CreateSession
  <2> QED
    BY <1>5, <2>3, <2>5, WithTables DEF CreateSession
<1>6. CASE CreateProxyCredential(w)
  <2> DEFINE row == IssuedCredential(cred[r.session][r.node], r.version, r.next)
             moved == [r EXCEPT !.user = row.user, !.next = 0]
  <2>1. /\ r.session \in Session /\ r.source \in Source /\ r.kind \in Kinds
        /\ r.next \in Nat /\ r.version \in Nat /\ r.node \in Node
    BY <1>6, <1>r DEF CreateProxyCredential, Request
  <2>4. row \in CredentialRow /\ row.user \in Nat
    BY <2>1, <1>s DEF CredentialRow, IssuedCredential
  <2>2. moved \in Request /\ Shaped("reply", moved)
    BY <2>1, <2>4, <1>r DEF Request
  <2>3. ReqTyped
    BY <1>6, <1>d, <2>2, ContinueType DEF CreateProxyCredential
  <2>5. TablesTyped'
    BY <1>6, <2>1, <2>4, <1>s DEF TablesTyped, CreateProxyCredential
  <2> QED
    BY <1>6, <2>3, <2>5, WithTables DEF CreateProxyCredential
<1>7. CASE RotateProxyCredential(w)
  <2> DEFINE moved == [r EXCEPT !.version = 0, !.next = 0]
             row == IssuedCredential(cred[r.session][r.node], r.version, r.next)
  <2>1. /\ r.session \in Session /\ r.source \in Source /\ r.kind \in Kinds
        /\ r.next \in Nat /\ r.version \in Nat /\ r.node \in Node
    BY <1>7, <1>r DEF RotateProxyCredential, Request
  <2>2. moved \in Request /\ Shaped("readback", moved)
    BY <2>1, <1>r DEF Request
  <2>3. ReqTyped
    BY <1>7, <2>2, ContinueType DEF RotateProxyCredential
  <2>4. row \in CredentialRow
    BY <2>1, <1>s DEF CredentialRow, IssuedCredential
  <2>5. TablesTyped'
    BY <1>7, <2>1, <2>4, <1>s DEF TablesTyped, RotateProxyCredential
  <2> QED
    BY <1>7, <2>3, <2>5, WithTables DEF RotateProxyCredential
<1> QED
  BY <1>1, <1>2, <1>3, <1>4, <1>5, <1>6, <1>7

LEMMA ReplyTypes ==
  ASSUME Typed, NEW w \in Worker, Reply(w)
  PROVE  Typed'
<1> DEFINE r == req[w]
           pair == [session |-> r.session, node |-> r.node,
                    user |-> r.user, version |-> r.version]
<1>1. r \in Request /\ r.session \in Session /\ (r.kind = "config" => r.node \in Node)
  BY RequestFields DEF Reply
<1>2. ReqTyped
  BY DropType DEF Reply
<1>3. held' \in [Session -> SUBSET Nat]
  BY <1>1 DEF Reply, Typed, TypeOK, Request
<1>4. handed' \subseteq Pair
  <2>1. r.kind = "config" => pair \in Pair
    BY <1>1 DEF Pair, Request
  <2> QED
    BY <2>1 DEF Reply, Typed, TypeOK
<1>5. loggedOut' \subseteq Session
  BY <1>1 DEF Reply, Typed, TypeOK
<1> QED
  BY <1>2, <1>3, <1>4, <1>5 DEF Reply, Typed, TypeOK, ReqTyped, world, database

LEMMA SurroundingTypes ==
  ASSUME Typed, Tick \/ ChangeSource \/ WriteNodes
  PROVE  Typed'
<1>1. ASSUME NEW state \in [Source -> SourceRecord], NEW now \in Nat
      PROVE  Seen(state, now) \in [Source -> Nat]
  BY <1>1 DEF Seen, Typed, TypeOK
<1>2. CASE Tick
  <2>1. clock' \in Nat /\ source \in [Source -> SourceRecord]
    BY <1>2 DEF Tick, Typed, TypeOK
  <2>2. lastGood' \in [Source -> Nat]
    BY <2>1, <1>1, <1>2 DEF Tick
  <2> QED
    BY <1>2, <2>1, <2>2 DEF Tick, Typed, TypeOK, database, clients
<1>3. CASE ChangeSource
  <2>1. source' \in [Source -> SourceRecord]
    <3>1. PICK x \in Source :
            \E state \in SourceState[x] : source' = [source EXCEPT ![x] = state]
      BY <1>3 DEF ChangeSource
    <3>2. SourceState[x] \subseteq SourceRecord
      BY SourceAssumption
    <3> QED
      BY <3>1, <3>2 DEF Typed, TypeOK
  <2>2. lastGood' \in [Source -> Nat]
    <3>1. clock \in Nat
      BY DEF Typed, TypeOK
    <3> QED
      BY <3>1, <1>1, <1>3, <2>1 DEF ChangeSource
  <2> QED
    <3>1. UNCHANGED <<clock, database, pc, req, clients>>
      BY <1>3 DEF ChangeSource
    <3> QED
      BY <2>1, <2>2, <3>1 DEF Typed, TypeOK, database, clients
<1>4. CASE WriteNodes
  <2>1. NoRow \in NodeRow
    BY DEF NoRow, NodeRow, NodeStatus
  <2>2. nodes' \in [Node -> NodeRow]
    BY <1>4, <2>1, IdentityAssumption DEF WriteNodes
  <2> QED
    BY <1>4, <2>2 DEF WriteNodes, Typed, TypeOK, world, clients
<1> QED
  BY <1>2, <1>3, <1>4

LEMMA InitTypes == Init => Typed
<1> SUFFICES ASSUME Init PROVE Typed
  OBVIOUS
<1>1. source \in [Source -> SourceRecord]
  BY SourceAssumption DEF Init
<1>2. NoRow \in NodeRow
  BY DEF NoRow, NodeRow, NodeStatus
<1>3. NoSessionRow \in SessionRow /\ NoCredential \in CredentialRow
  BY DEF NoSessionRow, SessionRow, NoCredential, CredentialRow
<1> QED
  BY <1>1, <1>2, <1>3, NoRequestType DEF Init, Typed, TypeOK, NoSessionRow

LEMMA NextTypes == Typed /\ [Next]_vars => Typed'
<1> SUFFICES ASSUME Typed, [Next]_vars PROVE Typed'
  OBVIOUS
<1>1. CASE UNCHANGED vars
  BY <1>1 DEF Typed, TypeOK, vars, world, database, clients
<1>2. ASSUME NEW w \in Worker,
             StartExchange(w) \/ StartWithToken(w) \/ StartRefresh(w)
      PROVE  Typed'
  BY <1>2, StartTypes
<1>3. ASSUME NEW w \in Worker, Serve(w) \/ Abort(w)
      PROVE  Typed'
  BY <1>3, ReadStepTypes, WriteStepTypes, ReplyTypes DEF Serve
<1>4. CASE Tick \/ ChangeSource \/ WriteNodes
  BY <1>4, SurroundingTypes
<1> QED
  BY <1>1, <1>2, <1>3, <1>4 DEF Next

\* Whatever the requests interleave, every table, request and record of the
\* model keeps the type its SQL column or Go struct has.
THEOREM TypeCorrect == Spec => []TypeOK
<1>1. Spec => []Typed
  BY InitTypes, NextTypes, PTL DEF Spec
<1>2. Typed => TypeOK
  BY DEF Typed
<1> QED
  BY <1>1, <1>2, PTL

-----------------------------------------------------------------------------
(* Requests only advance.                                                  *)

\* The steps a request at a label has before it at most.
StepsLeft ==
  [load |-> 13, check |-> 12, subscription |-> 11, compatibility |-> 10, judge |-> 9,
   extend |-> 8, rotate |-> 7, link |-> 7, nodes |-> 6, pick |-> 5, insert |-> 5,
   credential |-> 4, renew |-> 3, create |-> 2, readback |-> 2, revoke |-> 2,
   disown |-> 1, reply |-> 1, idle |-> 0]

\* A step of the handler comes nearer to the end, and nothing takes it back.
Advances(w) ==
  /\ Serve(w) => StepsLeft[pc'[w]] < StepsLeft[pc[w]]
  /\ pc[w] # "idle" => StepsLeft[pc'[w]] <= StepsLeft[pc[w]]

LEMMA MovesTo ==
  ASSUME Typed, NEW w \in Worker, NEW label, NEW r, Continue(w, label, r)
  PROVE  pc'[w] = label /\ \A v \in Worker \ {w} : pc'[v] = pc[v]
BY DEF Typed, TypeOK, Continue

\* Every statement, call and decision of a handler leads on.
LEMMA ServeAdvances ==
  ASSUME Typed, NEW w \in Worker, Serve(w)
  PROVE  /\ StepsLeft[pc'[w]] < StepsLeft[pc[w]]
         /\ pc[w] # "idle" /\ \A v \in Worker \ {w} : pc'[v] = pc[v]
<1> DEFINE Goal == /\ StepsLeft[pc'[w]] < StepsLeft[pc[w]]
                   /\ pc[w] # "idle" /\ \A v \in Worker \ {w} : pc'[v] = pc[v]
<1>1. ASSUME NEW from, NEW to, pc[w] = from, NEW r, Continue(w, to, r),
             StepsLeft[to] < StepsLeft[from], from # "idle"
      PROVE  Goal
  BY <1>1, MovesTo
<1>2. ASSUME Drop(w), pc[w] \in Label \ {"idle"} PROVE Goal
  <2>1. StepsLeft["idle"] < StepsLeft[pc[w]]
    BY <1>2 DEF StepsLeft, Label
  <2> QED
    BY <1>1, <1>2, <2>1 DEF Drop
<1>3. ASSUME RefuseSource(w), pc[w] \in Asking PROVE Goal
  <2>1. StepsLeft["disown"] < StepsLeft[pc[w]] /\ pc[w] \in Label \ {"idle"}
    BY <1>3 DEF StepsLeft, Asking, Label
  <2> QED
    BY <1>1, <1>2, <1>3, <2>1 DEF RefuseSource
<1>4. ASSUME RemnaAnswers(w), pc[w] \in {"subscription", "compatibility"} PROVE Goal
  <2>1. StepsLeft["judge"] < StepsLeft[pc[w]] /\ pc[w] # "idle"
    BY <1>4 DEF StepsLeft
  <2> QED
    BY <1>1, <1>4, <2>1 DEF RemnaAnswers
<1>5. ASSUME NEW r, NEW end, Renew(w, r, end), pc[w] \in {"check", "judge"} PROVE Goal
  <2>1. /\ \A to \in {"extend", "rotate", "nodes"} : StepsLeft[to] < StepsLeft[pc[w]]
        /\ pc[w] \in Label \ {"idle"}
    BY <1>5 DEF StepsLeft, Label
  <2> QED
    BY <1>1, <1>2, <1>5, <2>1 DEF Renew, AfterValidation
<1>6. CASE LoadSession(w)
  <2>1. pc[w] = "load" /\ "load" \in Label /\ StepsLeft["check"] < StepsLeft["load"]
    BY <1>6 DEF LoadSession, StepsLeft, Label
  <2> QED
    BY <1>1, <1>2, <1>6, <2>1 DEF LoadSession
<1>7. CASE CheckSource(w)
  <2>1. /\ pc[w] = "check" /\ "check" \in Label
        /\ StepsLeft["subscription"] < StepsLeft["check"]
    BY <1>7 DEF CheckSource, StepsLeft, Label
  <2> QED
    BY <1>1, <1>2, <1>5, <1>7, <2>1 DEF CheckSource
<1>8. CASE AskRemna(w)
  <2>1. /\ pc[w] = "subscription" /\ StepsLeft["compatibility"] < StepsLeft["subscription"]
    BY <1>8 DEF AskRemna, StepsLeft
  <2> QED
    BY <1>1, <1>3, <1>4, <1>8, <2>1 DEF AskRemna, Asking
<1>9. CASE AskCompatibility(w)
  <2>1. pc[w] = "compatibility" /\ StepsLeft["link"] < StepsLeft["compatibility"]
    BY <1>9 DEF AskCompatibility, StepsLeft
  <2> QED
    BY <1>1, <1>3, <1>4, <1>9, <2>1 DEF AskCompatibility, Asking
<1>10. CASE JudgeAnswer(w)
  <2>1. pc[w] = "judge" /\ StepsLeft["nodes"] < StepsLeft["judge"]
    BY <1>10 DEF JudgeAnswer, StepsLeft
  <2> QED
    BY <1>1, <1>3, <1>5, <1>10, <2>1 DEF JudgeAnswer, Asking
<1>11. CASE FindAccessLink(w)
  <2>1. pc[w] = "link" /\ "link" \in Label /\ StepsLeft["nodes"] < StepsLeft["link"]
    BY <1>11 DEF FindAccessLink, StepsLeft, Label
  <2> QED
    BY <1>1, <1>2, <1>11, <2>1 DEF FindAccessLink
<1>12. CASE ExtendSession(w) \/ RotateSessionToken(w)
  <2>1. /\ StepsLeft["rotate"] < StepsLeft["extend"]
        /\ StepsLeft["nodes"] < StepsLeft["extend"]
        /\ StepsLeft["nodes"] < StepsLeft["rotate"]
    BY DEF StepsLeft
  <2> QED
    BY <1>1, <1>12, <2>1 DEF ExtendSession, RotateSessionToken, AfterValidation
<1>13. CASE DisownSession(w) \/ LogoutSession(w)
  <2>1. StepsLeft["reply"] < StepsLeft["revoke"] /\ "disown" \in Label
    BY DEF StepsLeft, Label
  <2> QED
    BY <1>1, <1>2, <1>13, <2>1 DEF DisownSession, LogoutSession
<1>14. CASE ListSessionNodes(w)
  <2>0. pc[w] = "nodes"
    BY <1>14 DEF ListSessionNodes
  <2>1. /\ pc[w] = "nodes" /\ "nodes" \in Label
        /\ \A to \in {"reply", "pick", "revoke", "insert"} : StepsLeft[to] < StepsLeft["nodes"]
    BY <2>0 DEF StepsLeft, Label
  <2>2. ASSUME req[w].kind # "exchange",
               Continue(w, [session |-> "reply", refresh |-> "reply", config |-> "pick",
                            logout |-> "revoke"][req[w].kind], req[w])
        PROVE  Goal
    <3>1. req[w].kind \in {"session", "refresh", "config", "logout"}
      BY <2>1, <2>2, RequestFields DEF Shaped, Kinds
    <3>2. PICK to \in {"reply", "pick", "revoke"} : Continue(w, to, req[w])
      BY <2>2, <3>1
    <3> QED
      BY <1>1, <2>1, <3>2
  <2>3. ASSUME NEW r, Continue(w, "insert", r) PROVE Goal
    BY <1>1, <2>1, <2>3
  <2> QED
    BY <1>2, <1>14, <2>1, <2>2, <2>3 DEF ListSessionNodes
<1>15. CASE PickNode(w) \/ CreateSession(w)
  <2>1. /\ StepsLeft["credential"] < StepsLeft["pick"] /\ "pick" \in Label
        /\ StepsLeft["credential"] < StepsLeft["insert"]
    BY DEF StepsLeft, Label
  <2> QED
    BY <1>1, <1>2, <1>15, <2>1 DEF PickNode, CreateSession
<1>16. CASE SelectCredential(w)
  <2>1. /\ pc[w] = "credential"
        /\ \A to \in {"reply", "create", "renew"} : StepsLeft[to] < StepsLeft["credential"]
    BY <1>16 DEF SelectCredential, StepsLeft
  <2> QED
    BY <1>1, <1>16, <2>1 DEF SelectCredential
<1>17. CASE CreateProxyCredential(w) \/ RotateProxyCredential(w) \/ ReadBackCredential(w)
  <2>1. /\ StepsLeft["reply"] < StepsLeft["create"] /\ "create" \in Label
        /\ StepsLeft["readback"] < StepsLeft["renew"]
        /\ StepsLeft["reply"] < StepsLeft["readback"]
    BY DEF StepsLeft, Label
  <2> QED
    BY <1>1, <1>2, <1>17, <2>1 DEF CreateProxyCredential, RotateProxyCredential,
       ReadBackCredential
<1>18. CASE Reply(w)
  BY <1>2, <1>18 DEF Reply, Label
<1> QED
  BY <1>6, <1>7, <1>8, <1>9, <1>10, <1>11, <1>12, <1>13, <1>14, <1>15, <1>16, <1>17, <1>18
  DEF Serve

\* No handler loops, retries or waits for a turn: whatever the others do, a
\* request is at most thirteen of its own steps from its end.  This is the
\* safety half of EveryRequestEnds; the other is that each step is taken.
THEOREM RequestsAdvance == Spec => [][\A w \in Worker : Advances(w)]_vars
<1>1. Typed /\ [Next]_vars => [\A w \in Worker : Advances(w)]_vars
  <2> SUFFICES ASSUME Typed, Next, NEW w \in Worker PROVE Advances(w)
    OBVIOUS
  <2>t. pc[w] \in Label
    BY DEF Typed, TypeOK
  <2>1. pc'[w] = pc[w] /\ ~Serve(w) => Advances(w)
    BY <2>t DEF Advances, StepsLeft, Label
  <2>2. Serve(w) => Advances(w)
    BY <2>t, ServeAdvances, NextTypes DEF Advances, StepsLeft, Label, Typed, TypeOK
  <2>3. ASSUME ~Serve(w) PROVE Advances(w)
    <3>1. ASSUME NEW v \in Worker, Serve(v) PROVE Advances(w)
      BY <2>1, <2>3, <3>1, ServeAdvances
    <3>2. ASSUME NEW v \in Worker, StartExchange(v) \/ StartWithToken(v) \/ StartRefresh(v)
          PROVE  Advances(w)
      <4>1. PICK label, r : Begin(v, label, r)
        BY <3>2 DEF StartExchange, StartWithToken, StartRefresh
      <4>2. pc[v] = "idle" /\ \A u \in Worker \ {v} : pc'[u] = pc[u]
        BY <4>1, MovesTo DEF Begin
      <4> QED
        BY <2>1, <2>3, <4>2 DEF Advances
    <3>3. ASSUME NEW v \in Worker, Abort(v) PROVE Advances(w)
      <4>1. pc'[v] = "idle" /\ \A u \in Worker \ {v} : pc'[u] = pc[u]
        BY <3>3, MovesTo DEF Abort, Drop
      <4>2. StepsLeft["idle"] <= StepsLeft[pc[w]]
        BY <2>t DEF StepsLeft, Label
      <4> QED
        BY <2>1, <2>3, <4>1, <4>2 DEF Advances
    <3>4. CASE Tick \/ ChangeSource \/ WriteNodes
      BY <2>1, <2>3, <3>4 DEF Tick, ChangeSource, WriteNodes
    <3> QED
      BY <3>1, <3>2, <3>3, <3>4 DEF Next
  <2> QED
    BY <2>2, <2>3
<1> QED
  BY <1>1, InitTypes, NextTypes, PTL DEF Spec
=============================================================================
