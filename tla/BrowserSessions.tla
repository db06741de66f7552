-------------------------- MODULE BrowserSessions --------------------------
(***************************************************************************)
(* The session core of the backend: the handlers of internal/service that  *)
(* exchange a link for a browser session, validate, renew, refresh and     *)
(* revoke it, and hand out and check the proxy credentials bound to it.    *)
(*                                                                         *)
(* A handler is a sequence of autocommit SQL statements and at most one    *)
(* call to Remnawave.  Requests are served concurrently, so one step of    *)
(* the model is one statement (or the one transaction, RevokeSession) or   *)
(* one external answer, with the computation that follows it up to the     *)
(* next blocking call; a worker's pc names the call it makes next and its  *)
(* req holds what it carries across calls (the in-memory bundle).          *)
(***************************************************************************)
EXTENDS Naturals, Nodes

CONSTANTS
  Worker,            \* goroutines serving requests
  Session,           \* ids of browser_sessions rows
  NoSession,
  Source,            \* access links and Remnawave subscriptions
  NoSource,
  SourceType,        \* [Source -> {"local_access_link", "remna_subscription"}]
  SourceState,       \* what each source may look like: [Source -> SUBSET ...]
  AllowedNodeIDs,    \* [Source -> SUBSET Node], {} for no restriction
  LinkDefaultNode,   \* [Source -> Node \cup {NoNode}]
  AccessSourceMode,  \* ACCESS_SOURCE_MODE
  RegisteredRow,     \* node rows the registry may write
  RequestKind,       \* kinds of request the clients send
  SessionTTL, RefreshGrace, CredentialTTL, RenewSlack,
  MaxClock,          \* bound of the model: the last instant
  MaxRequests        \* bound of the model: requests ever started

SourceTypes == {"local_access_link", "remna_subscription"}
SourceRecord == [active : BOOLEAN, expires : Nat]
Kinds == {"exchange", "session", "config", "refresh", "logout"}

ASSUME DurationAssumption ==
  /\ SessionTTL \in Nat \ {0}
  /\ RefreshGrace \in Nat
  /\ CredentialTTL \in Nat \ {0}
  /\ RenewSlack \in Nat

ASSUME SourceAssumption ==
  /\ SourceType \in [Source -> SourceTypes]
  /\ SourceState \in [Source -> SUBSET SourceRecord]
  /\ AllowedNodeIDs \in [Source -> SUBSET Node]
  /\ LinkDefaultNode \in [Source -> Node \cup {NoNode}]
  /\ AccessSourceMode \in {"local_only", "remna_only", "remna_or_local"}

ASSUME IdentityAssumption ==
  /\ NoSession \notin Session
  /\ NoSource \notin Source
  /\ RegisteredRow \subseteq NodeRow
  /\ RequestKind \subseteq Kinds

ASSUME BoundAssumption == MaxClock \in Nat /\ MaxRequests \in Nat

VARIABLES
  clock,      \* time.Now(), in whole units
  source,     \* the links' and subscriptions' present state
  lastGood,   \* history: the last instant each source was valid
  nodes,      \* table nodes
  sess,       \* table browser_sessions
  cred,       \* table proxy_credentials, unique by (session_id, node_id)
  pc, req,    \* the requests in flight
  started,    \* how many requests were ever started
  held,       \* session tokens the clients were given
  handed,     \* proxy username and password pairs the clients were given
  loggedOut   \* sessions whose logout was answered with 200

world == <<clock, source, lastGood>>
database == <<nodes, sess, cred>>
clients == <<started, held, handed, loggedOut>>
vars == <<world, database, pc, req, clients>>

-----------------------------------------------------------------------------
(* Rows, and the pure decisions the handlers make on them.                 *)

\* Instant 0 is the zero time.Time: a subscription that never expires.
Before(t, now) == t < now

\* Tokens are numbered per session in the order they are minted; a row holds
\* the last one minted, so a new number is a fresh random token.
NoSessionRow ==
  [status |-> "none", source |-> NoSource, token |-> 0, expires |-> 0,
   created |-> 0, selected |-> NoNode]

\* Usernames are numbered per (session, node) in the same way.  The password
\* is an HMAC of session, node and version, so the version stands for it.
NoCredential == [user |-> 0, version |-> 0, expires |-> 0, revoked |-> FALSE]

NoRequest ==
  [kind |-> "none", session |-> NoSession, source |-> NoSource, token |-> 0,
   node |-> NoNode, expires |-> 0, now |-> 0, next |-> 0,
   link |-> [active |-> FALSE, expires |-> 0], user |-> 0, version |-> 0]

ValidateAccessLink(link, now) == link.active /\ ~Before(link.expires, now)

ValidateSubscription(subscription, now) ==
  /\ subscription.active
  /\ subscription.expires = 0 \/ ~Before(subscription.expires, now)

SourceValid(x, state, now) ==
  IF SourceType[x] = "local_access_link"
  THEN ValidateAccessLink(state, now)
  ELSE ValidateSubscription(state, now)

\* Mutant: the term of the subscription does not cut the lease.
UncappedExpiry(now, sourceExpires) == now + SessionTTL

\* The lease a source grants at an instant: the TTL, cut at its own expiry.
CappedExpiry(now, sourceExpires) ==
  IF sourceExpires # 0 /\ sourceExpires < now + SessionTTL
  THEN sourceExpires
  ELSE now + SessionTTL

PastGrace(expires, now) == Before(expires, now) /\ now - expires > RefreshGrace

\* A live session is written only when that gains more than the slack.
NeedsExtension(expires, next, now) ==
  ~(expires > now /\ next <= expires + RenewSlack)

CredentialUsable(row, now) == ~row.revoked /\ row.expires > now

ResolveNodes(x) ==
  IF SourceType[x] = "remna_subscription"
  THEN ResolveAllNodes(nodes)
  ELSE ResolveNodesForAccessLink(nodes, AllowedNodeIDs[x])

PreferredNode(x) ==
  IF SourceType[x] = "remna_subscription" THEN NoNode ELSE LinkDefaultNode[x]

\* GetCredentialBundleByUsername finds a row only by the username it has now.
StoresUsername(pair) ==
  LET row == cred[pair.session][pair.node]
  IN  row.user # 0 /\ row.user = pair.user

\* Mutant: the row's own revoked_at is trusted, the session is not looked at.
ValidateCredentialAlone(pair, daemon) ==
  LET row == cred[pair.session][pair.node]
  IN  /\ StoresUsername(pair)
      /\ ~row.revoked
      /\ ~Before(row.expires, clock)
      /\ ~Before(sess[pair.session].expires, clock)
      /\ nodes[pair.node].status = "online"
      /\ daemon \in {NoNode, pair.node}
      /\ row.version = pair.version

\* Mutant: the name of the asking daemon is not compared with the row's node.
ValidateForAnyDaemon(pair, daemon) ==
  LET row     == cred[pair.session][pair.node]
      session == sess[pair.session]
  IN  /\ StoresUsername(pair)
      /\ ~row.revoked
      /\ session.status = "active"
      /\ ~Before(row.expires, clock) /\ ~Before(session.expires, clock)
      /\ SourceType[session.source] = "local_access_link" =>
           ValidateAccessLink(source[session.source], clock)
      /\ nodes[pair.node].status = "online"
      /\ row.version = pair.version

\* Mutant: the link behind the session is not looked at.
ValidateWithoutLink(pair, daemon) ==
  LET row     == cred[pair.session][pair.node]
      session == sess[pair.session]
  IN  /\ StoresUsername(pair)
      /\ ~row.revoked
      /\ session.status = "active"
      /\ ~Before(row.expires, clock) /\ ~Before(session.expires, clock)
      /\ nodes[pair.node].status = "online"
      /\ daemon \in {NoNode, pair.node}
      /\ row.version = pair.version

(***************************************************************************)
(* ValidateProxyCredentialsForNode, asked by the daemon of a proxy node or *)
(* by the one that runs beside the backend and names no node: a pair       *)
(* carries the username and the version its password was derived of.       *)
(***************************************************************************)
ValidateProxyCredentials(pair, daemon) ==
  LET row     == cred[pair.session][pair.node]
      session == sess[pair.session]
  IN  /\ StoresUsername(pair)
      /\ ~row.revoked
      /\ session.status = "active"
      /\ ~Before(row.expires, clock) /\ ~Before(session.expires, clock)
      /\ SourceType[session.source] = "local_access_link" =>
           ValidateAccessLink(source[session.source], clock)
      /\ nodes[pair.node].status = "online"
      /\ daemon \in {NoNode, pair.node}
      /\ row.version = pair.version

StoredPair(s, n) ==
  [session |-> s, node |-> n, user |-> cred[s][n].user,
   version |-> cred[s][n].version]

\* Some username and password opens node n in the name of session s.
Admits(s, n) == ValidateProxyCredentials(StoredPair(s, n), n)

-----------------------------------------------------------------------------
(* The state in which the service starts, and how a worker moves on.       *)

Init ==
  /\ clock = 1
  /\ source \in [Source -> UNION {SourceState[x] : x \in Source}]
  /\ \A x \in Source : source[x] \in SourceState[x]
  /\ lastGood =
       [x \in Source |-> IF SourceValid(x, source[x], clock) THEN 1 ELSE 0]
  /\ nodes = [n \in Node |-> NoRow]
  /\ sess = [s \in Session |-> NoSessionRow]
  /\ cred = [s \in Session |-> [n \in Node |-> NoCredential]]
  /\ pc = [w \in Worker |-> "idle"]
  /\ req = [w \in Worker |-> NoRequest]
  /\ started = 0
  /\ held = [s \in Session |-> {}]
  /\ handed = {}
  /\ loggedOut = {}

Continue(w, label, request) ==
  /\ pc' = [pc EXCEPT ![w] = label]
  /\ req' = [req EXCEPT ![w] = request]

\* The request ends, answered with an error or not at all.
Drop(w) == Continue(w, "idle", NoRequest)

Begin(w, label, request) ==
  /\ pc[w] = "idle"
  /\ started < MaxRequests
  /\ request.kind \in RequestKind
  /\ started' = started + 1
  /\ Continue(w, label, request)
  /\ UNCHANGED <<world, database, held, handed, loggedOut>>

-----------------------------------------------------------------------------
(* Clients.                                                                *)

\* POST /browser/exchange-link: the row's id is a fresh uuid, reserved here.
StartExchange(w) == \E s \in Session, x \in Source :
  /\ sess[s].status = "none"
  /\ \A v \in Worker : req[v].session # s
  /\ Begin(w, IF AccessSourceMode = "local_only" THEN "link" ELSE "subscription",
           [NoRequest EXCEPT !.kind = "exchange", !.session = s, !.source = x])

\* GET /browser/session, POST /browser/logout, and proxy-config or pac-config
\* with a node_id or without; any token the client was ever given.
StartWithToken(w) ==
  \E s \in Session, k \in {"session", "logout", "config"}, n \in Node \cup {NoNode} :
    /\ k = "config" \/ n = NoNode
    /\ \E t \in held[s] :
         Begin(w, "load", [NoRequest EXCEPT !.kind = k, !.session = s,
                                            !.token = t, !.node = n])

\* POST /browser/refresh: the refresh token came with the first session token
\* and never changes.
StartRefresh(w) == \E s \in Session :
  /\ held[s] # {}
  /\ Begin(w, "load", [NoRequest EXCEPT !.kind = "refresh", !.session = s])

-----------------------------------------------------------------------------
(* Validating the session and its source: validateSessionBundle.           *)

\* getSessionBundle by token hash or refresh hash, joined with the link; a
\* token that was replaced finds no row, a revoked row is refused.
LoadSession(w) ==
  LET r   == req[w]
      row == sess[r.session]
      x   == row.source
  IN  /\ pc[w] = "load"
      /\ IF (r.kind = "refresh" \/ row.token = r.token) /\ row.status = "active"
         THEN Continue(w, "check",
                [r EXCEPT !.source = x, !.expires = row.expires, !.token = 0,
                          !.link = IF SourceType[x] = "local_access_link"
                                   THEN source[x] ELSE @])
         ELSE Drop(w)
      /\ UNCHANGED <<world, database, clients>>

AfterValidation(r) == IF r.kind = "refresh" THEN "rotate" ELSE "nodes"

\* What a validated request still carries: the rest of the bundle is not read
\* again, except that a refresh writes the bundle's expiry back.
Validated(r, expires) ==
  [r EXCEPT !.expires = IF r.kind = "refresh" THEN expires ELSE 0,
            !.now = 0, !.next = 0, !.link = NoRequest.link]

\* The rest of validateSessionBundle and renewSession, once the source is
\* known to be valid: "now" is the instant the validation began.
Renew(w, r, sourceExpires) ==
  LET next == CappedExpiry(r.now, sourceExpires)
  IN  IF PastGrace(r.expires, r.now) \/ next <= r.now
      THEN Drop(w)
      ELSE IF NeedsExtension(r.expires, next, r.now)
           THEN Continue(w, "extend", [r EXCEPT !.next = next])
           ELSE Continue(w, AfterValidation(r), Validated(r, r.expires))

\* Mutant: Remnawave is not asked while the lease it granted is running.
CheckWhenOver(w) ==
  LET r == [req[w] EXCEPT !.now = clock]
  IN  /\ pc[w] = "check"
      /\ IF SourceType[r.source] = "remna_subscription"
         THEN IF Before(r.expires, clock)
              THEN Continue(w, "subscription", r)
              ELSE Continue(w, AfterValidation(r), Validated(r, r.expires))
         ELSE IF ValidateAccessLink(r.link, clock)
              THEN Renew(w, r, r.link.expires)
              ELSE Drop(w)
      /\ UNCHANGED <<world, database, clients>>

\* The clock is read; a local link is judged by the joined snapshot.
CheckSource(w) ==
  LET r == [req[w] EXCEPT !.now = clock]
  IN  /\ pc[w] = "check"
      /\ IF SourceType[r.source] = "remna_subscription"
         THEN Continue(w, "subscription", r)
         ELSE IF ValidateAccessLink(r.link, clock)
              THEN Renew(w, r, r.link.expires)
              ELSE Drop(w)
      /\ UNCHANGED <<world, database, clients>>

(***************************************************************************)
(* GetSubscriptionByShortUUID.  Each endpoint answers with the source as   *)
(* it is at that moment, or with an error; the answer is on its way while  *)
(* the clock and the source move on, and is judged when it arrives.        *)
(***************************************************************************)
RemnaAnswers(w) ==
  LET r == req[w]
  IN  /\ AccessSourceMode # "local_only"
      /\ SourceType[r.source] = "remna_subscription"
      /\ Continue(w, "judge", [r EXCEPT !.link = source[r.source]])

\* A source that fails for whatever reason: a session is to be revoked, an
\* exchange is refused.
RefuseSource(w) ==
  LET r == req[w]
  IN  IF r.kind = "exchange" THEN Drop(w)
      ELSE Continue(w, "disown",
             [r EXCEPT !.expires = 0, !.now = 0, !.link = NoRequest.link])

\* A call that ends in not found or unauthorized goes on to the other endpoint;
\* without an API token that one is the only one.
AskRemna(w) ==
  /\ pc[w] = "subscription"
  /\ \/ RemnaAnswers(w)
     \/ AccessSourceMode # "local_only" /\ Continue(w, "compatibility", req[w])
     \/ RefuseSource(w)
  /\ UNCHANGED <<world, database, clients>>

\* An exchange whose link Remnawave does not know falls back to the local links
\* where the mode says so.
AskCompatibility(w) ==
  /\ pc[w] = "compatibility"
  /\ \/ RemnaAnswers(w)
     \/ RefuseSource(w)
     \/ /\ req[w].kind = "exchange"
        /\ SourceType[req[w].source] = "local_access_link"
        /\ AccessSourceMode = "remna_or_local"
        /\ Continue(w, "link", req[w])
  /\ UNCHANGED <<world, database, clients>>

\* validateRemnaSubscription reads the clock again.
JudgeAnswer(w) ==
  LET r == req[w]
  IN  /\ pc[w] = "judge"
      /\ IF ~ValidateSubscription(r.link, clock) THEN RefuseSource(w)
         ELSE IF r.kind = "exchange" THEN Continue(w, "nodes", r)
         ELSE Renew(w, r, r.link.expires)
      /\ UNCHANGED <<world, database, clients>>

\* FindAccessLinkByTokenHash and validateAccessLink.
FindAccessLink(w) ==
  LET r == req[w]
  IN  /\ pc[w] = "link"
      /\ IF /\ SourceType[r.source] = "local_access_link"
            /\ ValidateAccessLink(source[r.source], clock)
         THEN Continue(w, "nodes", r)
         ELSE Drop(w)
      /\ UNCHANGED <<world, database, clients>>

\* Mutant: the lease is computed when it is written, not when it was granted.
ExtendSessionFromNow(w) ==
  LET r == req[w]
  IN  /\ pc[w] = "extend"
      /\ sess' = [sess EXCEPT ![r.session].expires = clock + SessionTTL]
      /\ Continue(w, AfterValidation(r), Validated(r, clock + SessionTTL))
      /\ UNCHANGED <<world, nodes, cred, clients>>

\* Mutant: a renewal also writes the status it validated.
ExtendAndReactivate(w) ==
  LET r == req[w]
  IN  /\ pc[w] = "extend"
      /\ sess' = [sess EXCEPT ![r.session].expires = r.next,
                              ![r.session].status = "active"]
      /\ Continue(w, AfterValidation(r), Validated(r, r.next))
      /\ UNCHANGED <<world, nodes, cred, clients>>

\* UPDATE browser_sessions SET expires_at WHERE id: whatever the row says now.
ExtendSession(w) ==
  LET r == req[w]
  IN  /\ pc[w] = "extend"
      /\ sess' = [sess EXCEPT ![r.session].expires = r.next]
      /\ Continue(w, AfterValidation(r), Validated(r, r.next))
      /\ UNCHANGED <<world, nodes, cred, clients>>

\* RotateSessionToken writes a new hash and the bundle's expiry back.
RotateSessionToken(w) ==
  LET r     == req[w]
      token == sess[r.session].token + 1
  IN  /\ pc[w] = "rotate"
      /\ sess' = [sess EXCEPT ![r.session] =
                    [@ EXCEPT !.token = token, !.expires = r.expires]]
      /\ Continue(w, "nodes", [r EXCEPT !.token = token, !.expires = 0])
      /\ UNCHANGED <<world, nodes, cred, clients>>

\* Mutant: the row is marked with a status the schema does not know.
MarkedInactive(s) ==
  /\ sess' = [sess EXCEPT ![s].status = "inactive"]
  /\ UNCHANGED cred

RevokedCredential(row) ==
  [user |-> row.user, version |-> row.version, expires |-> row.expires,
   revoked |-> TRUE]

\* RevokeSession, one transaction over both tables.
Revoked(s) ==
  /\ sess' = [sess EXCEPT ![s].status = "revoked"]
  /\ cred' = [cred EXCEPT ![s] =
                [n \in Node |-> IF cred[s][n].user = 0 THEN cred[s][n]
                                ELSE RevokedCredential(cred[s][n])]]

\* The revocation after a failed source check; the request is refused anyway.
DisownSession(w) ==
  /\ pc[w] = "disown"
  /\ Revoked(req[w].session)
  /\ Drop(w)
  /\ UNCHANGED <<world, nodes, clients>>

LogoutSession(w) ==
  /\ pc[w] = "revoke"
  /\ Revoked(req[w].session)
  /\ Continue(w, "reply", req[w])
  /\ UNCHANGED <<world, nodes, clients>>

-----------------------------------------------------------------------------
(* Resolving nodes.                                                        *)

\* ListNodes inside ValidateSession, RefreshSession or the exchange; an empty
\* resolution refuses the request.  TouchSessionSeen changes nothing here.
ListSessionNodes(w) ==
  LET r      == req[w]
      listed == ResolveNodes(r.source)
      next   == [session |-> "reply", refresh |-> "reply",
                 config |-> "pick", logout |-> "revoke"]
      cap    == IF SourceType[r.source] = "remna_subscription"
                THEN r.link.expires ELSE 0
  IN  /\ pc[w] = "nodes"
      /\ \/ listed = {} /\ Drop(w)
         \/ /\ listed # {} /\ r.kind # "exchange"
            /\ Continue(w, next[r.kind], r)
         \/ /\ listed # {} /\ r.kind = "exchange"
            /\ \E d \in DefaultCandidates(nodes, listed, PreferredNode(r.source)) :
                 Continue(w, "insert",
                   [r EXCEPT !.node = d, !.next = CappedExpiry(clock, cap)])
      /\ UNCHANGED <<world, database, clients>>

\* The second resolution in GetProxyConfig and GetPacConfig: the asked node,
\* else the one selected at creation, must be listed and exactly "online".
PickNode(w) ==
  LET r      == req[w]
      target == IF r.node = NoNode THEN sess[r.session].selected ELSE r.node
  IN  /\ pc[w] = "pick"
      /\ IF target \in ResolveNodes(r.source) /\ nodes[target].status = "online"
         THEN Continue(w, "credential", [r EXCEPT !.node = target])
         ELSE Drop(w)
      /\ UNCHANGED <<world, database, clients>>

\* createBrowserSession inserts the row with the expiry computed before.
CreateSession(w) ==
  LET r == req[w]
  IN  /\ pc[w] = "insert"
      /\ sess' = [sess EXCEPT ![r.session] =
                    [status |-> "active", source |-> r.source, token |-> 1,
                     expires |-> r.next, created |-> clock, selected |-> r.node]]
      /\ Continue(w, "credential", [r EXCEPT !.token = 1, !.next = 0,
                                            !.link = NoRequest.link])
      /\ UNCHANGED <<world, nodes, cred, clients>>

-----------------------------------------------------------------------------
(* Proxy credentials: ensureProxyCredential.                               *)

SelectCredential(w) ==
  LET r   == req[w]
      row == cred[r.session][r.node]
  IN  /\ pc[w] = "credential"
      /\ IF row.user # 0 /\ CredentialUsable(row, clock)
         THEN Continue(w, "reply", [r EXCEPT !.user = row.user,
                                             !.version = row.version])
         ELSE Continue(w, IF row.user = 0 THEN "create" ELSE "renew",
                [r EXCEPT !.version = row.version + 1,
                          !.next = clock + CredentialTTL])
      /\ UNCHANGED <<world, database, clients>>

\* A row as it is written: a username nobody had before, and a password of
\* the version.
IssuedCredential(row, version, expires) ==
  [user |-> row.user + 1, version |-> version, expires |-> expires,
   revoked |-> FALSE]

\* Mutant: an insert that meets the unique index is tried again as it is.
CreateUntilAccepted(w) ==
  LET r == req[w]
  IN  /\ pc[w] = "create"
      /\ IF cred[r.session][r.node].user = 0
         THEN /\ cred' = [cred EXCEPT ![r.session][r.node] =
                            IssuedCredential(@, r.version, r.next)]
              /\ Continue(w, "reply", [r EXCEPT !.user = 1, !.next = 0])
         ELSE Continue(w, "create", r) /\ UNCHANGED cred
      /\ UNCHANGED <<world, nodes, sess, clients>>

\* Mutant: INSERT OR REPLACE takes the row another request has just made.
CreateOrReplace(w) ==
  LET r    == req[w]
      made == IssuedCredential(cred[r.session][r.node], r.version, r.next)
  IN  /\ pc[w] = "create"
      /\ cred' = [cred EXCEPT ![r.session][r.node] = made]
      /\ Continue(w, "reply", [r EXCEPT !.user = made.user, !.next = 0])
      /\ UNCHANGED <<world, nodes, sess, clients>>

\* INSERT of a fresh username; the unique index on (session_id, node_id)
\* refuses a second row.
CreateProxyCredential(w) ==
  LET r    == req[w]
      made == IssuedCredential(cred[r.session][r.node], r.version, r.next)
  IN  /\ pc[w] = "create"
      /\ IF cred[r.session][r.node].user = 0
         THEN /\ cred' = [cred EXCEPT ![r.session][r.node] = made]
              /\ Continue(w, "reply", [r EXCEPT !.user = made.user, !.next = 0])
         ELSE Drop(w) /\ UNCHANGED cred
      /\ UNCHANGED <<world, nodes, sess, clients>>

\* Mutant: a rotation changes the password and keeps the name.
RotatePasswordOnly(w) ==
  LET r == req[w]
  IN  /\ pc[w] = "renew"
      /\ cred' = [cred EXCEPT ![r.session][r.node] =
                    [user |-> @.user, version |-> r.version,
                     expires |-> r.next, revoked |-> FALSE]]
      /\ Continue(w, "readback", [r EXCEPT !.version = 0, !.next = 0])
      /\ UNCHANGED <<world, nodes, sess, clients>>

\* UPDATE by row id: a new username, the version read before plus one, and
\* revoked_at cleared.
RotateProxyCredential(w) ==
  LET r == req[w]
  IN  /\ pc[w] = "renew"
      /\ cred' = [cred EXCEPT ![r.session][r.node] =
                    IssuedCredential(@, r.version, r.next)]
      /\ Continue(w, "readback", [r EXCEPT !.version = 0, !.next = 0])
      /\ UNCHANGED <<world, nodes, sess, clients>>

\* The SELECT that ends RotateProxyCredential: what is there by now.
ReadBackCredential(w) ==
  LET r   == req[w]
      row == cred[r.session][r.node]
  IN  /\ pc[w] = "readback"
      /\ Continue(w, "reply", [r EXCEPT !.user = row.user,
                                        !.version = row.version])
      /\ UNCHANGED <<world, database, clients>>

-----------------------------------------------------------------------------
(* The end of a request, and what happens around the service.              *)

\* The client receives the answer: a session token, a credential pair, or 200.
Reply(w) ==
  LET r == req[w]
  IN  /\ pc[w] = "reply"
      /\ held' = IF r.kind \in {"exchange", "refresh"}
                 THEN [held EXCEPT ![r.session] = @ \cup {r.token}] ELSE held
      /\ handed' = IF r.kind = "config"
                   THEN handed \cup {[session |-> r.session, node |-> r.node,
                                      user |-> r.user, version |-> r.version]}
                   ELSE handed
      /\ loggedOut' = IF r.kind = "logout"
                      THEN loggedOut \cup {r.session} ELSE loggedOut
      /\ Drop(w)
      /\ UNCHANGED <<world, database, started>>

\* Any call may fail instead (SQLITE_BUSY, a cancelled request, a restart of
\* the process), and an answer may be lost: what was written stays written.
Abort(w) ==
  /\ pc[w] # "idle"
  /\ Drop(w)
  /\ UNCHANGED <<world, database, clients>>

Seen(state, now) ==
  [x \in Source |-> IF SourceValid(x, state[x], now) THEN now ELSE lastGood[x]]

Tick ==
  /\ clock < MaxClock
  /\ clock' = clock + 1
  /\ lastGood' = Seen(source, clock')
  /\ UNCHANGED <<source, database, pc, req, clients>>

\* An operator or the subscription service changes a source.
ChangeSource == \E x \in Source :
  /\ \E state \in SourceState[x] : source' = [source EXCEPT ![x] = state]
  /\ lastGood' = Seen(source', clock)
  /\ UNCHANGED <<clock, database, pc, req, clients>>

\* A transaction or a marking of the node registry.
WriteNodes == \E table \in [Node -> RegisteredRow \cup {NoRow}] :
  /\ TableChange(nodes, table)
  /\ nodes' = table
  /\ UNCHANGED <<world, sess, cred, pc, req, clients>>

Serve(w) ==
  \/ LoadSession(w)
  \/ CheckSource(w)
  \/ AskRemna(w)
  \/ AskCompatibility(w)
  \/ JudgeAnswer(w)
  \/ FindAccessLink(w)
  \/ ExtendSession(w)
  \/ RotateSessionToken(w)
  \/ DisownSession(w)
  \/ LogoutSession(w)
  \/ ListSessionNodes(w)
  \/ PickNode(w)
  \/ CreateSession(w)
  \/ SelectCredential(w)
  \/ CreateProxyCredential(w)
  \/ RotateProxyCredential(w)
  \/ ReadBackCredential(w)
  \/ Reply(w)

Next ==
  \/ \E w \in Worker :
       StartExchange(w) \/ StartWithToken(w) \/ StartRefresh(w) \/ Serve(w) \/ Abort(w)
  \/ Tick
  \/ ChangeSource
  \/ WriteNodes

Spec == Init /\ [][Next]_vars

\* Every call a handler makes returns: statements have a busy timeout and the
\* Remnawave client a deadline.  Clients, the clock and operators owe nothing.
FairSpec == Spec /\ \A w \in Worker : WF_vars(Serve(w))

-----------------------------------------------------------------------------
(* Types.                                                                  *)

SessionRow ==
  [status : {"none", "active", "revoked"}, source : Source \cup {NoSource},
   token : Nat, expires : Nat, created : Nat, selected : Node \cup {NoNode}]

CredentialRow ==
  [user : Nat, version : Nat, expires : Nat, revoked : BOOLEAN]

Pair == [session : Session, node : Node, user : Nat, version : Nat]

Label ==
  {"idle", "load", "check", "subscription", "compatibility", "judge", "link",
   "extend", "rotate", "disown", "revoke", "nodes", "pick", "insert", "credential", "create",
   "renew", "readback", "reply"}

Request ==
  [kind : Kinds \cup {"none"}, session : Session \cup {NoSession},
   source : Source \cup {NoSource}, token : Nat, node : Node \cup {NoNode},
   expires : Nat, now : Nat, next : Nat, link : SourceRecord,
   user : Nat, version : Nat]

CredentialLabels == {"credential", "create", "renew", "readback"}

\* What a request in flight holds at a label: the session it is for, the
\* source once the row was read, and the node once one was picked.
Shaped(label, r) ==
  /\ label # "idle" => r.session \in Session /\ r.kind \in Kinds
  /\ label \notin {"idle", "load"} => r.source \in Source
  /\ label \in CredentialLabels \cup {"insert"} => r.node \in Node
  /\ label = "revoke" => r.kind = "logout"
  /\ label = "reply" /\ r.kind = "config" => r.node \in Node

\* Every variable has the shape its table, record or set has in the code, and
\* a request in flight names the session, the source and the node that the
\* step it stands at works on.
TypeOK ==
  /\ clock \in Nat
  /\ source \in [Source -> SourceRecord]
  /\ lastGood \in [Source -> Nat]
  /\ nodes \in [Node -> NodeRow]
  /\ sess \in [Session -> SessionRow]
  /\ cred \in [Session -> [Node -> CredentialRow]]
  /\ pc \in [Worker -> Label]
  /\ req \in [Worker -> Request]
  /\ \A w \in Worker : Shaped(pc[w], req[w])
  /\ started \in Nat
  /\ held \in [Session -> SUBSET Nat]
  /\ handed \subseteq Pair
  /\ loggedOut \subseteq Session

-----------------------------------------------------------------------------
(* Safety.                                                                 *)

\* How long a session may outlive its source: a local link is checked by the
\* proxy itself, a subscription only when the client calls the backend.
AccessDeadline(s) ==
  LET x == sess[s].source
  IN  IF SourceType[x] = "local_access_link"
      THEN lastGood[x]
      ELSE lastGood[x] + SessionTTL

\* Proxy auth never asks Remnawave: once a source stops being valid, no pair a
\* client was ever handed opens a node later than one session TTL after the
\* source's last valid instant, and not even then for a local link, no matter
\* which requests were in flight; a source that was never valid opens nothing.
\* An exchange judged before that instant may insert a session after it, with
\* a whole TTL: its client gets no pair before the source is judged again.
BoundedExposure ==
  \A pair \in handed, daemon \in Node \cup {NoNode} :
    ValidateProxyCredentials(pair, daemon) =>
      /\ lastGood[sess[pair.session].source] > 0
      /\ clock <= AccessDeadline(pair.session)

\* Access ends with the paid term: where every state a source takes has an end,
\* no renewal or refresh carries a session past the latest of them.
AccessEndsWithTerm ==
  \A s \in Session, n \in Node : Admits(s, n) =>
    \E state \in SourceState[sess[s].source] :
      state.expires = 0 \/ clock <= state.expires

\* After a logout was answered no pair of the session opens any node, even if
\* a slower request extends the row or clears a credential's revoked_at.
LogoutShutsAccess ==
  \A s \in loggedOut, n \in Node : ~Admits(s, n)

\* A pair whose username is still stored carries the stored password version:
\* two requests rotating one row never leave a client with a name that is
\* known and a password that is not.
HandedPairsMatchStore ==
  \A p \in handed :
    LET row == cred[p.session][p.node]
    IN  row.user = p.user => row.version = p.version

\* A link restricted to some nodes yields credentials for no other node: not
\* through its preferred default, an explicit node_id or the selected node.
CredentialsOnAllowedNodes ==
  \A s \in Session, n \in Node :
    cred[s][n].user # 0 =>
      LET allowed == AllowedNodeIDs[sess[s].source]
      IN  \/ SourceType[sess[s].source] = "remna_subscription"
          \/ allowed = {}
          \/ n \in allowed

Ended(s, n) == cred[s][n].expires <= clock \/ sess[s].status = "revoked"

\* The credential first made for a node keeps its name for its whole term as
\* long as the session lives: no race of requests replaces it early.
FirstCredentialRunsItsTerm ==
  [][\A s \in Session, n \in Node :
       cred[s][n].user = 1 /\ cred'[s][n].user # 1 => Ended(s, n)]_vars

-----------------------------------------------------------------------------
(* The promise this module implements.                                     *)

Lease == INSTANCE LeasedAccess WITH
  Leased <- {x \in Source : SourceType[x] = "remna_subscription"},
  TTL    <- SessionTTL,
  now    <- clock,
  good   <- lastGood,
  phase  <- [s \in Session |-> sess[s].status],
  owner  <- [s \in Session |-> sess[s].source],
  opened <- [s \in Session |-> sess[s].created],
  lease  <- [s \in Session |-> sess[s].expires]

\* Reading rows, calling Remnawave and writing rows in separate statements,
\* the handlers together still do what LeasedAccess promises: a revoked
\* session stays revoked and no late write carries a lease too far.
ImplementsLeasedAccess == Lease!Spec

-----------------------------------------------------------------------------
(* Liveness.                                                               *)

\* Every request ends, answered or refused, whatever the other requests, the
\* clock and the registry do: no handler loops and none waits for another.
EveryRequestEnds == \A w \in Worker : pc[w] # "idle" ~> pc[w] = "idle"

-----------------------------------------------------------------------------
(* What the documentation says and the code does not do.                   *)

\* README.md on POST /browser/logout: "revokes the session plus proxy
\* credentials".  A config request past its SELECT writes the row afterwards.
LogoutRevokesCredentials ==
  \A s \in loggedOut, n \in Node : cred[s][n].user # 0 => cred[s][n].revoked

\* README.md: "Remnawave failures are fail-closed and revoke the local
\* session".  The UPDATE may fail with the request's context; it is logged.
FailedSourceRevokesSession ==
  [][\A w \in Worker : pc[w] = "disown" /\ pc'[w] = "idle" =>
       sess'[req[w].session].status = "revoked"]_vars

\* README.md on HTTP 401: "invalid, missing, revoked, or expired session
\* token".  Within the grace window an expired token is renewed instead.
ExpiredTokenRefused ==
  \A w \in Worker : pc[w] = "extend" /\ req[w].kind # "refresh" =>
    ~Before(req[w].expires, req[w].now)

\* README.md on proxy_credentials: "`expires_at`: proxy credential TTL".  Two
\* requests that both saw an expired row rotate it twice, and the first client
\* holds a name that is already gone.
CredentialRunsItsTerm ==
  [][\A s \in Session, n \in Node :
       cred[s][n].user # 0 /\ cred'[s][n].user # cred[s][n].user =>
         Ended(s, n)]_vars
=============================================================================
