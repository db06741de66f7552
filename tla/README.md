# A TLA+ model of the VLF Chrome proxy backend

The backend lets a browser extension turn a subscription link into temporary
HTTPS proxy credentials. Its security rests on a promise about time: access
ends soon after the subscription, link or session behind it ends, although the
proxies never ask the subscription service and many requests of one browser
are served at once. This project models that core, the proxy daemons in front
of it, the registry of nodes beside it and the migration of the database under
it, checks them with TLC and proves the main results with TLAPS.

Paths are relative to `src/backend/` unless they begin with `src/`.

## 1. The system

| Component | State | Operations | Code |
|---|---|---|---|
| Session core | table `browser_sessions`; an in-memory bundle per request | exchange, session, proxy-config, pac-config, refresh, logout | `internal/service/service.go` 182-559, 1046-1193 |
| Proxy credentials | table `proxy_credentials`, unique by session and node | ensure: select, insert, rotate, read back | `service.go` 1006-1044, `internal/repository/repository.go` 626-711 |
| Proxy authentication | reads both tables, the link and the node | `ValidateProxyCredentialsForNode` | `service.go` 951-989 |
| Node registry | table `nodes` | register, sync from Remnawave, import of `nodes.json`, list | `service.go` 561-945, `repository.go` 239-369, `internal/app/app.go` 90-167 |
| Access links | table `access_links` | create (admin), find by token hash | `repository.go` 124-237, `cmd/admin/main.go` |
| Remnawave client | none (remote) | subscription by short uuid, list nodes | `internal/remna/client.go` |
| HTTP API | none | routes, bearer and node tokens, CORS | `internal/httpapi/server.go` |
| Proxy daemon | open tunnels | authenticate, CONNECT, forward, register itself | `cmd/https-proxyd/main.go` |
| Storage | the SQLite file | open, migrate | `internal/sqliteutil/sqlite.go` |
| Runtime | background sync loop | start, periodic sync, close | `internal/app/app.go` |
| Tokens, config, PAC text, logging, installer | none that a decision reads | | the remaining files |

How they interact:

* The API serves each request in a goroutine of its own. There is no lock in
  the service; a handler is a sequence of autocommit SQL statements and at most
  one logical request to Remnawave. Only `RevokeSession` and `UpsertNodes` are
  transactions. What a handler read stays in its memory (the *bundle*) and is
  used and written back after other requests changed the row.
* The proxy daemon runs in a process of its own. Beside the backend it opens
  the same SQLite file; on a remote node it asks `/internal/proxy/validate-credentials`.
  In either case one query joins credential, session, link and node, and the
  verdict is computed from that snapshot.
* Remnawave is asked when a subscription is exchanged and whenever one of its
  sessions is validated, never when a proxy authenticates.
* Node rows are written by registration, the background sync, a forced sync and
  the file import while sessions list them. A sync takes up to a probe deadline
  per row and writes in two statements at its end.
* Every process, the API and the daemon beside it, migrates the one file when
  it starts, and both are started together and restarted when they fail.

What is hard in it: reads and writes of one row by several requests in separate
statements (expiry, token, password version, revocation); an answer computed
before a remote call and written after it; errors and cancelled contexts
between two statements; leases, credentials and terms that end in the middle of
a request; nodes that come and go between two listings of one request; a verdict
or a Remnawave answer that is out of date when it arrives; tunnels whose peers
leave in any order; a table rebuilt under a process that is serving it.

What would make each part correct:

* *Sessions*: no pair a client was handed opens a node later than one TTL after
  its source was last valid; a revoked session stays revoked; every request ends.
* *Credentials*: what a client was handed is what the table holds, or its name
  is gone; a session never gets a credential for a node outside its allow list.
* *Authentication*: nothing is admitted after logout, revocation or expiry.
* *Registry*: no default beside another, unless `nodes.json` itself marks both; nothing unprobed is offered; in the end what
  is dead is not offered and what works is.
* *Migration*: no interleaving or stop loses a row or serves an old schema.
* *Daemon*: nobody is let through on a verdict given after the end of the
  session's access; no connection outlives its request; every tunnel ends.

`PROJECT.json` lists the hazards at their lines.

## 2. Modules

| Module | What it is |
|---|---|
| `Nodes` | The `nodes` table as sessions read it: listing, the two resolutions, the possible defaults, and `TableChange`, what any write may do to it. Pure operators. |
| `BrowserSessions` | The session core, credentials, proxy authentication and the subscription half of the Remnawave client: the state machine. |
| `LeasedAccess` | The abstract promise: leases that are opened, renewed and closed, without requests or rows. |
| `BrowserSessionsInvariant` | The inductive invariant `LeaseInv`. |
| `ProxyDaemon` | The daemons, composed with the session core: extends `BrowserSessions`. |
| `RemnaListing` | From a listing of machines to node rows, and what the matching of endpoints promises. Pure operators. |
| `NodeRegistry` | Everything that writes the `nodes` table: extends `RemnaListing`. |
| `SchemaMigration` | `Migrate` in several processes. |
| `MCBrowserSessions`, `MCProxyDaemon`, `MCNodeRegistry` | Values for TLC; `SchemaMigration` needs none. |
| `BrowserSessionsProofs` | Type correctness of the core, and that requests only advance. |
| `BrowserSessionsExposure` | `LeaseInv` is an invariant, and the three safety properties follow. |
| `BrowserSessionsCredentials` | The three properties of credentials, and two more of sessions whose requests do not overlap. |
| `BrowserSessionsRefinement` | The handlers implement `LeasedAccess`. |
| `LeasedAccessProofs` | What `LeasedAccess` itself guarantees. |
| `ProxyDaemonProofs` | The core under the daemons is the core alone, and the safety of the daemons. |
| `NodeRegistryProofs` | Types and safety of the registry, and the matching of endpoints. |
| `SchemaMigrationProofs` | Types of the migration, that nobody serves an old schema, and which processes keep which rows. |

How they compose:

* **Core and daemon.** A step of the system is a step of `BrowserSessions` in
  which the daemons stand still, or a step of a daemon that leaves the core
  alone (`DaemonsOnlyWatch`). So every theorem of the core holds of the system.
* **Core and registry.** `NodeRegistry` does not extend the core; the two meet
  in `TableChange`. `WriteNodes` lets the core's table change in any way
  `TableChange` allows, and `WritesAreTableChanges` says that no write of the
  registry does more. Between them nothing else is shared: the core never
  writes the table. Checking either alone is then as good as checking both.
* **Migration.** It ends before a process serves; what the core assumes of it is
  that the table is there in today's schema, `ServesCurrentSchema`.

### How `BrowserSessions` corresponds to the code

* **Tables.** `sess`, `cred` and `nodes` are functions from ids to rows. A row
  that does not exist has status `"none"` or user 0; session rows and
  credentials are never deleted. `status` and `revoked_at` of a session are
  always written together and are one field. `selected_node_id` is the only
  node column a decision reads.
* **Tokens and names.** The n-th token minted for a session is the number n;
  the row keeps the last one. Usernames are numbered in the same way. The
  password is an HMAC of session, node and version, so a pair carries the
  version. Two random values or HMACs are taken to be different.
* **Requests.** `pc[w]` names the call worker w makes next and `req[w]` is what
  it holds in memory. One action is one statement or one remote answer with
  all the computation up to the next call: `CheckSource`, for example, reads
  the clock, judges a local link by the snapshot joined earlier, and decides
  whether the lease is to be extended; the UPDATE itself is `ExtendSession`, and
  anything may happen in between.
* **Order of a validated request.** `load`, `check`, `subscription`, `compatibility` and
  `judge` (only for a subscription), `extend` (only when the row gains from it), then `rotate` for
  a refresh, `nodes`, and `pick` with `credential`, `create` or `renew` with
  `readback` for a config, or `revoke` for a logout; `reply` hands the answer
  to the client.
* **Failures.** `Abort` ends a request before any call: a busy database, a
  cancelled context, a process restart, a lost answer. What was written stays.
  A source check that fails goes to `disown`, whose revocation may itself be
  aborted, as in the code, which only logs that error.
* **Surroundings.** `Tick` is the clock, `ChangeSource` the operator or the
  subscription service, `WriteNodes` the registry. `lastGood` is a history
  variable: the last instant each source was valid.
* **Remnawave.** `AskRemna` and `AskCompatibility` are the two endpoints. An
  answer is formed in one step (`RemnaAnswers`, the source as it is then) and
  judged in a later one (`JudgeAnswer`), with the clock read anew as
  `validateRemnaSubscription` does: in between the source may be cut off and
  time may pass. Not found and unauthorized go on from the first endpoint to the
  second; every other error, and every error of the second, refuses. Only an
  exchange in mode `remna_or_local` then looks among the local links.
* **Authentication.** `ValidateProxyCredentials` is an operator, since it is one
  query and writes nothing that is read. `Admits(s, n)` says that some username
  and password opens node n for session s, by the pair the row now has: any
  other name is not found and any other version fails. A daemon that names no
  node accepts a pair of every node; the remaining conditions are the same, so
  `Admits` covers it.

### How `ProxyDaemon` corresponds to the code

`conn[c]` is the request a client's connection c is serving and `DaemonNode[c]`
the node its daemon serves. `AskedAs(c)` is the node the daemon names when it
asks: a proxy node names its own, while the daemon in the backend's process
(`Beside`) asks the service directly and names none.

* `SendProxyRequest` shows any pair that was ever handed to a client, to any
  daemon. `JudgePair` is `ValidateProxyCredentialsForNode` at the backend, one
  query; the verdict is used in `AcceptVerdict`, and the core may move on in
  between. `RefuseRequest` is every way to 403 or 407, a lost answer included.
* `Dial` may fail. After it a forward request ends in one step, while a CONNECT
  has `FailHijack` and `OpenTunnel`.
* In a tunnel each direction is a goroutine in `io.Copy`, which reads
  (`ReadBytes`) and then is blocked in Write until the destination took it
  (`WriteEnds`). It returns when it reads the end of its source (`CopyEnds`) or
  when its destination left or was closed under a Write (`WriteFails`); it reports
  to the channel (`SendDone`) and is gone. `CloseBoth` is what follows `<-done`.
  A peer that leaves is not a closed socket: `"gone"` and `"closed"` differ, and
  the daemon has to close both. Bytes are not modelled.
* `RestartDaemon` ends all requests of one daemon.

### How `NodeRegistry` corresponds to the code

A row is its status, default flag, country and *endpoint*, which stands for host,
port, scheme and pac support: the code always moves these four together. `Fleet`
is the machines in view order; `usable` those Remnawave lists as enabled,
connected and tagged, `alive` the endpoints that pass the TLS probe. Both change
at any time.

* A sync is `ListRemnaNodes`, `ListRegistered`, one `ProbeRegistered` per row it
  read, `MatchEndpoints`, one `FilterNode` per entry, `FinishFilter`,
  `WriteSynced` (a transaction) and `MarkUnsynced` (one statement). It holds what
  it read in `sync[s]`. Two syncs may be under way: the loop's and a forced one.
* A registration is `CheckRegistration`, which probes, and `StoreRegistration`;
  the daemon may send it again after a lost answer.
* `ImportFile` is a process that starts beside the API, `RestartAPI` the API
  itself: what is in flight is gone and `nodes.json` is upserted again.
* `RemnaListing` holds the computation: numbering by country, and
  `ApplyRegisteredEndpoints`, the two passes of the matching in the order of the
  code. The endpoints in use after each place of the second pass are a recursive
  function, `UsedUpTo`. Candidates are sorted by their ids in lower case; which of
  two ids that differ in case alone comes first is left open (`First`): the code
  keeps them in the order of the table. `FairMatching` says what the passes are
  for without saying how.

### How `SchemaMigration` corresponds to the code

`main` and `spare` are `browser_sessions` and `browser_sessions_new`: whether
they exist, whether access_link_id is still NOT NULL, which of the added columns
they have, and their rows. `pc[p]` is the statement process p executes next; each
is autocommit, so each is an action. A row is its id, which is all the primary
key and the copy need. The other tables are created where they are missing and
stay; with foreign keys off a rebuild does not touch them. `Fail` is an error
Migrate returns, on which the process exits; `Crash` stops a process from
outside, between any two statements or once it is up; `Restart` follows either
and runs `Migrate` from its beginning. `Init` starts from every schema `Migrate` can
tell apart: no table, the first release's, or one with any of the columns missing.

### Abstractions that bear on the results

* Time is counted in units and an action happens at one instant. The minute of
  slack in `renewSession` is `RenewSlack`.
* Nothing bounds how long an answer of Remnawave or a verdict of the backend is
  under way, although both clients have deadlines: the results do not need them.
* A source has one state and one type; the errors of the Remnawave client are
  one refusal, because the handlers treat them alike.
* The allow list and preferred node of a link are constants: no operation of
  the program changes them.

## 3. What the runs check

| Run | Asks | Instance |
|---|---|---|
| `exposure` | `TypeOK`, `LeaseInv`, `BoundedExposure`, `AccessEndsWithTerm`, `LogoutShutsAccess`, `ImplementsLeasedAccess` | one subscription (paid to 3, prolonged to 4, cut off), exchange, config, refresh and logout (a session request is a config that stops early), 2 workers, 3 requests, clock to 5 |
| `requests` | `HandedPairsMatchStore`, `FirstCredentialRunsItsTerm`, `EveryRequestEnds` | a steady link, two nodes under both spellings of online, exchange, config and logout, mode `remna_or_local` so that the exchange asks Remnawave first, credentials of one unit, 2 workers, 4 requests, clock to 2, under fairness, no symmetry |
| `daemon` | `DaemonTypeOK`, `AdmittedInTime`, `BoundedExposure`, `TunnelsOnAllowedNodes`, `UpstreamsAreOwned`, `CredentialsOnAllowedNodes`, `TunnelsDrain` | a subscription and a link allowed on `n1` that prefers `n2`, both cut off and restored at will, mode `remna_or_local`, the daemon of `n1` in the backend's process and that of `n2` on a proxy node, one worker, two session requests and one proxy request, clock to 3, under fairness |
| `registry` | `TypeOK`, `OneDefault`, `OfferedWasProbed`, `MatchesFairly`, `WritesAreTableChanges`, `SettlesOnLiveNodes` | two machines of one country, a `nodes.json` with a third endpoint that marks two defaults, the loop and a forced sync, one daemon, two outside events, under fairness |
| `migration` | `TypeOK`, `OldRowsKept`, `ServesCurrentSchema`, `AllComeUp` | the API and the daemon beside it, two added columns, two old rows and a new one, two crashes, under fairness |
| `logout_revokes` | `LogoutRevokesCredentials` (violated) | |
| `fail_closed` | `FailedSourceRevokesSession` (violated) | |
| `expired_token` | `ExpiredTokenRefused` (violated) | |
| `credential_term` | `CredentialRunsItsTerm` (violated) | |
| `endpoint_reuse` | `EndpointsNotReused` (violated) | |
| `sessions_persist` | `SessionsPersist` (violated) | |
| `pair_on_node` | `PairsOpenTheirNodeOnly` (violated) | |

**Why these bounds.** *Core*: every hazard is a race of two requests for one row,
after a first request created it: two workers, one session and three requests
make all of them; `requests` has a fourth, for a third config after two that
raced. Its two nodes let an insert race an insert (the exchange makes the
credential of the default node, so only another node's is missing). The clock
of `exposure` runs past the latest lease the source can grant (its term ends at
4). `SessionTTL` 2 is more than one tick, so a lease can be extended while it
lives; the grace is shorter than the TTL, so both sides of it are met. Two sessions
share nothing but the nodes and the source, which no handler writes; the proofs
hold for any number. `Permutations(Worker)` is a symmetry because workers are only
ever compared for identity; the runs with a liveness property do not use it.

*Daemon*: connections share nothing with each other, so one proxy request at a
time is enough; the clock goes on from the TTL, 1, to 3, past the deadline of any
session, and the worker still serves one more request while the tunnel is open.
One daemon names its node and one does not, and each may be shown any pair. This
run also asks `BoundedExposure`, of a local link: `exposure` has a subscription only.

*Registry*: ids shift among machines of one country, so one country with two
machines has every case; two syncs race each other and a registration at every
step. Two events (a forced sync, a registration, a change of a machine or an
endpoint, an abort, a start) beside the loop meet any two of the races; a third is
past what TLC does in minutes, and the safety properties are proved without it.

*Migration*: two processes is what the installer starts; two crashes stop a
rebuild and its repetition, or one rebuild in each process.

**Deadlock** is checked where the system runs for ever, in `registry`: there some
step is always possible. Elsewhere requests, time and processes are bounded, or
everybody may be up, so a run ends where the system would go on; that nothing gets
stuck are the properties `EveryRequestEnds`, `TunnelsDrain` and `AllComeUp`.

**Fairness.** `FairSpec` of the core adds weak fairness of `Serve(w)`: a call a
handler has made returns. SQL statements have a busy timeout and then fail, the
Remnawave client has a deadline, and Go schedules runnable goroutines. The
registry's is the same for the steps of a sync and a registration, and that the
loop's ticker fires. The daemon's is of the goroutines of `pipe` alone, where they can run: a copy
that reads the end of its source returns, and so does one whose destination is
gone. No dial ends, no peer sends, leaves, or takes what is written to it by
fairness, so `TunnelsDrain` starts from a peer that has left. The migration's is that statements return and `restart: unless-stopped`
restarts. Nothing is assumed of clients, clocks, operators, peers, aborts and
crashes.

**Limits of what was found to hold.** No deadline is set on the connections of a
tunnel: where one peer leaves and the other has stopped reading, the copy to it is
blocked in Write for ever, and the tunnel stays open. `TunnelsDrain` names this one
case (`Stalled`) and says that there is no other; without the exception TLC finds
it violated. `BoundedExposure` speaks of pairs that clients hold. A session may
carry a lease past that deadline: an exchange judged just before its source ends and
inserted after has a whole TTL from then. Its client gets no pair before the source
is judged again, and then gets none; the lease itself is bounded by `LeaseInv`.

`EveryRequestEnds` is checked with a link and without refreshes: the answers of
Remnawave about a subscription (`judge`, `disown`) and the rotation of a token are
not met in that run. They are calls like the others, and `RequestsAdvance` is
proved of them too.

`AllComeUp` leaves out behaviours with a
crash: a process killed after the copy leaves rows in `browser_sessions_new`, and
the copy at the next start meets them and fails on the primary key, every time.
`OldRowsKept` is checked, and proved, of two processes; of three it does not hold,
since the second may drop the table the third has just renamed. The third that opens the
database is the admin command, which the installer runs when the others are up.
`SettlesOnLiveNodes` asks for one working machine at least: with none, a sync ends
before it writes and dead rows stay online.

### Findings

Seven runs show a sentence of the documentation or of a test that the code does not
keep.

1. *Logout revokes the credentials* (`src/README.md:300`). A config request
   that validated the session before the logout inserts or rotates the
   credential afterwards, and the rotation clears `revoked_at`. The pair opens
   nothing, because authentication looks at the session as well: this is
   `LogoutShutsAccess`, checked and proved. A client that waits for each answer
   never sees it (`SerialLogoutRevokes`).
2. *Remnawave failures revoke the session* (`src/README.md:23`). The revocation
   runs under the context of the request and its failure is logged only. The
   request is refused; the session's credentials go on working until the lease
   ends (`BoundedExposure` bounds how long).
3. *An expired session token gives 401* (`src/docs/manual-test-plan.md:53`,
   `src/README.md:499`). Within the grace window, 168 hours by default, it is
   renewed and answered with 200. `src/README.md:160` does describe the window;
   the manual test and the status table do not allow for it.
4. *A credential's term is its TTL* (`src/README.md:169`). Two requests that
   both find it expired rotate it twice, and the client that is answered with
   the first pair holds one that never works. The first credential of a node
   is safe from this (`FirstCredentialRunsItsTerm`): the unique index refuses
   a second insert. So is a client that waits for each answer (`SerialTermRuns`).
5. *An endpoint is not given to two nodes* (`internal/service/service_test.go:88`,
   `src/README.md:125`). Ids are ordinals. With only machine B usable, B is
   `pl-1`; when A in front of it is enabled, A is `pl-1` and takes the endpoint
   stored under that id, which is B's, while B, now `pl-2`, keeps its own address.
   Both rows lead to B until A registers under its id or B's row goes.
6. *Sessions persist* (`src/README.md:10`). `Migrate` has no transaction. One
   process that starts between the other's DROP and RENAME creates an empty
   table; the RENAME fails, both are restarted and come up, and all sessions of
   before the upgrade stay in `browser_sessions_new`. No crash is needed, only
   that `install.sh` starts both at once (775-778). The rows are not gone
   (`OldRowsKept`), but nothing ever reads them again. A process that migrates
   alone, and is not killed, keeps them all (`LoneUpgradePersists`).

7. *A pair is valid for its node* (`src/README.md:166`). The daemon in the
   backend's process asks without the name of a node (`cmd/https-proxyd/main.go:191`),
   and then nothing compares the pair's node: it lets a pair of any node through.
   The daemon of a proxy node does not, and a pair is still of a node its link
   allows, so a restricted client leaves its list only by that one daemon
   (`TunnelsOnAllowedNodes`).

`src/README.md:239` says that failed nodes "are not returned to active sessions".
`ResolveNodesForAccessLink` shows that they are, to the sessions of local links, as
in `service.go:1195-1238`; only the listing for subscriptions is filtered. No run
repeats this.

## 4. What is proved

For all values of the constants and all bounds, from the named assumptions of the
modules (the constants have their types, the null values are not members, the
TTLs are positive, `nodes.json` names an id once and says what status a row has):

| Theorem | Module | States |
|---|---|---|
| `TypeCorrect` | `BrowserSessionsProofs` | `Spec => []TypeOK` |
| `RequestsAdvance` | same | a request is at most thirteen of its own steps from its end, and nothing takes it back |
| `LeaseCorrect` | `BrowserSessionsExposure` | `Spec => []LeaseInv` |
| `ExposureBounded` | same | `Spec => []BoundedExposure` |
| `TermRespected` | same | `Spec => []AccessEndsWithTerm` |
| `LogoutHolds` | same | `Spec => []LogoutShutsAccess` |
| `AllowListHolds` | `BrowserSessionsCredentials` | `Spec => []CredentialsOnAllowedNodes` |
| `PairsMatch` | same | `Spec => []HandedPairsMatchStore` |
| `FirstPairLasts` | same | `Spec => FirstCredentialRunsItsTerm`, an action property |
| `SerialLogoutRevokes` | same | `Spec /\ []OneAtATime => []LogoutRevokesCredentials` |
| `SerialTermRuns` | same | `Spec /\ []OneAtATime => CredentialRunsItsTerm` |
| `LeaseImplemented` | `BrowserSessionsRefinement` | `Spec => ImplementsLeasedAccess` |
| `LeaseAlwaysEnds` | `LeasedAccessProofs` | the abstract lease ends |
| `DaemonsOnlyWatch` | `ProxyDaemonProofs` | `SystemSpec => Spec` |
| `DaemonTypes`, `Admission`, `TunnelsAllowed`, `NoUpstreamLeaks` | same | the four invariants of the daemon |
| `RegistryTypes`, `DefaultIsUnique`, `OfferedNodesWereProbed` | `NodeRegistryProofs` | the three invariants of the registry |
| `WritesAreAssumed` | same | `Spec => WritesAreTableChanges` |
| `MatchingFair` | same | `Spec => []MatchesFairly` |
| `MigrationTypes` | `SchemaMigrationProofs` | `Spec => []TypeOK` |
| `CurrentSchemaServed` | same | `Spec => []ServesCurrentSchema` |
| `OldRowsStay` | same | `Spec => []OldRowsKept`, of two processes at most |
| `LoneUpgradePersists` | same | one process that is not killed: no statement fails, and `SessionsPersist` |

**Leases.** `BoundedExposure` is not inductive: it says nothing of the
expiry a request carries in memory and will write later. `LeaseInv` adds it.
`Granted(s, e)` says that e lies within one TTL of the last instant the source
of s was good, or of the creation of s, and within some term of the source.
Both bounds only grow, so what was granted once stays granted, and a late or
stale write is harmless: `RowInv` says every stored expiry is granted, and
`Sound` says the same of the expiry a request holds at `check`, `rotate`,
`extend` and while it asks Remnawave. An answer under way is `Vouched`: if it
still validates when it is judged, it was valid when it was given, since later
instants accept no more than earlier ones, and it was given after the request
read its clock; so the lease computed from that earlier reading is granted.
The other conjuncts carry this through a request: it is bound to a row that
exists, or it is the only one that works on the id it will insert
(`Exclusive`); `HistoryInv` ties `lastGood` to the clock and the sources;
`ClientInv` says that the clients know only existing rows, that a logout they
saw is done, and that a session with a pair is `Confirmed`: its source was valid at
an instant at which the session existed. That is what turns the two bounds of
`Granted` into one. A config request asks Remnawave after its session was created
and gets on to a pair only if the answer validates; so from there on (`Cleared`)
it carries `Confirmed`, the creation lies before the last valid instant, and the
lease ends one TTL after that instant at the latest. `LeasedAccess` does not speak
of pairs, so its leases keep both bounds. A local link needs none of this:
authentication reads the link.

**Credentials.** `CredentialInv` follows a pair from the row to the client.
`RowsInv`: a row belongs to a node its link permits. `KnowledgeInv`: a request at
`renew` has seen a first credential that is over, if it is still the first; a
request at `reply` holds a pair that `Fits` the row, that is, an older name, or
the same name and version. `HandedInv`: the same of every pair handed out. What
makes it inductive is that a name is never reused and no step takes one back
(`RowMoves`).

**One request at a time.** Two sentences of the documentation that runs refute,
on logout and on the term of a credential, are theorems where no two requests of
one session are ever in flight together (`OneAtATime`); sessions may overlap as
they like. `SerialInv` says that what a request saw of its own rows is still so:
it works on a session that is not revoked from `check` to `create` or `renew`, at
`renew` the credential has expired, and a credential is marked as revoked exactly
when its session is. So overlap within one session is the whole cause of both
findings. The hypothesis is about clients: nothing in the code enforces it.

**Advance.** `StepsLeft` ranks the labels; every step of a handler lowers the rank
of its own request and no other step raises it. This is the part of
`EveryRequestEnds` that fairness does not give.

**Refinement.** A row's status, source, creation and expiry are `phase`, `owner`,
`opened` and `lease`. `CreateSession` is `Open`, `ExtendSession` and
`RotateSessionToken` are `Renew`, both revocations are `Close`, the clock and
the sources are `Pass`, everything else stutters. `LeaseInv` supplies what
`Renew` demands of the value written.

**Daemon.** `SystemSpec => Spec` brings the core's invariants along. `DaemonInv`
says that a pair shown is of a confirmed session, and that one found good was,
when it was judged, before its session's deadline, of a permitted node, and of the
node the daemon named, if it named one; the deadline only grows and permission does not
change, so this is still so when the verdict arrives and as long as a tunnel
lasts, although the session may be long over.

**Registry.** `RegistryInv` adds what is in flight: the entries a sync will write
passed a probe by the time it writes them, and so did a registration that still
says online. The rest is what an upsert does to the rows it names and to others:
a list with a default clears the flag of every row it does not name, so defaults
share the table only if one list brought them, and only `nodes.json` brings more
than one (`DefaultsAgree`).

**Matching.** `MatchingIsFair` holds of every list, table and set of reachable rows
of the right types, so `MatchesFairly` needs the types alone. `UsedUpTo` is a
recursive function on 0..Len(Fleet); that it exists is shown from least elements of
sets of naturals (`LeastOf`, `UpTo`), which need no operator as a parameter. Then:
the endpoints in use only grow (`UsedGrows`), each of them was given to an entry by
its row or at a place of the second pass (`UsedIsGiven`), and what an entry is given
was not in use before it. From these no endpoint goes to two entries; an entry that
goes without found none open, so all spare endpoints of its country were in use, and
stay so for the later ones.

**Migration.** `MigrationInv` has `Current(spare)`, that what replaces the table is
complete from the start, and `Looked`, what a process knows at each statement: no
column it has looked at is missing. It survives the other processes because a
table only ever grows, vanishes or is replaced by a complete one (`Improves`).

`OldRowsKept` is proved where any two of three processes are the same
(`TwoProcesses`). `RowsInv` says that the old rows lie together in one of the
tables, in the spare one when a process is about to drop the other
(`OldTogether`); that beside a process about to drop no other is about to drop or
rename (`DropsAlone`); and what holds when a table appeared between a drop and a
rename: it needs no rebuild, so at most one process is in the middle of one
(`ReplacedAlone`, `RecreatedAlone`). The copy that would break `DropsAlone` is
refused by the primary key, because the rows are in the spare table already; a
third process would break the last two. `LoneInv` follows the only process
statement by statement: before each of them the rows are where it looks for them.

**Only model-checked**: the liveness properties (`EveryRequestEnds`,
`TunnelsDrain`, `SettlesOnLiveNodes`, `AllComeUp`), which rest on fairness and on
ENABLED and are out of reach of this prover. Every safety property that a passing
run checks is a theorem.

## 5. Plan

Done: the core and its abstract promise; the registry; the daemon; the migration;
the fallback of the Remnawave client and answers that are late; proofs of every
safety property the passing runs check, and of the conditions under which three of
the refuted sentences hold.

What could be added, in this order:

1. A client that tries again after a lost answer, and that it gets its session
   back by the refresh token.
2. The columns a rebuild resets: in `SchemaMigration` a row is its id, so that a
   late rebuild takes the refresh token of new sessions is not seen.
3. Under which changes of the fleet an endpoint stays with its node
   (`EndpointsNotReused`), as the serial theorems say it of clients.
4. `CreateAccessLink` and the bootstrap of the admin command as an action.

## 6. Not modelled

* Wording, logging and redaction; configuration parsing; CORS, bearer and node
  tokens, decoding of bodies; the installer, containers and CI. None keeps state
  that a modelled decision reads.
* PAC text (`buildPacScript` and its domain cleaning): strings in, a string out,
  and unit tests reach all of it.
* A `nodes.json` that names one id twice: its last row wins in the code, and the
  models take the ids to differ (`RegistryAssumption`).
* The admin command: three subcommands an operator runs; see the plan.
* TLS, dialling and the choice among a target's addresses, the bytes of a tunnel
  and `allowTarget`: data of the daemon's steps.
* The pragmas of `Open`, which apply to one connection of the pool: a statement
  that finds the database locked is the `Abort` of a request or the `Crash` of a
  migration.
* `TouchSessionSeen`, `TouchAccessLinkExchanged`, `TouchProxyCredentialUsed`: they
  write columns that nothing reads.

`PROJECT.json` gives the reason with every component and every hazard without a
property.
