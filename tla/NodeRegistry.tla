---------------------------- MODULE NodeRegistry ----------------------------
(***************************************************************************)
(* Who writes the `nodes` table: the sync from Remnawave, which the        *)
(* background loop repeats and POST /internal/nodes/sync-remna forces, the *)
(* registrations of proxy daemons, and the import of nodes.json by every   *)
(* process that starts.                                                    *)
(*                                                                         *)
(* A sync lists the machines, reads the table, probes every row it read,   *)
(* matches, probes what it matched, upserts in one transaction and marks   *)
(* the rows it did not name in a statement of its own.  Each of these is a *)
(* step; machines, endpoints and the other writers move in between.        *)
(***************************************************************************)
EXTENDS RemnaListing

CONSTANTS
  Syncer, Loop,        \* goroutines that sync; the loop never ends
  Daemon,
  Registration,        \* what each daemon sends: [Daemon -> Entry]
  FileRows,            \* nodes.json
  RequireProxyAlive,   \* REMNA_NODE_SYNC_REQUIRE_PROXY_ALIVE
  MaxEvents            \* bound of the model: events that no sync step is

HasDefault(list) == \E i \in DOMAIN list : list[i].row.isDefault

ASSUME RegistryAssumption ==
  /\ Loop \in Syncer
  /\ Registration \in [Daemon -> Entry]
  /\ \A d \in Daemon : Registration[d].row.status # "none"
  /\ FileRows \in Seq(Entry)
  /\ \A i \in DOMAIN FileRows : FileRows[i].row.status # "none"
  /\ \A i, j \in DOMAIN FileRows : FileRows[i].id = FileRows[j].id => i = j
  /\ RequireProxyAlive \in BOOLEAN
  /\ MaxEvents \in Nat

VARIABLES
  usable,     \* machines Remnawave lists as enabled, connected and tagged
  alive,      \* endpoints that pass the TLS probe
  table,      \* table nodes
  syncPc, sync,
  regPc, reg, \* the registration requests in flight
  answered,   \* history: endpoints that ever passed a probe
  events

fleet == <<usable, alive>>
syncs == <<syncPc, sync>>
registrations == <<regPc, reg>>
vars == <<fleet, table, syncs, registrations, answered, events>>

NoTableRow ==
  [status |-> "none", isDefault |-> FALSE, country |-> NoCountry,
   host |-> NoEndpoint]

NoTable == [n \in Node |-> NoTableRow]

EmptyList == [m \in {} |-> [id |-> NoNode, row |-> NoTableRow]]

\* What a sync carries: its list, the rows it read, the ids left to probe and
\* the ids that answered, the places left to probe and those that are kept.
NoSync ==
  [list |-> EmptyList, rows |-> NoTable, todo |-> {}, reachable |-> {},
   left |-> {}, kept |-> {}]

-----------------------------------------------------------------------------
(* Writing the table.                                                      *)

RowFor(list, n) == list[CHOOSE i \in DOMAIN list : list[i].id = n].row

Named(list) == {list[i].id : i \in DOMAIN list}

\* Mutant: the flag of the former default is not cleared.
UpsertKeepingDefaults(rows, list) ==
  [n \in Node |-> IF n \in Named(list) THEN RowFor(list, n) ELSE rows[n]]

\* One transaction: a list with a default takes the flag from every row.
UpsertNodes(rows, list) ==
  [n \in Node |->
     IF n \in Named(list) THEN RowFor(list, n)
     ELSE IF HasDefault(list) THEN [rows[n] EXCEPT !.isDefault = FALSE]
     ELSE rows[n]]

\* Mutant: rows a sync does not name are deleted.
ForgetOthers(rows, list) ==
  [n \in Node |-> IF n \in Named(list) THEN rows[n] ELSE NoTableRow]

\* Mutant: only the default flag of the others is cleared.
DemoteOthers(rows, list) ==
  [n \in Node |-> IF n \in Named(list) THEN rows[n]
                  ELSE [rows[n] EXCEPT !.isDefault = FALSE]]

\* Mutant: the others get a status no other code knows.
MarkOthersDisabled(rows, list) ==
  [n \in Node |->
     IF n \in Named(list) \/ rows[n].status = "none" THEN rows[n]
     ELSE [rows[n] EXCEPT !.status = "disabled", !.isDefault = FALSE]]

\* UPDATE nodes SET status = 'offline', is_default = 0 WHERE id NOT IN (...)
MarkOthersOffline(rows, list) ==
  [n \in Node |->
     IF n \in Named(list) \/ rows[n].status = "none" THEN rows[n]
     ELSE [rows[n] EXCEPT !.status = "offline", !.isDefault = FALSE]]

-----------------------------------------------------------------------------
Init ==
  /\ usable \in SUBSET Machine
  /\ alive \in SUBSET Endpoint
  /\ table = UpsertNodes(NoTable, FileRows)
  /\ syncPc = [s \in Syncer |-> "idle"]
  /\ sync = [s \in Syncer |-> NoSync]
  /\ regPc = [d \in Daemon |-> "idle"]
  /\ reg = Registration
  /\ answered = {}
  /\ events = 0

Spend == events < MaxEvents /\ events' = events + 1

GoOn(s, label, state) ==
  /\ syncPc' = [syncPc EXCEPT ![s] = label]
  /\ sync' = [sync EXCEPT ![s] = state]

\* The sync ends, with its result written or with an error.
EndSync(s) == GoOn(s, "idle", NoSync)

\* Every endpoint in this set passed the TLS probe just now.
Probed(endpoints) == answered' = answered \cup (endpoints \cap alive)

-----------------------------------------------------------------------------
(* SyncNodesFromRemna.                                                     *)

\* The ticker of the loop fires again and again; a forced sync is a request.
StartSync(s) ==
  /\ syncPc[s] = "idle"
  /\ IF s = Loop THEN UNCHANGED events ELSE Spend
  /\ GoOn(s, "list", NoSync)
  /\ UNCHANGED <<fleet, table, registrations, answered>>

\* Remnawave answers; an empty list ends the sync before the table is read.
ListRemnaNodes(s) ==
  /\ syncPc[s] = "list"
  /\ IF usable = {} THEN EndSync(s)
     ELSE GoOn(s, "rows", [NoSync EXCEPT !.list = MapRemnaNodes(usable)])
  /\ UNCHANGED <<fleet, table, registrations, answered, events>>

ListRegistered(s) ==
  /\ syncPc[s] = "rows"
  /\ GoOn(s, "probe", [sync[s] EXCEPT !.rows = table, !.todo = ListNodes(table)])
  /\ UNCHANGED <<fleet, table, registrations, answered, events>>

\* One registered row is probed, whatever its status says.
ProbeRegistered(s) == \E n \in sync[s].todo :
  LET own == sync[s].rows[n].host
  IN  /\ syncPc[s] = "probe"
      /\ GoOn(s, "probe", [sync[s] EXCEPT !.todo = @ \ {n},
                 !.reachable = IF own \in alive THEN @ \cup {n} ELSE @])
      /\ Probed({own})
      /\ UNCHANGED <<fleet, table, registrations, events>>

MatchEndpoints(s) ==
  LET c == sync[s]
      list == ApplyRegisteredEndpoints(c.list, c.rows, c.reachable)
  IN  /\ syncPc[s] = "probe" /\ c.todo = {}
      /\ IF RequireProxyAlive
         THEN GoOn(s, "filter", [NoSync EXCEPT !.list = list, !.left = DOMAIN list])
         ELSE GoOn(s, "write", [NoSync EXCEPT !.list = list])
      /\ UNCHANGED <<fleet, table, registrations, answered, events>>

\* Mutant: a node that does not answer stays in the list.
KeepUnprobed(s) == \E m \in sync[s].left :
  LET c == sync[s]
  IN  /\ syncPc[s] = "filter"
      /\ \A k \in c.left : m <= k
      /\ GoOn(s, "filter", [c EXCEPT !.left = @ \ {m}, !.kept = @ \cup {m}])
      /\ Probed({c.list[m].row.host})
      /\ UNCHANGED <<fleet, table, registrations, events>>

\* filterChromeCompatibleProxyNodes, one node at a time in list order.
FilterNode(s) == \E m \in sync[s].left :
  LET c == sync[s]
      host == c.list[m].row.host
  IN  /\ syncPc[s] = "filter"
      /\ \A k \in c.left : m <= k
      /\ GoOn(s, "filter", [c EXCEPT !.left = @ \ {m},
                                     !.kept = IF host \in alive THEN @ \cup {m} ELSE @])
      /\ Probed({host})
      /\ UNCHANGED <<fleet, table, registrations, events>>

\* No usable node is an error: nothing is written then.
FinishFilter(s) ==
  LET c == sync[s]
  IN  /\ syncPc[s] = "filter" /\ c.left = {}
      /\ IF c.kept = {} THEN EndSync(s)
         ELSE GoOn(s, "write", [NoSync EXCEPT !.list = [m \in c.kept |-> c.list[m]]])
      /\ UNCHANGED <<fleet, table, registrations, answered, events>>

WriteSynced(s) ==
  LET list == AssignDefaultNode(sync[s].list)
  IN  /\ syncPc[s] = "write"
      /\ table' = UpsertNodes(table, list)
      /\ GoOn(s, "mark", [NoSync EXCEPT !.list = list])
      /\ UNCHANGED <<fleet, registrations, answered, events>>

MarkUnsynced(s) ==
  /\ syncPc[s] = "mark"
  /\ table' = MarkOthersOffline(table, sync[s].list)
  /\ EndSync(s)
  /\ UNCHANGED <<fleet, registrations, answered, events>>

\* Any call fails, or the request of a forced sync is given up: what the sync
\* has written so far stays.
AbortSync(s) ==
  /\ syncPc[s] # "idle"
  /\ Spend
  /\ EndSync(s)
  /\ UNCHANGED <<fleet, table, registrations, answered>>

-----------------------------------------------------------------------------
(* RegisterNode.                                                           *)

\* A daemon starts, or tries again after an answer that was lost or refused.
SendRegistration(d) ==
  /\ regPc[d] = "idle"
  /\ Spend
  /\ regPc' = [regPc EXCEPT ![d] = "check"]
  /\ UNCHANGED <<fleet, table, syncs, reg, answered>>

\* A node that calls itself online is probed; one that fails is stored as
\* offline, and never as the default.
CheckRegistration(d) ==
  LET row == Registration[d].row
      probed == row.status \in {"online", "Online"} /\ RequireProxyAlive
  IN  /\ regPc[d] = "check"
      /\ regPc' = [regPc EXCEPT ![d] = "store"]
      /\ reg' = [reg EXCEPT ![d].row =
                   IF probed /\ row.host \notin alive
                   THEN [row EXCEPT !.status = "offline", !.isDefault = FALSE]
                   ELSE row]
      /\ IF probed THEN Probed({row.host}) ELSE UNCHANGED answered
      /\ UNCHANGED <<fleet, table, syncs, events>>

StoreRegistration(d) ==
  /\ regPc[d] = "store"
  /\ table' = UpsertNodes(table, <<reg[d]>>)
  /\ regPc' = [regPc EXCEPT ![d] = "idle"]
  /\ reg' = [reg EXCEPT ![d] = Registration[d]]
  /\ UNCHANGED <<fleet, syncs, answered, events>>

\* The call is cancelled or fails; the daemon tries again with SendRegistration.
LoseRegistration(d) ==
  /\ regPc[d] # "idle"
  /\ Spend
  /\ regPc' = [regPc EXCEPT ![d] = "idle"]
  /\ reg' = [reg EXCEPT ![d] = Registration[d]]
  /\ UNCHANGED <<fleet, table, syncs, answered>>

-----------------------------------------------------------------------------
(* Starting processes, and the machines.                                   *)

\* app.New in the admin command or the proxy daemon beside the backend.
ImportFile ==
  /\ Spend
  /\ table' = UpsertNodes(table, FileRows)
  /\ UNCHANGED <<fleet, syncs, registrations, answered>>

\* The API stops, with everything in flight, and starts again.
RestartAPI ==
  /\ Spend
  /\ table' = UpsertNodes(table, FileRows)
  /\ syncPc' = [s \in Syncer |-> "idle"]
  /\ sync' = [s \in Syncer |-> NoSync]
  /\ regPc' = [d \in Daemon |-> "idle"]
  /\ reg' = Registration
  /\ UNCHANGED <<fleet, answered>>

\* An operator enables or disables a machine, or it connects or disconnects.
ChangeFleet ==
  /\ Spend
  /\ \E m \in Machine : usable' = (usable \ {m}) \cup ({m} \ usable)
  /\ UNCHANGED <<alive, table, syncs, registrations, answered>>

\* The proxy behind an endpoint comes up or goes down.
ChangeEndpoint ==
  /\ Spend
  /\ \E e \in Endpoint : alive' = (alive \ {e}) \cup ({e} \ alive)
  /\ UNCHANGED <<usable, table, syncs, registrations, answered>>

SyncStep(s) ==
  \/ ListRemnaNodes(s)
  \/ ListRegistered(s)
  \/ ProbeRegistered(s)
  \/ MatchEndpoints(s)
  \/ FilterNode(s)
  \/ FinishFilter(s)
  \/ WriteSynced(s)
  \/ MarkUnsynced(s)

Register(d) == CheckRegistration(d) \/ StoreRegistration(d)

Next ==
  \/ \E s \in Syncer : StartSync(s) \/ SyncStep(s) \/ AbortSync(s)
  \/ \E d \in Daemon : SendRegistration(d) \/ Register(d) \/ LoseRegistration(d)
  \/ ImportFile
  \/ RestartAPI
  \/ ChangeFleet
  \/ ChangeEndpoint

Spec == Init /\ [][Next]_vars

\* The ticker of the loop fires and every call returns: SQL has a busy timeout,
\* a probe and the Remnawave client a deadline.
FairSpec ==
  /\ Spec
  /\ WF_vars(StartSync(Loop))
  /\ \A s \in Syncer : WF_vars(SyncStep(s))
  /\ \A d \in Daemon : WF_vars(Register(d))

-----------------------------------------------------------------------------
Sync ==
  [list : Listing, rows : [Node -> Row], todo : SUBSET Node,
   reachable : SUBSET Node, left : SUBSET Machine, kept : SUBSET Machine]

\* Every variable has the shape its table, list or request has in the code.
TypeOK ==
  /\ usable \subseteq Machine
  /\ alive \subseteq Endpoint
  /\ table \in [Node -> Row]
  /\ syncPc \in [Syncer -> {"idle", "list", "rows", "probe", "filter", "write", "mark"}]
  /\ sync \in [Syncer -> Sync]
  /\ regPc \in [Daemon -> {"idle", "check", "store"}]
  /\ reg \in [Daemon -> Entry]
  /\ answered \subseteq Endpoint
  /\ events \in Nat

-----------------------------------------------------------------------------
(* Safety.                                                                 *)

\* The nodes that nodes.json marks as the default; nobody checks how many.
FileDefaults ==
  {FileRows[i].id : i \in {j \in DOMAIN FileRows : FileRows[j].row.isDefault}}

\* However syncs, registrations and imports interleave, and wherever one of
\* them stops, two nodes are the default at once only where nodes.json itself
\* marks both: no writer leaves its default beside that of another.
OneDefault ==
  \A m, n \in Node : table[m].isDefault /\ table[n].isDefault =>
    m = n \/ {m, n} \subseteq FileDefaults

FileHosts == {FileRows[i].row.host : i \in DOMAIN FileRows}

\* With the alive check on, the table offers no endpoint that never passed a
\* probe, except one an operator wrote into nodes.json: neither a late sync nor
\* a match by country brings an unprobed address online.
OfferedWasProbed ==
  RequireProxyAlive =>
    \A n \in Node : table[n].status \in {"online", "Online"} =>
      table[n].host \in answered \cup FileHosts

\* The matching hands the endpoints of the rows a sync read, whatever they have
\* become, to the entries it listed the way FairMatching says.
MatchesFairly ==
  \A s \in Syncer :
    LET c == sync[s]
    IN  syncPc[s] = "probe" /\ c.todo = {} =>
          FairMatching(c.list, c.rows, c.reachable,
                       ApplyRegisteredEndpoints(c.list, c.rows, c.reachable))

\* What the sessions assume of the registry: WriteNodes of BrowserSessions.
AsNodeTable(rows) ==
  [n \in Node |-> [status |-> rows[n].status, isDefault |-> rows[n].isDefault]]

\* Every write of the registry is one the session core is prepared for: rows
\* are rewritten, marked offline and made or unmade the default, but none
\* vanishes, so a node that a link lists stays listed.
WritesAreTableChanges ==
  [][TableChange(AsNodeTable(table), AsNodeTable(table'))]_table

-----------------------------------------------------------------------------
(* Liveness.                                                               *)

\* A machine that is listed and whose own address passes the probe.
Working(m) == m \in usable /\ Fleet[m].address \in alive

\* Once machines, requests and restarts come to rest, with one working machine
\* at least, syncs drive out every dead endpoint that a file, a registration or
\* an older sync left online, and every id whose machine works is online.
SettlesOnLiveNodes ==
  <>[]((\E m \in Machine : Working(m)) =>
         /\ \A n \in Node :
              table[n].status \in {"online", "Online"} => table[n].host \in alive
         /\ \A m \in usable :
              LET entry == MapRemnaNodes(usable)[m]
              IN  entry.row.host \in alive => table[entry.id].status = "online")

-----------------------------------------------------------------------------
(* What the documentation and the tests say and the code does not do.      *)

\* TestApplyRegisteredProxyCandidatesDoesNotReuseEndpoint: "expected endpoint
\* not to be reused".  Ids are numbers in the listing, so a machine that joins in
\* front of another takes over its id and the endpoint stored under that id,
\* and the other, under the next id, still comes at the same address.
EndpointsNotReused ==
  \A s \in Syncer : syncPc[s] = "write" =>
    \A k, m \in DOMAIN sync[s].list :
      sync[s].list[k].row.host = sync[s].list[m].row.host => k = m
=============================================================================
