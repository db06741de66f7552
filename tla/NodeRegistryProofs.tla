------------------------- MODULE NodeRegistryProofs -------------------------
(***************************************************************************)
(* For every fleet, listing, registration, file and number of syncs: the   *)
(* node table keeps its shape, names one default at most, loses no row and *)
(* offers nothing that was never probed, and endpoints are matched fairly. *)
(* The invariant adds what a sync and a registration in flight know of the *)
(* entries they are about to write.                                        *)
(***************************************************************************)
EXTENDS NodeRegistry, FiniteSetTheorems, SequenceTheorems, WellFoundedInduction, TLAPS

Online(row) == row.status \in {"online", "Online"}

\* What a sync knows of its list at each of its labels, when the endpoints in
\* "known" have passed a probe.
SyncSound(label, c, known) ==
  /\ \A m \in DOMAIN c.list : c.list[m].row.status = "online"
  /\ label = "filter" =>
       /\ c.left \subseteq DOMAIN c.list /\ c.kept \subseteq DOMAIN c.list
       /\ \A m \in c.kept : c.list[m].row.host \in known
  /\ label = "write" /\ RequireProxyAlive =>
       \A m \in DOMAIN c.list : c.list[m].row.host \in known

RegistrationSound(label, entry, known) ==
  /\ entry.row.status # "none"
  /\ label = "store" /\ RequireProxyAlive /\ Online(entry.row) =>
       entry.row.host \in known

InFlight ==
  /\ \A s \in Syncer : SyncSound(syncPc[s], sync[s], answered)
  /\ \A d \in Daemon : RegistrationSound(regPc[d], reg[d], answered)

RegistryInv == TypeOK /\ OneDefault /\ OfferedWasProbed /\ InFlight

-----------------------------------------------------------------------------
(* The writes.                                                             *)

\* An upsert gives a named id one of the rows named for it, and changes of the
\* other rows at most the default flag.
LEMMA UpsertRows ==
  ASSUME NEW rows \in [Node -> Row], NEW D, NEW list \in [D -> Entry]
  PROVE  /\ UpsertNodes(rows, list) \in [Node -> Row]
         /\ \A n \in Named(list) : \E i \in D :
              list[i].id = n /\ UpsertNodes(rows, list)[n] = list[i].row
         /\ \A n \in Node \ Named(list) :
              LET row == UpsertNodes(rows, list)[n]
              IN  /\ row.status = rows[n].status /\ row.host = rows[n].host
                  /\ row.isDefault => rows[n].isDefault /\ ~HasDefault(list)
<1> DEFINE U == UpsertNodes(rows, list)
<1>1. ASSUME NEW n \in Named(list)
      PROVE  \E i \in D : list[i].id = n /\ RowFor(list, n) = list[i].row
  BY <1>1 DEF Named, RowFor
<1>2. ASSUME NEW n \in Node
      PROVE  U[n] = IF n \in Named(list) THEN RowFor(list, n)
                    ELSE IF HasDefault(list) THEN [rows[n] EXCEPT !.isDefault = FALSE]
                    ELSE rows[n]
  BY <1>2 DEF UpsertNodes
<1>3. Named(list) \subseteq Node
  BY DEF Named, Entry
<1>4. ASSUME NEW n \in Node PROVE U[n] \in Row
  <2>1. CASE n \in Named(list)
    <3>1. PICK i \in D : RowFor(list, n) = list[i].row
      BY <1>1, <2>1
    <3>2. list[i].row \in Row
      BY DEF Entry
    <3> QED
      BY <1>2, <2>1, <3>1, <3>2
  <2>2. rows[n] \in Row /\ [rows[n] EXCEPT !.isDefault = FALSE] \in Row
    BY DEF Row
  <2> QED
    BY <1>2, <2>1, <2>2
<1>5. U \in [Node -> Row]
  BY <1>4 DEF UpsertNodes
<1>6. \A n \in Named(list) : \E i \in D : list[i].id = n /\ U[n] = list[i].row
  BY <1>1, <1>2, <1>3
<1>7. \A n \in Node \ Named(list) :
        /\ U[n].status = rows[n].status /\ U[n].host = rows[n].host
        /\ U[n].isDefault => rows[n].isDefault /\ ~HasDefault(list)
  BY <1>2 DEF Row
<1> QED
  BY <1>5, <1>6, <1>7

\* Two nodes that may both be the default: only where nodes.json says so.
MayShare(m, n) == m = n \/ {m, n} \subseteq FileDefaults

\* The defaults of a table, as OneDefault wants them.
DefaultsAgree(rows) ==
  \A m, n \in Node : rows[m].isDefault /\ rows[n].isDefault => MayShare(m, n)

\* What makes an upsert safe: the list names one default at most, or those of
\* nodes.json, and no row that does not exist.
WellNamed(list) ==
  /\ \A i, j \in DOMAIN list :
       list[i].row.isDefault /\ list[j].row.isDefault => MayShare(list[i].id, list[j].id)
  /\ \A i \in DOMAIN list : list[i].row.status # "none"

LEMMA UpsertSafe ==
  ASSUME NEW rows \in [Node -> Row], NEW D, NEW list \in [D -> Entry],
         WellNamed(list), DefaultsAgree(rows)
  PROVE  /\ UpsertNodes(rows, list) \in [Node -> Row]
         /\ DefaultsAgree(UpsertNodes(rows, list))
         /\ TableChange(AsNodeTable(rows), AsNodeTable(UpsertNodes(rows, list)))
<1> DEFINE U == UpsertNodes(rows, list)
<1>1. /\ U \in [Node -> Row]
      /\ \A n \in Named(list) : \E i \in D : list[i].id = n /\ U[n] = list[i].row
      /\ \A n \in Node \ Named(list) :
           /\ U[n].status = rows[n].status
           /\ U[n].isDefault => rows[n].isDefault /\ ~HasDefault(list)
  BY UpsertRows
<1> HIDE DEF U
<1>2. \A n \in Node : U[n].status = "none" => rows[n].status = "none"
  BY <1>1 DEF WellNamed
<1>3. ASSUME NEW m \in Node, NEW n \in Node, U[m].isDefault, U[n].isDefault
      PROVE  MayShare(m, n)
  <2>1. \A k \in Named(list) : U[k].isDefault => HasDefault(list)
    BY <1>1 DEF HasDefault
  <2>2. CASE m \in Named(list) /\ n \in Named(list)
    BY <1>1, <1>3, <2>2 DEF WellNamed
  <2>3. CASE m \notin Named(list) /\ n \notin Named(list)
    BY <1>1, <1>3, <2>3 DEF DefaultsAgree
  <2> QED
    BY <1>1, <1>3, <2>1, <2>2, <2>3
<1>4. TableChange(AsNodeTable(rows), AsNodeTable(U))
  BY <1>2 DEF TableChange, AsNodeTable, ListNodes
<1>5. DefaultsAgree(U)
  BY <1>3 DEF DefaultsAgree
<1> QED
  BY <1>1, <1>4, <1>5 DEF U

\* An upsert of endpoints in X offers no other endpoint than before or of X.
LEMMA UpsertOffers ==
  ASSUME NEW rows \in [Node -> Row], NEW D, NEW list \in [D -> Entry], NEW X,
         \A n \in Node : Online(rows[n]) => rows[n].host \in X,
         \A i \in D : Online(list[i].row) => list[i].row.host \in X
  PROVE  LET U == UpsertNodes(rows, list)
         IN  \A n \in Node : Online(U[n]) => U[n].host \in X
BY UpsertRows DEF Online

\* The marking keeps every row, offers fewer of them and sets no default.
LEMMA MarkSafe ==
  ASSUME NEW rows \in [Node -> Row], NEW list, DefaultsAgree(rows)
  PROVE  LET M == MarkOthersOffline(rows, list)
         IN  /\ M \in [Node -> Row] /\ DefaultsAgree(M)
             /\ TableChange(AsNodeTable(rows), AsNodeTable(M))
             /\ \A n \in Node : Online(M[n]) => Online(rows[n]) /\ M[n].host = rows[n].host
<1> DEFINE M == MarkOthersOffline(rows, list)
<1>1. ASSUME NEW n \in Node
      PROVE  /\ M[n] \in Row
             /\ M[n].status = "none" <=> rows[n].status = "none"
             /\ M[n].isDefault => rows[n].isDefault
             /\ Online(M[n]) => Online(rows[n]) /\ M[n].host = rows[n].host
  BY DEF MarkOthersOffline, Row, NodeStatus, Online
<1>2. M \in [Node -> Row]
  BY <1>1 DEF MarkOthersOffline
<1> HIDE DEF M
<1>3. TableChange(AsNodeTable(rows), AsNodeTable(M))
  BY <1>1 DEF TableChange, AsNodeTable, ListNodes
<1>4. DefaultsAgree(M)
  BY <1>1 DEF DefaultsAgree
<1> QED
  BY <1>1, <1>2, <1>3, <1>4 DEF M

-----------------------------------------------------------------------------
(* The lists.                                                              *)

LEMMA HostReplaced ==
  ASSUME NEW e \in Entry, NEW h \in Endpoint \cup {NoEndpoint}
  PROVE  /\ [e EXCEPT !.row.host = h] \in Entry
         /\ [e EXCEPT !.row.host = h].row.status = e.row.status
BY DEF Entry, Row

LEMMA DefaultReplaced ==
  ASSUME NEW e \in Entry, NEW b \in BOOLEAN
  PROVE  LET f == [e EXCEPT !.row.isDefault = b]
         IN  /\ f \in Entry /\ f.row.isDefault = b
             /\ f.row.status = e.row.status /\ f.row.host = e.row.host
BY DEF Entry, Row

LEMMA OnlineRowType ==
  ASSUME NEW c \in Country, NEW e \in Endpoint
  PROVE  OnlineRow(c, e) \in Row
BY DEF OnlineRow, Row, NodeStatus

LEMMA Machines == Machine = 1..Len(Fleet) /\ Len(Fleet) \in Nat
BY FleetAssumption DEF Machine

\* Every listed machine gets one of the ids of its country.
LEMMA MapType ==
  ASSUME NEW U \in SUBSET Machine
  PROVE  /\ MapRemnaNodes(U) \in [U -> Entry]
         /\ \A m \in U : MapRemnaNodes(U)[m].row.status = "online"
<1> DEFINE same(m) == {k \in U : k <= m /\ Fleet[k].country = Fleet[m].country}
<1>1. ASSUME NEW m \in U
      PROVE  /\ Fleet[m].country \in Country /\ Fleet[m].address \in Endpoint
             /\ NodeID[Fleet[m].country][Cardinality(same(m))] \in Node
  <2>1. m \in 1..Len(Fleet) /\ Len(Fleet) \in Nat
    BY Machines
  <2>2. Fleet[m] \in [country : Country, address : Endpoint]
    BY <2>1, FleetAssumption, ElementOfSeq
  <2>3. U \subseteq 1..Len(Fleet) /\ m <= m
    BY <2>1, Machines
  <2>9. same(m) \in SUBSET (1..Len(Fleet)) /\ m \in same(m)
    BY <2>3
  <2>4. IsFiniteSet(1..Len(Fleet)) /\ Cardinality(1..Len(Fleet)) = Len(Fleet)
    <3>1. 1 \in Int /\ Len(Fleet) \in Int /\ Len(Fleet) >= 0
      BY <2>1
    <3>2. /\ IsFiniteSet(1..Len(Fleet))
          /\ Cardinality(1..Len(Fleet)) =
               IF 1 > Len(Fleet) THEN 0 ELSE Len(Fleet) - 1 + 1
      BY <3>1, FS_Interval
    <3> QED
      BY <3>1, <3>2
  <2> HIDE DEF same
  <2>5. IsFiniteSet(same(m)) /\ Cardinality(same(m)) <= Len(Fleet)
    BY <2>9, <2>4, FS_Subset
  <2>6. Cardinality(same(m)) \in Nat /\ Cardinality(same(m)) # 0
    BY <2>9, <2>5, FS_CardinalityType, FS_EmptySet
  <2>7. /\ NodeID[Fleet[m].country] \in Seq(Node)
        /\ Len(NodeID[Fleet[m].country]) >= Len(Fleet)
    BY <2>2, FleetAssumption
  <2>8. Cardinality(same(m)) \in 1..Len(NodeID[Fleet[m].country])
    BY <2>1, <2>5, <2>6, <2>7
  <2> QED
    BY <2>2, <2>7, <2>8, ElementOfSeq
<1>2. \A m \in U : MapRemnaNodes(U)[m] =
        [id  |-> NodeID[Fleet[m].country][Cardinality(same(m))],
         row |-> OnlineRow(Fleet[m].country, Fleet[m].address)]
  BY DEF MapRemnaNodes
<1>3. DOMAIN MapRemnaNodes(U) = U /\ MapRemnaNodes(U) = [m \in U |-> MapRemnaNodes(U)[m]]
  BY DEF MapRemnaNodes
<1> HIDE DEF same
<1>4. \A m \in U : /\ MapRemnaNodes(U)[m] \in Entry
                   /\ MapRemnaNodes(U)[m].row.status = "online"
  <2> SUFFICES ASSUME NEW m \in U
               PROVE  /\ MapRemnaNodes(U)[m] \in Entry
                      /\ MapRemnaNodes(U)[m].row.status = "online"
    OBVIOUS
  <2>1. OnlineRow(Fleet[m].country, Fleet[m].address) \in Row
    BY <1>1, OnlineRowType
  <2>2. OnlineRow(Fleet[m].country, Fleet[m].address).status = "online"
    BY DEF OnlineRow
  <2>3. PICK n \in Node : n = NodeID[Fleet[m].country][Cardinality(same(m))]
    BY <1>1
  <2>4. MapRemnaNodes(U)[m] =
          [id |-> n, row |-> OnlineRow(Fleet[m].country, Fleet[m].address)]
    BY <1>2, <2>3
  <2> QED
    BY <2>1, <2>2, <2>4 DEF Entry
<1> QED
  BY <1>3, <1>4

-----------------------------------------------------------------------------
(* Induction, without operators as parameters.                             *)

\* The least of some natural numbers, and from it induction over them: the
\* theorems of the library range over operators, these over sets.
LEMMA LeastOf ==
  ASSUME NEW X \in SUBSET Nat, X # {}
  PROVE  \E x \in X : \A y \in X : x <= y
<1>1. IsWellFoundedOn(OpToRel(<, Nat), Nat)
  BY NatLessThanWellFounded
<1>2. PICK x \in X : \A y \in X : ~(<<y, x>> \in OpToRel(<, Nat))
  BY <1>1, WFMin
<1>3. \A i, j \in Nat : i < j => <<i, j>> \in OpToRel(<, Nat)
  BY DEF OpToRel
<1>4. \A y \in X : ~(y < x)
  BY <1>2, <1>3
<1> QED
  BY <1>4

LEMMA UpTo ==
  ASSUME NEW N \in Nat, NEW X, 0 \in X, \A n \in 1..N : n - 1 \in X => n \in X
  PROVE  \A n \in 0..N : n \in X
<1> SUFFICES ASSUME {n \in 0..N : n \notin X} # {} PROVE FALSE
  OBVIOUS
<1>1. PICK n \in {k \in 0..N : k \notin X} :
        \A k \in {j \in 0..N : j \notin X} : n <= k
  <2>1. {k \in 0..N : k \notin X} \in SUBSET Nat
    OBVIOUS
  <2> QED
    BY <2>1, LeastOf
<1>2. n \in 1..N /\ n - 1 \in 0..N
  BY <1>1
<1> QED
  BY <1>1, <1>2

LEMMA FirstIsThere ==
  ASSUME NEW ids \in SUBSET Node, ids # {}
  PROVE  First(ids) \in ids
<1> DEFINE positions == {Position[n] : n \in ids}
<1>1. positions \in SUBSET Nat /\ positions # {}
  BY FleetAssumption
<1>2. PICK p \in positions : \A q \in positions : p <= q
  BY <1>1, LeastOf
<1>3. \E n \in ids : \A k \in ids : Position[n] <= Position[k]
  BY <1>2
<1> QED
  BY <1>3 DEF First

-----------------------------------------------------------------------------
(* The matching.                                                           *)

\* The places the second pass looks at, the rows that are open to it at each,
\* and those at which it finds one.
Others(list, rows, reachable) == DOMAIN list \ MatchedByID(list, rows, reachable)

OpenAt(list, rows, reachable, m) ==
  Open(list, rows, reachable, m, UsedUpTo(list, rows, reachable)[m - 1])

Served(list, rows, reachable) ==
  {m \in Others(list, rows, reachable) : OpenAt(list, rows, reachable, m) # {}}

Given(list, rows, reachable, m) == rows[First(OpenAt(list, rows, reachable, m))].host

\* The recursion of UsedUpTo has a solution: one that serves up to some place
\* is extended by the next.
LEMMA UsedRecurs ==
  ASSUME NEW list, NEW rows, NEW reachable
  PROVE  UsedUpTo(list, rows, reachable) =
           [m \in 0..Len(Fleet) |->
              IF m = 0 THEN HostsByID(list, rows, reachable)
              ELSE UsedAfter(list, rows, reachable, m,
                             UsedUpTo(list, rows, reachable)[m - 1])]
<1> DEFINE base == HostsByID(list, rows, reachable)
           after(m, used) == UsedAfter(list, rows, reachable, m, used)
           Solves(f, n) ==
             f = [m \in 0..n |-> IF m = 0 THEN base ELSE after(m, f[m - 1])]
           solved == {n \in 0..Len(Fleet) : \E f : Solves(f, n)}
<1>0. Len(Fleet) \in Nat
  BY Machines
<1> HIDE DEF base, after
<1>1. 0 \in solved
  <2>1. Solves([m \in 0..0 |-> base], 0)
    OBVIOUS
  <2> HIDE DEF Solves
  <2>2. \E f : Solves(f, 0)
    BY <2>1
  <2> QED
    BY <1>0, <2>2
<1>2. ASSUME NEW n \in 1..Len(Fleet), n - 1 \in solved
      PROVE  n \in solved
  <2>0. n \in Nat /\ n > 0 /\ n - 1 \in Nat /\ n \in 0..Len(Fleet)
    BY <1>0
  <2>1. PICK f : Solves(f, n - 1)
    BY <1>2
  <2> DEFINE g == [m \in 0..n |-> IF m = n THEN after(n, f[n - 1]) ELSE f[m]]
  <2>2. \A m \in 0..(n - 1) : m \in 0..n /\ m # n /\ g[m] = f[m]
    BY <2>0
  <2>3. g[n] = after(n, f[n - 1])
    BY <2>0
  <2>4. ASSUME NEW m \in 0..n
        PROVE  g[m] = IF m = 0 THEN base ELSE after(m, g[m - 1])
    <3>1. CASE m = n
      BY <2>0, <2>2, <2>3, <3>1
    <3>2. CASE m # n
      <4>1. m \in 0..(n - 1) /\ (m # 0 => m - 1 \in 0..(n - 1))
        BY <2>0, <3>2
      <4>2. f[m] = IF m = 0 THEN base ELSE after(m, f[m - 1])
        BY <2>1, <4>1
      <4> HIDE DEF g
      <4> QED
        BY <2>2, <4>1, <4>2
    <3> QED
      BY <3>1, <3>2
  <2>5. g = [m \in 0..n |-> g[m]]
    OBVIOUS
  <2> HIDE DEF g
  <2>6. Solves(g, n)
    BY <2>4, <2>5
  <2> QED
    BY <2>0, <2>6
<1> HIDE DEF solved
<1>3. \A n \in 0..Len(Fleet) : n \in solved
  BY <1>0, <1>1, <1>2, UpTo
<1>4. \E f : Solves(f, Len(Fleet))
  BY <1>0, <1>3 DEF solved
<1>5. UsedUpTo(list, rows, reachable) = CHOOSE f : Solves(f, Len(Fleet))
  BY DEF UsedUpTo, base, after
<1>6. Solves(UsedUpTo(list, rows, reachable), Len(Fleet))
  BY <1>4, <1>5
<1> QED
  BY <1>6 DEF base, after

\* The candidates are ids with rows, and one that is served has a first.
LEMMA OpenRows ==
  ASSUME NEW list, NEW rows, NEW reachable \in SUBSET Node, NEW m, NEW used
  PROVE  /\ Open(list, rows, reachable, m, used) \subseteq
              Spare(rows, reachable, list[m].row.country)
         /\ Open(list, rows, reachable, m, used) \in SUBSET Node
         /\ Open(list, rows, reachable, m, used) # {} =>
              First(Open(list, rows, reachable, m, used))
                \in Open(list, rows, reachable, m, used)
<1>1. Open(list, rows, reachable, m, used) \in SUBSET Node
  BY DEF Open, Spare
<1> QED
  BY <1>1, FirstIsThere DEF Open

\* One place of the second pass, as the recursion computes it.
LEMMA UsedSteps ==
  ASSUME NEW list, NEW rows, NEW reachable, NEW m \in Machine
  PROVE  LET used == UsedUpTo(list, rows, reachable)
         IN  /\ used[0] = HostsByID(list, rows, reachable)
             /\ m \in Served(list, rows, reachable) =>
                  used[m] = used[m - 1] \cup {Given(list, rows, reachable, m)}
             /\ m \notin Served(list, rows, reachable) => used[m] = used[m - 1]
<1>1. m \in 0..Len(Fleet) /\ m # 0 /\ 0 \in 0..Len(Fleet)
  BY Machines
<1>2. /\ UsedUpTo(list, rows, reachable)[0] = HostsByID(list, rows, reachable)
      /\ UsedUpTo(list, rows, reachable)[m] =
           UsedAfter(list, rows, reachable, m, UsedUpTo(list, rows, reachable)[m - 1])
  BY <1>1, UsedRecurs
<1> QED
  BY <1>2 DEF UsedAfter, Served, Others, OpenAt, Given

\* What is in use stays in use...
LEMMA UsedGrows ==
  ASSUME NEW list, NEW rows, NEW reachable, NEW k \in 0..Len(Fleet),
         NEW m \in 0..Len(Fleet), k <= m
  PROVE  UsedUpTo(list, rows, reachable)[k] \subseteq UsedUpTo(list, rows, reachable)[m]
<1> DEFINE used == UsedUpTo(list, rows, reachable)
           grown == {n \in 0..Len(Fleet) : k <= n => used[k] \subseteq used[n]}
<1>0. Len(Fleet) \in Nat /\ k \in Nat
  BY Machines
<1>1. 0 \in grown
  BY <1>0
<1>2. ASSUME NEW n \in 1..Len(Fleet), n - 1 \in grown
      PROVE  n \in grown
  <2>1. n \in Machine /\ n \in 0..Len(Fleet)
    BY Machines
  <2>2. used[n - 1] \subseteq used[n]
    BY <2>1, UsedSteps
  <2>3. k <= n => k <= n - 1 \/ k = n
    BY <1>0, <2>1
  <2> HIDE DEF used
  <2> QED
    BY <1>2, <2>1, <2>2, <2>3
<1> HIDE DEF grown
<1>3. \A n \in 0..Len(Fleet) : n \in grown
  BY <1>0, <1>1, <1>2, UpTo
<1> QED
  BY <1>3 DEF grown

\* ...and belongs to an entry: the endpoint of its own row or the one it was given.
LEMMA UsedIsGiven ==
  ASSUME NEW list, NEW rows, NEW reachable, NEW m \in 0..Len(Fleet),
         NEW h \in UsedUpTo(list, rows, reachable)[m]
  PROVE  \/ h \in HostsByID(list, rows, reachable)
         \/ \E k \in Served(list, rows, reachable) : h = Given(list, rows, reachable, k)
<1> DEFINE used == UsedUpTo(list, rows, reachable)
           known == HostsByID(list, rows, reachable)
                      \cup {Given(list, rows, reachable, k) :
                              k \in Served(list, rows, reachable)}
           traced == {n \in 0..Len(Fleet) : used[n] \subseteq known}
<1>0. Len(Fleet) \in Nat
  BY Machines
<1>1. ASSUME NEW n \in Machine
      PROVE  /\ used[0] \subseteq known
             /\ used[n] \subseteq used[n - 1] \cup known
  BY UsedSteps
<1>2. used[0] \subseteq known
  <2>1. used[0] = HostsByID(list, rows, reachable)
    BY <1>0, UsedRecurs
  <2> QED
    BY <2>1
<1> HIDE DEF used, known
<1>3. 0 \in traced
  BY <1>0, <1>2
<1>4. ASSUME NEW n \in 1..Len(Fleet), n - 1 \in traced
      PROVE  n \in traced
  <2>1. n \in Machine /\ n \in 0..Len(Fleet)
    BY Machines
  <2> QED
    BY <1>1, <1>4, <2>1
<1> HIDE DEF traced
<1>5. \A n \in 0..Len(Fleet) : n \in traced
  BY <1>0, <1>3, <1>4, UpTo
<1>6. h \in known
  BY <1>5 DEF traced, used
<1> QED
  BY <1>6 DEF known

\* The endpoint every place gets.
LEMMA ApplyAt ==
  ASSUME NEW list, NEW rows, NEW reachable
  PROVE  LET result == ApplyRegisteredEndpoints(list, rows, reachable)
             host(m) == IF m \in MatchedByID(list, rows, reachable)
                        THEN rows[list[m].id].host
                        ELSE IF m \in Served(list, rows, reachable)
                        THEN Given(list, rows, reachable, m)
                        ELSE list[m].row.host
         IN  result = [m \in DOMAIN list |-> [list[m] EXCEPT !.row.host = host(m)]]
BY DEF ApplyRegisteredEndpoints, Served, Others, OpenAt, Given

\* The two passes do what FairMatching promises, whatever is listed, registered
\* and reachable: no endpoint is given twice in the second pass, and no entry
\* goes without while one of its country is left.
LEMMA MatchingIsFair ==
  ASSUME NEW D \in SUBSET Machine, NEW list \in [D -> Entry],
         NEW rows \in [Node -> Row], NEW reachable \in SUBSET Node
  PROVE  FairMatching(list, rows, reachable,
                      ApplyRegisteredEndpoints(list, rows, reachable))
<1> DEFINE result == ApplyRegisteredEndpoints(list, rows, reachable)
           byID == MatchedByID(list, rows, reachable)
           served == Served(list, rows, reachable)
           given(m) == Given(list, rows, reachable, m)
           used == UsedUpTo(list, rows, reachable)
           country(m) == list[m].row.country
           free(m) == OpenAt(list, rows, reachable, m)
           taken == HostsByID(list, rows, reachable)
           spare(c) == {rows[n].host : n \in Spare(rows, reachable, c)} \ taken
<1>1. /\ DOMAIN result = D
      /\ \A m \in D : result[m].id = list[m].id
      /\ \A m \in byID : result[m].row.host = rows[list[m].id].host
      /\ \A m \in served : result[m].row.host = given(m)
      /\ \A m \in (D \ byID) \ served : result[m].row.host = list[m].row.host
  <2> DEFINE host(m) == IF m \in byID THEN rows[list[m].id].host
                        ELSE IF m \in served THEN given(m) ELSE list[m].row.host
  <2>1. result = [m \in D |-> [list[m] EXCEPT !.row.host = host(m)]]
    BY ApplyAt
  <2>2. byID \subseteq D /\ served \subseteq D \ byID
    BY DEF Served, Others, MatchedByID
  <2> HIDE DEF result, byID, served, given, host
  <2>3. ASSUME NEW m \in D
        PROVE  result[m].id = list[m].id /\ result[m].row.host = host(m)
    <3>1. list[m] \in [id : Node, row : Row]
      BY DEF Entry
    <3>2. result[m] = [list[m] EXCEPT !.row.host = host(m)]
      BY <2>1
    <3> QED
      BY <3>1, <3>2 DEF Row
  <2>4. \A m \in byID : host(m) = rows[list[m].id].host
    BY DEF host
  <2>5. \A m \in served : host(m) = given(m)
    BY <2>2 DEF host
  <2>6. \A m \in (D \ byID) \ served : host(m) = list[m].row.host
    BY DEF host
  <2> QED
    BY <2>1, <2>2, <2>3, <2>4, <2>5, <2>6
<1>2. /\ served \subseteq D \ byID
      /\ \A m \in D : m \in Machine /\ m \in 1..Len(Fleet) /\ m \in Nat
                      /\ m - 1 \in 0..Len(Fleet) /\ m \in 0..Len(Fleet)
      /\ 0 \in 0..Len(Fleet)
  BY Machines DEF Served, Others
<1>3. \A m \in served : free(m) # {}
  BY DEF Served
<1>4. \A m \in (D \ byID) \ served : free(m) = {}
  BY DEF Served, Others
<1>5. \A m \in D : free(m) = {n \in Spare(rows, reachable, country(m)) :
                                rows[n].host \notin used[m - 1]}
  BY DEF OpenAt, Open
<1>6. \A m \in served : \E n \in free(m) : given(m) = rows[n].host
  <2> SUFFICES ASSUME NEW m \in served
               PROVE  \E n \in free(m) : given(m) = rows[n].host
    OBVIOUS
  <2>1. First(free(m)) \in free(m)
    BY <1>3, OpenRows DEF OpenAt
  <2> QED
    BY <2>1 DEF Given
<1>7. \A m \in served : used[m] = used[m - 1] \cup {given(m)}
  BY <1>2, UsedSteps
<1>8. \A k, m \in 0..Len(Fleet) : k <= m => used[k] \subseteq used[m]
  BY UsedGrows
<1>9. used[0] = taken
  <2>1. 0 \in 0..Len(Fleet)
    BY Machines
  <2> QED
    BY <2>1, UsedRecurs
<1>10. \A m \in 0..Len(Fleet) : \A h \in used[m] :
         h \in taken \/ \E k \in served : h = given(k)
  BY UsedIsGiven
<1> HIDE DEF result, byID, served, given, used, free, taken
<1>11. ASSUME NEW m \in served PROVE given(m) \in spare(country(m))
  <2>1. PICK n \in free(m) : given(m) = rows[n].host
    BY <1>6
  <2>2. n \in Spare(rows, reachable, country(m)) /\ rows[n].host \notin used[m - 1]
    BY <1>2, <1>5
  <2>3. taken \subseteq used[m - 1]
    <3>1. m - 1 \in 0..Len(Fleet) /\ 0 <= m - 1 /\ 0 \in 0..Len(Fleet)
      BY <1>2
    <3> QED
      BY <1>8, <1>9, <3>1
  <2> QED
    BY <2>1, <2>2, <2>3
<1>12. ASSUME NEW k \in served, NEW m \in served, k < m
       PROVE  given(k) # given(m)
  <2>1. k <= m - 1 /\ k \in 0..Len(Fleet) /\ m - 1 \in 0..Len(Fleet)
    BY <1>2, <1>12
  <2>2. given(k) \in used[m - 1]
    BY <1>7, <1>8, <2>1
  <2>3. given(m) \notin used[m - 1]
    BY <1>2, <1>5, <1>6
  <2> QED
    BY <2>2, <2>3
<1>13. ASSUME NEW m \in (D \ byID) \ served, NEW k \in served, country(k) = country(m)
       PROVE  k < m
  <2> SUFFICES ASSUME ~(k < m) PROVE FALSE
    OBVIOUS
  <2>1. m - 1 <= k - 1 /\ m - 1 \in 0..Len(Fleet) /\ k - 1 \in 0..Len(Fleet)
    BY <1>2
  <2>2. used[m - 1] \subseteq used[k - 1]
    BY <1>8, <2>1
  <2>3. free(k) \subseteq free(m)
    BY <1>2, <1>5, <1>13, <2>2
  <2> QED
    BY <1>3, <1>4, <2>3
<1>14. ASSUME NEW m \in (D \ byID) \ served, NEW h \in spare(country(m))
       PROVE  \E k \in served : h = given(k)
  <2>1. PICK n \in Spare(rows, reachable, country(m)) : h = rows[n].host /\ h \notin taken
    OBVIOUS
  <2>2. h \in used[m - 1]
    BY <1>4, <1>5, <2>1
  <2>3. m - 1 \in 0..Len(Fleet)
    BY <1>2
  <2> QED
    BY <1>10, <2>1, <2>2, <2>3
<1>15. /\ \A m \in served : result[m].row.host \in spare(country(m))
       /\ \A k, m \in served : result[k].row.host = result[m].row.host => k = m
       /\ \A m \in (D \ byID) \ served :
            /\ result[m].row.host = list[m].row.host
            /\ \A k \in served : country(k) = country(m) => k < m
            /\ spare(country(m)) \subseteq {result[k].row.host : k \in served}
  <2>1. \A m \in served : result[m].row.host \in spare(country(m))
    BY <1>1, <1>11
  <2>2. ASSUME NEW k \in served, NEW m \in served,
               result[k].row.host = result[m].row.host
        PROVE  k = m
    <3>1. given(k) = given(m) /\ k \in Nat /\ m \in Nat
      BY <1>1, <1>2, <2>2
    <3>2. ~(k < m) /\ ~(m < k)
      BY <1>12, <3>1
    <3> QED
      BY <3>1, <3>2
  <2>3. ASSUME NEW m \in (D \ byID) \ served, NEW h \in spare(country(m))
        PROVE  h \in {result[k].row.host : k \in served}
    BY <1>1, <1>14
  <2> QED
    BY <1>1, <1>13, <2>1, <2>2, <2>3
<1>16. \E S \in SUBSET (D \ byID) :
         /\ \A m \in S : result[m].row.host \in spare(country(m))
         /\ \A k, m \in S : result[k].row.host = result[m].row.host => k = m
         /\ \A m \in (D \ byID) \ S :
              /\ result[m].row.host = list[m].row.host
              /\ \A k \in S : country(k) = country(m) => k < m
              /\ spare(country(m)) \subseteq {result[k].row.host : k \in S}
  BY <1>2, <1>15
<1>17. DOMAIN list = D
  OBVIOUS
<1> QED
  BY <1>1, <1>16, <1>17, Zenon DEF FairMatching, result, byID, taken, HostsByID

\* The matching only replaces endpoints, by those of rows it was given.
LEMMA ApplyType ==
  ASSUME NEW D, NEW list \in [D -> Entry], NEW rows \in [Node -> Row],
         NEW reachable \in SUBSET Node
  PROVE  LET result == ApplyRegisteredEndpoints(list, rows, reachable)
         IN  /\ result \in [D -> Entry]
             /\ \A m \in D : result[m].row.status = list[m].row.status
<1> DEFINE result == ApplyRegisteredEndpoints(list, rows, reachable)
           host(m) == IF m \in MatchedByID(list, rows, reachable)
                      THEN rows[list[m].id].host
                      ELSE IF m \in Served(list, rows, reachable)
                      THEN Given(list, rows, reachable, m)
                      ELSE list[m].row.host
<1>1. result = [m \in D |-> [list[m] EXCEPT !.row.host = host(m)]]
  BY ApplyAt
<1>2. ASSUME NEW m \in Served(list, rows, reachable)
      PROVE  \E n \in Node : Given(list, rows, reachable, m) = rows[n].host
  <2>1. First(OpenAt(list, rows, reachable, m)) \in Node
    BY OpenRows DEF OpenAt, Served
  <2> QED
    BY <2>1 DEF Given
<1>3. ASSUME NEW m \in D PROVE host(m) \in Endpoint \cup {NoEndpoint}
  <2>1. list[m].id \in Node /\ list[m].row \in Row
    BY DEF Entry
  <2>2. \A n \in Node : rows[n] \in Row
    OBVIOUS
  <2> QED
    BY <1>2, <2>1, <2>2 DEF Row
<1> HIDE DEF result, host
<1>4. \A m \in D : result[m] \in Entry /\ result[m].row.status = list[m].row.status
  BY <1>1, <1>3, HostReplaced
<1>5. result = [m \in D |-> result[m]]
  BY <1>1
<1> QED
  BY <1>4, <1>5 DEF result

\* Only the first entry becomes the default, and nothing else changes.
LEMMA AssignType ==
  ASSUME NEW D \in SUBSET Machine, NEW list \in [D -> Entry],
         \A m \in D : list[m].row.status = "online"
  PROVE  LET result == AssignDefaultNode(list)
         IN  /\ result \in [D -> Entry]
             /\ \A m \in D : /\ result[m].row.status = "online"
                             /\ result[m].row.host = list[m].row.host
             /\ WellNamed(result)
<1> DEFINE result == AssignDefaultNode(list)
           first(m) == \A k \in D : m <= k
<1>1. \A m \in D : result[m] = [list[m] EXCEPT !.row.isDefault = first(m)]
  BY DEF AssignDefaultNode
<1>2. result = [m \in D |-> result[m]]
  BY DEF AssignDefaultNode
<1>3. \A k, m \in D : first(k) /\ first(m) => k = m
  BY Machines
<1>4. \A m \in D : first(m) \in BOOLEAN
  OBVIOUS
<1> HIDE DEF result, first
<1>5. ASSUME NEW m \in D
      PROVE  /\ result[m] \in Entry
             /\ result[m].row.isDefault = first(m)
             /\ result[m].row.status = "online"
             /\ result[m].row.host = list[m].row.host
  <2>1. PICK b \in BOOLEAN : b = first(m)
    BY <1>4
  <2>2. result[m] = [list[m] EXCEPT !.row.isDefault = b]
    BY <1>1, <2>1
  <2> QED
    BY <2>1, <2>2, DefaultReplaced
<1>6. result \in [D -> Entry]
  BY <1>2, <1>5
<1>7. WellNamed(result)
  BY <1>3, <1>5, <1>6 DEF WellNamed, MayShare
<1> QED
  BY <1>5, <1>6, <1>7 DEF result

-----------------------------------------------------------------------------
(* The invariant is inductive.                                             *)

LEMMA TypeFacts ==
  ASSUME TypeOK
  PROVE  /\ usable \in SUBSET Machine
         /\ table \in [Node -> Row]
         /\ syncPc \in [Syncer -> {"idle", "list", "rows", "probe", "filter",
                                   "write", "mark"}]
         /\ sync \in [Syncer -> Sync]
         /\ regPc \in [Daemon -> {"idle", "check", "store"}]
         /\ reg \in [Daemon -> Entry]
         /\ answered \in SUBSET Endpoint
         /\ alive \in SUBSET Endpoint
         /\ events \in Nat
BY DEF TypeOK

LEMMA NoTableType == NoTable \in [Node -> Row]
BY DEF NoTable, NoTableRow, Row, NodeStatus

LEMMA NoSyncSound == NoSync \in Sync /\ \A label, known : SyncSound(label, NoSync, known)
<1>1. EmptyList \in [{} -> Entry] /\ DOMAIN EmptyList = {}
  BY DEF EmptyList
<1>2. EmptyList \in Listing
  BY <1>1 DEF Listing
<1>3. NoSync \in Sync
  BY <1>2, NoTableType DEF NoSync, Sync
<1>4. /\ DOMAIN NoSync.list = {} /\ NoSync.left = {} /\ NoSync.kept = {}
  BY <1>1 DEF NoSync
<1> QED
  BY <1>3, <1>4 DEF SyncSound

\* A list is a function on places of machines.
LEMMA ListingFacts ==
  ASSUME NEW list \in Listing
  PROVE  DOMAIN list \in SUBSET Machine /\ list \in [DOMAIN list -> Entry]
BY DEF Listing

LEMMA ListingOf ==
  ASSUME NEW D \in SUBSET Machine, NEW list \in [D -> Entry]
  PROVE  list \in Listing /\ DOMAIN list = D
BY DEF Listing

LEMMA FileFacts ==
  /\ FileRows \in [1..Len(FileRows) -> Entry] /\ DOMAIN FileRows = 1..Len(FileRows)
  /\ WellNamed(FileRows)
<1>1. /\ FileRows \in [1..Len(FileRows) -> Entry] /\ DOMAIN FileRows = 1..Len(FileRows)
      /\ \A i \in DOMAIN FileRows : FileRows[i].row.status # "none"
  BY RegistryAssumption
<1>2. \A i \in DOMAIN FileRows : FileRows[i].row.isDefault => FileRows[i].id \in FileDefaults
  BY DEF FileDefaults
<1> QED
  BY <1>1, <1>2 DEF WellNamed, MayShare

LEMMA DefaultsOfTable == OneDefault <=> DefaultsAgree(table)
BY DEF OneDefault, DefaultsAgree, MayShare

\* What other steps learn of the endpoints does not unsettle a request.
LEMMA SoundGrows ==
  ASSUME answered \subseteq answered'
  PROVE  /\ \A label, c : SyncSound(label, c, answered) => SyncSound(label, c, answered')
         /\ \A label, e : RegistrationSound(label, e, answered) => RegistrationSound(label, e, answered')
BY DEF SyncSound, RegistrationSound

\* One sync moves on; the table, the registrations and the rest stay.
LEMMA SyncMoves ==
  ASSUME RegistryInv, NEW s \in Syncer, NEW c \in Sync,
         NEW label \in {"idle", "list", "rows", "probe", "filter", "write", "mark"},
         GoOn(s, label, c), SyncSound(label, c, answered'),
         UNCHANGED <<fleet, registrations>>,
         answered \subseteq answered', answered' \in SUBSET Endpoint, events' \in Nat
  PROVE  /\ table' = table => RegistryInv'
         /\ table' \in [Node -> Row] /\ OneDefault' /\ OfferedWasProbed' => RegistryInv'
<1>1. /\ syncPc'[s] = label /\ sync'[s] = c
      /\ \A t \in Syncer \ {s} : syncPc'[t] = syncPc[t] /\ sync'[t] = sync[t]
  BY TypeFacts DEF RegistryInv, GoOn
<1>2. InFlight'
  <2>1. \A t \in Syncer \ {s} : SyncSound(syncPc[t], sync[t], answered)'
    BY <1>1, SoundGrows DEF RegistryInv, InFlight, SyncSound
  <2>2. SyncSound(syncPc[s], sync[s], answered)'
    BY <1>1 DEF SyncSound
  <2>3. \A d \in Daemon : RegistrationSound(regPc[d], reg[d], answered)'
    BY SoundGrows DEF RegistryInv, InFlight, RegistrationSound, registrations
  <2> QED
    BY <2>1, <2>2, <2>3 DEF InFlight
<1>3. table' \in [Node -> Row] => TypeOK'
  BY TypeFacts DEF RegistryInv, TypeOK, GoOn, fleet, registrations
<1>4. table' = table => table' \in [Node -> Row] /\ OneDefault' /\ OfferedWasProbed'
  BY TypeFacts DEF RegistryInv, OneDefault, OfferedWasProbed
<1> QED
  BY <1>2, <1>3, <1>4 DEF RegistryInv

LEMMA SyncEnds ==
  ASSUME RegistryInv, NEW s \in Syncer, EndSync(s),
         UNCHANGED <<fleet, registrations, answered>>, events' \in Nat
  PROVE  /\ table' = table => RegistryInv'
         /\ table' \in [Node -> Row] /\ OneDefault' /\ OfferedWasProbed' => RegistryInv'
<1>1. SyncSound("idle", NoSync, answered')
  BY NoSyncSound DEF SyncSound
<1> QED
  BY <1>1, NoSyncSound, SyncMoves, TypeFacts DEF EndSync, RegistryInv

\* Probing only adds endpoints to those that answered.
LEMMA ProbeGrows ==
  ASSUME TypeOK, NEW endpoints, Probed(endpoints)
  PROVE  /\ answered \subseteq answered' /\ answered' \in SUBSET Endpoint
         /\ endpoints \cap alive \subseteq answered'
BY TypeFacts DEF Probed

\* A write of a well-named list is one the sessions are prepared for.
LEMMA UpsertStep ==
  ASSUME RegistryInv, NEW D, NEW list \in [D -> Entry], WellNamed(list),
         \A i \in D : RequireProxyAlive /\ Online(list[i].row) =>
           list[i].row.host \in answered' \cup FileHosts,
         table' = UpsertNodes(table, list), answered \subseteq answered'
  PROVE  /\ table' \in [Node -> Row] /\ OneDefault' /\ OfferedWasProbed'
         /\ TableChange(AsNodeTable(table), AsNodeTable(table'))
<1>1. table \in [Node -> Row] /\ DefaultsAgree(table)
  BY TypeFacts, DefaultsOfTable DEF RegistryInv
<1>2. /\ table' \in [Node -> Row] /\ DefaultsAgree(table')
      /\ TableChange(AsNodeTable(table), AsNodeTable(table'))
  BY <1>1, UpsertSafe
<1>3. OneDefault'
  BY <1>2 DEF OneDefault, DefaultsAgree, MayShare, FileDefaults
<1>4. OfferedWasProbed'
  <2> SUFFICES ASSUME RequireProxyAlive
               PROVE  \A n \in Node : Online(table'[n]) =>
                        table'[n].host \in answered' \cup FileHosts
    BY DEF OfferedWasProbed, Online, FileHosts
  <2>1. \A n \in Node : Online(table[n]) =>
          table[n].host \in answered' \cup FileHosts
    BY DEF RegistryInv, OfferedWasProbed, Online
  <2> QED
    BY <1>1, <2>1, UpsertOffers
<1> QED
  BY <1>2, <1>3, <1>4

LEMMA ListingSteps ==
  ASSUME RegistryInv, NEW s \in Syncer,
         StartSync(s) \/ ListRemnaNodes(s) \/ ListRegistered(s)
  PROVE  RegistryInv' /\ table' = table
<1>1. CASE StartSync(s)
  <2>1. SyncSound("list", NoSync, answered')
    BY NoSyncSound DEF SyncSound
  <2> QED
    BY <1>1, <2>1, NoSyncSound, SyncMoves, TypeFacts DEF StartSync, Spend, RegistryInv
<1>2. CASE ListRemnaNodes(s) /\ usable = {}
  BY <1>2, SyncEnds, TypeFacts DEF ListRemnaNodes, RegistryInv
<1>3. CASE ListRemnaNodes(s) /\ usable # {}
  <2> DEFINE list == MapRemnaNodes(usable)
             c == [NoSync EXCEPT !.list = list]
  <2>1. list \in [usable -> Entry] /\ \A m \in usable : list[m].row.status = "online"
    BY MapType, TypeFacts DEF RegistryInv
  <2> HIDE DEF list
  <2>2. list \in Listing /\ DOMAIN list = usable
    BY <2>1, ListingOf, TypeFacts DEF RegistryInv
  <2>3. c \in Sync /\ c.list = list
    BY <2>2, NoSyncSound DEF Sync
  <2> HIDE DEF c
  <2>4. SyncSound("rows", c, answered')
    BY <2>1, <2>2, <2>3 DEF SyncSound
  <2>5. GoOn(s, "rows", c)
    BY <1>3 DEF ListRemnaNodes, c, list
  <2> QED
    BY <1>3, <2>3, <2>4, <2>5, SyncMoves, TypeFacts DEF ListRemnaNodes, RegistryInv
<1>4. CASE ListRegistered(s)
  <2> DEFINE c == [sync[s] EXCEPT !.rows = table, !.todo = ListNodes(table)]
  <2>1. sync[s] \in Sync /\ table \in [Node -> Row] /\ SyncSound(syncPc[s], sync[s], answered)
    BY TypeFacts DEF RegistryInv, InFlight
  <2>2. c \in Sync /\ c.list = sync[s].list
    BY <2>1 DEF Sync, ListNodes
  <2> HIDE DEF c
  <2>3. SyncSound("probe", c, answered')
    BY <2>1, <2>2 DEF SyncSound
  <2> QED
    BY <1>4, <2>2, <2>3, SyncMoves, TypeFacts DEF ListRegistered, RegistryInv, c
<1> QED
  BY <1>1, <1>2, <1>3, <1>4 DEF StartSync, ListRemnaNodes, ListRegistered

LEMMA ProbeStep ==
  ASSUME RegistryInv, NEW s \in Syncer, ProbeRegistered(s)
  PROVE  RegistryInv' /\ table' = table
<1>1. PICK n \in sync[s].todo :
        LET own == sync[s].rows[n].host
        IN  /\ GoOn(s, "probe", [sync[s] EXCEPT !.todo = @ \ {n},
                       !.reachable = IF own \in alive THEN @ \cup {n} ELSE @])
            /\ Probed({own})
            /\ UNCHANGED <<fleet, table, registrations, events>>
  BY DEF ProbeRegistered
<1> DEFINE own == sync[s].rows[n].host
           c == [sync[s] EXCEPT !.todo = @ \ {n},
                   !.reachable = IF own \in alive THEN @ \cup {n} ELSE @]
<1>2. sync[s] \in Sync /\ SyncSound(syncPc[s], sync[s], answered)
  BY TypeFacts DEF RegistryInv, InFlight
<1>3. n \in Node
  BY <1>2 DEF Sync
<1>4. c \in Sync /\ c.list = sync[s].list
  BY <1>2, <1>3 DEF Sync
<1>5. GoOn(s, "probe", c)
  BY <1>1
<1> HIDE DEF c
<1>6. SyncSound("probe", c, answered')
  BY <1>2, <1>4 DEF SyncSound
<1>7. answered \subseteq answered' /\ answered' \in SUBSET Endpoint
  BY <1>1, ProbeGrows DEF RegistryInv
<1> QED
  BY <1>1, <1>4, <1>5, <1>6, <1>7, SyncMoves, TypeFacts DEF RegistryInv

LEMMA MatchStep ==
  ASSUME RegistryInv, NEW s \in Syncer, MatchEndpoints(s)
  PROVE  RegistryInv' /\ table' = table
<1> DEFINE list == ApplyRegisteredEndpoints(sync[s].list, sync[s].rows, sync[s].reachable)
           D == DOMAIN sync[s].list
<1>1. sync[s] \in Sync /\ SyncSound(syncPc[s], sync[s], answered)
  BY TypeFacts DEF RegistryInv, InFlight
<1>2. /\ sync[s].list \in Listing /\ sync[s].rows \in [Node -> Row]
      /\ sync[s].reachable \in SUBSET Node
  BY <1>1 DEF Sync
<1>3. D \in SUBSET Machine /\ sync[s].list \in [D -> Entry]
  BY <1>2, ListingFacts
<1>4. list \in [D -> Entry] /\ \A m \in D : list[m].row.status = "online"
  BY <1>1, <1>2, <1>3, ApplyType DEF SyncSound
<1>5. list \in Listing /\ DOMAIN list = D
  BY <1>3, <1>4, ListingOf
<1> DEFINE c == [NoSync EXCEPT !.list = list, !.left = DOMAIN list]
           q == [NoSync EXCEPT !.list = list]
<1>6. \/ GoOn(s, "filter", c)
      \/ ~RequireProxyAlive /\ GoOn(s, "write", q)
  BY DEF MatchEndpoints
<1>7. table' = table /\ UNCHANGED <<fleet, registrations, answered, events>>
  BY DEF MatchEndpoints
<1> HIDE DEF list, D
<1>8. NoSync \in Sync /\ NoSync.kept = {}
  BY NoSyncSound DEF NoSync
<1>9. /\ c \in Sync /\ c.list = list /\ c.left = D /\ c.kept = {}
      /\ q \in Sync /\ q.list = list
  BY <1>3, <1>5, <1>8 DEF Sync
<1> HIDE DEF c, q
<1>10. SyncSound("filter", c, answered') /\ (~RequireProxyAlive => SyncSound("write", q, answered'))
  BY <1>4, <1>5, <1>9 DEF SyncSound
<1> QED
  BY <1>6, <1>7, <1>9, <1>10, SyncMoves, TypeFacts DEF RegistryInv

LEMMA FilterStep ==
  ASSUME RegistryInv, NEW s \in Syncer, FilterNode(s)
  PROVE  RegistryInv' /\ table' = table
<1>1. PICK m \in sync[s].left :
        /\ syncPc[s] = "filter"
        /\ GoOn(s, "filter", [sync[s] EXCEPT !.left = @ \ {m},
                 !.kept = IF sync[s].list[m].row.host \in alive THEN @ \cup {m} ELSE @])
        /\ Probed({sync[s].list[m].row.host})
        /\ UNCHANGED <<fleet, table, registrations, events>>
  BY DEF FilterNode
<1> DEFINE host == sync[s].list[m].row.host
           c == [sync[s] EXCEPT !.left = @ \ {m},
                   !.kept = IF host \in alive THEN @ \cup {m} ELSE @]
<1>2. sync[s] \in Sync /\ SyncSound("filter", sync[s], answered)
  BY <1>1, TypeFacts DEF RegistryInv, InFlight
<1>3. m \in Machine /\ m \in DOMAIN sync[s].list
  BY <1>2 DEF Sync, SyncSound
<1>4. /\ c \in Sync /\ c.list = sync[s].list /\ c.left = sync[s].left \ {m}
      /\ c.kept = IF host \in alive THEN sync[s].kept \cup {m} ELSE sync[s].kept
  BY <1>2, <1>3 DEF Sync
<1>5. GoOn(s, "filter", c)
  BY <1>1
<1>6. /\ answered \subseteq answered' /\ answered' \in SUBSET Endpoint
      /\ host \in alive => host \in answered'
  BY <1>1, ProbeGrows DEF RegistryInv
<1> HIDE DEF c
<1>7. SyncSound("filter", c, answered')
  BY <1>2, <1>3, <1>4, <1>6 DEF SyncSound
<1> QED
  BY <1>1, <1>4, <1>5, <1>6, <1>7, SyncMoves, TypeFacts DEF RegistryInv

LEMMA FinishStep ==
  ASSUME RegistryInv, NEW s \in Syncer, FinishFilter(s)
  PROVE  RegistryInv' /\ table' = table
<1> DEFINE list == [m \in sync[s].kept |-> sync[s].list[m]]
           c == [NoSync EXCEPT !.list = list]
<1>1. sync[s] \in Sync /\ SyncSound("filter", sync[s], answered)
  BY TypeFacts DEF RegistryInv, InFlight, FinishFilter
<1>2. CASE EndSync(s)
  BY <1>2, SyncEnds, TypeFacts DEF FinishFilter, RegistryInv
<1>3. CASE GoOn(s, "write", c)
  <2>1. /\ sync[s].kept \in SUBSET Machine
        /\ sync[s].kept \subseteq DOMAIN sync[s].list
        /\ sync[s].list \in [DOMAIN sync[s].list -> Entry]
    BY <1>1, ListingFacts DEF Sync, SyncSound
  <2>2. /\ list \in [sync[s].kept -> Entry]
        /\ \A m \in sync[s].kept : list[m].row.status = "online"
                                   /\ list[m].row.host \in answered
    BY <1>1, <2>1 DEF SyncSound
  <2> HIDE DEF list
  <2>3. list \in Listing /\ DOMAIN list = sync[s].kept
    BY <2>1, <2>2, ListingOf
  <2>4. c \in Sync /\ c.list = list
    BY <2>3, NoSyncSound DEF Sync
  <2> HIDE DEF c
  <2>5. SyncSound("write", c, answered)
    BY <2>2, <2>3, <2>4 DEF SyncSound
  <2> QED
    BY <1>3, <2>4, <2>5, SyncMoves, TypeFacts DEF FinishFilter, RegistryInv
<1> QED
  BY <1>2, <1>3 DEF FinishFilter

LEMMA WriteStep ==
  ASSUME RegistryInv, NEW s \in Syncer, WriteSynced(s)
  PROVE  RegistryInv' /\ TableChange(AsNodeTable(table), AsNodeTable(table'))
<1> DEFINE D == DOMAIN sync[s].list
           list == AssignDefaultNode(sync[s].list)
           c == [NoSync EXCEPT !.list = list]
<1>1. sync[s] \in Sync /\ SyncSound("write", sync[s], answered)
  BY TypeFacts DEF RegistryInv, InFlight, WriteSynced
<1>2. D \in SUBSET Machine /\ sync[s].list \in [D -> Entry]
  BY <1>1, ListingFacts DEF Sync
<1>3. \A m \in D : sync[s].list[m].row.status = "online"
  BY <1>1 DEF SyncSound
<1>4. /\ list \in [D -> Entry] /\ WellNamed(list)
      /\ \A m \in D : /\ list[m].row.status = "online"
                      /\ list[m].row.host = sync[s].list[m].row.host
  BY <1>2, <1>3, AssignType
<1>5. /\ table' = UpsertNodes(table, list) /\ GoOn(s, "mark", c)
      /\ UNCHANGED <<fleet, registrations, answered, events>>
  BY DEF WriteSynced
<1> HIDE DEF list
<1>6. list \in Listing /\ DOMAIN list = D
  BY <1>2, <1>4, ListingOf
<1>7. c \in Sync /\ c.list = list
  BY <1>6, NoSyncSound DEF Sync
<1> HIDE DEF c
<1>8. SyncSound("mark", c, answered)
  BY <1>4, <1>6, <1>7 DEF SyncSound
<1>9. \A m \in D : RequireProxyAlive => list[m].row.host \in answered
  BY <1>1, <1>4 DEF SyncSound
<1> HIDE DEF D
<1>10. /\ table' \in [Node -> Row] /\ OneDefault' /\ OfferedWasProbed'
       /\ TableChange(AsNodeTable(table), AsNodeTable(table'))
  BY <1>4, <1>5, <1>9, UpsertStep
<1> QED
  BY <1>5, <1>7, <1>8, <1>10, SyncMoves, TypeFacts DEF RegistryInv

LEMMA MarkStep ==
  ASSUME RegistryInv, NEW s \in Syncer, MarkUnsynced(s)
  PROVE  RegistryInv' /\ TableChange(AsNodeTable(table), AsNodeTable(table'))
<1>1. /\ table \in [Node -> Row] /\ DefaultsAgree(table)
      /\ \A n \in Node : RequireProxyAlive /\ Online(table[n]) =>
           table[n].host \in answered \cup FileHosts
  BY TypeFacts, DefaultsOfTable DEF RegistryInv, OfferedWasProbed, Online
<1>2. /\ table' \in [Node -> Row] /\ DefaultsAgree(table')
      /\ TableChange(AsNodeTable(table), AsNodeTable(table'))
      /\ \A n \in Node : Online(table'[n]) =>
           Online(table[n]) /\ table'[n].host = table[n].host
  BY <1>1, MarkSafe DEF MarkUnsynced
<1>3. OneDefault'
  BY <1>2 DEF OneDefault, DefaultsAgree, MayShare, FileDefaults
<1>4. OfferedWasProbed'
  BY <1>1, <1>2 DEF MarkUnsynced, OfferedWasProbed, Online, FileHosts
<1> QED
  BY <1>2, <1>3, <1>4, SyncEnds, TypeFacts DEF MarkUnsynced, RegistryInv

-----------------------------------------------------------------------------
\* The syncs and the machines stay; a registration moves on.
LEMMA RegistrationMoves ==
  ASSUME RegistryInv, NEW d \in Daemon, NEW e \in Entry,
         NEW label \in {"idle", "check", "store"},
         regPc' = [regPc EXCEPT ![d] = label], reg' = [reg EXCEPT ![d] = e],
         RegistrationSound(label, e, answered'),
         UNCHANGED <<fleet, syncs>>,
         answered \subseteq answered', answered' \in SUBSET Endpoint, events' \in Nat
  PROVE  /\ table' = table => RegistryInv'
         /\ table' \in [Node -> Row] /\ OneDefault' /\ OfferedWasProbed' => RegistryInv'
<1>1. /\ regPc'[d] = label /\ reg'[d] = e
      /\ \A f \in Daemon \ {d} : regPc'[f] = regPc[f] /\ reg'[f] = reg[f]
  BY TypeFacts DEF RegistryInv
<1>2. InFlight'
  <2>1. \A f \in Daemon : RegistrationSound(regPc[f], reg[f], answered)'
    BY <1>1, SoundGrows DEF RegistryInv, InFlight, RegistrationSound
  <2>2. \A s \in Syncer : SyncSound(syncPc[s], sync[s], answered)'
    BY SoundGrows DEF RegistryInv, InFlight, SyncSound, syncs
  <2> QED
    BY <2>1, <2>2 DEF InFlight
<1>3. table' \in [Node -> Row] => TypeOK'
  BY TypeFacts DEF RegistryInv, TypeOK, fleet, syncs
<1>4. table' = table => table' \in [Node -> Row] /\ OneDefault' /\ OfferedWasProbed'
  BY TypeFacts DEF RegistryInv, OneDefault, OfferedWasProbed
<1> QED
  BY <1>2, <1>3, <1>4 DEF RegistryInv

LEMMA RegistrationFacts ==
  ASSUME NEW d \in Daemon
  PROVE  /\ Registration[d] \in Entry /\ Registration[d].row.status # "none"
         /\ RegistrationSound("idle", Registration[d], answered')
BY RegistryAssumption DEF RegistrationSound

LEMMA RegisterSteps ==
  ASSUME RegistryInv, NEW d \in Daemon,
         SendRegistration(d) \/ CheckRegistration(d) \/ LoseRegistration(d)
  PROVE  RegistryInv' /\ table' = table
<1>1. /\ reg[d] \in Entry /\ RegistrationSound(regPc[d], reg[d], answered)
      /\ reg \in [Daemon -> Entry] /\ events \in Nat /\ answered \in SUBSET Endpoint
  BY TypeFacts DEF RegistryInv, InFlight
<1>2. CASE SendRegistration(d)
  <2>1. RegistrationSound("check", reg[d], answered) /\ reg = [reg EXCEPT ![d] = reg[d]]
    BY <1>1 DEF RegistrationSound
  <2>2. /\ regPc' = [regPc EXCEPT ![d] = "check"] /\ reg' = reg
        /\ UNCHANGED <<fleet, syncs>> /\ table' = table /\ answered' = answered
        /\ events' \in Nat
    BY <1>1, <1>2 DEF SendRegistration, Spend
  <2> QED
    BY <1>1, <2>1, <2>2, RegistrationMoves
<1>3. CASE LoseRegistration(d)
  <2>1. /\ regPc' = [regPc EXCEPT ![d] = "idle"]
        /\ reg' = [reg EXCEPT ![d] = Registration[d]]
        /\ UNCHANGED <<fleet, syncs>> /\ table' = table /\ answered' = answered
        /\ events' \in Nat
    BY <1>1, <1>3 DEF LoseRegistration, Spend
  <2> QED
    BY <1>1, <2>1, RegistrationFacts, RegistrationMoves
<1>4. CASE CheckRegistration(d)
  <2> DEFINE row == Registration[d].row
             probed == row.status \in {"online", "Online"} /\ RequireProxyAlive
             e == [reg[d] EXCEPT !.row =
                     IF probed /\ row.host \notin alive
                     THEN [row EXCEPT !.status = "offline", !.isDefault = FALSE]
                     ELSE row]
  <2>1. row \in Row /\ row.status # "none"
    BY RegistrationFacts DEF Entry
  <2>2. [row EXCEPT !.status = "offline", !.isDefault = FALSE] \in Row
    BY <2>1 DEF Row, NodeStatus
  <2>3. reg' = [reg EXCEPT ![d] = e] /\ e \in Entry
    BY <1>1, <1>4, <2>1, <2>2 DEF CheckRegistration, Entry
  <2>4. /\ answered \subseteq answered' /\ answered' \in SUBSET Endpoint
        /\ probed /\ row.host \in alive => row.host \in answered'
    <3>1. CASE probed
      BY <1>4, <3>1, ProbeGrows DEF CheckRegistration, RegistryInv
    <3>2. CASE ~probed
      BY <1>1, <1>4, <3>2 DEF CheckRegistration
    <3> QED
      BY <3>1, <3>2
  <2>5. e.row = IF probed /\ row.host \notin alive
                THEN [row EXCEPT !.status = "offline", !.isDefault = FALSE]
                ELSE row
    BY <1>1 DEF Entry
  <2>6. RegistrationSound("store", e, answered')
    BY <2>1, <2>4, <2>5 DEF RegistrationSound, Online, Row
  <2>7. /\ regPc' = [regPc EXCEPT ![d] = "store"]
        /\ table' = table /\ UNCHANGED <<fleet, syncs>> /\ events' = events
    BY <1>4 DEF CheckRegistration
  <2> HIDE DEF e
  <2> QED
    BY <1>1, <2>3, <2>4, <2>6, <2>7, RegistrationMoves
<1> QED
  BY <1>2, <1>3, <1>4

LEMMA StoreStep ==
  ASSUME RegistryInv, NEW d \in Daemon, StoreRegistration(d)
  PROVE  RegistryInv' /\ TableChange(AsNodeTable(table), AsNodeTable(table'))
<1> DEFINE list == <<reg[d]>>
<1>1. /\ reg[d] \in Entry /\ RegistrationSound("store", reg[d], answered)
      /\ events \in Nat /\ answered \in SUBSET Endpoint
  BY TypeFacts DEF RegistryInv, InFlight, StoreRegistration
<1>2. list \in [{1} -> Entry] /\ DOMAIN list = {1} /\ list[1] = reg[d]
  BY <1>1
<1>3. table' = UpsertNodes(table, list) /\ UNCHANGED answered
  BY DEF StoreRegistration
<1> HIDE DEF list
<1>4. WellNamed(list)
  BY <1>1, <1>2 DEF WellNamed, MayShare, RegistrationSound
<1>5. \A i \in {1} : RequireProxyAlive /\ Online(list[i].row) =>
        list[i].row.host \in answered' \cup FileHosts
  BY <1>1, <1>2, <1>3 DEF RegistrationSound
<1>6. /\ table' \in [Node -> Row] /\ OneDefault' /\ OfferedWasProbed'
      /\ TableChange(AsNodeTable(table), AsNodeTable(table'))
  BY <1>2, <1>3, <1>4, <1>5, UpsertStep
<1> QED
  BY <1>1, <1>6, RegistrationFacts, RegistrationMoves DEF StoreRegistration

\* nodes.json is written as it is, by whichever process starts.
LEMMA ImportWrites ==
  ASSUME RegistryInv, table' = UpsertNodes(table, FileRows), UNCHANGED answered
  PROVE  /\ table' \in [Node -> Row] /\ OneDefault' /\ OfferedWasProbed'
         /\ TableChange(AsNodeTable(table), AsNodeTable(table'))
<1>1. \A i \in 1..Len(FileRows) : FileRows[i].row.host \in FileHosts
  BY FileFacts DEF FileHosts
<1> QED
  BY <1>1, FileFacts, UpsertStep

LEMMA ImportSteps ==
  ASSUME RegistryInv, ImportFile \/ RestartAPI
  PROVE  RegistryInv' /\ TableChange(AsNodeTable(table), AsNodeTable(table'))
<1>1. table' = UpsertNodes(table, FileRows) /\ UNCHANGED <<fleet, answered>>
  BY DEF ImportFile, RestartAPI
<1>2. /\ table' \in [Node -> Row] /\ OneDefault' /\ OfferedWasProbed'
      /\ TableChange(AsNodeTable(table), AsNodeTable(table'))
  BY <1>1, ImportWrites
<1>3. InFlight'
  <2>1. CASE ImportFile
    BY <1>1, <2>1 DEF ImportFile, RegistryInv, InFlight, SyncSound, RegistrationSound,
                      syncs, registrations
  <2>2. CASE RestartAPI
    <3>1. \A s \in Syncer : SyncSound(syncPc[s], sync[s], answered)'
      BY <2>2, NoSyncSound DEF RestartAPI, SyncSound
    <3>2. \A d \in Daemon : RegistrationSound(regPc[d], reg[d], answered)'
      BY <2>2, RegistrationFacts DEF RestartAPI, RegistrationSound
    <3> QED
      BY <3>1, <3>2 DEF InFlight
  <2> QED
    BY <2>1, <2>2
<1>4. TypeOK'
  <2>1. CASE ImportFile
    BY <1>1, <1>2, <2>1, TypeFacts
       DEF ImportFile, RegistryInv, TypeOK, Spend, fleet, syncs, registrations
  <2>2. CASE RestartAPI
    BY <1>1, <1>2, <2>2, TypeFacts, NoSyncSound, RegistryAssumption
       DEF RestartAPI, RegistryInv, TypeOK, Spend, fleet
  <2> QED
    BY <2>1, <2>2
<1> QED
  BY <1>2, <1>3, <1>4 DEF RegistryInv

LEMMA SurroundingSteps ==
  ASSUME RegistryInv, ChangeFleet \/ ChangeEndpoint
  PROVE  RegistryInv' /\ table' = table
<1>1. UNCHANGED <<table, syncs, registrations, answered>>
  BY DEF ChangeFleet, ChangeEndpoint
<1>2. InFlight' /\ OneDefault' /\ OfferedWasProbed'
  BY <1>1 DEF RegistryInv, InFlight, SyncSound, RegistrationSound, OneDefault,
              OfferedWasProbed, syncs, registrations
<1>3. usable' \subseteq Machine /\ alive' \subseteq Endpoint /\ events' \in Nat
  BY TypeFacts DEF ChangeFleet, ChangeEndpoint, Spend, RegistryInv
<1> QED
  BY <1>1, <1>2, <1>3 DEF RegistryInv, TypeOK, syncs, registrations

LEMMA AbortStep ==
  ASSUME RegistryInv, NEW s \in Syncer, AbortSync(s)
  PROVE  RegistryInv' /\ table' = table
BY SyncEnds, TypeFacts DEF AbortSync, Spend, RegistryInv

LEMMA NextStep ==
  ASSUME RegistryInv, Next
  PROVE  /\ RegistryInv'
         /\ table' # table => TableChange(AsNodeTable(table), AsNodeTable(table'))
BY ListingSteps, ProbeStep, MatchStep, FilterStep, FinishStep, WriteStep, MarkStep,
   AbortStep, RegisterSteps, StoreStep, ImportSteps, SurroundingSteps
   DEF Next, SyncStep, Register

LEMMA RegistryInit == Init => RegistryInv
<1> SUFFICES ASSUME Init PROVE RegistryInv
  OBVIOUS
<1>1. /\ NoTable \in [Node -> Row] /\ DefaultsAgree(NoTable)
      /\ \A n \in Node : ~Online(NoTable[n])
  BY NoTableType DEF NoTable, NoTableRow, Online, DefaultsAgree
<1>2. /\ table = UpsertNodes(NoTable, FileRows)
      /\ \A i \in 1..Len(FileRows) : FileRows[i].row.host \in FileHosts
  BY FileFacts DEF Init, FileHosts
<1>3. /\ table \in [Node -> Row] /\ DefaultsAgree(table)
      /\ TableChange(AsNodeTable(NoTable), AsNodeTable(table))
  BY <1>1, <1>2, FileFacts, UpsertSafe
<1>4. \A n \in Node : Online(table[n]) => table[n].host \in FileHosts
  BY <1>1, <1>2, FileFacts, UpsertOffers
<1>5. OneDefault /\ OfferedWasProbed
  BY <1>3, <1>4, DefaultsOfTable DEF OfferedWasProbed, Online
<1>6. InFlight
  BY NoSyncSound, RegistryAssumption DEF Init, InFlight, RegistrationSound
<1>7. TypeOK
  BY <1>3, NoSyncSound, RegistryAssumption DEF Init, TypeOK
<1> QED
  BY <1>5, <1>6, <1>7 DEF RegistryInv

LEMMA RegistryHolds == Spec => []RegistryInv
<1>1. RegistryInv /\ UNCHANGED vars => RegistryInv'
  BY DEF RegistryInv, TypeOK, OneDefault, OfferedWasProbed, InFlight, SyncSound,
         RegistrationSound, vars, fleet, syncs, registrations
<1>2. RegistryInv /\ [Next]_vars => RegistryInv'
  BY <1>1, NextStep
<1> QED
  BY <1>2, RegistryInit, PTL DEF Spec

-----------------------------------------------------------------------------
(* What the invariant says of the node table.                              *)

\* The table, the lists of the syncs and the requests keep their shape, for
\* every fleet: numbering machines by country never runs out of ids, and the
\* matching never takes an endpoint from a row that has none.
THEOREM RegistryTypes == Spec => []TypeOK
BY RegistryHolds, PTL DEF RegistryInv

\* However many syncs, registrations and imports interleave and stop halfway,
\* two nodes are the default only where nodes.json marks both; nothing is
\* assumed of how many it marks.
THEOREM DefaultIsUnique == Spec => []OneDefault
BY RegistryHolds, PTL DEF RegistryInv

\* With the alive check on, every endpoint offered to browsers passed a probe
\* once or was written by an operator, whatever became of it in between.
THEOREM OfferedNodesWereProbed == Spec => []OfferedWasProbed
BY RegistryHolds, PTL DEF RegistryInv

\* The registry keeps what the session core assumes of it: its writes are all
\* among those that BrowserSessions is checked and proved for.
THEOREM WritesAreAssumed == Spec => WritesAreTableChanges
<1>1. RegistryInv /\ [Next]_vars =>
        [TableChange(AsNodeTable(table), AsNodeTable(table'))]_table
  BY NextStep DEF vars
<1> QED
  BY <1>1, RegistryHolds, PTL DEF Spec, WritesAreTableChanges

\* However many syncs overlap and whatever machines, rows and probes they saw,
\* the endpoints of registered rows go to the listed machines the way
\* FairMatching says: applyRegisteredProxyCandidates.
THEOREM MatchingFair == Spec => []MatchesFairly
<1>1. TypeOK => MatchesFairly
  <2> SUFFICES ASSUME TypeOK, NEW s \in Syncer
               PROVE  FairMatching(sync[s].list, sync[s].rows, sync[s].reachable,
                                   ApplyRegisteredEndpoints(sync[s].list, sync[s].rows,
                                                            sync[s].reachable))
    BY DEF MatchesFairly
  <2>1. sync[s] \in Sync
    BY DEF TypeOK
  <2>2. /\ sync[s].rows \in [Node -> Row] /\ sync[s].reachable \in SUBSET Node
        /\ sync[s].list \in Listing
    BY <2>1 DEF Sync
  <2>3. PICK D \in SUBSET Machine : sync[s].list \in [D -> Entry]
    BY <2>2 DEF Listing
  <2> QED
    BY <2>2, <2>3, MatchingIsFair
<1> QED
  BY <1>1, RegistryTypes, PTL
=============================================================================
