---------------------------- MODULE RemnaListing ----------------------------
(***************************************************************************)
(* How a listing of the machines in Remnawave becomes rows of the `nodes`  *)
(* table: ids by country and order, endpoints of registered rows in place  *)
(* of addresses, one default.  Pure operators; NodeRegistry says when each *)
(* is applied, and to what.                                                *)
(*                                                                         *)
(* An endpoint stands for host, port, scheme and pac support, which always *)
(* move together.  An entry, an id with its row, stands in a listing at    *)
(* the place of its machine: the places left out keep the order.           *)
(***************************************************************************)
EXTENDS Naturals, Sequences, FiniteSets, Nodes

CONSTANTS
  Country, NoCountry,
  Endpoint, NoEndpoint,
  Fleet,      \* the machines in view order: Seq([country, address])
  NodeID,     \* "pl-1", "pl-2", ...: [Country -> Seq(Node)]
  Position    \* the order of the ids in lower case: [Node -> Nat]

Machine == DOMAIN Fleet

Row ==
  [status : NodeStatus, isDefault : BOOLEAN,
   country : Country \cup {NoCountry}, host : Endpoint \cup {NoEndpoint}]

Entry == [id : Node, row : Row]

Listing == UNION {[places -> Entry] : places \in SUBSET Machine}

ASSUME FleetAssumption ==
  /\ Fleet \in Seq([country : Country, address : Endpoint])
  /\ NodeID \in [Country -> Seq(Node)]
  /\ \A c \in Country : Len(NodeID[c]) >= Len(Fleet)
  /\ Position \in [Node -> Nat]
  /\ NoCountry \notin Country /\ NoEndpoint \notin Endpoint

OnlineRow(country, host) ==
  [status |-> "online", isDefault |-> FALSE, country |-> country, host |-> host]

\* Machines that are disabled, disconnected or not tagged are skipped, and the
\* others are numbered within their country.
MapRemnaNodes(usable) ==
  LET country(m) == Fleet[m].country
      number(m) == Cardinality({k \in usable : k <= m /\ country(k) = country(m)})
  IN  [m \in usable |->
         [id  |-> NodeID[country(m)][number(m)],
          row |-> OnlineRow(country(m), Fleet[m].address)]]

\* The first node of a list is the default: a sync lists only online ones.
AssignDefaultNode(list) ==
  [m \in DOMAIN list |->
     [list[m] EXCEPT !.row.isDefault = \A k \in DOMAIN list : m <= k]]

-----------------------------------------------------------------------------
(* applyRegisteredProxyCandidates.                                         *)

\* The candidate the others are tried after.  Ids that differ in case alone keep
\* the order of the table, which is left open.
First(ids) == CHOOSE n \in ids : \A k \in ids : Position[n] <= Position[k]

\* The entries whose own row is reachable and names the same country.
MatchedByID(list, rows, reachable) ==
  {m \in DOMAIN list :
     /\ list[m].id \in reachable
     /\ rows[list[m].id].country = list[m].row.country}

\* registeredByCountry: rows without a country are passed over, and of those
\* with one endpoint the first counts.
Spare(rows, reachable, country) ==
  LET located == {n \in reachable : rows[n].country # NoCountry}
  IN  {n \in located :
         /\ rows[n].country = country
         /\ n = First({k \in located : rows[k].host = rows[n].host})}

HostsByID(list, rows, reachable) ==
  {rows[list[m].id].host : m \in MatchedByID(list, rows, reachable)}

\* The rows that an entry without a reachable row of its own may take the
\* endpoint of, when some endpoints are in use.
Open(list, rows, reachable, m, used) ==
  {n \in Spare(rows, reachable, list[m].row.country) : rows[n].host \notin used}

\* usedEndpoints when the second pass leaves a place...
UsedAfter(list, rows, reachable, m, used) ==
  LET open == Open(list, rows, reachable, m, used)
  IN  IF m \in DOMAIN list \ MatchedByID(list, rows, reachable) /\ open # {}
      THEN used \cup {rows[First(open)].host}
      ELSE used

\* ...and after all places up to one.
UsedUpTo(list, rows, reachable) ==
  LET used[m \in 0..Len(Fleet)] ==
        IF m = 0 THEN HostsByID(list, rows, reachable)
        ELSE UsedAfter(list, rows, reachable, m, used[m - 1])
  IN  used

\* Mutant: an endpoint given to a node by its country is not noted as used.
ApplyWithoutNoting(list, rows, reachable) ==
  LET byID == MatchedByID(list, rows, reachable)
      open(m) == Open(list, rows, reachable, m, HostsByID(list, rows, reachable))
      host(m) == IF m \in byID THEN rows[list[m].id].host
                 ELSE IF open(m) = {} THEN list[m].row.host
                 ELSE rows[First(open(m))].host
  IN  [m \in DOMAIN list |-> [list[m] EXCEPT !.row.host = host(m)]]

(***************************************************************************)
(* First every entry takes the endpoint of its own row; then the others,   *)
(* in order, take the first endpoint of their country that is not in use,  *)
(* and keep their address when there is none left.                         *)
(***************************************************************************)
ApplyRegisteredEndpoints(list, rows, reachable) ==
  LET byID == MatchedByID(list, rows, reachable)
      used == UsedUpTo(list, rows, reachable)
      open(m) == Open(list, rows, reachable, m, used[m - 1])
      host(m) == IF m \in byID THEN rows[list[m].id].host
                 ELSE IF open(m) = {} THEN list[m].row.host
                 ELSE rows[First(open(m))].host
  IN  [m \in DOMAIN list |-> [list[m] EXCEPT !.row.host = host(m)]]

(***************************************************************************)
(* What the matching promises, without saying how: an entry with a row of  *)
(* its own keeps that row's endpoint, and the spare endpoints of a country *)
(* go to its other entries one each, to the earlier ones first, none being *)
(* left over while an entry goes without.                                  *)
(***************************************************************************)
FairMatching(list, rows, reachable, result) ==
  LET byID    == MatchedByID(list, rows, reachable)
      others  == DOMAIN list \ byID
      spare(c) == {rows[n].host : n \in Spare(rows, reachable, c)}
                    \ {rows[list[m].id].host : m \in byID}
      country(m) == list[m].row.country
  IN  /\ DOMAIN result = DOMAIN list
      /\ \A m \in DOMAIN list : result[m].id = list[m].id
      /\ \A m \in byID : result[m].row.host = rows[list[m].id].host
      /\ \E served \in SUBSET others :
           /\ \A m \in served : result[m].row.host \in spare(country(m))
           /\ \A k, m \in served :
                result[k].row.host = result[m].row.host => k = m
           /\ \A m \in others \ served :
                /\ result[m].row.host = list[m].row.host
                /\ \A k \in served : country(k) = country(m) => k < m
                /\ spare(country(m)) \subseteq {result[k].row.host : k \in served}
=============================================================================
