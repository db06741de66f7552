---------------------- MODULE BrowserSessionsInvariant ----------------------
(***************************************************************************)
(* The inductive invariant of BrowserSessions: what every request in       *)
(* flight knows at each of its labels, and what the rows and the history   *)
(* satisfy, so that no late write carries a session past its lease.        *)
(***************************************************************************)
EXTENDS BrowserSessions

\* The exchange has a row id of its own that is not in the table yet.
Creating(label, r) ==
  /\ r.kind = "exchange"
  /\ label \in {"subscription", "compatibility", "judge", "link", "nodes", "insert"}

\* The request works on an existing row and knows its source.
Bound(r) ==
  sess[r.session].status # "none" /\ r.source = sess[r.session].source

Leased(x) == SourceType[x] = "remna_subscription"

\* An end within the term of the source, in one of the states it may take.
WithinTerm(x, end) ==
  \E state \in SourceState[x] : state.expires = 0 \/ end <= state.expires

\* An end that a subscription has vouched for.
Granted(s, end) ==
  LET x == sess[s].source
  IN  Leased(x) => /\ \/ end <= lastGood[x] + SessionTTL
                      \/ end <= sess[s].created + SessionTTL
                   /\ WithinTerm(x, end)

\* The source was valid at an instant at which the session existed.
Confirmed(s) ==
  LET x == sess[s].source
  IN  Leased(x) => sess[s].created <= lastGood[x]

\* The request waits for Remnawave, or holds its answer.
Asking == {"subscription", "compatibility", "judge"}

\* An answer that still validates was valid when it was given, which was after
\* the validation began: later instants accept no more than earlier ones.
Vouched(r) ==
  /\ Leased(r.source)
  /\ r.link \in SourceState[r.source]
  /\ ValidateSubscription(r.link, clock) =>
       lastGood[r.source] > 0 /\ r.now <= lastGood[r.source]

\* A request for a pair has validated its session and goes on.
Cleared ==
  {"extend", "rotate", "nodes", "pick", "credential", "create", "renew", "readback",
   "reply"}

\* What a request holds when it stands at a label.
Sound(label, r) ==
  /\ label = "idle" => r.session = NoSession
  /\ label \in {"load", "check", "extend", "rotate", "disown", "revoke"} =>
       r.kind # "exchange"
  /\ label = "pick" => r.kind = "config"
  /\ label \in {"credential", "create", "renew", "readback"} =>
       r.kind \in {"config", "exchange"}
  /\ label \notin {"idle", "load"} /\ ~Creating(label, r) => Bound(r)
  /\ Creating(label, r) => sess[r.session].status = "none"
  /\ Creating(label, r) /\ label \in {"nodes", "insert"} =>
       /\ lastGood[r.source] > 0
       /\ label = "nodes" /\ Leased(r.source) => r.link \in SourceState[r.source]
  /\ label = "insert" =>
       /\ r.kind = "exchange"
       /\ r.next <= clock + SessionTTL
       /\ Leased(r.source) => WithinTerm(r.source, r.next)
  /\ label \in {"check", "rotate"} \cup Asking /\ r.kind # "exchange" =>
       Granted(r.session, r.expires)
  /\ label \in Asking => r.now <= clock
  /\ label \in Asking /\ r.kind # "exchange" => sess[r.session].created <= r.now
  /\ label \in Cleared /\ r.kind = "config" => Confirmed(r.session)
  /\ label = "judge" => Vouched(r)
  /\ label = "extend" => Granted(r.session, r.next)
  /\ label = "reply" /\ r.kind = "logout" => sess[r.session].status = "revoked"

\* Two requests never share a row id one of them is about to insert.
Exclusive ==
  \A v, w \in Worker :
    v # w /\ Creating(pc[w], req[w]) => req[v].session # req[w].session

\* The history of the sources agrees with the clock and their present state.
HistoryInv ==
  /\ clock >= 1
  /\ \A x \in Source :
       /\ source[x] \in SourceState[x]
       /\ lastGood[x] <= clock
       /\ SourceValid(x, source[x], clock) => lastGood[x] = clock

\* Every row that exists had a valid source and carries a granted lease.
RowInv ==
  \A s \in Session : sess[s].status # "none" =>
    /\ sess[s].source \in Source
    /\ lastGood[sess[s].source] > 0
    /\ sess[s].created <= clock
    /\ Granted(s, sess[s].expires)

\* The clients only know rows that exist, hold pairs of sessions whose source
\* was valid after they were made, and a logout they saw is done.
ClientInv ==
  /\ \A s \in Session : held[s] # {} => sess[s].status # "none"
  /\ \A p \in handed : sess[p.session].status # "none" /\ Confirmed(p.session)
  /\ \A s \in loggedOut : sess[s].status = "revoked"

RequestInv == \A w \in Worker : Sound(pc[w], req[w])

LeaseInv == HistoryInv /\ RowInv /\ ClientInv /\ RequestInv /\ Exclusive
=============================================================================
