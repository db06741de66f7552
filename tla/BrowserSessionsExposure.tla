---------------------- MODULE BrowserSessionsExposure ----------------------
(***************************************************************************)
(* LeaseInv is inductive, and with it: access outlives a source by at most *)
(* one session TTL, never outlives its term, and ends with a logout.       *)
(***************************************************************************)
EXTENDS BrowserSessionsProofs

Inv == Typed /\ LeaseInv

USE DEF Asking, Cleared

LEMMA TypedFacts ==
  ASSUME Typed
  PROVE  /\ clock \in Nat
         /\ source \in [Source -> SourceRecord]
         /\ lastGood \in [Source -> Nat]
         /\ sess \in [Session -> SessionRow]
         /\ cred \in [Session -> [Node -> CredentialRow]]
         /\ pc \in [Worker -> Label]
         /\ req \in [Worker -> Request]
         /\ loggedOut \subseteq Session
         /\ held \in [Session -> SUBSET Nat]
         /\ handed \subseteq Pair
         /\ \A w \in Worker : Shaped(pc[w], req[w])
BY DEF Typed, TypeOK

\* Rows that exist keep their source and their birth, and stay revoked; the
\* clock and the sources' history only move forward.
Forward ==
  /\ \A s \in Session : sess[s].status # "none" =>
       /\ sess'[s].status # "none"
       /\ sess'[s].source = sess[s].source
       /\ sess'[s].created = sess[s].created
       /\ sess[s].status = "revoked" => sess'[s].status = "revoked"
  /\ clock' \in Nat /\ clock' >= clock
  /\ \A x \in Source : lastGood'[x] \in Nat /\ lastGood'[x] >= lastGood[x]

\* A lease once granted stays granted.
LEMMA GrantedStays ==
  ASSUME Typed, RowInv, Forward, NEW s \in Session, NEW end \in Nat,
         sess[s].status # "none", Granted(s, end)
  PROVE  Granted(s, end)'
<1>1. sess[s].source \in Source /\ sess[s].created \in Nat
  BY TypedFacts DEF RowInv, SessionRow
<1>2. /\ sess'[s].source = sess[s].source
      /\ sess'[s].created = sess[s].created
  BY DEF Forward
<1>3. /\ lastGood'[sess[s].source] \in Nat /\ lastGood[sess[s].source] \in Nat
      /\ lastGood'[sess[s].source] >= lastGood[sess[s].source]
  BY <1>1, TypedFacts DEF Forward
<1> QED
  BY <1>1, <1>2, <1>3, DurationAssumption DEF Granted, Leased, WithinTerm

\* An answer that validates later validated before, and the history grows.
LEMMA VouchedStays ==
  ASSUME Typed, Forward, NEW r \in Request, r.source \in Source, Vouched(r)
  PROVE  Vouched(r)'
<1>1. /\ r.link.expires \in Nat /\ r.now \in Nat
      /\ clock \in Nat /\ clock' \in Nat /\ clock <= clock'
      /\ lastGood[r.source] \in Nat /\ lastGood'[r.source] \in Nat
      /\ lastGood[r.source] <= lastGood'[r.source]
  BY TypedFacts DEF Forward, Request, SourceRecord
<1>2. ValidateSubscription(r.link, clock') => ValidateSubscription(r.link, clock)
  BY <1>1 DEF ValidateSubscription, Before
<1> QED
  BY <1>1, <1>2 DEF Vouched, Leased, ValidateSubscription

\* A session whose source was valid after it was made stays one.
LEMMA ConfirmedStays ==
  ASSUME Typed, RowInv, Forward, NEW s \in Session, sess[s].status # "none",
         Confirmed(s)
  PROVE  Confirmed(s)'
<1>1. sess[s].source \in Source /\ sess[s].created \in Nat
  BY TypedFacts DEF RowInv, SessionRow
<1>2. /\ sess'[s].source = sess[s].source
      /\ sess'[s].created = sess[s].created
  BY DEF Forward
<1>3. /\ lastGood'[sess[s].source] \in Nat /\ lastGood[sess[s].source] \in Nat
      /\ lastGood'[sess[s].source] >= lastGood[sess[s].source]
  BY <1>1, TypedFacts DEF Forward
<1> QED
  BY <1>1, <1>2, <1>3 DEF Confirmed, Leased

\* What the clients know survives every step that tells them nothing.
LEMMA ClientsKeep ==
  ASSUME Typed, RowInv, ClientInv, Forward, UNCHANGED <<held, handed, loggedOut>>
  PROVE  ClientInv'
<1>1. ASSUME NEW p \in handed
      PROVE  sess'[p.session].status # "none" /\ Confirmed(p.session)'
  <2>1. PICK s \in Session : s = p.session
    BY TypedFacts DEF Pair
  <2>2. sess[s].status # "none" /\ Confirmed(s)
    BY <2>1 DEF ClientInv
  <2>3. sess'[s].status # "none" /\ Confirmed(s)'
    BY <2>2, ConfirmedStays DEF Forward
  <2> QED
    BY <2>1, <2>3
<1>2. \A s \in Session : held'[s] # {} => sess'[s].status # "none"
  BY DEF ClientInv, Forward
<1>3. \A s \in loggedOut' : sess'[s].status = "revoked"
  BY TypedFacts DEF ClientInv, Forward
<1> QED
  BY <1>1, <1>2, <1>3 DEF ClientInv

\* What a request knows survives the steps of the others.
LEMMA SoundStays ==
  ASSUME Typed, RowInv, Forward, NEW label \in Label, NEW r \in Request,
         Shaped(label, r), Sound(label, r),
         Creating(label, r) => sess'[r.session].status = "none"
  PROVE  Sound(label, r)'
<1>1. label # "idle" => r.session \in Session
  BY DEF Shaped
<1>2. r.expires \in Nat /\ r.next \in Nat /\ r.now \in Nat
  BY DEF Request
<1>3. label \notin {"idle", "load"} /\ ~Creating(label, r) => Bound(r) /\ Bound(r)'
  BY <1>1 DEF Sound, Bound, Forward
<1>4. label \notin {"idle", "load"} => r.source \in Source
  BY DEF Shaped
<1>5. Creating(label, r) /\ label \in {"nodes", "insert"} => lastGood'[r.source] > 0
  BY <1>4, TypedFacts DEF Sound, Creating, Forward
<1>6. label = "insert" => r.next <= clock' + SessionTTL
  BY <1>2, TypedFacts, DurationAssumption DEF Sound, Forward
<1>7. label \in {"check", "rotate"} \cup Asking /\ r.kind # "exchange"
        => Granted(r.session, r.expires)'
  BY <1>1, <1>2, <1>3, GrantedStays DEF Sound, Bound, Creating, Asking
<1>8. label \in Asking => r.now <= clock'
  BY <1>2, TypedFacts DEF Sound, Forward
<1>12. label = "judge" => Vouched(r)'
  BY <1>4, VouchedStays DEF Sound
<1>9. label = "extend" => Granted(r.session, r.next)'
  BY <1>1, <1>2, <1>3, GrantedStays DEF Sound, Bound, Creating
<1>10. label = "reply" /\ r.kind = "logout" => sess'[r.session].status = "revoked"
  BY <1>1 DEF Sound, Forward
<1>11. Creating(label, r)' = Creating(label, r)
  BY DEF Creating
<1>13. label \in Asking /\ r.kind # "exchange" => sess'[r.session].created <= r.now
  BY <1>1, <1>3 DEF Sound, Bound, Creating, Forward
<1>14. label \in Cleared /\ r.kind = "config" => Confirmed(r.session)'
  BY <1>1, <1>3, ConfirmedStays DEF Sound, Bound, Creating
<1> QED
  BY <1>3, <1>5, <1>6, <1>7, <1>8, <1>9, <1>10, <1>11, <1>12, <1>13, <1>14
     DEF Sound, Leased, WithinTerm, Asking

LEMMA NoRequestSound == Sound("idle", NoRequest) /\ Sound("idle", NoRequest)'
BY DEF Sound, NoRequest, Creating

\* One request moves on, the others stay where they are.
LEMMA MoveKeeps ==
  ASSUME Typed, RowInv, RequestInv, Exclusive, Forward,
         NEW w \in Worker, NEW label \in Label, NEW r \in Request,
         Continue(w, label, r), Sound(label, r)',
         r.session \in {NoSession, req[w].session},
         Creating(label, r) =>
           Creating(pc[w], req[w]) /\ r.session = req[w].session,
         \A v \in Worker \ {w} :
           Creating(pc[v], req[v]) => sess'[req[v].session].status = "none"
  PROVE  RequestInv' /\ Exclusive'
<1>1. /\ pc'[w] = label /\ req'[w] = r
      /\ \A v \in Worker \ {w} : pc'[v] = pc[v] /\ req'[v] = req[v]
  BY TypedFacts DEF Continue
<1>2. ASSUME NEW v \in Worker \ {w}
      PROVE  Sound(pc[v], req[v])'
  <2> DEFINE l == pc[v]
             q == req[v]
  <2>1. l \in Label /\ q \in Request /\ Shaped(l, q) /\ Sound(l, q)
    BY TypedFacts DEF RequestInv
  <2>2. \A a \in Label, b \in Request :
          /\ Shaped(a, b)
          /\ Sound(a, b)
          /\ Creating(a, b) => sess'[b.session].status = "none"
          => Sound(a, b)'
    BY SoundStays
  <2>3. PICK a \in Label, b \in Request : a = l /\ b = q
    BY <2>1
  <2>4. Sound(a, b)'
    BY <2>1, <2>2, <2>3
  <2>5. pc'[v] = a /\ req'[v] = b
    BY <1>1, <2>3
  <2> QED
    BY <2>4, <2>5 DEF Sound, Creating, Bound, Granted, Leased, WithinTerm, Vouched, Confirmed
<1>3. RequestInv'
  <2>1. Sound(pc[w], req[w])'
    BY <1>1 DEF Sound, Creating, Bound, Granted, Leased, WithinTerm, Vouched, Confirmed
  <2> QED
    BY <1>2, <2>1 DEF RequestInv
<1>4. Exclusive'
  <2> SUFFICES ASSUME NEW u \in Worker, NEW v \in Worker, u # v,
                      Creating(pc'[v], req'[v])
               PROVE  req'[u].session # req'[v].session
    BY DEF Exclusive, Creating
  <2>1. CASE v = w
    BY <1>1, <2>1 DEF Exclusive
  <2>2. CASE v # w
    <3>1. Creating(pc[v], req[v])
      BY <1>1, <2>2
    <3>2. req[v].session \in Session
      BY <3>1, TypedFacts DEF Shaped, Creating
    <3> QED
      BY <1>1, <2>2, <3>1, <3>2, IdentityAssumption DEF Exclusive
  <2> QED
    BY <2>1, <2>2
<1> QED
  BY <1>3, <1>4

LEMMA StillForward ==
  ASSUME Typed, UNCHANGED <<world, sess>>
  PROVE  Forward
BY TypedFacts DEF Forward, world

\* Steps that leave the sessions, the sources and the clients alone.
LEMMA ReadStep ==
  ASSUME Inv, UNCHANGED <<world, sess, clients>>,
         NEW w \in Worker, NEW label \in Label, NEW r \in Request,
         Continue(w, label, r), Sound(label, r),
         r.session \in {NoSession, req[w].session},
         Creating(label, r) =>
           Creating(pc[w], req[w]) /\ r.session = req[w].session
  PROVE  LeaseInv'
<1>1. Sound(label, r)'
  BY DEF Sound, Creating, Bound, Granted, Leased, WithinTerm, Vouched, Confirmed, world
<1>2. Forward
  BY StillForward DEF Inv
<1>3. \A v \in Worker \ {w} :
        Creating(pc[v], req[v]) => sess'[req[v].session].status = "none"
  BY DEF Inv, LeaseInv, RequestInv, Sound
<1>4. RequestInv' /\ Exclusive'
  BY <1>1, <1>2, <1>3, MoveKeeps DEF Inv, LeaseInv
<1>5. HistoryInv' /\ RowInv' /\ ClientInv'
  BY DEF Inv, LeaseInv, HistoryInv, RowInv, ClientInv, Granted, Confirmed, Leased, WithinTerm,
         SourceValid, world, clients
<1> QED
  BY <1>4, <1>5 DEF LeaseInv

LEMMA DropStep ==
  ASSUME Inv, UNCHANGED <<world, sess, clients>>, NEW w \in Worker, Drop(w)
  PROVE  LeaseInv'
<1>1. "idle" \in Label /\ NoRequest.session = NoSession /\ ~Creating("idle", NoRequest)
  BY DEF Label, NoRequest, Creating
<1> QED
  BY <1>1, NoRequestType, NoRequestSound, ReadStep DEF Drop

\* What a capped lease is bounded by, in both of its cases.
LEMMA CappedBounds ==
  ASSUME NEW now \in Nat, NEW end \in Nat
  PROVE  /\ CappedExpiry(now, end) \in Nat
         /\ CappedExpiry(now, end) <= now + SessionTTL
         /\ end = 0 \/ CappedExpiry(now, end) <= end
BY DurationAssumption DEF CappedExpiry

\* The renewal decision grants no more than the source has just vouched for.
LEMMA RenewStep ==
  ASSUME Inv, UNCHANGED <<world, sess, clients>>,
         NEW w \in Worker, NEW r \in Request, NEW end \in Nat,
         r.session \in Session, r.session = req[w].session, r.kind # "exchange",
         Bound(r), Granted(r.session, r.expires), r.source \in Source,
         sess[r.session].created <= r.now,
         Leased(r.source) =>
           /\ r.now <= lastGood[r.source]
           /\ \E state \in SourceState[r.source] : state.expires = end,
         Renew(w, r, end)
  PROVE  LeaseInv'
<1> DEFINE next == CappedExpiry(r.now, end)
<1>1. next \in Nat /\ next <= r.now + SessionTTL /\ (end = 0 \/ next <= end)
  BY CappedBounds DEF Request
<1>2. r.now \in Nat /\ lastGood[r.source] \in Nat /\ r.expires \in Nat
  BY TypedFacts DEF Request, Inv
<1>c. Confirmed(r.session)
  <2>1. sess[r.session].created \in Nat
    BY TypedFacts DEF Inv, SessionRow
  <2> QED
    BY <1>2, <2>1 DEF Confirmed, Bound
<1>3. CASE Drop(w)
  BY <1>3, DropStep
<1>4. CASE Continue(w, "extend", [r EXCEPT !.next = next])
  <2> DEFINE q == [r EXCEPT !.next = next]
  <2>1. /\ q \in Request /\ q.next = next /\ q.session = r.session
        /\ q.source = r.source /\ q.kind = r.kind
    BY <1>1 DEF Request
  <2>2. Granted(r.session, next)
    <3> HIDE DEF next
    <3>1. Leased(r.source) => next <= lastGood[r.source] + SessionTTL
      BY <1>1, <1>2, DurationAssumption
    <3>2. Leased(r.source) => WithinTerm(r.source, next)
      BY <1>1 DEF WithinTerm
    <3> QED
      BY <3>1, <3>2 DEF Granted, Bound
  <2>3. Sound("extend", q) /\ ~Creating("extend", q)
    <3> HIDE DEF next, q
    <3> QED
      BY <2>1, <2>2, <1>c DEF Sound, Creating, Bound
  <2> QED
    BY <1>4, <2>1, <2>3, ReadStep DEF Label
<1>5. CASE Continue(w, AfterValidation(r), Validated(r, r.expires))
  <2> DEFINE q == Validated(r, r.expires)
  <2>1. /\ q \in Request /\ q.session = r.session /\ q.source = r.source
        /\ q.kind = r.kind
    BY <1>2, ValidatedType
  <2>2. r.kind = "refresh" => q.expires = r.expires
    BY DEF Validated, Request
  <2>3. /\ Sound(AfterValidation(r), q) /\ ~Creating(AfterValidation(r), q)
        /\ AfterValidation(r) \in Label
    <3> HIDE DEF q
    <3> QED
      BY <2>1, <2>2, <1>c DEF Sound, Creating, Bound, AfterValidation, Label
  <2> QED
    BY <1>5, <2>1, <2>3, ReadStep
<1> QED
  BY <1>3, <1>4, <1>5 DEF Renew

\* What the invariant says of the request a worker holds.
LEMMA InvFacts ==
  ASSUME Inv, NEW w \in Worker
  PROVE  /\ req[w] \in Request
         /\ pc[w] \in Label
         /\ Shaped(pc[w], req[w])
         /\ Sound(pc[w], req[w])
BY TypedFacts DEF Inv, LeaseInv, RequestInv

\* A source that validates at this instant is good at this instant.
LEMMA ValidNow ==
  ASSUME Inv, NEW x \in Source, SourceValid(x, source[x], clock)
  PROVE  lastGood[x] = clock /\ lastGood[x] > 0 /\ source[x] \in SourceState[x]
BY TypedFacts DEF Inv, LeaseInv, HistoryInv

LEMMA LoadSound ==
  ASSUME Inv, NEW w \in Worker, LoadSession(w)
  PROVE  LeaseInv'
<1> DEFINE r == req[w]
           row == sess[r.session]
           moved == [r EXCEPT !.source = row.source, !.expires = row.expires,
                       !.token = 0,
                       !.link = IF SourceType[row.source] = "local_access_link"
                                THEN source[row.source] ELSE @]
<1>1. /\ r \in Request /\ r.session \in Session /\ r.kind # "exchange"
      /\ row \in SessionRow
  BY InvFacts, TypedFacts DEF LoadSession, Shaped, Sound, Inv
<1>2. CASE Drop(w)
  BY <1>2, DropStep DEF LoadSession, database
<1>3. CASE row.status = "active" /\ Continue(w, "check", moved)
  <2>1. Granted(r.session, row.expires) /\ row.source \in Source
    BY <1>1, <1>3 DEF Inv, LeaseInv, RowInv
  <2>2. source[row.source] \in SourceRecord
    BY <2>1, TypedFacts DEF Inv
  <2>3. moved \in Request
    BY <2>1, <2>2, <1>1 DEF Request, SessionRow
  <2>4. /\ moved.session = r.session /\ moved.kind = r.kind
        /\ moved.source = row.source /\ moved.expires = row.expires
    BY <1>1 DEF Request
  <2>5. Sound("check", moved) /\ ~Creating("check", moved)
    <3> HIDE DEF moved
    <3> QED
      BY <2>1, <2>4, <1>1, <1>3 DEF Sound, Creating, Bound
  <2>6. UNCHANGED <<world, sess, clients>>
    BY DEF LoadSession, database
  <2> QED
    BY <1>3, <2>3, <2>4, <2>5, <2>6, ReadStep DEF Label
<1> QED
  BY <1>2, <1>3 DEF LoadSession

LEMMA CheckSound ==
  ASSUME Inv, NEW w \in Worker, CheckSource(w)
  PROVE  LeaseInv'
<1> DEFINE r == req[w]
           q == [r EXCEPT !.now = clock]
<1>1. /\ r \in Request /\ r.session \in Session /\ r.kind # "exchange"
      /\ Sound("check", r) /\ clock \in Nat /\ r.source \in Source
  BY InvFacts, TypedFacts DEF CheckSource, Shaped, Sound, Inv
<1>2. /\ q \in Request /\ q.session = r.session /\ q.kind = r.kind
      /\ q.source = r.source /\ q.expires = r.expires /\ q.now = clock
      /\ q.link = r.link /\ q.link.expires \in Nat
  BY <1>1 DEF Request, SourceRecord
<1>3. Bound(q) /\ Granted(q.session, q.expires) /\ sess[q.session].created <= q.now
  <2> HIDE DEF q
  <2>1. Bound(q) /\ Granted(q.session, q.expires)
    BY <1>1, <1>2 DEF Sound, Creating, Bound
  <2> QED
    BY <1>1, <1>2, <2>1 DEF Bound, Inv, LeaseInv, RowInv
<1>4. UNCHANGED <<world, sess, clients>>
  BY DEF CheckSource, database
<1>5. CASE Drop(w)
  BY <1>4, <1>5, DropStep
<1>6. CASE Continue(w, "subscription", q)
  <2>1. Sound("subscription", q) /\ ~Creating("subscription", q)
    <3> HIDE DEF q
    <3> QED
      BY <1>1, <1>2, <1>3 DEF Sound, Creating, Asking
  <2> QED
    BY <1>2, <1>4, <1>6, <2>1, ReadStep DEF Label
<1>7. CASE ~Leased(r.source) /\ Renew(w, q, q.link.expires)
  <2> HIDE DEF q
  <2> QED
    BY <1>1, <1>2, <1>3, <1>4, <1>7, RenewStep
<1> QED
  BY <1>2, <1>5, <1>6, <1>7 DEF CheckSource, Leased

\* An answer on its way was given by the source as it was at that moment.
LEMMA AnswersSound ==
  ASSUME Inv, UNCHANGED <<world, sess, clients>>, NEW w \in Worker,
         pc[w] \in {"subscription", "compatibility"}, RemnaAnswers(w)
  PROVE  LeaseInv'
<1> DEFINE r == req[w]
           q == [r EXCEPT !.link = source[r.source]]
<1>1. /\ r \in Request /\ r.session \in Session /\ r.source \in Source
      /\ Sound(pc[w], r) /\ pc[w] \in Asking
  BY InvFacts DEF Shaped, Asking
<1>2. source[r.source] \in SourceRecord /\ Leased(r.source)
  BY <1>1, TypedFacts DEF RemnaAnswers, Leased, Inv
<1>3. /\ q \in Request /\ q.session = r.session /\ q.kind = r.kind
      /\ q.source = r.source /\ q.expires = r.expires /\ q.now = r.now
      /\ q.link = source[r.source]
  BY <1>1, <1>2 DEF Request
<1>4. SourceValid(r.source, source[r.source], clock) =>
        lastGood[r.source] = clock /\ lastGood[r.source] > 0
  BY <1>1, ValidNow
<1>5. source[r.source] \in SourceState[r.source]
  BY <1>1 DEF Inv, LeaseInv, HistoryInv
<1>6. Sound("judge", q) /\ (Creating("judge", q) => Creating(pc[w], r))
  <2> HIDE DEF q
  <2>1. r.now <= clock
    BY <1>1 DEF Sound
  <2>2. Vouched(q)
    BY <1>2, <1>3, <1>4, <1>5, <2>1 DEF Vouched, SourceValid, Leased
  <2> QED
    BY <1>1, <1>3, <2>1, <2>2 DEF Sound, Creating, Bound, Asking
<1> QED
  BY <1>3, <1>6, ReadStep DEF RemnaAnswers, Label

LEMMA RefuseSound ==
  ASSUME Inv, UNCHANGED <<world, sess, clients>>, NEW w \in Worker,
         pc[w] \in Asking, RefuseSource(w)
  PROVE  LeaseInv'
<1> DEFINE r == req[w]
           q == [r EXCEPT !.expires = 0, !.now = 0, !.link = NoRequest.link]
<1>1. CASE r.kind = "exchange"
  BY <1>1, DropStep DEF RefuseSource
<1>2. CASE r.kind # "exchange"
  <2>1. r \in Request /\ Sound(pc[w], r)
    BY InvFacts
  <2>2. /\ q \in Request /\ q.session = r.session /\ q.kind = r.kind
        /\ q.source = r.source
    BY <2>1 DEF Request, NoRequest, SourceRecord
  <2>3. Sound("disown", q) /\ ~Creating("disown", q)
    <3> HIDE DEF q
    <3> QED
      BY <1>2, <2>1, <2>2 DEF Sound, Creating, Bound, Asking
  <2> QED
    BY <1>2, <2>2, <2>3, ReadStep DEF RefuseSource, Label
<1> QED
  BY <1>1, <1>2

LEMMA AskSound ==
  ASSUME Inv, NEW w \in Worker, AskRemna(w) \/ AskCompatibility(w)
  PROVE  LeaseInv'
<1> DEFINE r == req[w]
<1>1. /\ r \in Request /\ r.session \in Session /\ r.source \in Source
      /\ Sound(pc[w], r) /\ pc[w] \in {"subscription", "compatibility"}
  BY InvFacts DEF AskRemna, AskCompatibility, Shaped
<1>2. UNCHANGED <<world, sess, clients>>
  BY DEF AskRemna, AskCompatibility, database
<1>3. CASE RemnaAnswers(w)
  BY <1>1, <1>2, <1>3, AnswersSound
<1>4. CASE RefuseSource(w)
  BY <1>1, <1>2, <1>4, RefuseSound DEF Asking
<1>5. ASSUME NEW label \in {"compatibility", "link"}, Continue(w, label, r),
             label = "link" => r.kind = "exchange"
      PROVE  LeaseInv'
  <2>1. Sound(label, r) /\ (Creating(label, r) => Creating(pc[w], r))
    BY <1>1, <1>5 DEF Sound, Creating, Bound, Asking
  <2> QED
    BY <1>1, <1>2, <1>5, <2>1, ReadStep DEF Label
<1> QED
  BY <1>3, <1>4, <1>5 DEF AskRemna, AskCompatibility

LEMMA JudgeSound ==
  ASSUME Inv, NEW w \in Worker, JudgeAnswer(w)
  PROVE  LeaseInv'
<1> DEFINE r == req[w]
<1>1. /\ r \in Request /\ r.session \in Session /\ r.source \in Source
      /\ Sound("judge", r) /\ pc[w] = "judge" /\ r.link.expires \in Nat
  BY InvFacts DEF JudgeAnswer, Shaped, Request, SourceRecord
<1>2. UNCHANGED <<world, sess, clients>>
  BY DEF JudgeAnswer, database
<1>3. Vouched(r) /\ r.now <= clock
  BY <1>1 DEF Sound, Asking
<1>4. CASE RefuseSource(w)
  BY <1>1, <1>2, <1>4, RefuseSound DEF Asking
<1>5. CASE /\ ValidateSubscription(r.link, clock) /\ r.kind = "exchange"
           /\ Continue(w, "nodes", r)
  <2>1. Sound("nodes", r) /\ Creating(pc[w], r)
    BY <1>1, <1>3, <1>5 DEF Sound, Creating, Vouched
  <2> QED
    BY <1>1, <1>2, <1>5, <2>1, ReadStep DEF Label
<1>6. CASE /\ ValidateSubscription(r.link, clock) /\ r.kind # "exchange"
           /\ Renew(w, r, r.link.expires)
  <2>1. Bound(r) /\ Granted(r.session, r.expires) /\ sess[r.session].created <= r.now
    BY <1>1, <1>6 DEF Sound, Creating, Asking
  <2> QED
    BY <1>1, <1>2, <1>3, <1>6, <2>1, RenewStep DEF Vouched
<1> QED
  BY <1>4, <1>5, <1>6 DEF JudgeAnswer

LEMMA FindAccessLinkSound ==
  ASSUME Inv, NEW w \in Worker, FindAccessLink(w)
  PROVE  LeaseInv'
<1> DEFINE r == req[w]
<1>1. /\ r \in Request /\ r.session \in Session /\ Sound("link", r)
      /\ r.source \in Source /\ pc[w] = "link"
  BY InvFacts DEF FindAccessLink, Shaped
<1>2. UNCHANGED <<world, sess, clients>>
  BY DEF FindAccessLink, database
<1>3. CASE Drop(w)
  BY <1>2, <1>3, DropStep
<1>4. CASE /\ SourceType[r.source] = "local_access_link"
           /\ ValidateAccessLink(source[r.source], clock)
           /\ Continue(w, "nodes", r)
  <2>1. lastGood[r.source] > 0 /\ ~Leased(r.source)
    BY <1>1, <1>4, ValidNow DEF SourceValid, Leased
  <2>2. Sound("nodes", r) /\ (Creating("nodes", r) => Creating(pc[w], r))
    BY <1>1, <2>1 DEF Sound, Creating, Bound, Confirmed
  <2> QED
    BY <1>1, <1>2, <1>4, <2>2, ReadStep DEF Label
<1> QED
  BY <1>3, <1>4 DEF FindAccessLink

LEMMA ListNodesSound ==
  ASSUME Inv, NEW w \in Worker, ListSessionNodes(w)
  PROVE  LeaseInv'
<1> DEFINE r == req[w]
           cap == IF SourceType[r.source] = "remna_subscription"
                  THEN r.link.expires ELSE 0
           end == CappedExpiry(clock, cap)
           created(d) == [r EXCEPT !.node = d, !.next = end]
<1>1. /\ r \in Request /\ r.session \in Session /\ r.kind \in Kinds
      /\ Sound("nodes", r) /\ r.source \in Source /\ pc[w] = "nodes"
  BY InvFacts DEF ListSessionNodes, Shaped
<1>2. UNCHANGED <<world, sess, clients>>
  BY DEF ListSessionNodes, database
<1>3. CASE Drop(w)
  BY <1>2, <1>3, DropStep
<1>4. CASE /\ r.kind # "exchange"
           /\ Continue(w, [session |-> "reply", refresh |-> "reply",
                           config |-> "pick", logout |-> "revoke"][r.kind], r)
  <2> DEFINE label == [session |-> "reply", refresh |-> "reply",
                       config |-> "pick", logout |-> "revoke"][r.kind]
  <2>1. /\ label \in {"reply", "pick", "revoke"}
        /\ label = "reply" => r.kind # "logout"
        /\ label = "pick" => r.kind = "config"
    BY <1>1, <1>4 DEF Kinds
  <2> HIDE DEF label
  <2>2. Sound(label, r) /\ ~Creating(label, r) /\ label \in Label
    BY <1>1, <1>4, <2>1 DEF Sound, Creating, Bound, Label
  <2>3. Continue(w, label, r)
    BY <1>4 DEF label
  <2> QED
    BY <1>1, <1>2, <2>2, <2>3, ReadStep
<1>5. ASSUME NEW d \in Node, r.kind = "exchange", Continue(w, "insert", created(d))
      PROVE  LeaseInv'
  <2> DEFINE q == created(d)
  <2>1. /\ clock \in Nat /\ cap \in Nat
    BY <1>1, TypedFacts DEF Inv, Request, SourceRecord
  <2>2. end \in Nat /\ end <= clock + SessionTTL /\ (cap = 0 \/ end <= cap)
    BY <2>1, CappedBounds
  <2>3. /\ q \in Request /\ q.session = r.session /\ q.kind = r.kind
        /\ q.source = r.source /\ q.next = end
    BY <1>1, <2>2 DEF Request
  <2>4. Creating("nodes", r) /\ Creating("insert", q)
    BY <1>5, <2>3 DEF Creating
  <2>5. Leased(r.source) => WithinTerm(r.source, end)
    <3> SUFFICES ASSUME Leased(r.source) PROVE WithinTerm(r.source, end)
      OBVIOUS
    <3>1. r.link \in SourceState[r.source] /\ cap = r.link.expires
      BY <1>1, <2>4 DEF Sound, Leased
    <3> HIDE DEF end, cap
    <3> QED
      BY <2>2, <3>1 DEF WithinTerm
  <2>6. Sound("insert", q)
    <3> HIDE DEF end, q
    <3> QED
      BY <1>1, <1>5, <2>2, <2>3, <2>4, <2>5 DEF Sound, Creating
  <2> QED
    BY <1>1, <1>2, <1>5, <2>3, <2>4, <2>6, ReadStep DEF Label
<1>6. CASE /\ r.kind = "exchange"
           /\ \E d \in DefaultCandidates(nodes, ResolveNodes(r.source),
                                         PreferredNode(r.source)) :
                Continue(w, "insert", created(d))
  BY <1>1, <1>5, <1>6, ResolveNodesType
<1> QED
  BY <1>3, <1>4, <1>6 DEF ListSessionNodes

LEMMA PickNodeSound ==
  ASSUME Inv, NEW w \in Worker, PickNode(w)
  PROVE  LeaseInv'
<1> DEFINE r == req[w]
           target == IF r.node = NoNode THEN sess[r.session].selected ELSE r.node
           q == [r EXCEPT !.node = target]
<1>1. /\ r \in Request /\ r.session \in Session /\ r.kind = "config"
      /\ Sound("pick", r) /\ r.source \in Source
  BY InvFacts DEF PickNode, Shaped, Sound
<1>2. UNCHANGED <<world, sess, clients>>
  BY DEF PickNode, database
<1>3. CASE Drop(w)
  BY <1>2, <1>3, DropStep
<1>4. CASE target \in ResolveNodes(r.source) /\ Continue(w, "credential", q)
  <2>1. target \in Node
    BY <1>1, <1>4, ResolveNodesType
  <2>2. /\ q \in Request /\ q.session = r.session /\ q.kind = r.kind
        /\ q.source = r.source
    BY <1>1, <2>1 DEF Request
  <2>3. Sound("credential", q) /\ ~Creating("credential", q)
    <3> HIDE DEF q
    <3> QED
      BY <1>1, <2>2 DEF Sound, Creating, Bound
  <2> QED
    BY <1>1, <1>2, <1>4, <2>2, <2>3, ReadStep DEF Label
<1> QED
  BY <1>3, <1>4 DEF PickNode

\* The credential steps carry a request from label to label and never touch
\* the session or what the client knows.
LEMMA CredentialSound ==
  ASSUME Inv, NEW w \in Worker,
         \/ SelectCredential(w) \/ CreateProxyCredential(w)
         \/ RotateProxyCredential(w) \/ ReadBackCredential(w)
  PROVE  LeaseInv'
<1> DEFINE r == req[w]
<1>1. /\ r \in Request /\ r.session \in Session /\ r.source \in Source
      /\ r.kind \in {"config", "exchange"} /\ Bound(r) /\ r.node \in Node
      /\ r.kind = "config" => Confirmed(r.session)
  BY InvFacts DEF SelectCredential, CreateProxyCredential, RotateProxyCredential,
       ReadBackCredential, Shaped, Sound, Creating, CredentialLabels
<1>2. UNCHANGED <<world, sess, clients>>
  BY DEF SelectCredential, CreateProxyCredential, RotateProxyCredential,
       ReadBackCredential, database
<1>3. /\ clock \in Nat
      /\ cred[r.session][r.node] \in CredentialRow
  BY <1>1, TypedFacts DEF Inv
<1>4. ASSUME NEW label \in {"create", "renew", "readback", "reply"},
             NEW q \in Request, Continue(w, label, q),
             q.session = r.session, q.kind = r.kind, q.source = r.source
      PROVE  LeaseInv'
  <2>1. Sound(label, q) /\ ~Creating(label, q) /\ label \in Label
    BY <1>1, <1>4 DEF Sound, Creating, Bound, Label
  <2> QED
    BY <1>1, <1>2, <1>4, <2>1, ReadStep
<1>5. CASE SelectCredential(w)
  <2> DEFINE row == cred[r.session][r.node]
             found == [r EXCEPT !.user = row.user, !.version = row.version]
             fresh == [r EXCEPT !.version = row.version + 1,
                                !.next = clock + CredentialTTL]
  <2>1. found \in Request /\ found.session = r.session /\ found.kind = r.kind
        /\ found.source = r.source
    BY <1>1, <1>3 DEF Request, CredentialRow
  <2>2. row.version + 1 \in Nat /\ clock + CredentialTTL \in Nat
    BY <1>3, DurationAssumption DEF CredentialRow
  <2>3. fresh \in Request /\ fresh.session = r.session /\ fresh.kind = r.kind
        /\ fresh.source = r.source
    BY <1>1, <2>2 DEF Request
  <2>4. PICK label \in {"create", "renew", "reply"} :
          Continue(w, label, found) \/ Continue(w, label, fresh)
    BY <1>5 DEF SelectCredential
  <2> QED
    BY <1>4, <2>1, <2>3, <2>4
<1>6. CASE CreateProxyCredential(w)
  <2> DEFINE made == IssuedCredential(cred[r.session][r.node], r.version, r.next)
             q == [r EXCEPT !.user = made.user, !.next = 0]
  <2>u. made.user \in Nat
    BY <1>3 DEF IssuedCredential, CredentialRow
  <2>1. q \in Request /\ q.session = r.session /\ q.kind = r.kind /\ q.source = r.source
    BY <1>1, <2>u DEF Request
  <2>2. CASE Drop(w)
    BY <1>2, <2>2, DropStep
  <2>3. CASE Continue(w, "reply", q)
    BY <1>4, <2>1, <2>3
  <2> QED
    BY <1>6, <2>2, <2>3 DEF CreateProxyCredential
<1>7. CASE RotateProxyCredential(w)
  <2> DEFINE q == [r EXCEPT !.version = 0, !.next = 0]
  <2>1. q \in Request /\ q.session = r.session /\ q.kind = r.kind /\ q.source = r.source
    BY <1>1 DEF Request
  <2> QED
    BY <1>4, <1>7, <2>1 DEF RotateProxyCredential
<1>8. CASE ReadBackCredential(w)
  <2> DEFINE row == cred[r.session][r.node]
             q == [r EXCEPT !.user = row.user, !.version = row.version]
  <2>1. q \in Request /\ q.session = r.session /\ q.kind = r.kind /\ q.source = r.source
    BY <1>1, <1>3 DEF Request, CredentialRow
  <2> QED
    BY <1>4, <1>8, <2>1 DEF ReadBackCredential
<1> QED
  BY <1>5, <1>6, <1>7, <1>8

\* One row is rewritten within what its source has granted, and only ever
\* changes its status to revoked.
LEMMA WriteStep ==
  ASSUME Inv, UNCHANGED <<world, clients>>, NEW w \in Worker,
         NEW s \in Session, NEW row \in SessionRow,
         sess[s].status # "none", sess' = [sess EXCEPT ![s] = row],
         row.source = sess[s].source, row.created = sess[s].created,
         row.status \in {sess[s].status, "revoked"},
         Granted(s, row.expires),
         NEW label \in Label, NEW r \in Request, Continue(w, label, r),
         Sound(label, r)', ~Creating(label, r),
         r.session \in {NoSession, req[w].session}
  PROVE  LeaseInv'
<1>1. /\ sess'[s] = row
      /\ \A v \in Session \ {s} : sess'[v] = sess[v]
  BY TypedFacts DEF Inv
<1>2. Forward
  BY <1>1, TypedFacts DEF Inv, Forward, world
<1>3. \A v \in Worker \ {w} :
        Creating(pc[v], req[v]) => sess'[req[v].session].status = "none"
  <2> SUFFICES ASSUME NEW v \in Worker \ {w}, Creating(pc[v], req[v])
               PROVE  sess'[req[v].session].status = "none"
    OBVIOUS
  <2>1. req[v].session \in Session /\ sess[req[v].session].status = "none"
    BY InvFacts DEF Creating, Shaped, Sound
  <2> QED
    BY <1>1, <2>1
<1>4. RequestInv' /\ Exclusive'
  BY <1>2, <1>3, MoveKeeps DEF Inv, LeaseInv
<1>5. RowInv'
  <2>1. ASSUME NEW v \in Session, sess[v].status # "none"
        PROVE  /\ sess'[v].source \in Source /\ lastGood[sess'[v].source] > 0
               /\ sess'[v].created <= clock /\ Granted(v, sess[v].expires)
               /\ sess'[v].source = sess[v].source /\ sess'[v].created = sess[v].created
    BY <2>1, <1>2 DEF Inv, LeaseInv, RowInv, Forward
  <2>2. \A v \in Session : sess'[v].status # "none" => sess[v].status # "none"
    BY <1>1
  <2>3. ASSUME NEW v \in Session, sess[v].status # "none"
        PROVE  Granted(v, sess'[v].expires)
    BY <1>1, <2>1, <2>3
  <2>4. lastGood' = lastGood /\ clock' = clock
    BY DEF world
  <2> QED
    BY <2>1, <2>2, <2>3, <2>4 DEF RowInv, Granted, Leased, WithinTerm
<1>6. HistoryInv'
  BY DEF Inv, LeaseInv, HistoryInv, SourceValid, world
<1>7. ClientInv'
  BY <1>2, ClientsKeep DEF Inv, LeaseInv, clients
<1> QED
  BY <1>4, <1>5, <1>6, <1>7 DEF LeaseInv

LEMMA ExtendSound ==
  ASSUME Inv, NEW w \in Worker, ExtendSession(w)
  PROVE  LeaseInv'
<1> DEFINE r == req[w]
           s == r.session
           row == [sess[s] EXCEPT !.expires = r.next]
           q == Validated(r, r.next)
<1>1. /\ r \in Request /\ s \in Session /\ r.source \in Source /\ r.next \in Nat
      /\ Bound(r) /\ Granted(s, r.next) /\ r.kind # "exchange"
      /\ r.kind = "config" => Confirmed(s)
  BY InvFacts DEF ExtendSession, Shaped, Sound, Creating, Cleared, Request
<1>2. sess \in [Session -> SessionRow] /\ sess[s] \in SessionRow
  BY <1>1, TypedFacts DEF Inv
<1>3. /\ row \in SessionRow /\ row.source = sess[s].source /\ row.status = sess[s].status
      /\ row.created = sess[s].created /\ row.expires = r.next
  BY <1>1, <1>2 DEF SessionRow
<1>4. sess' = [sess EXCEPT ![s] = row]
  BY DEF ExtendSession
<1>5. /\ q \in Request /\ q.session = s /\ q.source = r.source /\ q.kind = r.kind
      /\ r.kind = "refresh" => q.expires = r.next
  <2>1. r.kind = "refresh" => q.expires = r.next
    BY <1>1 DEF Validated, Request
  <2> QED
    BY <1>1, <2>1, ValidatedType
<1>6. UNCHANGED <<world, clients>>
  BY DEF ExtendSession
<1>7. AfterValidation(r) \in Label /\ ~Creating(AfterValidation(r), q)
  BY <1>1, <1>5 DEF AfterValidation, Label, Creating
<1>8. sess'[s] = row
  BY <1>1, <1>2, <1>4
<1>9. PICK t \in Session, c \in Request, label \in Label :
        t = s /\ c = q /\ label = AfterValidation(r)
  BY <1>1, <1>5, <1>7
<1>10. /\ Bound(c)'
       /\ c.kind = "refresh" => Granted(t, c.expires)'
       /\ c.kind = "config" => Confirmed(c.session)'
  <2> HIDE DEF row, q
  <2> QED
    BY <1>1, <1>3, <1>5, <1>6, <1>8, <1>9 DEF Bound, Granted, Confirmed, Leased, WithinTerm, world
<1>11. Sound(label, c)'
  <2> HIDE DEF q
  <2> QED
    BY <1>1, <1>5, <1>9, <1>10 DEF AfterValidation, Sound, Creating
<1>12. Continue(w, label, c)
  BY <1>9 DEF ExtendSession
<1> HIDE DEF row, q
<1> QED
  BY <1>1, <1>3, <1>4, <1>5, <1>6, <1>7, <1>9, <1>11, <1>12, WriteStep DEF Bound

LEMMA RotateTokenSound ==
  ASSUME Inv, NEW w \in Worker, RotateSessionToken(w)
  PROVE  LeaseInv'
<1> DEFINE r == req[w]
           s == r.session
           token == sess[s].token + 1
           row == [sess[s] EXCEPT !.token = token, !.expires = r.expires]
           q == [r EXCEPT !.token = token, !.expires = 0]
<1>1. /\ r \in Request /\ s \in Session /\ r.source \in Source /\ r.expires \in Nat
      /\ Bound(r) /\ Granted(s, r.expires) /\ r.kind # "exchange"
      /\ r.kind = "config" => Confirmed(s)
  BY InvFacts DEF RotateSessionToken, Shaped, Sound, Creating, Cleared, Request
<1>2. sess \in [Session -> SessionRow] /\ sess[s] \in SessionRow /\ token \in Nat
  BY <1>1, TypedFacts DEF Inv, SessionRow
<1>3. /\ row \in SessionRow /\ row.source = sess[s].source /\ row.status = sess[s].status
      /\ row.created = sess[s].created /\ row.expires = r.expires
  BY <1>1, <1>2 DEF SessionRow
<1>4. sess' = [sess EXCEPT ![s] = row]
  BY DEF RotateSessionToken
<1>5. /\ q \in Request /\ q.session = s /\ q.source = r.source /\ q.kind = r.kind
  BY <1>1, <1>2 DEF Request
<1>6. UNCHANGED <<world, clients>>
  BY DEF RotateSessionToken
<1>7. "nodes" \in Label /\ ~Creating("nodes", q)
  BY <1>1, <1>5 DEF Label, Creating
<1>8. sess'[s] = row
  BY <1>1, <1>2, <1>4
<1>9. PICK c \in Request : c = q
  BY <1>5
<1>10. Bound(c)' /\ (c.kind = "config" => Confirmed(c.session)')
  <2> HIDE DEF row, q
  <2> QED
    BY <1>1, <1>3, <1>5, <1>6, <1>8, <1>9 DEF Bound, Confirmed, Leased, world
<1>11. Sound("nodes", c)'
  <2> HIDE DEF q
  <2> QED
    BY <1>1, <1>5, <1>9, <1>10 DEF Sound, Creating
<1>12. Continue(w, "nodes", c)
  BY <1>9 DEF RotateSessionToken
<1> HIDE DEF row, q
<1> QED
  BY <1>1, <1>3, <1>4, <1>5, <1>6, <1>7, <1>9, <1>11, <1>12, WriteStep DEF Bound

LEMMA RevokeSound ==
  ASSUME Inv, NEW w \in Worker, DisownSession(w) \/ LogoutSession(w)
  PROVE  LeaseInv'
<1> DEFINE r == req[w]
           s == r.session
           row == [sess[s] EXCEPT !.status = "revoked"]
<1>1. /\ r \in Request /\ s \in Session /\ r.source \in Source
      /\ Bound(r) /\ r.kind # "exchange"
  BY InvFacts DEF DisownSession, LogoutSession, Shaped, Sound, Creating
<1>2. sess \in [Session -> SessionRow] /\ sess[s] \in SessionRow
  BY <1>1, TypedFacts DEF Inv
<1>3. /\ row \in SessionRow /\ row.source = sess[s].source /\ row.status = "revoked"
      /\ row.created = sess[s].created /\ row.expires = sess[s].expires
  BY <1>1, <1>2 DEF SessionRow
<1>4. sess' = [sess EXCEPT ![s] = row]
  BY DEF DisownSession, LogoutSession, Revoked
<1>5. UNCHANGED <<world, clients>>
  BY DEF DisownSession, LogoutSession
<1>6. Granted(s, row.expires)
  BY <1>1, <1>3 DEF Inv, LeaseInv, RowInv, Bound
<1>7. sess'[s] = row
  BY <1>1, <1>2, <1>4
<1>8. CASE DisownSession(w)
  <2>1. "idle" \in Label /\ NoRequest.session = NoSession /\ ~Creating("idle", NoRequest)
    BY DEF Label, NoRequest, Creating
  <2>2. Continue(w, "idle", NoRequest)
    BY <1>8 DEF DisownSession, Drop
  <2> HIDE DEF row
  <2> QED
    BY <1>1, <1>3, <1>4, <1>5, <1>6, <2>1, <2>2, NoRequestType, NoRequestSound,
       WriteStep DEF Bound
<1>9. CASE LogoutSession(w)
  <2> HIDE DEF row
  <2>1. PICK c \in Request : c = r
    BY <1>1
  <2>2. Bound(c)'
    BY <1>1, <1>3, <1>7, <2>1 DEF Bound
  <2>3. Sound("reply", c)' /\ ~Creating("reply", c)
    BY <1>1, <1>3, <1>7, <1>9, <2>1, <2>2, InvFacts
       DEF LogoutSession, Shaped, Sound, Creating
  <2>4. Continue(w, "reply", c) /\ "reply" \in Label
    BY <1>9, <2>1 DEF LogoutSession, Label
  <2> QED
    BY <1>1, <1>3, <1>4, <1>5, <1>6, <2>1, <2>3, <2>4, WriteStep DEF Bound
<1> QED
  BY <1>8, <1>9

\* The row an exchange inserts is its own: nobody else holds that id.
LEMMA CreateSound ==
  ASSUME Inv, NEW w \in Worker, CreateSession(w)
  PROVE  LeaseInv'
<1> DEFINE r == req[w]
           s == r.session
           row == [status |-> "active", source |-> r.source, token |-> 1,
                   expires |-> r.next, created |-> clock, selected |-> r.node]
           q == [r EXCEPT !.token = 1, !.next = 0, !.link = NoRequest.link]
<1>1. /\ r \in Request /\ s \in Session /\ r.source \in Source /\ r.kind = "exchange"
      /\ sess[s].status = "none" /\ lastGood[r.source] > 0
      /\ r.next \in Nat /\ r.next <= clock + SessionTTL
      /\ Leased(r.source) => WithinTerm(r.source, r.next)
      /\ Creating(pc[w], r)
  BY InvFacts DEF CreateSession, Shaped, Sound, Creating, Request
<1>2. /\ sess \in [Session -> SessionRow] /\ clock \in Nat
      /\ sess' = [sess EXCEPT ![s] = row]
      /\ UNCHANGED <<world, clients>>
  BY TypedFacts DEF Inv, CreateSession
<1>3. /\ sess'[s] = row
      /\ \A v \in Session \ {s} : sess'[v] = sess[v]
  BY <1>1, <1>2
<1>4. Forward
  BY <1>1, <1>2, <1>3, TypedFacts DEF Inv, Forward, world
<1>5. /\ q \in Request /\ q.session = s /\ q.kind = "exchange" /\ q.source = r.source
  BY <1>1 DEF Request, NoRequest, SourceRecord
<1>6. PICK c \in Request : c = q
  BY <1>5
<1>7. Bound(c)'
  <2> HIDE DEF q
  <2> QED
    BY <1>3, <1>5, <1>6 DEF Bound
<1>8. Sound("credential", c)' /\ ~Creating("credential", c)
  <2> HIDE DEF q
  <2> QED
    BY <1>5, <1>6, <1>7 DEF Sound, Creating
<1>9. Continue(w, "credential", c) /\ "credential" \in Label
  BY <1>6 DEF CreateSession, Label
<1>10. \A v \in Worker \ {w} :
         Creating(pc[v], req[v]) => sess'[req[v].session].status = "none"
  <2> SUFFICES ASSUME NEW v \in Worker \ {w}, Creating(pc[v], req[v])
               PROVE  sess'[req[v].session].status = "none"
    OBVIOUS
  <2>1. req[v].session \in Session /\ sess[req[v].session].status = "none"
    BY InvFacts DEF Creating, Shaped, Sound
  <2>2. req[v].session # s
    BY <1>1 DEF Inv, LeaseInv, Exclusive
  <2> QED
    BY <1>3, <2>1, <2>2
<1> HIDE DEF q
<1>11. RequestInv' /\ Exclusive'
  BY <1>4, <1>5, <1>6, <1>8, <1>9, <1>10, MoveKeeps DEF Inv, LeaseInv
<1>12. RowInv'
  <2>1. lastGood' = lastGood /\ clock' = clock
    BY <1>2 DEF world
  <2>2. /\ sess'[s].source = r.source /\ sess'[s].created = clock
        /\ sess'[s].expires = r.next
    BY <1>3
  <2>s. PICK u \in Session : u = s
    BY <1>1
  <2>4. Granted(u, sess[u].expires)'
    <3> HIDE DEF row
    <3> QED
      BY <1>1, <2>1, <2>2, <2>s DEF Granted, Leased, WithinTerm
  <2>3. ASSUME NEW v \in Session \ {s}, sess[v].status # "none"
        PROVE  /\ sess'[v].source \in Source /\ lastGood[sess'[v].source] > 0
               /\ sess'[v].created <= clock /\ Granted(v, sess[v].expires)'
    BY <1>3, <2>1, <2>3 DEF Inv, LeaseInv, RowInv, Granted, Leased, WithinTerm
  <2>5. SUFFICES ASSUME NEW v \in Session, sess'[v].status # "none"
                 PROVE  /\ sess'[v].source \in Source /\ lastGood'[sess'[v].source] > 0
                        /\ sess'[v].created <= clock' /\ Granted(v, sess[v].expires)'
    BY DEF RowInv
  <2>6. CASE v = s
    BY <1>1, <1>2, <2>1, <2>2, <2>4, <2>6, <2>s
  <2>7. CASE v # s
    BY <1>3, <2>1, <2>3, <2>5, <2>7
  <2> QED
    BY <2>6, <2>7
<1>13. HistoryInv'
  BY <1>2 DEF Inv, LeaseInv, HistoryInv, SourceValid, world
<1>14. ClientInv'
  BY <1>2, <1>4, ClientsKeep DEF Inv, LeaseInv, clients
<1> QED
  BY <1>11, <1>12, <1>13, <1>14 DEF LeaseInv

\* A request starts on a row nobody is creating.
LEMMA BeginStep ==
  ASSUME Inv, UNCHANGED <<world, sess, held, handed, loggedOut>>,
         NEW w \in Worker, NEW label \in Label, NEW r \in Request,
         Continue(w, label, r), Sound(label, r),
         \A v \in Worker \ {w} :
           Creating(label, r) \/ Creating(pc[v], req[v]) => req[v].session # r.session
  PROVE  LeaseInv'
<1>1. /\ pc'[w] = label /\ req'[w] = r
      /\ \A v \in Worker \ {w} : pc'[v] = pc[v] /\ req'[v] = req[v]
  BY TypedFacts DEF Continue, Inv
<1>2. RequestInv'
  BY <1>1 DEF Inv, LeaseInv, RequestInv, Sound, Creating, Bound, Granted, Leased,
              WithinTerm, Vouched, Confirmed, world
<1>3. Exclusive'
  BY <1>1 DEF Inv, LeaseInv, Exclusive, Creating
<1>4. HistoryInv' /\ RowInv' /\ ClientInv'
  BY DEF Inv, LeaseInv, HistoryInv, RowInv, ClientInv, Granted, Confirmed, Leased, WithinTerm,
         SourceValid, world
<1> QED
  BY <1>2, <1>3, <1>4 DEF LeaseInv

LEMMA StartSound ==
  ASSUME Inv, NEW w \in Worker,
         StartExchange(w) \/ StartWithToken(w) \/ StartRefresh(w)
  PROVE  LeaseInv'
<1>1. ASSUME NEW r \in Request, NEW label \in Label, Begin(w, label, r)
      PROVE  UNCHANGED <<world, sess, held, handed, loggedOut>> /\ Continue(w, label, r)
  BY <1>1 DEF Begin, database
<1>2. ASSUME NEW s \in Session, NEW r \in Request, held[s] # {},
             r.session = s, r.kind # "exchange", Begin(w, "load", r)
      PROVE  LeaseInv'
  <2>1. sess[s].status # "none"
    BY <1>2 DEF Inv, LeaseInv, ClientInv
  <2>2. \A v \in Worker : Creating(pc[v], req[v]) => req[v].session # s
    BY <2>1, InvFacts DEF Sound
  <2>3. Sound("load", r) /\ ~Creating("load", r) /\ "load" \in Label
    BY <1>2 DEF Sound, Creating, Label
  <2> QED
    BY <1>1, <1>2, <2>2, <2>3, BeginStep
<1>3. CASE StartExchange(w)
  <2>1. PICK s \in Session, x \in Source :
          /\ sess[s].status = "none"
          /\ \A v \in Worker : req[v].session # s
          /\ Begin(w, IF AccessSourceMode = "local_only" THEN "link" ELSE "subscription",
                   [NoRequest EXCEPT !.kind = "exchange", !.session = s, !.source = x])
    BY <1>3 DEF StartExchange
  <2> DEFINE r == [NoRequest EXCEPT !.kind = "exchange", !.session = s, !.source = x]
  <2>2. /\ r \in Request /\ r.session = s /\ r.kind = "exchange" /\ r.now = 0
    BY NoRequestType DEF Request, NoRequest, Kinds
  <2>3. PICK label \in {"link", "subscription"} : Begin(w, label, r)
    BY <2>1
  <2>4. clock \in Nat /\ label \in Label
    BY TypedFacts DEF Inv, Label
  <2> HIDE DEF r
  <2>5. Sound(label, r)
    BY <2>1, <2>2, <2>4 DEF Sound, Creating
  <2> QED
    BY <1>1, <2>1, <2>2, <2>3, <2>4, <2>5, BeginStep
<1>4. CASE StartWithToken(w)
  <2>1. PICK s \in Session, k \in {"session", "logout", "config"},
             n \in Node \cup {NoNode} : \E t \in held[s] :
          Begin(w, "load", [NoRequest EXCEPT !.kind = k, !.session = s,
                                             !.token = t, !.node = n])
    BY <1>4 DEF StartWithToken
  <2>2. PICK t \in held[s] :
          Begin(w, "load", [NoRequest EXCEPT !.kind = k, !.session = s,
                                             !.token = t, !.node = n])
    BY <2>1
  <2>3. t \in Nat /\ held[s] # {}
    BY <2>2, TypedFacts DEF Inv
  <2> DEFINE r == [NoRequest EXCEPT !.kind = k, !.session = s, !.token = t, !.node = n]
  <2>4. r \in Request /\ r.session = s /\ r.kind = k
    BY <2>3, NoRequestType DEF Request, NoRequest, Kinds
  <2> HIDE DEF r
  <2>5. Begin(w, "load", r)
    BY <2>2 DEF r
  <2> QED
    BY <1>2, <2>3, <2>4, <2>5
<1>5. CASE StartRefresh(w)
  <2>1. PICK s \in Session :
          /\ held[s] # {}
          /\ Begin(w, "load", [NoRequest EXCEPT !.kind = "refresh", !.session = s])
    BY <1>5 DEF StartRefresh
  <2> DEFINE r == [NoRequest EXCEPT !.kind = "refresh", !.session = s]
  <2>2. r \in Request /\ r.session = s /\ r.kind = "refresh"
    BY NoRequestType DEF Request, NoRequest, Kinds
  <2> QED
    BY <1>2, <2>1, <2>2
<1> QED
  BY <1>3, <1>4, <1>5

LEMMA ReplySound ==
  ASSUME Inv, NEW w \in Worker, Reply(w)
  PROVE  LeaseInv'
<1> DEFINE r == req[w]
<1>1. /\ r \in Request /\ r.session \in Session /\ Bound(r)
      /\ r.kind = "logout" => sess[r.session].status = "revoked"
      /\ r.kind = "config" => Confirmed(r.session)
  BY InvFacts DEF Reply, Shaped, Sound, Creating
<1>2. UNCHANGED <<world, sess>>
  BY DEF Reply, database
<1>3. Forward
  BY <1>2, StillForward DEF Inv
<1>4. "idle" \in Label /\ NoRequest.session = NoSession /\ ~Creating("idle", NoRequest)
  BY DEF Label, NoRequest, Creating
<1>5. \A v \in Worker \ {w} :
        Creating(pc[v], req[v]) => sess'[req[v].session].status = "none"
  BY <1>2 DEF Inv, LeaseInv, RequestInv, Sound
<1>6. RequestInv' /\ Exclusive'
  BY <1>3, <1>4, <1>5, NoRequestType, NoRequestSound, MoveKeeps
     DEF Inv, LeaseInv, Reply, Drop
<1>7. HistoryInv' /\ RowInv'
  BY <1>2 DEF Inv, LeaseInv, HistoryInv, RowInv, Granted, Confirmed, Leased, WithinTerm,
              SourceValid, world
<1>8. ClientInv'
  <2>1. \A s \in Session : held'[s] # {} => held[s] # {} \/ s = r.session
    BY <1>1, TypedFacts DEF Reply, Inv
  <2>2. loggedOut' \subseteq loggedOut \cup {r.session}
        /\ (r.kind # "logout" => loggedOut' = loggedOut)
    BY DEF Reply
  <2>3. \A p \in handed' : p \in handed \/ (r.kind = "config" /\ p.session = r.session)
    <3>1. CASE r.kind = "config"
      <4> DEFINE pair == [session |-> r.session, node |-> r.node, user |-> r.user,
                          version |-> r.version]
      <4>1. handed' = handed \cup {pair}
        BY <3>1, SMT DEF Reply
      <4>2. pair.session = r.session
        OBVIOUS
      <4> HIDE DEF pair, r
      <4> QED
        BY <3>1, <4>1, <4>2
    <3>2. CASE r.kind # "config"
      BY <3>2 DEF Reply
    <3> QED
      BY <3>1, <3>2
  <2>4. \A p \in handed' : sess[p.session].status # "none" /\ Confirmed(p.session)
    BY <1>1, <2>3 DEF Inv, LeaseInv, ClientInv, Bound
  <2>5. \A p \in handed' : sess'[p.session].status # "none" /\ Confirmed(p.session)'
    BY <1>2, <2>4 DEF Confirmed, Leased, world
  <2> QED
    BY <1>1, <1>2, <2>1, <2>2, <2>5 DEF Inv, LeaseInv, ClientInv, Bound
<1> QED
  BY <1>6, <1>7, <1>8 DEF LeaseInv

\* Time passing and sources changing only make the history longer.
LEMMA SurroundingSound ==
  ASSUME Inv, Tick \/ ChangeSource \/ WriteNodes
  PROVE  LeaseInv'
<1>1. /\ UNCHANGED <<sess, pc, req, held, handed, loggedOut>>
      /\ clock \in Nat /\ clock' \in Nat /\ clock' >= clock
  BY TypedFacts DEF Inv, Tick, ChangeSource, WriteNodes, database, clients, world
<1>2. \A x \in Source :
        /\ source'[x] \in SourceState[x]
        /\ lastGood'[x] \in {lastGood[x], clock'}
        /\ SourceValid(x, source'[x], clock') => lastGood'[x] = clock'
  <2>1. CASE Tick
    BY <2>1 DEF Tick, Seen, Inv, LeaseInv, HistoryInv
  <2>2. CASE ChangeSource
    <3>1. PICK y \in Source, state \in UNION {SourceState[z] : z \in Source} :
            state \in SourceState[y] /\ source' = [source EXCEPT ![y] = state]
      BY <2>2 DEF ChangeSource
    <3>2. \A x \in Source : source'[x] \in SourceState[x]
      BY <3>1, TypedFacts DEF Inv, LeaseInv, HistoryInv
    <3>3. clock' = clock /\ lastGood' = Seen(source', clock)
      BY <2>2 DEF ChangeSource
    <3> QED
      BY <3>2, <3>3 DEF Seen
  <2>3. CASE WriteNodes
    BY <2>3 DEF WriteNodes, world, Inv, LeaseInv, HistoryInv, SourceValid
  <2> QED
    BY <2>1, <2>2, <2>3
<1>3. \A x \in Source : lastGood'[x] \in Nat /\ lastGood'[x] >= lastGood[x]
                        /\ lastGood'[x] <= clock'
  BY <1>1, <1>2, TypedFacts DEF Inv, LeaseInv, HistoryInv
<1>4. HistoryInv'
  BY <1>1, <1>2, <1>3 DEF Inv, LeaseInv, HistoryInv, SourceValid
<1>5. Forward
  BY <1>1, <1>3 DEF Forward
<1>6. RequestInv'
  <2> SUFFICES ASSUME NEW w \in Worker PROVE Sound(pc[w], req[w])'
    BY DEF RequestInv
  <2>1. PICK label \in Label, r \in Request : label = pc[w] /\ r = req[w]
    BY InvFacts
  <2>2. Shaped(label, r) /\ Sound(label, r)
    BY <2>1, InvFacts
  <2>3. Creating(label, r) => sess'[r.session].status = "none"
    BY <1>1, <2>2 DEF Sound
  <2>4. Sound(label, r)'
    BY <1>5, <2>2, <2>3, SoundStays DEF Inv, LeaseInv
  <2> QED
    BY <1>1, <2>1, <2>4 DEF Sound, Creating, Bound, Granted, Leased, WithinTerm, Vouched, Confirmed
<1>7. RowInv'
  <2> SUFFICES ASSUME NEW s \in Session, sess[s].status # "none"
               PROVE  /\ sess'[s].source \in Source /\ lastGood'[sess'[s].source] > 0
                      /\ sess'[s].created <= clock' /\ Granted(s, sess[s].expires)'
    BY <1>1 DEF RowInv
  <2>1. /\ sess[s] \in SessionRow /\ sess[s].source \in Source
        /\ lastGood[sess[s].source] > 0 /\ sess[s].created <= clock
        /\ Granted(s, sess[s].expires)
    BY TypedFacts DEF Inv, LeaseInv, RowInv
  <2>2. PICK end \in Nat : end = sess[s].expires
    BY <2>1 DEF SessionRow
  <2>3. Granted(s, end)'
    BY <1>5, <2>1, <2>2, GrantedStays DEF Inv, LeaseInv
  <2>4. Granted(s, sess[s].expires)'
    BY <1>1, <2>2, <2>3 DEF Granted, Leased, WithinTerm
  <2>5. lastGood'[sess'[s].source] > 0
    BY <1>1, <1>3, <2>1, TypedFacts DEF Inv
  <2>6. sess'[s].created <= clock'
    BY <1>1, <2>1 DEF SessionRow
  <2> QED
    BY <1>1, <2>1, <2>4, <2>5, <2>6
<1>8. Exclusive'
  BY <1>1 DEF Inv, LeaseInv, Exclusive, Creating
<1>9. ClientInv'
  BY <1>1, <1>5, ClientsKeep DEF Inv, LeaseInv
<1> QED
  BY <1>4, <1>6, <1>7, <1>8, <1>9 DEF LeaseInv

LEMMA InitSound == Init => LeaseInv
<1> SUFFICES ASSUME Init PROVE LeaseInv
  OBVIOUS
<1>1. HistoryInv
  BY DEF Init, HistoryInv
<1>2. RowInv /\ ClientInv
  BY DEF Init, RowInv, ClientInv, NoSessionRow
<1>3. RequestInv /\ Exclusive
  BY NoRequestSound DEF Init, RequestInv, Exclusive, Creating
<1> QED
  BY <1>1, <1>2, <1>3 DEF LeaseInv

LEMMA NextSound == Inv /\ [Next]_vars => LeaseInv'
<1> SUFFICES ASSUME Inv, [Next]_vars PROVE LeaseInv'
  OBVIOUS
<1>1. CASE UNCHANGED vars
  BY <1>1 DEF Inv, LeaseInv, HistoryInv, RowInv, ClientInv, RequestInv, Exclusive, Sound,
              Creating, Bound, Granted, Leased, WithinTerm, Vouched, Confirmed, SourceValid, vars, world,
              database, clients
<1>2. ASSUME NEW w \in Worker,
             StartExchange(w) \/ StartWithToken(w) \/ StartRefresh(w)
      PROVE  LeaseInv'
  BY <1>2, StartSound
<1>3. ASSUME NEW w \in Worker, Serve(w)
      PROVE  LeaseInv'
  BY <1>3, LoadSound, CheckSound, AskSound, JudgeSound,
     FindAccessLinkSound, ExtendSound, RotateTokenSound, RevokeSound, ListNodesSound,
     PickNodeSound, CreateSound, CredentialSound, ReplySound DEF Serve
<1>4. ASSUME NEW w \in Worker, Abort(w)
      PROVE  LeaseInv'
  BY <1>4, DropStep DEF Abort, database
<1>5. CASE Tick \/ ChangeSource \/ WriteNodes
  BY <1>5, SurroundingSound
<1> QED
  BY <1>1, <1>2, <1>3, <1>4, <1>5 DEF Next

LEMMA SpecInv == Spec => []Inv
<1>1. Init => Inv
  BY InitTypes, InitSound DEF Inv
<1>2. Inv /\ [Next]_vars => Inv'
  BY NextTypes, NextSound DEF Inv
<1> QED
  BY <1>1, <1>2, PTL DEF Spec

-----------------------------------------------------------------------------
(* What the invariant means for access through the proxies.                *)

\* Every request in flight, every row and every answered logout stays within
\* what the source granted, however the handlers' statements interleave.
THEOREM LeaseCorrect == Spec => []LeaseInv
BY SpecInv, PTL DEF Inv

\* Facts about a session a proxy admits a pair of.
LEMMA AdmittedSession ==
  ASSUME Inv, NEW s \in Session, NEW n \in Node, Admits(s, n)
  PROVE  LET x == sess[s].source
         IN  /\ sess[s].status = "active"
             /\ x \in Source /\ lastGood[x] \in Nat /\ lastGood[x] > 0
             /\ sess[s].expires \in Nat /\ sess[s].created \in Nat /\ clock \in Nat
             /\ clock <= sess[s].expires
             /\ Granted(s, sess[s].expires)
             /\ SourceType[x] = "local_access_link" => SourceValid(x, source[x], clock)
<1>1. sess[s] \in SessionRow /\ clock \in Nat
  BY TypedFacts DEF Inv
<1>2. /\ sess[s].status = "active" /\ ~Before(sess[s].expires, clock)
      /\ SourceType[sess[s].source] = "local_access_link" =>
           ValidateAccessLink(source[sess[s].source], clock)
  BY DEF Admits, StoredPair, ValidateProxyCredentials
<1>3. /\ sess[s].source \in Source /\ lastGood[sess[s].source] > 0
      /\ Granted(s, sess[s].expires)
  BY <1>2 DEF Inv, LeaseInv, RowInv
<1>4. lastGood[sess[s].source] \in Nat
  BY <1>3, TypedFacts DEF Inv
<1> QED
  BY <1>1, <1>2, <1>3, <1>4 DEF SessionRow, Before, SourceValid

\* A session that opens a node lives within its lease, whoever holds the pair.
LEMMA OpenWithinLease ==
  ASSUME Inv, NEW s \in Session, Confirmed(s), sess[s].status = "active",
         ~Before(sess[s].expires, clock),
         SourceType[sess[s].source] = "local_access_link" =>
           ValidateAccessLink(source[sess[s].source], clock)
  PROVE  lastGood[sess[s].source] > 0 /\ clock <= AccessDeadline(s)
<1> DEFINE x == sess[s].source
<1>1. /\ x \in Source /\ lastGood[x] > 0 /\ Granted(s, sess[s].expires)
  BY DEF Inv, LeaseInv, RowInv
<1>2. /\ sess[s].expires \in Nat /\ sess[s].created \in Nat /\ clock \in Nat
      /\ lastGood[x] \in Nat
  BY <1>1, TypedFacts DEF Inv, SessionRow
<1>3. CASE SourceType[x] = "local_access_link"
  BY <1>1, <1>2, <1>3, ValidNow DEF AccessDeadline, SourceValid
<1>4. CASE SourceType[x] # "local_access_link"
  <2>1. Leased(x)
    BY <1>1, <1>4, SourceAssumption DEF SourceTypes, Leased
  <2>2. \/ sess[s].expires <= lastGood[x] + SessionTTL
        \/ sess[s].expires <= sess[s].created + SessionTTL
    BY <1>1, <2>1 DEF Granted
  <2>3. sess[s].created <= lastGood[x] /\ clock <= sess[s].expires
    BY <1>2, <2>1 DEF Confirmed, Before
  <2>4. clock <= lastGood[x] + SessionTTL
    BY <1>2, <2>2, <2>3, DurationAssumption
  <2> QED
    BY <1>1, <1>4, <2>4 DEF AccessDeadline
<1> QED
  BY <1>3, <1>4

\* A source that stops being valid stops opening nodes to every pair a client
\* was handed: at once for a local link, one session TTL after its last valid
\* instant for a subscription, whatever exchanges, renewals and refreshes were
\* in flight when it stopped.
THEOREM ExposureBounded == Spec => []BoundedExposure
<1>1. Inv => BoundedExposure
  <2> SUFFICES ASSUME Inv, NEW pair \in handed, NEW daemon \in Node \cup {NoNode},
                      ValidateProxyCredentials(pair, daemon)
               PROVE  /\ lastGood[sess[pair.session].source] > 0
                      /\ clock <= AccessDeadline(pair.session)
    BY DEF BoundedExposure
  <2>1. pair.session \in Session /\ Confirmed(pair.session)
    BY TypedFacts DEF Inv, LeaseInv, ClientInv, Pair
  <2> QED
    BY <2>1, OpenWithinLease DEF ValidateProxyCredentials
<1> QED
  BY <1>1, SpecInv, PTL

\* Where every state of a source has an end, no sequence of renewals, refreshes
\* and rotations opens a node after the latest of them.
THEOREM TermRespected == Spec => []AccessEndsWithTerm
<1>1. Inv => AccessEndsWithTerm
  <2> SUFFICES ASSUME Inv, NEW s \in Session, NEW n \in Node, Admits(s, n)
               PROVE  \E state \in SourceState[sess[s].source] :
                        state.expires = 0 \/ clock <= state.expires
    BY DEF AccessEndsWithTerm
  <2> DEFINE x == sess[s].source
  <2>1. /\ x \in Source /\ sess[s].expires \in Nat /\ clock \in Nat
        /\ clock <= sess[s].expires
        /\ Granted(s, sess[s].expires)
        /\ SourceType[x] = "local_access_link" => SourceValid(x, source[x], clock)
    BY AdmittedSession
  <2>2. CASE SourceType[x] = "local_access_link"
    <3>1. source[x] \in SourceState[x] /\ source[x] \in SourceRecord
      BY <2>1, <2>2, ValidNow, TypedFacts DEF Inv
    <3>2. ~Before(source[x].expires, clock)
      BY <2>1, <2>2 DEF SourceValid, ValidateAccessLink
    <3> QED
      BY <2>1, <3>1, <3>2 DEF Before, SourceRecord
  <2>3. CASE SourceType[x] # "local_access_link"
    <3>1. Leased(x)
      BY <2>1, <2>3, SourceAssumption DEF SourceTypes, Leased
    <3>2. PICK state \in SourceState[x] :
            state.expires = 0 \/ sess[s].expires <= state.expires
      BY <2>1, <3>1 DEF Granted, WithinTerm
    <3>3. state.expires \in Nat
      BY <2>1, SourceAssumption DEF SourceRecord
    <3> QED
      BY <2>1, <3>2, <3>3
  <2> QED
    BY <2>2, <2>3
<1> QED
  BY <1>1, SpecInv, PTL

\* Once a client has seen its logout answered, nothing it was ever handed opens
\* a node again, although a rotation in flight may clear a revoked_at.
THEOREM LogoutHolds == Spec => []LogoutShutsAccess
<1>1. Inv => LogoutShutsAccess
  <2> SUFFICES ASSUME Inv, NEW s \in loggedOut, NEW n \in Node, Admits(s, n)
               PROVE  FALSE
    BY DEF LogoutShutsAccess
  <2>1. s \in Session /\ sess[s].status = "revoked"
    BY TypedFacts DEF Inv, LeaseInv, ClientInv
  <2> QED
    BY <2>1, AdmittedSession
<1> QED
  BY <1>1, SpecInv, PTL
=============================================================================
