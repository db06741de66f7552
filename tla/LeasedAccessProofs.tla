------------------------- MODULE LeasedAccessProofs -------------------------
(***************************************************************************)
(* What the lease promises, for every set of sessions and sources.         *)
(***************************************************************************)
EXTENDS LeasedAccess, TLAPS

\* The terms of a lease: a duration, and sources that are leased from.
Terms == TTL \in Nat /\ Leased \subseteq Source

LeaseTypes ==
  /\ now \in Nat
  /\ good \in [Source -> Nat]
  /\ \A x \in Source : good[x] <= now
  /\ phase \in [Session -> {"none", "active", "revoked"}]
  /\ owner \in [Session -> Source \cup {NoSource}]
  /\ opened \in [Session -> Nat]
  /\ lease \in [Session -> Nat]

LeaseHolds == LeaseTypes /\ LeaseEnds

LEMMA LeaseStep ==
  ASSUME Terms, LeaseHolds, [Next]_vars
  PROVE  LeaseHolds'
<1>1. CASE UNCHANGED vars
  BY <1>1 DEF LeaseHolds, LeaseTypes, LeaseEnds, vars
<1>2. CASE Pass
  <2>1. LeaseTypes'
    <3>1. now' \in Nat /\ now' >= now
      BY <1>2 DEF Pass, LeaseHolds, LeaseTypes
    <3>2. \A x \in Source : good'[x] <= now'
      BY <1>2, <3>1 DEF Pass, LeaseHolds, LeaseTypes
    <3> QED
      BY <1>2, <3>1, <3>2 DEF Pass, LeaseHolds, LeaseTypes
  <2>2. \A x \in Source : good[x] \in Nat /\ good'[x] \in Nat /\ good'[x] >= good[x]
    BY <1>2 DEF Pass, LeaseHolds, LeaseTypes
  <2>3. LeaseEnds'
    <3> SUFFICES ASSUME NEW s \in Session, phase[s] # "none", owner[s] \in Leased
                 PROVE  \/ lease[s] <= good'[owner[s]] + TTL
                        \/ lease[s] <= opened[s] + TTL
      BY <1>2 DEF Pass, LeaseEnds
    <3>1. owner[s] \in Source /\ lease[s] \in Nat /\ opened[s] \in Nat
      BY DEF Terms, LeaseHolds, LeaseTypes
    <3>2. \/ lease[s] <= good[owner[s]] + TTL
          \/ lease[s] <= opened[s] + TTL
      BY DEF LeaseHolds, LeaseEnds
    <3> QED
      BY <2>2, <3>1, <3>2 DEF Terms
  <2> QED
    BY <2>1, <2>3 DEF LeaseHolds
<1>3. ASSUME NEW s \in Session, Open(s)
      PROVE  LeaseHolds'
  <2>1. PICK x \in Source : owner' = [owner EXCEPT ![s] = x]
    BY <1>3 DEF Open
  <2>2. LeaseTypes'
    BY <1>3, <2>1 DEF Open, LeaseHolds, LeaseTypes
  <2>3. LeaseEnds'
    <3>1. opened'[s] = now /\ lease'[s] <= now + TTL
      BY <1>3 DEF Open, LeaseHolds, LeaseTypes
    <3>2. \A v \in Session \ {s} : /\ phase'[v] = phase[v] /\ owner'[v] = owner[v]
                                   /\ opened'[v] = opened[v] /\ lease'[v] = lease[v]
      BY <1>3, <2>1 DEF Open, LeaseHolds, LeaseTypes
    <3> QED
      BY <1>3, <3>1, <3>2 DEF Open, LeaseEnds, LeaseHolds
  <2> QED
    BY <2>2, <2>3 DEF LeaseHolds
<1>4. ASSUME NEW s \in Session, Renew(s)
      PROVE  LeaseHolds'
  <2>1. LeaseTypes'
    BY <1>4 DEF Renew, LeaseHolds, LeaseTypes
  <2>2. \A v \in Session \ {s} : lease'[v] = lease[v]
    BY <1>4 DEF Renew, LeaseHolds, LeaseTypes
  <2>3. LeaseEnds'
    BY <1>4, <2>2 DEF Renew, LeaseEnds, LeaseHolds
  <2> QED
    BY <2>1, <2>3 DEF LeaseHolds
<1>5. ASSUME NEW s \in Session, Close(s)
      PROVE  LeaseHolds'
  BY <1>5 DEF Close, LeaseHolds, LeaseTypes, LeaseEnds
<1> QED
  BY <1>1, <1>2, <1>3, <1>4, <1>5 DEF Next

\* However a lease is opened, renewed and closed, it ends one TTL after its
\* source was last good or the session was opened: what the writes of
\* renewSession, RotateSessionToken and createBrowserSession must respect.
THEOREM LeaseAlwaysEnds ==
  ASSUME Terms
  PROVE  Spec => []LeaseEnds
<1>1. Init => LeaseHolds
  BY DEF Init, LeaseHolds, LeaseTypes, LeaseEnds
<1>2. LeaseHolds /\ [Next]_vars => LeaseHolds'
  BY LeaseStep
<1>3. LeaseHolds => LeaseEnds
  BY DEF LeaseHolds
<1> QED
  BY <1>1, <1>2, <1>3, PTL DEF Spec
=============================================================================
