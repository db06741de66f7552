---------------------------- MODULE LeasedAccess ----------------------------
(***************************************************************************)
(* What the session core promises, without requests, tokens or rows: every *)
(* session is a lease on behalf of one source.  A lease is opened once,    *)
(* may be set anew any number of times, and is closed for good; no writer  *)
(* ever sets it further than one TTL past the latest instant at which the  *)
(* source was good or the session was opened.                              *)
(***************************************************************************)
EXTENDS Naturals

CONSTANTS
  Session, Source, NoSource,
  Leased,   \* the sources that access is leased from (the others are asked
            \* at every use, and their lease is no promise)
  TTL

VARIABLES
  now,      \* the present
  good,     \* [Source -> Nat], the last instant each source was good
  phase,    \* [Session -> {"none", "active", "revoked"}]
  owner,    \* [Session -> Source \cup {NoSource}]
  opened,   \* [Session -> Nat]
  lease     \* [Session -> Nat], the instant access ends

vars == <<now, good, phase, owner, opened, lease>>

Init ==
  /\ now \in Nat
  /\ good \in [Source -> 0 .. now]
  /\ phase = [s \in Session |-> "none"]
  /\ owner = [s \in Session |-> NoSource]
  /\ opened = [s \in Session |-> 0]
  /\ lease = [s \in Session |-> 0]

\* Time passes or a source changes: a source is good now or is not.
Pass ==
  /\ now' \in {now, now + 1}
  /\ good' \in [Source -> Nat]
  /\ \A x \in Source : good'[x] \in {good[x], now'}
  /\ UNCHANGED <<phase, owner, opened, lease>>

Open(s) ==
  /\ phase[s] = "none"
  /\ phase' = [phase EXCEPT ![s] = "active"]
  /\ \E x \in Source : /\ good[x] > 0
                       /\ owner' = [owner EXCEPT ![s] = x]
  /\ opened' = [opened EXCEPT ![s] = now]
  /\ lease' \in [Session -> Nat]
  /\ lease' = [lease EXCEPT ![s] = lease'[s]]
  /\ lease'[s] <= now + TTL
  /\ UNCHANGED <<now, good>>

Renew(s) ==
  /\ phase[s] # "none"
  /\ lease' \in [Session -> Nat]
  /\ lease' = [lease EXCEPT ![s] = lease'[s]]
  /\ owner[s] \in Leased =>
       \/ lease'[s] <= good[owner[s]] + TTL
       \/ lease'[s] <= opened[s] + TTL
  /\ UNCHANGED <<now, good, phase, owner, opened>>

Close(s) ==
  /\ phase[s] # "none"
  /\ phase' = [phase EXCEPT ![s] = "revoked"]
  /\ UNCHANGED <<now, good, owner, opened, lease>>

Next == Pass \/ \E s \in Session : Open(s) \/ Renew(s) \/ Close(s)

Spec == Init /\ [][Next]_vars

-----------------------------------------------------------------------------
\* Access in the name of a leased session ends one TTL after its source was
\* last good, whatever was renewed in between: what every implementation of
\* this specification inherits.
LeaseEnds ==
  \A s \in Session :
    /\ phase[s] # "none"
    /\ owner[s] \in Leased
    => \/ lease[s] <= good[owner[s]] + TTL
       \/ lease[s] <= opened[s] + TTL
=============================================================================
