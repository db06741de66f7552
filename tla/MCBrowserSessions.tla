------------------------- MODULE MCBrowserSessions -------------------------
(***************************************************************************)
(* Instances of BrowserSessions for TLC.  A source is a subscription "sub" *)
(* or a local link "link"; the configurations pick the sets, the durations *)
(* and the bounds.                                                         *)
(***************************************************************************)
EXTENDS BrowserSessionsInvariant, TLC

WorkerSymmetry == Permutations(Worker)

TypeOfSource(x) ==
  IF x = "sub" THEN "remna_subscription" ELSE "local_access_link"

MCSourceType == [x \in Source |-> TypeOfSource(x)]

\* A source is live or cut off; it never expires by itself.
SwitchedSource ==
  [x \in Source |->
     [active : BOOLEAN, expires : {IF x = "sub" THEN 0 ELSE MaxClock}]]

\* A source is paid until instant 3, prolonged until 4, or cut off.
TermedSource ==
  [x \in Source |->
     {[active |-> TRUE, expires |-> 3],
      [active |-> TRUE, expires |-> 4],
      [active |-> FALSE, expires |-> 4]}]

\* A source that stays valid throughout.
SteadySource ==
  [x \in Source |-> {[active |-> TRUE, expires |-> IF x = "sub" THEN 0 ELSE MaxClock]}]

EveryNodeAllowed == [x \in Source |-> {}]
NoPreference == [x \in Source |-> NoNode]

FirstNodeAllowed == [x \in Source |-> {"n1"}]
SecondNodePreferred == [x \in Source |-> "n2"]

\* Every node that is there is online.
OneOnlineRow == {[status |-> "online", isDefault |-> TRUE]}

\* The two spellings of online: the second is listed, and refused when picked.
BothSpellings ==
  {[status |-> "online", isDefault |-> TRUE],
   [status |-> "Online", isDefault |-> FALSE]}
=============================================================================
