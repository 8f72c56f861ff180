---------------------------- MODULE BridgeProofs ----------------------------
(***************************************************************************)
(* Proof that while the bridge runs its nat table holds exactly the rules  *)
(* its managers' route_delete name, for every set of exits and ports and   *)
(* every bound that satisfies BridgeAssumption.                            *)
(***************************************************************************)
EXTENDS Bridge, TLAPS

USE BridgeAssumption

-----------------------------------------------------------------------------
(* The nat table as a bag.                                                 *)

\* iptables -D of a rule the table holds once: the set without it.
LEMMA BagRemove ==
    ASSUME NEW S, NEW d \in S
    PROVE  SetToBag(S) (-) SetToBag({d}) = SetToBag(S \ {d})
<1> DEFINE B == SetToBag(S) (-) SetToBag({d})
<1>1. DOMAIN B = S \ {d}
  BY DEF SetToBag, (-)
<1>2. \A x \in S \ {d} : B[x] = 1
  BY DEF SetToBag, (-)
<1>. QED
  BY <1>1, <1>2 DEF SetToBag, (-)

\* iptables -A of a rule the table does not hold: the set with it.
LEMMA BagAdd ==
    ASSUME NEW S, NEW y, y \notin S
    PROVE  SetToBag(S) (+) SetToBag({y}) = SetToBag(S \cup {y})
<1> DEFINE B == SetToBag(S) (+) SetToBag({y})
<1>1. DOMAIN B = S \cup {y}
  BY DEF SetToBag, (+)
<1>2. \A x \in S \cup {y} : B[x] = 1
  BY DEF SetToBag, (+)
<1>. QED
  BY <1>1, <1>2 DEF SetToBag, (+)

-----------------------------------------------------------------------------
(* The rules route_fut would delete.                                       *)

BTypeOK ==
    /\ up \in BOOLEAN
    /\ offer \in [Exits -> Ports \cup {0}]
    /\ exitPort \in [Exits -> Ports]
    /\ adding \in [Exits -> Ports \cup {0}]
    /\ routeDelete \in [Exits -> Rules \cup {NoRule}]

\* route_delete names a rule of the manager's own exit.
DeleteOwn ==
    \A e \in Exits : routeDelete[e] # NoRule => routeDelete[e].exit = e

\* Between the -D and the -A, route_delete has been taken.
AddTaken ==
    \A e \in Exits : adding[e] # 0 => routeDelete[e] = NoRule

\* A bridge that is down has no managers, hence nothing to delete.
DownUnrouted == ~up => \A e \in Exits : routeDelete[e] = NoRule

(***************************************************************************)
(* RulesMatchRoutes is not inductive.  The -D of a Handoff step removes    *)
(* exactly one rule from Installed only because no other manager names    *)
(* the same rule (DeleteOwn); the -A of AddRule adds a rule that is not    *)
(* yet in the table only because route_delete of its exit was taken        *)
(* (AddTaken); and the flush of Start empties the table of a bridge whose  *)
(* managers name no rule only because a crash takes them with it           *)
(* (DownUnrouted).                                                         *)
(***************************************************************************)
RInv == BTypeOK /\ DeleteOwn /\ AddTaken /\ DownUnrouted /\ RulesMatchRoutes

LEMMA InitRInv == Init => RInv
<1> SUFFICES ASSUME Init PROVE RInv
  OBVIOUS
<1>1. Installed = {}
  BY DEF Init, Installed
<1>. QED
  BY <1>1 DEF Init, RInv, BTypeOK, DeleteOwn, AddTaken, DownUnrouted,
              RulesMatchRoutes

\* A step that leaves the process's route state and the nat table alone.
LEMMA QuietRInv ==
    ASSUME RInv, UNCHANGED <<up, offer, adding, routeDelete, rules, exitPort>>
    PROVE  RInv'
<1>1. Installed' = Installed
  BY DEF Installed
<1>. QED
  BY <1>1 DEF RInv, BTypeOK, DeleteOwn, AddTaken, DownUnrouted,
              RulesMatchRoutes

\* The -D of route_fut removes the rule its route_delete named.
LEMMA HandoffRInv ==
    ASSUME RInv, NEW e \in Exits, Handoff(e), offer[e] # lastPort[e]
    PROVE  RInv'
<1>1. /\ up /\ up' /\ offer[e] \in Ports
      /\ routeDelete' = [routeDelete EXCEPT ![e] = NoRule]
      /\ adding' = [adding EXCEPT ![e] = offer[e]]
      /\ offer' = [offer EXCEPT ![e] = 0]
      /\ exitPort' = exitPort
      /\ rules' = IF routeDelete[e] = NoRule THEN rules
                  ELSE rules (-) SetToBag({routeDelete[e]})
  BY DEF Handoff, RInv, BTypeOK
<1>2. /\ BTypeOK' /\ DeleteOwn' /\ AddTaken' /\ DownUnrouted'
  BY <1>1 DEF RInv, BTypeOK, DeleteOwn, AddTaken, DownUnrouted
<1>3. CASE routeDelete[e] = NoRule
  <2>1. routeDelete' = routeDelete /\ rules' = rules
    BY <1>1, <1>3 DEF RInv, BTypeOK
  <2>2. Installed' = Installed
    BY <2>1 DEF Installed
  <2>. QED
    BY <1>1, <1>2, <2>1, <2>2 DEF RInv, RulesMatchRoutes
<1>4. CASE routeDelete[e] # NoRule
  <2> DEFINE d == routeDelete[e]
  <2>1. d \in Installed /\ d.exit = e
    BY <1>4 DEF Installed, RInv, DeleteOwn
  <2>2. Installed' = Installed \ {d}
    <3>1. ASSUME NEW x \in Exits, x # e, routeDelete[x] # NoRule
          PROVE  routeDelete[x] # d
      BY <2>1, <3>1 DEF RInv, DeleteOwn
    <3>. QED
      BY <1>1, <3>1 DEF Installed, RInv, BTypeOK
  <2>3. rules' = SetToBag(Installed) (-) SetToBag({d})
    BY <1>1, <1>4 DEF RInv, RulesMatchRoutes
  <2>. QED
    BY <1>1, <1>2, <2>1, <2>2, <2>3, BagRemove DEF RInv, RulesMatchRoutes
<1>. QED
  BY <1>2, <1>3, <1>4 DEF RInv

\* The -A of route_fut appends the rule its route_delete then names.
LEMMA AddRuleRInv ==
    ASSUME RInv, NEW e \in Exits, AddRule(e)
    PROVE  RInv'
<1> DEFINE r == [exit |-> e, port |-> adding[e]]
<1>1. /\ up /\ up' /\ adding[e] \in Ports
      /\ routeDelete[e] = NoRule
      /\ routeDelete' = [routeDelete EXCEPT ![e] = r]
      /\ adding' = [adding EXCEPT ![e] = 0]
      /\ UNCHANGED <<offer, exitPort>>
      /\ rules' = rules (+) SetToBag({r})
  BY DEF AddRule, RInv, BTypeOK, AddTaken
<1>2. r \in Rules /\ r # NoRule
  BY <1>1 DEF Rules, NoRule
<1>3. /\ BTypeOK' /\ DeleteOwn' /\ AddTaken' /\ DownUnrouted'
  BY <1>1, <1>2 DEF RInv, BTypeOK, DeleteOwn, AddTaken, DownUnrouted
<1>4. r \notin Installed
  BY <1>1 DEF Installed, RInv, DeleteOwn
<1>5. Installed' = Installed \cup {r}
  BY <1>1, <1>2 DEF Installed, RInv, BTypeOK
<1>6. RulesMatchRoutes'
  BY <1>1, <1>4, <1>5, BagAdd DEF RInv, RulesMatchRoutes
<1>. QED
  BY <1>3, <1>6 DEF RInv

LEMMA NextRInv ==
    ASSUME RInv, [Next]_vars
    PROVE  RInv'
<1>1. CASE Start
  <2>1. Installed = {} /\ Installed' = {}
    BY <1>1 DEF Start, RInv, DownUnrouted, Installed
  <2>. QED
    BY <1>1, <2>1
    DEF Start, RInv, BTypeOK, DeleteOwn, AddTaken, DownUnrouted,
        RulesMatchRoutes, EmptyBag
<1>2. CASE Crash
  BY <1>2 DEF Crash, RInv, BTypeOK, DeleteOwn, AddTaken, DownUnrouted,
              RulesMatchRoutes
<1>3. CASE Poll
  BY <1>3, QuietRInv DEF Poll, routeVars
<1>4. ASSUME NEW e \in Exits,
             \/ Resolve(e) \/ ResolveFail(e) \/ MyIp(e) \/ IpPanic(e)
             \/ Connect(e) \/ ConnFail(e)
      PROVE  RInv'
  BY <1>4, QuietRInv
  DEF Resolve, ResolveFail, Connect, MgrStep, MyIp, IpPanic, ConnFail, routeVars
<1>5. ASSUME NEW e \in Exits, ExitRestart(e)
      PROVE  RInv'
  <2>1. exitPort' \in [Exits -> Ports]
    BY <1>5 DEF ExitRestart, RInv, BTypeOK
  <2>. QED
    BY <1>5, <2>1 DEF ExitRestart, procVars, RInv, BTypeOK, DeleteOwn,
                      AddTaken, DownUnrouted, RulesMatchRoutes, Installed
<1>6. ASSUME NEW e \in Exits, ReadPort(e)
      PROVE  RInv'
  <2>1. offer' \in [Exits -> Ports \cup {0}]
    BY <1>6 DEF ReadPort, RInv, BTypeOK
  <2>. QED
    BY <1>6, <2>1 DEF ReadPort, RInv, BTypeOK, DeleteOwn, AddTaken,
                      DownUnrouted, RulesMatchRoutes, Installed
<1>7. ASSUME NEW e \in Exits, Handoff(e)
      PROVE  RInv'
  <2>1. CASE offer[e] # lastPort[e]
    BY <1>7, <2>1, HandoffRInv
  <2>2. CASE offer[e] = lastPort[e]
    <3>1. offer' \in [Exits -> Ports \cup {0}]
      BY <1>7 DEF Handoff, RInv, BTypeOK
    <3>. QED
      BY <1>7, <2>2, <3>1 DEF Handoff, RInv, BTypeOK, DeleteOwn, AddTaken,
                              DownUnrouted, RulesMatchRoutes, Installed
  <2>. QED
    BY <2>1, <2>2
<1>8. ASSUME NEW e \in Exits, AddRule(e)
      PROVE  RInv'
  BY <1>8, AddRuleRInv
<1>9. CASE UNCHANGED vars
  BY <1>9, QuietRInv DEF vars, RInv, BTypeOK
<1>. QED
  BY <1>1, <1>2, <1>3, <1>4, <1>5, <1>6, <1>7, <1>8, <1>9 DEF Next

\* While the bridge runs, the nat table holds exactly one copy of each rule
\* a manager's route_delete names, and no other rule, across any number of
\* crashes between route_fut's -D and -A, restarts of the bridge and port
\* changes of the exits (main's flush and route_fut's take, delete and
\* append, main.rs).
THEOREM RulesTracked == Spec => []RulesMatchRoutes
<1>1. RInv => RulesMatchRoutes
  BY DEF RInv
<1>. QED
  BY <1>1, InitRInv, NextRInv, PTL DEF Spec

=============================================================================
