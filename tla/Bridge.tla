------------------------------- MODULE Bridge -------------------------------
(***************************************************************************)
(* The geph4 bridge (src/geph4-bridge/src/main.rs).  The bridge polls the  *)
(* binder for exits (bridge_loop) and spawns one manager task per exit     *)
(* hostname it has not seen.  A manager resolves the exit, then runs two   *)
(* futures raced against each other: manage_fut restarts manage_exit_once  *)
(* (connect, answer the challenge, then every 30 s report the bridge's     *)
(* address and read back the exit's sosistab port) for ever, and route_fut *)
(* receives each port on a rendezvous channel and, when it differs from    *)
(* the last one, deletes the previous DNAT rule and appends a new one.     *)
(*                                                                         *)
(* The two futures run in one task: route_fut has no await between its    *)
(* receive and the end of its loop body, so manage_fut does not run while  *)
(* route_fut deletes and appends a rule, but other tasks, the exits and a  *)
(* crash of the process do.  manage_exit_once first reads the MY_IP Lazy,  *)
(* whose initialiser unwraps a checkip request: a failure panics the task  *)
(* and poisons the Lazy, so every later first read panics as well.        *)
(*                                                                         *)
(* The kernel's nat table outlives the bridge process; main flushes it at  *)
(* start-up.  A rule is abstracted to the exit and the remote port it      *)
(* forwards to: the local port is the manager's own socket, one per exit   *)
(* and incarnation.  The nat table is a bag, as iptables -A appends a      *)
(* duplicate rule and -D removes one copy.                                 *)
(***************************************************************************)
EXTENDS Integers, FiniteSets, Bags

CONSTANTS
    Exits,          \* hostnames the binder lists
    Ports,          \* sosistab ports an exit may advertise
    MaxCrashes,     \* bound on crashes of the bridge process
    MaxPortChanges, \* bound on exits restarting on a new port
    MaxConnFails,   \* bound on failed manage_exit_once attempts
    ResolveFails,   \* whether the DNS lookup of an exit may fail
    IpFails         \* whether the checkip request of MY_IP may fail

ASSUME BridgeAssumption ==
    /\ Ports \subseteq Nat \ {0}
    /\ Ports # {}
    /\ MaxCrashes \in Nat /\ MaxPortChanges \in Nat /\ MaxConnFails \in Nat
    /\ ResolveFails \in BOOLEAN
    /\ IpFails \in BOOLEAN

\* A DNAT rule, and route_delete's None.
Rules == [exit : Exits, port : Ports]
NoRule == [exit |-> "none", port |-> 0]

\* Manager states; "none" is a hostname missing from current_exits,
\* "connecting" is manage_exit_once before MY_IP, "dialing" after it.
MgrStates == {"none", "resolving", "dead", "connecting", "dialing", "connected"}

\* States of the MY_IP Lazy.
IpStates == {"unset", "ok", "poisoned"}

VARIABLES
    up,          \* the bridge process is running
    current,     \* current_exits, with the state of each manager task
    myIp,        \* the MY_IP Lazy
    offer,       \* the port manage_fut read and sends to route_fut, or 0
    adding,      \* the port route_fut is replacing its rule with, or 0
    lastPort,    \* route_fut's last_remote_port
    routeDelete, \* route_fut's route_delete
    rules,       \* the nat table's DNAT rules, a bag of Rules
    exitPort,    \* the port each exit currently advertises
    crashes, portChanges, connFails

vars == <<up, current, myIp, offer, adding, lastPort, routeDelete, rules,
          exitPort, crashes, portChanges, connFails>>

\* The state of the process, which a crash loses.
procVars == <<up, current, myIp, offer, adding, lastPort, routeDelete>>

\* The state of one manager's route_fut.
routeVars == <<offer, adding, lastPort, routeDelete, rules>>

Init ==
    /\ up = FALSE
    /\ current = [e \in Exits |-> "none"]
    /\ myIp = "unset"
    /\ offer = [e \in Exits |-> 0]
    /\ adding = [e \in Exits |-> 0]
    /\ lastPort = [e \in Exits |-> 0]
    /\ routeDelete = [e \in Exits |-> NoRule]
    /\ rules = EmptyBag
    /\ exitPort \in [Exits -> Ports]
    /\ crashes = 0 /\ portChanges = 0 /\ connFails = 0

-----------------------------------------------------------------------------
(* The process.                                                            *)

\* main: flush the nat table, then enter bridge_loop with no managers.
StartNoFlush ==
    /\ ~up
    /\ up' = TRUE
    /\ UNCHANGED <<current, myIp, routeVars, exitPort, crashes, portChanges,
                   connFails>>

Start ==
    /\ ~up
    /\ up' = TRUE
    /\ rules' = EmptyBag
    /\ UNCHANGED <<current, myIp, offer, adding, lastPort, routeDelete,
                   exitPort, crashes, portChanges, connFails>>

\* The process dies: every task and its state is gone, the nat table stays.
Crash ==
    /\ up
    /\ crashes < MaxCrashes
    /\ up' = FALSE
    /\ current' = [e \in Exits |-> "none"]
    /\ myIp' = "unset"
    /\ offer' = [e \in Exits |-> 0]
    /\ adding' = [e \in Exits |-> 0]
    /\ lastPort' = [e \in Exits |-> 0]
    /\ routeDelete' = [e \in Exits |-> NoRule]
    /\ crashes' = crashes + 1
    /\ UNCHANGED <<rules, exitPort, portChanges, connFails>>

-----------------------------------------------------------------------------
(* bridge_loop: a GetExits answer spawns a manager for every hostname not  *)
(* in current_exits.  A finished manager keeps its entry.                  *)

Poll ==
    /\ up
    /\ current' = [e \in Exits |-> IF current[e] = "none" THEN "resolving"
                                                         ELSE current[e]]
    /\ UNCHANGED <<up, myIp, routeVars, exitPort, crashes, portChanges,
                   connFails>>

-----------------------------------------------------------------------------
(* manage_exit and manage_exit_once.                                       *)

\* A step of manager e's task that changes only its state in current_exits.
MgrStep(e, from, to) ==
    /\ up
    /\ current[e] = from
    /\ current' = [current EXCEPT ![e] = to]
    /\ UNCHANGED <<up, myIp, routeVars, exitPort, crashes, portChanges,
                   connFails>>

\* smol::net::resolve succeeds and the race of the two futures starts.
Resolve(e) == MgrStep(e, "resolving", "connecting")

\* resolve(..).await? fails: the task ends with an error.
ResolveFail(e) == ResolveFails /\ MgrStep(e, "resolving", "dead")

\* my_addr.set_ip(*MY_IP): the first read runs the checkip request.
MyIp(e) ==
    /\ up
    /\ current[e] = "connecting"
    /\ myIp \in {"unset", "ok"}
    /\ myIp' = "ok"
    /\ current' = [current EXCEPT ![e] = "dialing"]
    /\ UNCHANGED <<up, routeVars, exitPort, crashes, portChanges, connFails>>

\* The initialiser's unwrap panics, or the Lazy is poisoned by an earlier
\* panic: the whole task, route_fut included, unwinds.
IpPanic(e) ==
    /\ up
    /\ current[e] = "connecting"
    /\ \/ myIp = "poisoned"
       \/ IpFails /\ myIp = "unset"
    /\ myIp' = "poisoned"
    /\ current' = [current EXCEPT ![e] = "dead"]
    /\ UNCHANGED <<up, routeVars, exitPort, crashes, portChanges, connFails>>

\* TCP connect, read the challenge, write the keyed hash.
Connect(e) == MgrStep(e, "dialing", "connected")

\* Any ? of manage_exit_once before the send: manage_fut logs and calls it
\* again.  route_fut is waiting in recv_async, its state untouched.
ConnFail(e) ==
    /\ up
    /\ current[e] \in {"dialing", "connected"}
    /\ offer[e] = 0 /\ adding[e] = 0
    /\ connFails < MaxConnFails
    /\ current' = [current EXCEPT ![e] = "connecting"]
    /\ connFails' = connFails + 1
    /\ UNCHANGED <<up, myIp, routeVars, exitPort, crashes, portChanges>>

\* Mutant: the port is read once per connection, not on every iteration.
ReadPortOnce(e) ==
    /\ up
    /\ current[e] = "connected"
    /\ offer[e] = 0 /\ adding[e] = 0 /\ lastPort[e] = 0
    /\ offer' = [offer EXCEPT ![e] = exitPort[e]]
    /\ UNCHANGED <<up, current, myIp, adding, lastPort, routeDelete, rules,
                   exitPort, crashes, portChanges, connFails>>

\* An iteration of manage_exit_once's loop: write the bridge's address,
\* read the exit's port and send it on the zero-capacity channel.
ReadPort(e) ==
    /\ up
    /\ current[e] = "connected"
    /\ offer[e] = 0 /\ adding[e] = 0
    /\ offer' = [offer EXCEPT ![e] = exitPort[e]]
    /\ UNCHANGED <<up, current, myIp, adding, lastPort, routeDelete, rules,
                   exitPort, crashes, portChanges, connFails>>

\* route_fut receives the port; when it differs from last_remote_port it
\* takes route_delete and runs the -D of the previous rule.
Handoff(e) ==
    /\ up
    /\ offer[e] # 0
    /\ offer' = [offer EXCEPT ![e] = 0]
    /\ IF offer[e] # lastPort[e]
         THEN /\ rules' = IF routeDelete[e] = NoRule THEN rules
                          ELSE rules (-) SetToBag({routeDelete[e]})
              /\ routeDelete' = [routeDelete EXCEPT ![e] = NoRule]
              /\ adding' = [adding EXCEPT ![e] = offer[e]]
         ELSE UNCHANGED <<rules, routeDelete, adding>>
    /\ UNCHANGED <<up, current, myIp, lastPort, exitPort, crashes,
                   portChanges, connFails>>

\* The -A of the new rule, then route_delete and last_remote_port.
AddRule(e) ==
    LET r == [exit |-> e, port |-> adding[e]]
    IN
    /\ up
    /\ adding[e] # 0
    /\ rules' = rules (+) SetToBag({r})
    /\ routeDelete' = [routeDelete EXCEPT ![e] = r]
    /\ lastPort' = [lastPort EXCEPT ![e] = adding[e]]
    /\ adding' = [adding EXCEPT ![e] = 0]
    /\ UNCHANGED <<up, current, myIp, offer, exitPort, crashes, portChanges,
                   connFails>>

-----------------------------------------------------------------------------
(* The exit side: an exit restarts its listener on another port.           *)

ExitRestart(e) ==
    /\ portChanges < MaxPortChanges
    /\ \E p \in Ports \ {exitPort[e]} : exitPort' = [exitPort EXCEPT ![e] = p]
    /\ portChanges' = portChanges + 1
    /\ UNCHANGED <<procVars, rules, crashes, connFails>>

Next ==
    \/ Start \/ Crash \/ Poll
    \/ \E e \in Exits : \/ Resolve(e) \/ ResolveFail(e) \/ MyIp(e)
                        \/ IpPanic(e) \/ Connect(e) \/ ConnFail(e)
                        \/ ReadPort(e) \/ Handoff(e) \/ AddRule(e)
                        \/ ExitRestart(e)

\* Poll and ReadPort run on 30 s timers, Start on the supervisor restarting
\* the process, Resolve, MyIp and Connect on the network answering, and
\* Handoff and AddRule on the executor polling the manager's task.
Fairness ==
    /\ WF_vars(Start) /\ WF_vars(Poll)
    /\ \A e \in Exits : /\ WF_vars(Resolve(e)) /\ WF_vars(MyIp(e))
                        /\ WF_vars(Connect(e)) /\ WF_vars(ReadPort(e))
                        /\ WF_vars(Handoff(e)) /\ WF_vars(AddRule(e))

Spec == Init /\ [][Next]_vars /\ Fairness

-----------------------------------------------------------------------------
(* Properties.                                                             *)

BridgeTypeOK ==
    /\ up \in BOOLEAN
    /\ current \in [Exits -> MgrStates]
    /\ myIp \in IpStates
    /\ offer \in [Exits -> Ports \cup {0}]
    /\ adding \in [Exits -> Ports \cup {0}]
    /\ lastPort \in [Exits -> Ports \cup {0}]
    /\ routeDelete \in [Exits -> Rules \cup {NoRule}]
    /\ IsABag(rules) /\ BagToSet(rules) \subseteq Rules
    /\ exitPort \in [Exits -> Ports]
    /\ crashes \in 0..MaxCrashes
    /\ portChanges \in 0..MaxPortChanges
    /\ connFails \in 0..MaxConnFails

\* The rules route_fut would delete next: the ones route_delete names.
Installed == {routeDelete[e] : e \in {x \in Exits : routeDelete[x] # NoRule}}

\* While the bridge runs, the nat table holds exactly one copy of each rule
\* a manager's route_delete names and nothing else, also between route_fut's
\* -D and its -A: route_fut's take, delete and append keep one rule per
\* exit, and main's flush removes the rules of the previous incarnation,
\* whose managers are gone.
RulesMatchRoutes ==
    up => rules = SetToBag(Installed)

\* Every exit the binder lists eventually gets, and keeps, a DNAT rule to
\* the port it advertises: bridge_loop spawns a manager and the manager's
\* route_fut follows the exit's port, also when the exit moved between the
\* manager reading its port and route_fut installing it.
RouteConverges ==
    \A e \in Exits :
        <>[](up /\ lastPort[e] = exitPort[e]
                /\ BagIn([exit |-> e, port |-> exitPort[e]], rules))

=============================================================================
