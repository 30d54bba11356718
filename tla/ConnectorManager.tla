-------------------------- MODULE ConnectorManager --------------------------
(***************************************************************************)
(* The connector's Manager (pkg/connector/manager.go).  Start() clears the *)
(* FabEdge iptables chains, then starts two goroutines that run the same   *)
(* task list {tunnel, route, ipset, iptables}: runTasks, once per tick of  *)
(* time.Tick(SyncPeriod), and onConfigFileChange, once per change of the   *)
(* tunnel config file.  The main goroutine waits for SIGINT/SIGTERM and    *)
(* runs gracefulShutdown (CleanRoutes, then CleanSNatIPTablesRules) before *)
(* the process exits.  Nothing synchronises the two task goroutines with   *)
(* each other or with the shutdown.                                        *)
(*                                                                         *)
(* Data abstraction: a tunnel peer stands for its ConnConfig, its remote   *)
(* subnets and node subnets; routes, tunnels, ipset entries and broadcast  *)
(* prefixes are sets of peers.  Each I/O call is one step; an error of a   *)
(* call is a nondeterministic outcome, bounded in number by MaxFailures.   *)
(***************************************************************************)
EXTENDS Naturals, FiniteSets

CONSTANTS
    Peers,            \* tunnel endpoints the config file may name
    CloudSubnets,     \* the local cluster's cloud pod/node CIDRs
    MaxConfigChanges, \* bound on rewrites of the tunnel config file
    MaxFailures,      \* bound on failed I/O calls (transient errors)
    ShutdownAllowed   \* whether SIGTERM may arrive in this model

ASSUME /\ Peers # {} /\ CloudSubnets # {}
       /\ MaxConfigChanges \in Nat /\ MaxFailures \in Nat
       /\ ShutdownAllowed \in BOOLEAN

VARIABLES
    cfg,          \* contents of TunnelConfigFile (written by the operator)
    cfgChanges,   \* number of rewrites so far
    pending,      \* a file change not yet picked up by onConfigFileChange
    connections,  \* m.connections
    tunnels,      \* connections loaded in the IPsec daemon
    routes,       \* routes to peer subnets installed by m.router
    ipsets,       \* contents of the four FabEdge ipsets
    rules,        \* FabEdge iptables chains present in the kernel
    inflight,     \* memberlist broadcasts not yet delivered or lost
    agentView,    \* remote prefixes the cloud agents last received
    phase,        \* the main goroutine: init, running, stopping, cleaning, exited
    pc,           \* next task of each task goroutine ("idle" = waiting)
    readCfg,      \* per goroutine: the config syncConnections has read
    active,       \* per goroutine: the result of m.tm.IsActive()
    failures      \* failed I/O calls so far

vars == <<cfg, cfgChanges, pending, connections, tunnels, routes, ipsets,
          rules, inflight, agentView, phase, pc, readCfg, active, failures>>

Goroutines == {"runTasks", "onConfigFileChange"}
TaskPC == {"idle", "tunnel", "tunnelSync", "route", "routeSync",
           "ipset", "iptables"}
IPSetNames == {"EdgeNodeCIDR", "EdgePodCIDR", "CloudNodeCIDR", "CloudPodCIDR"}
EdgeIPSets == {"EdgeNodeCIDR", "EdgePodCIDR"}
Chains == {"FORWARD", "NAT", "INPUT"}
Alive == {"running", "stopping", "cleaning"}

\* Mutant: the edge and the cloud sets are filled from each other's source.
DesiredIPSetSwapped(s, conns) == IF s \in EdgeIPSets THEN CloudSubnets ELSE conns

\* The entries a sync of ipset s puts into the set, given m.connections.
DesiredIPSet(s, conns) == IF s \in EdgeIPSets THEN conns ELSE CloudSubnets

\* A call that may fail: k failing calls are allowed within the budget.
CanFail(k) == failures + k <= MaxFailures

-----------------------------------------------------------------------------
Init ==
    /\ cfg \in SUBSET Peers
    /\ cfgChanges = 0
    /\ pending = FALSE
    /\ connections = {}
    /\ tunnels = {}
    /\ routes = {}
    /\ ipsets = [s \in IPSetNames |-> {}]
    /\ rules \in {{}, Chains}        \* none, or the chains of an earlier run
    /\ inflight = {}
    /\ agentView = {}
    /\ phase = "init"
    /\ pc = [g \in Goroutines |-> "idle"]
    /\ readCfg = [g \in Goroutines |-> {}]
    /\ active = [g \in Goroutines |-> FALSE]
    /\ failures = 0

\* Start(): clearFabedgeIptablesChains (an error is only logged), then the
\* two task goroutines start; runTasks runs its tasks before its first tick.
Start ==
    /\ phase = "init"
    /\ \/ rules' = {} /\ UNCHANGED failures
       \/ CanFail(1) /\ failures' = failures + 1 /\ UNCHANGED rules
    /\ phase' = "running"
    /\ pc' = [pc EXCEPT !["runTasks"] = "tunnel"]
    /\ UNCHANGED <<cfg, cfgChanges, pending, connections, tunnels, routes,
                   ipsets, inflight, agentView, readCfg, active>>

\* runTasks: the tick of time.Tick(interval) after a round of tasks.
Tick ==
    /\ phase \in Alive
    /\ pc["runTasks"] = "idle"
    /\ pc' = [pc EXCEPT !["runTasks"] = "tunnel"]
    /\ UNCHANGED <<cfg, cfgChanges, pending, connections, tunnels, routes,
                   ipsets, rules, inflight, agentView, phase, readCfg,
                   active, failures>>

\* onConfigFileChange: a (debounced) change of the file runs all tasks.
ConfigFileChanged ==
    /\ phase \in Alive
    /\ pc["onConfigFileChange"] = "idle"
    /\ pending
    /\ pending' = FALSE
    /\ pc' = [pc EXCEPT !["onConfigFileChange"] = "tunnel"]
    /\ UNCHANGED <<cfg, cfgChanges, connections, tunnels, routes, ipsets,
                   rules, inflight, agentView, phase, readCfg, active,
                   failures>>

\* tunnelTaskFn, first half of syncConnections: read TunnelConfigFile.
\* A read error makes syncConnections fail: no broadcast, go to the route task.
TunnelRead(g) ==
    /\ phase \in Alive
    /\ pc[g] = "tunnel"
    /\ \/ /\ readCfg' = [readCfg EXCEPT ![g] = cfg]
          /\ pc' = [pc EXCEPT ![g] = "tunnelSync"]
          /\ UNCHANGED failures
       \/ /\ CanFail(1)
          /\ failures' = failures + 1
          /\ pc' = [pc EXCEPT ![g] = "route"]
          /\ UNCHANGED readCfg
    /\ UNCHANGED <<cfg, cfgChanges, pending, connections, tunnels, routes,
                   ipsets, rules, inflight, agentView, phase, active>>

\* Mutant: a single remote prefix is taken for "no prefixes" (off by one).
BroadcastOffByOne(remote) ==
    IF Cardinality(remote) <= 1 THEN inflight' = inflight
                                ELSE inflight' = inflight \cup {remote}

\* broadcastToAgents: GetConnectorPrefixes; nothing is sent unless both the
\* local and the remote prefixes are non-empty; else m.mc.Broadcast(b).
Broadcast(remote) ==
    IF remote = {} THEN inflight' = inflight
                   ELSE inflight' = inflight \cup {remote}

\* tunnelTaskFn, rest: m.connections is set from the file, the daemon loads
\* the missing and terminates the extraneous connections; on success the
\* prefixes are broadcast.  A daemon error skips the broadcast, and so does
\* an error of GetConnectorPrefixes.
TunnelSync(g) ==
    /\ phase \in Alive
    /\ pc[g] = "tunnelSync"
    /\ connections' = readCfg[g]
    /\ \/ /\ tunnels' = readCfg[g]
          /\ \/ Broadcast(routes) /\ UNCHANGED failures
             \/ CanFail(1) /\ failures' = failures + 1 /\ UNCHANGED inflight
       \/ /\ CanFail(1)
          /\ failures' = failures + 1
          /\ UNCHANGED <<tunnels, inflight>>
    /\ pc' = [pc EXCEPT ![g] = "route"]
    /\ readCfg' = [readCfg EXCEPT ![g] = {}]    \* the local goes out of scope
    /\ UNCHANGED <<cfg, cfgChanges, pending, routes, ipsets, rules,
                   agentView, phase, active>>

\* routeTaskFn: m.tm.IsActive(); on error the task returns.
RouteCheck(g) ==
    /\ phase \in Alive
    /\ pc[g] = "route"
    /\ \/ /\ active' = [active EXCEPT ![g] = tunnels # {}]
          /\ pc' = [pc EXCEPT ![g] = "routeSync"]
          /\ UNCHANGED failures
       \/ /\ CanFail(1)
          /\ failures' = failures + 1
          /\ pc' = [pc EXCEPT ![g] = "ipset"]
          /\ UNCHANGED active
    /\ UNCHANGED <<cfg, cfgChanges, pending, connections, tunnels, routes,
                   ipsets, rules, inflight, agentView, phase, readCfg>>

\* Mutant: the branches of "if active" swapped.
RouteSyncSwapped(g) ==
    /\ phase \in Alive
    /\ pc[g] = "routeSync"
    /\ \/ /\ routes' = IF active[g] THEN {} ELSE connections
          /\ UNCHANGED failures
       \/ /\ CanFail(1)
          /\ failures' = failures + 1
          /\ UNCHANGED routes
    /\ pc' = [pc EXCEPT ![g] = "ipset"]
    /\ active' = [active EXCEPT ![g] = FALSE]
    /\ UNCHANGED <<cfg, cfgChanges, pending, connections, tunnels, ipsets,
                   rules, inflight, agentView, phase, readCfg>>

\* routeTaskFn, rest: SyncRoutes(m.connections) if the daemon was active,
\* else CleanRoutes(m.connections); an error is only logged.
RouteSync(g) ==
    /\ phase \in Alive
    /\ pc[g] = "routeSync"
    /\ \/ /\ routes' = IF active[g] THEN connections ELSE {}
          /\ UNCHANGED failures
       \/ /\ CanFail(1)
          /\ failures' = failures + 1
          /\ UNCHANGED routes
    /\ pc' = [pc EXCEPT ![g] = "ipset"]
    /\ active' = [active EXCEPT ![g] = FALSE]   \* the local goes out of scope
    /\ UNCHANGED <<cfg, cfgChanges, pending, connections, tunnels, ipsets,
                   rules, inflight, agentView, phase, readCfg>>

\* Mutant: the edge and cloud ipsets get each other's entries.
IPSetSyncSwapped(g) ==
    /\ phase \in Alive
    /\ pc[g] = "ipset"
    /\ \E failed \in SUBSET IPSetNames :
          /\ CanFail(Cardinality(failed))
          /\ failures' = failures + Cardinality(failed)
          /\ ipsets' = [s \in IPSetNames |->
                          IF s \in failed THEN ipsets[s]
                                          ELSE DesiredIPSetSwapped(s, connections)]
    /\ pc' = [pc EXCEPT ![g] = "iptables"]
    /\ UNCHANGED <<cfg, cfgChanges, pending, connections, tunnels, routes,
                   rules, inflight, agentView, phase, readCfg, active>>

\* ipsetTaskFn: the four sets are synced one after the other, each from
\* m.connections; a failed set keeps its old entries.
IPSetSync(g) ==
    /\ phase \in Alive
    /\ pc[g] = "ipset"
    /\ \E failed \in SUBSET IPSetNames :
          /\ CanFail(Cardinality(failed))
          /\ failures' = failures + Cardinality(failed)
          /\ ipsets' = [s \in IPSetNames |->
                          IF s \in failed THEN ipsets[s]
                                          ELSE DesiredIPSet(s, connections)]
    /\ pc' = [pc EXCEPT ![g] = "iptables"]
    /\ UNCHANGED <<cfg, cfgChanges, pending, connections, tunnels, routes,
                   rules, inflight, agentView, phase, readCfg, active>>

\* iptablesTaskFn: ensure the FORWARD, NAT and INPUT rules, each on its own;
\* this ends the round of the goroutine.
IPTablesSync(g) ==
    /\ phase \in Alive
    /\ pc[g] = "iptables"
    /\ \E failed \in SUBSET Chains :
          /\ CanFail(Cardinality(failed))
          /\ failures' = failures + Cardinality(failed)
          /\ rules' = rules \cup (Chains \ failed)
    /\ pc' = [pc EXCEPT ![g] = "idle"]
    /\ UNCHANGED <<cfg, cfgChanges, pending, connections, tunnels, routes,
                   ipsets, inflight, agentView, phase, readCfg, active>>

\* SIGINT/SIGTERM reaches signal.Notify's channel.
Signal ==
    /\ ShutdownAllowed
    /\ phase = "running"
    /\ phase' = "stopping"
    /\ UNCHANGED <<cfg, cfgChanges, pending, connections, tunnels, routes,
                   ipsets, rules, inflight, agentView, pc, readCfg, active,
                   failures>>

\* gracefulShutdown: m.router.CleanRoutes(m.connections); error logged.
ShutdownCleanRoutes ==
    /\ phase = "stopping"
    /\ \/ routes' = {} /\ UNCHANGED failures
       \/ CanFail(1) /\ failures' = failures + 1 /\ UNCHANGED routes
    /\ phase' = "cleaning"
    /\ UNCHANGED <<cfg, cfgChanges, pending, connections, tunnels, ipsets,
                   rules, inflight, agentView, pc, readCfg, active>>

\* gracefulShutdown: CleanSNatIPTablesRules; then Start returns and the
\* process exits, which stops both task goroutines.
ShutdownCleanSNat ==
    /\ phase = "cleaning"
    /\ \/ rules' = rules \ {"NAT"} /\ UNCHANGED failures
       \/ CanFail(1) /\ failures' = failures + 1 /\ UNCHANGED rules
    /\ phase' = "exited"
    /\ UNCHANGED <<cfg, cfgChanges, pending, connections, tunnels, routes,
                   ipsets, inflight, agentView, pc, readCfg, active>>

-----------------------------------------------------------------------------
(* Environment: the operator rewrites the config file; memberlist delivers *)
(* or loses a broadcast, in any order.                                     *)

ConfigChange ==
    /\ cfgChanges < MaxConfigChanges
    /\ \E new \in SUBSET Peers \ {cfg} : cfg' = new
    /\ cfgChanges' = cfgChanges + 1
    /\ pending' = TRUE
    /\ UNCHANGED <<connections, tunnels, routes, ipsets, rules, inflight,
                   agentView, phase, pc, readCfg, active, failures>>

Deliver(p) ==
    /\ p \in inflight
    /\ agentView' = p
    /\ inflight' = inflight \ {p}
    /\ UNCHANGED <<cfg, cfgChanges, pending, connections, tunnels, routes,
                   ipsets, rules, phase, pc, readCfg, active, failures>>

Lose(p) ==
    /\ p \in inflight
    /\ inflight' = inflight \ {p}
    /\ UNCHANGED <<cfg, cfgChanges, pending, connections, tunnels, routes,
                   ipsets, rules, agentView, phase, pc, readCfg, active,
                   failures>>

-----------------------------------------------------------------------------
TaskStep(g) ==
    \/ TunnelRead(g) \/ TunnelSync(g) \/ RouteCheck(g) \/ RouteSync(g)
    \/ IPSetSync(g) \/ IPTablesSync(g)

Next ==
    \/ Start \/ Tick \/ ConfigFileChanged
    \/ \E g \in Goroutines : TaskStep(g)
    \/ Signal \/ ShutdownCleanRoutes \/ ShutdownCleanSNat
    \/ ConfigChange
    \/ \E p \in SUBSET Peers : Deliver(p) \/ Lose(p)

\* The goroutines are scheduled and time.Tick keeps firing (weak fairness);
\* a broadcast that is sent again and again is eventually delivered (strong
\* fairness: memberlist may lose any single message).  File rewrites, the
\* signal and message loss are the environment and are not fair.
Fairness ==
    /\ WF_vars(Start) /\ WF_vars(Tick) /\ WF_vars(ConfigFileChanged)
    /\ \A g \in Goroutines : WF_vars(TaskStep(g))
    /\ WF_vars(ShutdownCleanRoutes) /\ WF_vars(ShutdownCleanSNat)
    /\ \A p \in SUBSET Peers : SF_vars(Deliver(p))

Spec == Init /\ [][Next]_vars /\ Fairness

-----------------------------------------------------------------------------
(* Properties                                                              *)

TypeOK ==
    /\ cfg \in SUBSET Peers
    /\ cfgChanges \in 0..MaxConfigChanges
    /\ pending \in BOOLEAN
    /\ connections \in SUBSET Peers
    /\ tunnels \in SUBSET Peers
    /\ routes \in SUBSET Peers
    /\ ipsets \in [IPSetNames -> SUBSET (Peers \cup CloudSubnets)]
    /\ \A s \in EdgeIPSets : ipsets[s] \subseteq Peers
    /\ \A s \in IPSetNames \ EdgeIPSets : ipsets[s] \subseteq CloudSubnets
    /\ rules \in SUBSET Chains
    /\ inflight \in SUBSET SUBSET Peers
    /\ agentView \in SUBSET Peers
    /\ phase \in {"init", "exited"} \cup Alive
    /\ pc \in [Goroutines -> TaskPC]
    /\ readCfg \in [Goroutines -> SUBSET Peers]
    /\ active \in [Goroutines -> BOOLEAN]
    /\ failures \in 0..MaxFailures

\* The kernel and the daemon reflect the current config file.
Synced ==
    /\ connections = cfg
    /\ tunnels = cfg
    /\ routes = cfg
    /\ ipsets = [s \in IPSetNames |-> DesiredIPSet(s, cfg)]
    /\ rules = Chains

\* Reconciliation: while the connector keeps running, the tunnels, routes,
\* ipsets and iptables chains the tasks of runTasks and onConfigFileChange
\* program eventually match the config file and stay so, whatever order the
\* two goroutines interleave in and whatever transient errors they met.
Converges == <>[](phase = "running") => <>[]Synced

\* Cloud agents: while the connector runs and has remote routes, the prefixes
\* broadcastToAgents sends after each successful tunnel sync eventually
\* reach the cloud agents, despite lost and reordered memberlist messages.
AgentsLearnPrefixes ==
    (<>[](phase = "running") /\ <>[](routes # {})) => <>[](agentView = routes)

\* E6 of the design: when the connector exits after SIGTERM, the routes and
\* the SNAT rules gracefulShutdown removes are gone.
ShutdownRemovesRoutesAndSNat ==
    phase = "exited" => routes = {} /\ "NAT" \notin rules
=============================================================================
