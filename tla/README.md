# TLA+ models of the FabEdge control plane

This directory holds TLA+ models of the code under `src/` and the TLC
configurations that check them. The design is described in `spec.md`. The code
that the models translate is:

| file | what it is |
|---|---|
| `src/unnamed/part_001` lines 1-236 | `pkg/connector/manager.go`: the connector Manager (`Start`, `runTasks`, the task closures, `broadcastToAgents`, `gracefulShutdown`) |
| `src/unnamed/part_001` lines 237-281 | the connector command (`Execute`) |
| `src/pkg/operator/options.go` | the operator's options: `Complete`, `Validate`, `RunManager`, `runAPIServer`, `initializeControllers`, `recordEndpoints`, `recordIPAMBlocks`, `initAPIClient`, `createTLSSecretForClient` |
| `src/unnamed/part_002` | a test of the agent controller's cert handler (it is evidence only and is not modelled) |
| `src/unnamed/part_000` | a design note on FabDNS (documentation, not code) |

The helpers these files call are outside `src/`: `syncConnections`, the routers,
the ipset and iptables helpers, `onConfigFileChange`, the allocator, the
agent, cluster and IPAMBlock-monitor controllers, the federation routines and
the API server's handlers. Where a model needs one of them, it is modelled from
`spec.md` and marked `spec_modelled` in `PROJECT.json`.

## 1. Inventory

### Components, their state and their operations

**Connector Manager** (`part_001`). It runs in the connector pod on the
gateway node.
- State: `m.connections`, the tunnel peers last read from the tunnel config
  file. It also owns these kernel resources: IPsec connections in strongSwan,
  routes to peer subnets, the four FabEdge ipsets (EdgeNodeCIDR, EdgePodCIDR,
  CloudNodeCIDR, CloudPodCIDR) and the FabEdge iptables chains (FORWARD, NAT,
  INPUT).
- `Start` flushes the FabEdge chains and then starts two goroutines that run
  the same task list `tunnel, route, ipset, iptables`:
  - `runTasks` runs the list, then waits for a tick of `time.Tick(SyncPeriod)`.
  - `onConfigFileChange` runs the list after each change to the config file.
- The tunnel task runs `syncConnections` (read the file, set `m.connections`,
  load missing connections and terminate extra ones). If that succeeds it runs
  `broadcastToAgents`, which sends the connector prefixes to the cloud agents
  over memberlist. It sends nothing if the remote prefixes or the local
  prefixes are empty.
- The route task asks the daemon `IsActive()`. If active it calls
  `SyncRoutes(m.connections)`; otherwise it calls `CleanRoutes`.
- The ipset task makes four sync calls and the iptables task makes three
  ensure calls. Each call fails or succeeds on its own, and an error is only
  logged.
- The main goroutine waits for SIGINT or SIGTERM. It then runs
  `gracefulShutdown` (CleanRoutes, then CleanSNatIPTablesRules) and the process
  exits.
- Interactions: the operator's ConnectorController writes the config file.
  Cloud agents receive the broadcasts. strongSwan is reached through its vici
  socket.

**Operator startup** (`options.go`).
- `Complete` wires everything. It picks the CNI variant (Calico creates the
  allocator from EdgePodCIDR), loads the kubeconfig and creates the client and
  the controller manager. On the host it loads the CA to build the cert
  manager. On a member it fetches the host CA and runs `initAPIClient`.
  `initAPIClient` reuses the `api-client-tls` secret if it exists. Otherwise it
  enrolls: it creates a CSR, gets it signed with the init token through
  `SignCertByToken` and creates the secret.
- `Validate` checks the flags: cluster name, role, token, key files, labels,
  subnets, EdgePodCIDR overlap and leader-election durations.
- `RunManager` starts the manager, which handles leader election.
  `initializeControllers` runs once this replica leads. With Calico it records
  the IPAM blocks. It then runs `recordEndpoints`, which rebuilds the in-memory
  allocator and Store from node annotations and communities. Only after that
  does it add the connector, agent, community, proxy and cluster controllers
  and the federation routines. The host gets the local cluster reporter. A
  member gets the 10-second endpoint load and export routines.
- State: the allocator and the Store live only in memory. The node
  annotations and secrets are kept in the API server.

**Allocator, AgentController, EndpointStore, CertManager, NodeObserver,
CommunityController, ConnectorController, Federation handlers.** These are
described in spec.md §4 but are not under `src/`. They are modelled only where
the code under `src/` depends on them: block allocation and release (EdgeIPAM),
and config publication (ConnectorManager).

### What is hard

- **Concurrency.** The connector's two task goroutines and its main goroutine
  share `m.connections` and the kernel state without a lock. Operator replicas
  run `Complete` before leader election.
- **Failure.** Every I/O call can fail on its own. The operator can restart, and
  its allocator and Store are lost with it. A crash can come between signing
  the client cert and persisting it.
- **Ordering.** `recordEndpoints` must finish before the agent controller
  starts. The IPAMBlock monitor's watch starts only after `recordIPAMBlocks`'
  List. The host's API server serves the Store while `initializeControllers`
  is still filling it. Shutdown runs while the tasks are still running.
  Memberlist broadcasts are lost or reordered.
- **Timeouts.** Certificates and tokens expire. Leader-election durations must
  satisfy boundary rules.

### What makes each component correct

- Connector:
  - the kernel converges to the config file and stays there;
  - shutdown leaves no routes or SNAT rules;
  - the cloud agents learn the current prefixes;
- Operator / IPAM:
  - edge pod CIDRs are unique and stable (design property 4);
  - after a restart the Store recovers every complete endpoint.
- Enrollment: a member eventually holds a valid client cert (E5), and every
  running member uses the cert stored in the secret.
- Validation: exactly the EdgePodCIDR / connector-subnet pairs that overlap
  are refused.
- Cloud pod CIDRs: the PodCIDRStore mirrors Calico's live IPAMBlocks.
- Federation: every member ends up with the current connector endpoint of
  every other cluster (design property 5), and never forgets one the host
  still records.

## 2. Plan

Modules, in the order of importance:

1. `ConnectorManager` (done): the task loop with both goroutines, shutdown,
   broadcast and transient failures.
2. `EdgeIPAM` (done): `initializeControllers` and `recordEndpoints` across
   restarts, composed with the agent controller's allocation (from the design).
3. `OperatorStartup` (done): `Complete`'s steps and their error paths on both
   branches, `initAPIClient` and `createTLSSecretForClient` with two member
   replicas and a host replica whose API server they depend on, crashes
   between signing and `Create`, and token and cert expiry. Properties:
   - a `Complete` that returns nil leaves a usable manager (`options.go:184`);
   - a member eventually runs with a valid client cert (E5, `options.go:638`);
   - all running replicas use the cert stored in the secret.
4. `OptionsValidation` (done): `Validate`'s ordered early returns as an
   operator. Its leader-election rules and its EdgePodCIDR /
   connector-subnet overlap test are checked against reference definitions
   over a 3-bit address space and durations counted in 100 ms units.
5. `ConnectorPeers` (not done; from the design): the peer set of the connector and of
   each agent, as a pure operator checked against design properties 2 and 3.
   It then becomes the writer of `cfg` in a composition with ConnectorManager.
6. `CloudPodCIDRs` (done): `recordIPAMBlocks` and the IPAMBlock monitor
   filling the PodCIDRStore across restarts and Calico's block changes.
7. `Federation` (done): the host's `runAPIServer` and `initializeControllers`
   as concurrent runnables, host restarts, and the member routines (from the
   design) carrying connector endpoints between clusters.
8. Abstract spec `ConnectorReconciler` (not done): the kernel jumps straight to the
   config. ConnectorManager would refine it only with the two goroutines
   serialised, so the refinement would be stated for a variant with a lock,
   and its failure for the code.

## 3. Modules and how they correspond to the code

### ConnectorManager (`part_001`)

Variables:
- `connections` is `m.connections`.
- `tunnels` stands for the daemon's loaded connections. `routes`, `ipsets` and
  `rules` stand for the kernel objects. Every element is a peer (or a cloud
  subnet).
- `pc[g]` is the next task of goroutine `g`. `readCfg[g]` and `active[g]` are
  the locals of the tunnel task and the route task.
- `phase` is the main goroutine.
- `cfg`, `pending`, `inflight` and `agentView` are the environment: the config
  file, the file-change event, memberlist, and the cloud agents.

Actions:
- `Start`, `Tick` (runTasks), `ConfigFileChanged` (onConfigFileChange).
- `TunnelRead` and `TunnelSync` (tunnelTaskFn plus broadcastToAgents).
- `RouteCheck` and `RouteSync` (routeTaskFn).
- `IPSetSync` and `IPTablesSync`.
- `Signal`, `ShutdownCleanRoutes` and `ShutdownCleanSNat`.

The two goroutines (runTasks and onConfigFileChange) may interleave between
two actions, but not inside one. `TunnelRead`, `RouteCheck` and the shutdown
steps are one call each. `TunnelSync`, `RouteSync`, `IPSetSync` and
`IPTablesSync` are not: each makes several calls (the daemon's loads and
terminations, the route calls, the four ipsets, the three iptables rules) in
one atomic step. The model therefore misses interleavings of the two
goroutines inside one of these tasks. It keeps the ones between the tasks,
and the one inside the tunnel task (read of the file, then the sync), which
is where `m.connections` is shared. A failing call is a nondeterministic
outcome, limited in number by `MaxFailures`. The `klog.Fatalf` in the
command's `Execute` (a failed `cfg.Manager()`) is not modelled: the process
exits before `Start`, so no task or property is reached.

### EdgeIPAM (`options.go`)

Variables:
- `annotation[n]` is node `n`'s pod-CIDR annotation.
- `addressed[n]` says whether `NewEndpoint(n)` has public addresses and node
  subnets.
- `allocated` is the allocator's set of used blocks. `endpoints[n]` is the
  block of n's endpoint in the Store. Both are lost by `Restart`.

Actions:
- `InitializeControllers` is `recordEndpoints` followed by the start of the
  controllers. Its other outcome is an error return (a failed List or
  AddToManager), after which the process restarts with its memory empty.
- `AllocateOrReuse` and `ReleaseDeleted` are the agent controller's reconcile,
  modelled from the design.

### OperatorStartup (`options.go`)

Variables:
- `pc[r]` is the step of replica `r` in `Complete` and `RunManager`:
  `start` (GetConfig), `kube` (client.New, manager.New), `getCA`
  (GetCertificate), `getSecret` (initAPIClient's Get), `sign`
  (SignCertByToken), `create` (the secret's Create), `client` (X509KeyPair,
  NewClient, NewRemoteManager), `run` (Validate, RunManager), then `running`,
  `exited` or `panicked`.
- `hasManager[r]` says whether `opts.Manager` was set. `csrCert[r]` and
  `clientCert[r]` are the locals `cert` and the API client's cert.
- `secret` is the `api-client-tls` secret. `issued`, `expired` and
  `tokenValid` are the host's view: issued certs, the ones past NotAfter,
  and whether the init token is still valid.

Host replicas take `hostCA` (createCertManager) and `apiServer`
(apiserver.New, LoadX509KeyPair) instead of the member steps. `HostServing`
holds while a host replica runs, because runAPIServer is a runnable of its
manager. A member's GetCertificate and SignCertByToken fail while it is
false.

Actions: one per call of `Complete`, with its error return as a disjunct
(`Fail`). The `return nil` after a failed `GetConfig` goes straight to
`RunManager`. On a host, `RunManager` can also fail with the API server's
ListenAndServeTLS error. `RestartReplica` is the kubelet restarting the
container. `Crash` (of any live replica), `ExpireCert` and `ExpireToken` are
the environment.

### OptionsValidation (`options.go`)

`opts` is the parsed flags and `EnableEdgeIPAM` as `Complete` set it. The
string flags are abstracted to classes: empty, DNS-1123, or invalid. A CIDR
is the address written before the slash plus the prefix length.
`Validate` computes `ValidateResult(opts)`, the error of the first broken
rule in `Checks`, which lists the rules in the code's order. The inputs are
three families. Each varies one group of flags and keeps the rest valid:
- the plain flags, in all combinations;
- up to two connector subnets, EnableEdgeIPAM, and EdgePodCIDR, over every
  3-bit CIDR and an unparsable one;
- the three leader-election durations, from 0 to 2s.

### CloudPodCIDRs (`options.go`)

With Calico, `Complete` creates an in-memory PodCIDRStore. The connector
controller reads each cloud node's pod CIDRs from it through
`getCloudPodCIDRs` (lines 161-164, 252). The state is:
- `blocks`: Calico's IPAMBlock objects;
- `store`: the PodCIDRStore;
- `phase`: where `initializeControllers` is;
- `queue`: the monitor's work queue;
- `changed`: a history variable with the blocks changed after
  `recordIPAMBlocks`' List while no watch ran.

The actions are:
- `RecordIPAMBlocks`: the List, and the loop with its three skips (Deleted,
  no affinity, no node name);
- `AddMonitor`: `ipamblockmonitor.AddToManager` and the rest of
  `initializeControllers`, which adds the connector controller;
- `MonitorStart`: the informer's own List queues every existing block;
- `Reconcile(b)`: the monitor mirrors one block, from the design;
- `ChangeBlock(b)`: Calico claims, marks Deleted or removes a block;
- `Restart`: the process exits and starts with an empty store.

### Federation (`options.go` with the design)

`RunManager` adds `initializeControllers` and, on the host, `runAPIServer` as
two runnables that the manager starts together. The model keeps each
cluster's connector endpoint as a version (`ver`), each Cluster object's
endpoints (`record`, persisted), the host's Store (`hostStore`, in memory),
and each member's Store (`view`). `serving` and `runnables` say which
runnables are up. `InitializeControllers(c)` is the role branch of lines
513-550: the host adds the cluster controller and the LocalClusterReporter,
and a member adds ExportEndpoints and LoadEndpointsAndCommunities. The
routines and the cluster controller are modelled from the design:
- `ClusterSync` copies a Cluster object into the Store;
- `Report` writes the host's endpoint into its object;
- `ExportEndpoints` is a PUT that the API server writes into the member's
  object;
- `LoadEndpointsAndCommunities` is a GET that replaces the member's foreign
  endpoints.

`Restart` empties the host's Store and stops both runnables.

## 4. Runs

| run | cfg | expect | what it shows |
|---|---|---|---|
| connector_converges | MCConnectorManager.cfg | pass | TypeOK, `Converges`, `AgentsLearnPrefixes` |
| connector_shutdown_race | MCConnectorManager_shutdown.cfg | violation | `ShutdownRemovesRoutesAndSNat` fails: routes are reinstalled after CleanRoutes |
| ipam_unique | MCEdgeIPAM.cfg | pass | `UniquePodCIDRs` with adds, deletes, re-adds and 2 restarts |
| ipam_store_recovers | MCEdgeIPAM_store.cfg | pass | `EndpointsEventuallyStored` with restarts and one address loss |
| ipam_address_loss | MCEdgeIPAM_loss.cfg | violation | `UniquePodCIDRs` fails after a node with missing addresses is skipped by recordEndpoints |
| operator_enrollment | MCOperatorStartup.cfg | pass | `RunningUseStoredCert`, `EnrollmentCompletes`: a host and two member replicas, one failed call, one crash (also of the serving host), expiries |
| operator_nil_manager | MCOperatorStartup_nil.cfg | violation | `NoNilManager` fails: `Complete` returns nil after a failed `GetConfig` (`options.go:184`) and `RunManager` panics |
| operator_expired_cert | MCOperatorStartup_expiry.cfg | violation | `RunsWithValidCert` (E5) fails: an expired cert in the secret is reused forever (`options.go:638`) |
| options_validation | MCOptionsValidation.cfg | pass | `OverlapCheckExact`: the two-way Contains test refuses exactly the overlapping pairs |
| cloud_podcidrs_explained | MCCloudPodCIDRs.cfg | pass | TypeOK, `StoreExplained`: every stale CIDR in the store is queued for the monitor or was changed while nothing watched, and before the watch no live block unchanged since the List is missing. |
| federation_round_trip | MCFederation.cfg | pass | `EndpointsRoundTrip` (design property 5): with two host restarts and endpoint changes, every member ends up with the current endpoint of every other cluster |
| federation_host_restart | MCFederation_loss.cfg | violation | `NoForeignLoss` fails: after a host restart `runAPIServer` serves the empty Store (`options.go:416`) and a member's load drops the remote endpoints it knew |

### Bounds and why they are enough

ConnectorManager uses 2 peers, 1 cloud subnet, 1 rewrite of the config file and
1 failed call. These bounds are enough because:
- one rewrite lets the file change between two reads of the two goroutines,
  and lets it become empty;
- two peers make stale and current configs differ, and make the
  one-prefix/two-prefix boundary of the broadcast reachable;
- the initial config may be any subset of the peers, and the initial chains
  may be none or all of them.

The violation runs use 0 failures, so each counterexample comes from the
interleaving alone.

EdgeIPAM uses 3 nodes and 2 blocks, so the pool can be exhausted, and 2
restarts. It uses 0 address losses (ipam_unique) or 1 (the other runs).

OperatorStartup uses 1 host replica and 2 member replicas (the race on
`Create` needs two), 1 failed call, 1 crash, 1 expired cert and 4 certificate
identities. Four is the most that can be signed before the secret exists:
one by its creator, one by the loser of the race, and one per failure and
crash. The pass run has 251k states.

OptionsValidation uses 3-bit addresses. That gives every prefix length from
/0 to /3, nested and disjoint networks, and addresses with host bits after
the prefix. Durations are multiples of 100 ms up to 2 s, which reaches both
the 1 s boundary and the 1.2 boundary. In these units
`time.Duration(1.2 * float64(retryPeriod))` is exact. Float truncation at
finer granularity is not modelled.

CloudPodCIDRs uses 2 nodes and 2 blocks in any initial state, 3 block changes
and 1 restart. Two blocks let one be claimed while the other is removed, and
three changes let a block be claimed, marked Deleted and removed.

Federation uses the host, 2 members (so each member has a host endpoint and
another member's endpoint to learn), 3 versions per endpoint and 2 host
restarts, so a restart can also hit while the members are still recovering
from the previous one. The pass run has 958k states and takes about 45 s. The violation run uses 2
versions and 1 restart: one restart is enough for the loss.

### Fairness and why the code justifies it

- **ConnectorManager:**
  - Weak fairness on each goroutine's steps and on `Tick`. `time.Tick` keeps
    firing, and nothing in the tasks blocks forever.
  - Weak fairness on the shutdown steps.
  - Strong fairness on delivering each broadcast payload. Memberlist may drop
    any single message, but a payload that is sent again and again gets
    through.
  - File rewrites, signals and message loss are not fair.
- **EdgeIPAM:** weak fairness on `InitializeControllers` and on the agent
  controller's reconcile. controller-runtime requeues on each node event and
  on each error.
- **OperatorStartup:** weak fairness on each replica's steps, restarts
  included. A member that finds no host serving exits and is restarted, so
  it retries until the host runs. The kubelet restarts a failed operator container with back-off
  but never gives up. Crashes and expiry are not fair.

- **CloudPodCIDRs:** weak fairness on the steps of `initializeControllers`,
  the watch start and each reconcile. The manager runs the runnable to its
  end, and controller workers drain their queue. Block changes and restarts
  are not fair.
- **Federation:** weak fairness on every operator step: the manager starts
  its runnables, the cluster controller reconciles on each event, and the
  routines fire every 10 seconds. A step is enabled only while it would
  change something, so a periodic routine that repeats a done step is a
  stutter. Endpoint changes and restarts are not fair.

## 5. Not modelled, and why

- The cryptography of certificates and tokens is out of TLC's reach; OperatorStartup abstracts
  a certificate to a model value and the token to a validity flag.
- The DNS-1123 regex and flag parsing are string processing that no property
  depends on.
- Data races on `m.connections` are modelled as atomic reads and writes of the
  whole slice, with no torn reads.
- The order in which the caller runs `Complete` and `Validate` is outside
  `src/`. `OptionsValidation` takes `EnableEdgeIPAM` as an input.
- Whether a node re-added before its deletion is reconciled leaks its block
  depends on the agent controller and the allocator. Neither is under
  `src/`, so no property states it.
- Leader election itself is not modelled. `HostServing` takes any running
  host replica as the one serving.
- The proxy controller is not modelled.
- The HTTP handlers of the federation API are outside `src/`. Federation
  models only what they do to endpoints; authentication is OperatorStartup's
  business and communities are left out, since they travel the same way.
- Member restarts are not in Federation: a member's Store is its own, and
  reloading it from the host is the same step as any other load.
- The goroutine `runAPIServer` leaves behind when the manager stops dies with
  the process, so no property is about it.
