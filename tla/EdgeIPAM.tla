------------------------------ MODULE EdgeIPAM ------------------------------
(***************************************************************************)
(* Per-node pod CIDRs of edge nodes when the CNI is Calico.  The operator *)
(* keeps the allocator (the used blocks of EdgePodCIDR) and the endpoint   *)
(* store only in memory.  After it wins leader election, initializeControl-*)
(* lers (pkg/operator/options.go) rebuilds them from the nodes' pod-CIDR   *)
(* annotations in recordEndpoints, and only then adds the agent controller,*)
(* which allocates a block to each edge node without one, writes it into   *)
(* the node's annotation, and releases it when the node is deleted.        *)
(*                                                                         *)
(* Data abstraction: a block of EdgePodCIDR is a model value; a node's     *)
(* addresses are one boolean (PublicAddresses and NodeSubnets non-empty).  *)
(***************************************************************************)
EXTENDS Naturals, FiniteSets

CONSTANTS
    Nodes,            \* names of edge nodes
    Blocks,           \* the blocks EdgePodCIDR is split into
    None,             \* no annotation / no endpoint
    MaxRestarts,      \* bound on operator restarts (leader changes)
    MaxAddressLosses  \* bound on nodes whose status loses its addresses

ASSUME None \notin Blocks /\ MaxRestarts \in Nat /\ MaxAddressLosses \in Nat

VARIABLES
    nodes,        \* edge nodes that exist in the API server
    annotation,   \* the pod-CIDR annotation of each node object
    addressed,    \* the node's status has addresses
    allocated,    \* the allocator's used blocks (operator memory)
    endpoints,    \* the block of each endpoint in the Store (operator memory)
    operator,     \* "down" (not leader yet) or "running"
    restarts,
    losses

vars == <<nodes, annotation, addressed, allocated, endpoints, operator,
          restarts, losses>>

Block == Blocks \cup {None}

\* opts.NewEndpoint(node) yields PublicAddresses, Subnets and NodeSubnets
\* all non-empty: recordEndpoints and the Store keep only such endpoints.
CompleteEndpoint(n) == addressed[n] /\ annotation[n] # None

-----------------------------------------------------------------------------
Init ==
    /\ nodes = {}
    /\ annotation = [n \in Nodes |-> None]
    /\ addressed = [n \in Nodes |-> FALSE]
    /\ allocated = {}
    /\ endpoints = [n \in Nodes |-> None]
    /\ operator = "down"
    /\ restarts = 0
    /\ losses = 0

\* Mutant: recordEndpoints lists the nodes but never calls Allocator.Record.
RecordEndpointsNoRecord(ns) ==
    /\ allocated' = {}
    /\ endpoints' = [n \in Nodes |-> IF n \in ns THEN annotation[n] ELSE None]

\* recordEndpoints: list the edge nodes; with EnableEdgeIPAM, for every node
\* whose endpoint is complete, record its subnets in the allocator and save
\* the endpoint; nodes with an incomplete endpoint are skipped ("continue").
RecordEndpoints(ns) ==
    LET recorded == {n \in ns : CompleteEndpoint(n)}
    IN  /\ allocated' = {annotation[n] : n \in recorded}
        /\ endpoints' = [n \in Nodes |->
                           IF n \in recorded THEN annotation[n] ELSE None]

\* Mutant: recordEndpoints returns an error on an incomplete endpoint
\* instead of skipping it, so initializeControllers fails and the manager
\* exits until every edge node is complete.
InitializeControllersFailOnIncomplete ==
    /\ operator = "down"
    /\ \A n \in nodes : CompleteEndpoint(n)
    /\ RecordEndpoints(nodes)
    /\ operator' = "running"
    /\ UNCHANGED <<nodes, annotation, addressed, restarts, losses>>

\* initializeControllers, run by the manager once this replica leads:
\* recordEndpoints over the current edge nodes, then the connector, agent,
\* community, cluster controllers and the routines are added and start.
\* A failed List (recordIPAMBlocks, recordEndpoints) or AddToManager is
\* returned, the manager stops and the process restarts with its memory
\* lost; a failure after the agent controller started is a Restart.
InitializeControllers ==
    /\ operator = "down"
    /\ \/ /\ RecordEndpoints(nodes)
          /\ operator' = "running"
          /\ UNCHANGED restarts
       \/ /\ restarts < MaxRestarts
          /\ restarts' = restarts + 1
          /\ UNCHANGED <<allocated, endpoints, operator>>
    /\ UNCHANGED <<nodes, annotation, addressed, losses>>

\* The operator process dies or loses the lease; its memory is lost.
Restart ==
    /\ operator = "running"
    /\ restarts < MaxRestarts
    /\ operator' = "down"
    /\ allocated' = {}
    /\ endpoints' = [n \in Nodes |-> None]
    /\ restarts' = restarts + 1
    /\ UNCHANGED <<nodes, annotation, addressed, losses>>

\* Mutant: the endpoint is saved only when a new block is allocated.
AllocateOrReuseNoSave(n) ==
    /\ operator = "running"
    /\ n \in nodes
    /\ \/ /\ annotation[n] # None
          /\ UNCHANGED <<annotation, allocated, endpoints>>
       \/ /\ annotation[n] = None
          /\ \E b \in Blocks \ allocated :
                /\ allocated' = allocated \cup {b}
                /\ annotation' = [annotation EXCEPT ![n] = b]
                /\ endpoints' = [endpoints EXCEPT
                                   ![n] = IF addressed[n] THEN b ELSE None]
    /\ UNCHANGED <<nodes, addressed, operator, restarts, losses>>

\* Agent controller, existing node: a node that has a block keeps it; one
\* without gets a free block, which is written to its annotation; the pool
\* being exhausted is an error and the node is requeued.  The endpoint is
\* saved only when complete.
AllocateOrReuse(n) ==
    /\ operator = "running"
    /\ n \in nodes
    /\ \/ /\ annotation[n] # None
          /\ UNCHANGED <<annotation, allocated>>
       \/ /\ annotation[n] = None
          /\ \E b \in Blocks \ allocated :
                /\ allocated' = allocated \cup {b}
                /\ annotation' = [annotation EXCEPT ![n] = b]
    /\ endpoints' = [endpoints EXCEPT
                       ![n] = IF addressed[n] THEN annotation'[n] ELSE None]
    /\ UNCHANGED <<nodes, addressed, operator, restarts, losses>>

\* Agent controller, deleted node: the block of its stored endpoint is
\* released and the endpoint deleted.
ReleaseDeleted(n) ==
    /\ operator = "running"
    /\ n \notin nodes
    /\ endpoints[n] # None
    /\ allocated' = allocated \ {endpoints[n]}
    /\ endpoints' = [endpoints EXCEPT ![n] = None]
    /\ UNCHANGED <<nodes, annotation, addressed, operator, restarts, losses>>

-----------------------------------------------------------------------------
(* Environment: edge nodes join and leave; a node's status may lose and   *)
(* regain its addresses.                                                   *)

AddNode(n) ==
    /\ n \notin nodes
    /\ nodes' = nodes \cup {n}
    /\ annotation' = [annotation EXCEPT ![n] = None]
    /\ addressed' = [addressed EXCEPT ![n] = TRUE]
    /\ UNCHANGED <<allocated, endpoints, operator, restarts, losses>>

DeleteNode(n) ==
    /\ n \in nodes
    /\ nodes' = nodes \ {n}
    /\ annotation' = [annotation EXCEPT ![n] = None]
    /\ UNCHANGED <<addressed, allocated, endpoints, operator, restarts, losses>>

LoseAddresses(n) ==
    /\ n \in nodes /\ addressed[n]
    /\ losses < MaxAddressLosses
    /\ addressed' = [addressed EXCEPT ![n] = FALSE]
    /\ losses' = losses + 1
    /\ UNCHANGED <<nodes, annotation, allocated, endpoints, operator, restarts>>

RegainAddresses(n) ==
    /\ n \in nodes /\ ~addressed[n]
    /\ addressed' = [addressed EXCEPT ![n] = TRUE]
    /\ UNCHANGED <<nodes, annotation, allocated, endpoints, operator,
                   restarts, losses>>

Next ==
    \/ InitializeControllers \/ Restart
    \/ \E n \in Nodes :
          \/ AllocateOrReuse(n) \/ ReleaseDeleted(n)
          \/ AddNode(n) \/ DeleteNode(n)
          \/ LoseAddresses(n) \/ RegainAddresses(n)

\* The manager runs initializeControllers once it leads; the agent
\* controller's work queue reconciles every node again after each node event
\* and retries failed reconciles, so its steps are weakly fair.  Node
\* events, restarts and address changes are the environment.
Fairness ==
    /\ WF_vars(InitializeControllers)
    /\ \A n \in Nodes : WF_vars(AllocateOrReuse(n)) /\ WF_vars(ReleaseDeleted(n))

Spec == Init /\ [][Next]_vars /\ Fairness

-----------------------------------------------------------------------------
\* Property 4 of the design: no two existing edge nodes hold the same pod
\* CIDR block, across operator restarts, node deletions and re-additions.
UniquePodCIDRs ==
    \A n, m \in nodes :
        n # m /\ annotation[n] # None => annotation[n] # annotation[m]

\* The Store recovers after a restart: an existing node whose endpoint is
\* complete (also one recordEndpoints skipped because its addresses were
\* missing then) eventually has its endpoint, with its block, in the Store.
EndpointsEventuallyStored ==
    \A n \in Nodes :
        (n \in nodes /\ CompleteEndpoint(n))
            ~> (endpoints[n] = annotation[n] \/ ~(n \in nodes /\ CompleteEndpoint(n)))
=============================================================================
