------------------------------ MODULE Federation ------------------------------
(***************************************************************************)
(* How the connector endpoints of the clusters reach each other through    *)
(* the host.  RunManager (pkg/operator/options.go) adds initializeControl- *)
(* lers and, on the host, runAPIServer as two runnables of one manager,    *)
(* started together once the replica leads.  On the host,                  *)
(* initializeControllers adds the cluster controller, which copies each    *)
(* Cluster object's endpoints into the in-memory Store, and the           *)
(* LocalClusterReporter, which writes the host's own connector endpoint   *)
(* into its Cluster object; the API server serves the Store and writes    *)
(* the endpoints a member PUTs into that member's Cluster object.  On a   *)
(* member, initializeControllers adds ExportEndpoints (PUT its connector   *)
(* endpoint) and LoadEndpointsAndCommunities (GET the host's Store and    *)
(* replace the foreign part of its own), each every 10 seconds.           *)
(*                                                                         *)
(* Data abstraction: a cluster's connector endpoint is a version number;  *)
(* 0 stands for no endpoint.  Communities travel the same way and are     *)
(* left out.                                                               *)
(***************************************************************************)
EXTENDS Naturals

CONSTANTS
    Host,         \* the host cluster
    Members,      \* member clusters
    MaxVersion,   \* bound on changes of a connector endpoint
    MaxRestarts   \* bound on restarts of the host operator

ASSUME Host \notin Members /\ MaxVersion \in Nat \ {0} /\ MaxRestarts \in Nat

Clusters == {Host} \cup Members
Version == 0..MaxVersion

VARIABLES
    ver,          \* each cluster's current connector endpoint
    record,       \* the endpoints of each Cluster object (persisted)
    hostStore,    \* the host operator's Store (memory)
    view,         \* each member's Store: the endpoints it knows of
    hostUp,       \* the host's manager has started (the replica leads)
    serving,      \* runAPIServer is listening
    runnables,    \* what initializeControllers added, per cluster
    restarts

vars == <<ver, record, hostStore, view, hostUp, serving, runnables,
          restarts>>

None == [c \in Clusters |-> 0]

Runnables == {"clusterController", "reporter", "export", "load"}

-----------------------------------------------------------------------------
Init ==
    /\ ver = [c \in Clusters |-> 1]
    /\ record = None
    /\ hostStore = None
    /\ view = [m \in Members |-> None]
    /\ hostUp = FALSE
    /\ serving = FALSE
    /\ runnables = [c \in Clusters |-> {}]
    /\ restarts = 0

\* RunManager on the host: add the runnables and start the manager.
RunManager ==
    /\ ~hostUp
    /\ hostUp' = TRUE
    /\ UNCHANGED <<ver, record, hostStore, view, serving, runnables,
                   restarts>>

\* runAPIServer: ListenAndServeTLS, concurrently with initializeControllers.
RunAPIServer ==
    /\ hostUp /\ ~serving
    /\ serving' = TRUE
    /\ UNCHANGED <<ver, record, hostStore, view, hostUp, runnables,
                   restarts>>

\* Mutant: the role test is inverted, so the host adds the member routines
\* and a member adds the LocalClusterReporter.
InitializeControllersRoleSwapped(c) ==
    /\ c = Host => hostUp
    /\ runnables[c] = {}
    /\ runnables' = [runnables EXCEPT ![c] =
                        IF c # Host THEN {"clusterController", "reporter"}
                        ELSE {"clusterController", "export", "load"}]
    /\ UNCHANGED <<ver, record, hostStore, view, hostUp, serving, restarts>>

\* initializeControllers: on every cluster the cluster controller; on the
\* host the LocalClusterReporter, on a member the two federation routines.
\* What they do afterwards are the actions below.
InitializeControllers(c) ==
    /\ c = Host => hostUp
    /\ runnables[c] = {}
    /\ runnables' = [runnables EXCEPT ![c] =
                        IF c = Host THEN {"clusterController", "reporter"}
                        ELSE {"clusterController", "export", "load"}]
    /\ UNCHANGED <<ver, record, hostStore, view, hostUp, serving, restarts>>

\* The cluster controller saves a Cluster object's endpoints in the Store.
ClusterSync(c) ==
    /\ "clusterController" \in runnables[Host]
    /\ hostStore[c] # record[c]
    /\ hostStore' = [hostStore EXCEPT ![c] = record[c]]
    /\ UNCHANGED <<ver, record, view, hostUp, serving, runnables, restarts>>

\* LocalClusterReporter writes the host's connector endpoint to its object.
Report ==
    /\ "reporter" \in runnables[Host]
    /\ record[Host] # ver[Host]
    /\ record' = [record EXCEPT ![Host] = ver[Host]]
    /\ UNCHANGED <<ver, hostStore, view, hostUp, serving, runnables,
                   restarts>>

\* ExportEndpoints: PUT the member's connector endpoint; the API server
\* writes it into the member's Cluster object.  A failed PUT changes nothing.
ExportEndpoints(m) ==
    /\ "export" \in runnables[m] /\ serving
    /\ record[m] # ver[m]
    /\ record' = [record EXCEPT ![m] = ver[m]]
    /\ UNCHANGED <<ver, hostStore, view, hostUp, serving, runnables,
                   restarts>>

\* LoadEndpointsAndCommunities: GET the host's Store and replace the
\* foreign part of the member's Store with it.
LoadEndpointsAndCommunities(m) ==
    LET foreign == [c \in Clusters |-> IF c = m THEN 0 ELSE hostStore[c]]
    IN  /\ "load" \in runnables[m] /\ serving
        /\ view[m] # foreign
        /\ view' = [view EXCEPT ![m] = foreign]
        /\ UNCHANGED <<ver, record, hostStore, hostUp, serving, runnables,
                       restarts>>

\* A connector's endpoint changes (its subnets or public addresses).
ChangeEndpoint(c) ==
    /\ ver[c] < MaxVersion
    /\ ver' = [ver EXCEPT ![c] = ver[c] + 1]
    /\ UNCHANGED <<record, hostStore, view, hostUp, serving, runnables,
                   restarts>>

\* The host operator exits (crash, lost lease) and starts from scratch:
\* its Store is empty and the API server is down.
Restart ==
    /\ hostUp
    /\ restarts < MaxRestarts
    /\ hostStore' = None
    /\ hostUp' = FALSE
    /\ serving' = FALSE
    /\ runnables' = [runnables EXCEPT ![Host] = {}]
    /\ restarts' = restarts + 1
    /\ UNCHANGED <<ver, record, view>>

Next ==
    \/ RunManager \/ RunAPIServer \/ Report \/ Restart
    \/ \E c \in Clusters : InitializeControllers(c) \/ ClusterSync(c)
                           \/ ChangeEndpoint(c)
    \/ \E m \in Members : ExportEndpoints(m) \/ LoadEndpointsAndCommunities(m)

\* The manager starts its runnables, controllers work off their queues and
\* the routines run every 10 seconds: each step of the operators is weakly
\* fair.  Endpoint changes and restarts are the environment's.
Fairness ==
    /\ WF_vars(RunManager) /\ WF_vars(RunAPIServer) /\ WF_vars(Report)
    /\ \A c \in Clusters : WF_vars(InitializeControllers(c))
                           /\ WF_vars(ClusterSync(c))
    /\ \A m \in Members : WF_vars(ExportEndpoints(m))
                          /\ WF_vars(LoadEndpointsAndCommunities(m))

Spec == Init /\ [][Next]_vars /\ Fairness

-----------------------------------------------------------------------------
\* Round trip (design property 5): once endpoints stop changing, every
\* member ends up knowing the current connector endpoint of every other
\* cluster, the host's included.
EndpointsRoundTrip ==
    <>[](\A m \in Members : \A c \in Clusters \ {m} : view[m][c] = ver[c])

\* A member never forgets the endpoint of another cluster whose Cluster
\* object still holds one: its tunnels to that cluster are never torn down
\* by a sync.
NoForeignLoss ==
    [][\A m \in Members, c \in Clusters :
          view[m][c] # 0 /\ record[c] # 0 => view'[m][c] # 0]_vars
=============================================================================
