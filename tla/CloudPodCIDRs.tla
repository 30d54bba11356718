---------------------------- MODULE CloudPodCIDRs ----------------------------
(***************************************************************************)
(* Pod CIDRs of cloud nodes when the CNI is Calico.  Complete creates an  *)
(* in-memory PodCIDRStore, and the connector controller reads a node's     *)
(* CIDRs from it (getCloudPodCIDRs).  After the operator wins leader       *)
(* election, initializeControllers fills the store from a List of Calico's *)
(* IPAMBlocks (recordIPAMBlocks) and then adds the IPAMBlock monitor,      *)
(* whose informer lists the blocks again when its watch starts and queues  *)
(* a reconcile for every block it sees and for every later change.         *)
(*                                                                         *)
(* Data abstraction: a block is a model value and its CIDR is the block    *)
(* itself; a block's affinity is a node or None, None standing for both a  *)
(* nil affinity and one GetNodeName maps to "".                            *)
(***************************************************************************)
EXTENDS Naturals

CONSTANTS
    Nodes,        \* cloud nodes
    Blocks,       \* Calico IPAMBlocks
    None,         \* no node affinity
    MaxChanges,   \* bound on changes Calico makes to blocks
    MaxRestarts   \* bound on operator restarts

ASSUME None \notin Nodes /\ MaxChanges \in Nat /\ MaxRestarts \in Nat

VARIABLES
    blocks,     \* the IPAMBlock objects in the API server
    store,      \* PodCIDRStore: the CIDRs recorded for each node
    phase,      \* "down", "recorded", "added" (monitor added), "watching"
    queue,      \* the monitor's work queue (a set: it de-duplicates)
    changed,    \* history: blocks changed after the List, before the watch
    changes,
    restarts

vars == <<blocks, store, phase, queue, changed, changes, restarts>>

\* An absent block has no affinity.
Block == {r \in [state : {"absent", "live", "deleted"}, node : Nodes \cup {None}] :
            r.state = "absent" => r.node = None}

\* A block that exists, is not marked Deleted and has a node's affinity.
LiveOn(b, n) == blocks[b].state = "live" /\ blocks[b].node = n

-----------------------------------------------------------------------------
Init ==
    /\ blocks \in [Blocks -> Block]
    /\ store = [n \in Nodes |-> {}]
    /\ phase = "down"
    /\ queue = {}
    /\ changed = {}
    /\ changes = 0
    /\ restarts = 0

\* Mutant: a block marked Deleted is not skipped.
RecordIPAMBlocksKeepDeleted ==
    /\ phase = "down"
    /\ store' = [n \in Nodes |->
                   {b \in Blocks : blocks[b].state # "absent"
                                   /\ blocks[b].node = n}]
    /\ phase' = "recorded"
    /\ UNCHANGED <<blocks, queue, changed, changes, restarts>>

\* Mutant: the nodeName == "" check is dropped, so blocks without a node's
\* affinity are appended under the empty node name.
RecordIPAMBlocksNoNodeCheck ==
    /\ phase = "down"
    /\ store' = [n \in Nodes \cup {None} |->
                   {b \in Blocks : blocks[b].state = "live" /\ blocks[b].node = n}]
    /\ phase' = "recorded"
    /\ UNCHANGED <<blocks, queue, changed, changes, restarts>>

\* recordIPAMBlocks: list the IPAMBlocks; skip a block that is Deleted, has
\* no affinity, or whose affinity names no node; append the CIDR of every
\* other block to its node in the PodCIDRStore.
RecordIPAMBlocks ==
    /\ phase = "down"
    /\ store' = [n \in Nodes |-> {b \in Blocks : LiveOn(b, n)}]
    /\ phase' = "recorded"
    /\ UNCHANGED <<blocks, queue, changed, changes, restarts>>

\* ipamblockmonitor.AddToManager and the rest of initializeControllers,
\* which adds the connector controller that reads the store.
AddMonitor ==
    /\ phase = "recorded"
    /\ phase' = "added"
    /\ UNCHANGED <<blocks, store, queue, changed, changes, restarts>>

\* The monitor's informer lists the blocks that exist now and queues each.
MonitorStart ==
    /\ phase = "added"
    /\ phase' = "watching"
    /\ queue' = {b \in Blocks : blocks[b].state # "absent"}
    /\ UNCHANGED <<blocks, store, changed, changes, restarts>>

\* The monitor mirrors one block: its CIDR is kept under the node of its
\* affinity while it is live, and removed when it is Deleted, has no node,
\* or is gone.
Reconcile(b) ==
    /\ b \in queue
    /\ queue' = queue \ {b}
    /\ store' = [n \in Nodes |->
                   IF LiveOn(b, n) THEN store[n] \cup {b} ELSE store[n] \ {b}]
    /\ UNCHANGED <<blocks, phase, changed, changes, restarts>>

\* Calico changes a block: a new block is claimed for a node (or has no
\* affinity), a block is marked Deleted, or a block object is removed.
\* The change is seen only by a watching monitor.
ChangeBlock(b) ==
    /\ changes < MaxChanges
    /\ \/ /\ blocks[b].state = "absent"
          /\ \E n \in Nodes \cup {None} :
                blocks' = [blocks EXCEPT ![b] = [state |-> "live", node |-> n]]
       \/ /\ blocks[b].state = "live"
          /\ blocks' = [blocks EXCEPT ![b].state = "deleted"]
       \/ /\ blocks[b].state # "absent"
          /\ blocks' = [blocks EXCEPT ![b] = [state |-> "absent", node |-> None]]
    /\ queue' = IF phase = "watching" THEN queue \cup {b} ELSE queue
    /\ changed' = IF phase \in {"recorded", "added"}
                  THEN changed \cup {b} ELSE changed
    /\ changes' = changes + 1
    /\ UNCHANGED <<store, phase, restarts>>

\* The operator exits (an error of initializeControllers, a lost lease, a
\* crash) and starts again with an empty store.
Restart ==
    /\ phase # "down"
    /\ restarts < MaxRestarts
    /\ store' = [n \in Nodes |-> {}]
    /\ phase' = "down"
    /\ queue' = {}
    /\ changed' = {}
    /\ restarts' = restarts + 1
    /\ UNCHANGED <<blocks, changes>>

Next ==
    \/ RecordIPAMBlocks
    \/ AddMonitor
    \/ MonitorStart
    \/ \E b \in Blocks : Reconcile(b) \/ ChangeBlock(b)
    \/ Restart

Fairness ==
    /\ WF_vars(RecordIPAMBlocks)
    /\ WF_vars(AddMonitor)
    /\ WF_vars(MonitorStart)
    /\ \A b \in Blocks : WF_vars(Reconcile(b))

Spec == Init /\ [][Next]_vars /\ Fairness

-----------------------------------------------------------------------------
TypeOK ==
    /\ blocks \in [Blocks -> Block]
    /\ store \in [Nodes -> SUBSET Blocks]
    /\ phase \in {"down", "recorded", "added", "watching"}
    /\ queue \subseteq Blocks
    /\ changed \subseteq Blocks
    /\ changes \in 0..MaxChanges
    /\ restarts \in 0..MaxRestarts

\* What the connector controller reads from the PodCIDRStore is explained
\* by recordIPAMBlocks and the monitor: a CIDR stored for a node whose block
\* is not live on that node is either queued for reconcile or was changed
\* after recordIPAMBlocks' List while no watch was running; and before the
\* watch starts, every block live on a node and unchanged since the List
\* is stored for it.
StoreExplained ==
    \A n \in Nodes, b \in Blocks :
        /\ b \in store[n] /\ ~LiveOn(b, n) => b \in queue \cup changed
        /\ phase \in {"recorded", "added"} /\ LiveOn(b, n) /\ b \notin changed
               => b \in store[n]
=============================================================================
