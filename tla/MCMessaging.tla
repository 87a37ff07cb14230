----------------------------- MODULE MCMessaging -----------------------------
(***************************************************************************)
(* The ring buffer, the network stack, the synchronisation of facts        *)
(* between devices, the graph of facts, the services of the home lab and   *)
(* the permissions of the demonstration kernel, which share no state: a    *)
(* behaviour works one of them, the focus, and leaves the others as they   *)
(* start.  As no part reads what another writes, running them side by side *)
(* would reach no state of a part that this does not.                      *)
(***************************************************************************)
EXTENDS RingBuffer, NetworkStack, KnowledgeSync, PatternGraph, Homelab, Permissions

MCGrants == {"system"} \X {"CAN_ESCALATE", "CAN_MOUNT"}

VARIABLE focus

messagingVars == <<focus, ringVars, netVars, syncVars, graphVars, labVars, permVars>>

MessagingInit ==
    /\ focus \in {"ring", "network", "sync", "graph", "homelab", "permissions"}
    /\ RingInit /\ NetInit /\ SyncInit /\ GraphInit /\ LabInit /\ PermInit

Rest(part) ==
    /\ UNCHANGED focus
    /\ part = "ring"        \/ UNCHANGED ringVars
    /\ part = "network"     \/ UNCHANGED netVars
    /\ part = "sync"        \/ UNCHANGED syncVars
    /\ part = "graph"       \/ UNCHANGED graphVars
    /\ part = "homelab"     \/ UNCHANGED labVars
    /\ part = "permissions" \/ UNCHANGED permVars

MessagingNext ==
    \/ focus = "ring"        /\ RingNext   /\ Rest("ring")
    \/ focus = "network"     /\ NetNext    /\ Rest("network")
    \/ focus = "sync"        /\ SyncNext   /\ Rest("sync")
    \/ focus = "graph"       /\ GraphNext  /\ Rest("graph")
    \/ focus = "homelab"     /\ LabNext    /\ Rest("homelab")
    \/ focus = "permissions" /\ PermNext   /\ Rest("permissions")

MessagingSpec == MessagingInit /\ [][MessagingNext]_messagingVars
=============================================================================
