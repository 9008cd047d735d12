--------------------------- MODULE MCRemoteTarget ---------------------------
(***************************************************************************)
(* Instances for TLC of what a task has on either side of its Pi: the two  *)
(* ends of a remote target (its life in the service, from the SSH session  *)
(* to the runtime and the task leases, and the helper on the remote host), *)
(* and the agent service with the history of a thread.  They share no      *)
(* state; one run explores them side by side, and a behaviour exercises    *)
(* one of them and leaves the others in one initial state.  The run checks *)
(* no liveness.  Goroutines are interchangeable; identities of requests,   *)
(* numbers here, are drawn in their order.                                 *)
(***************************************************************************)
EXTENDS TargetLifecycle, HelperServer, AgentHistory, TLC

VARIABLE part   \* the part this behaviour exercises

remoteTargetVars == <<part, lifecycleVars, serverVars, agentVars>>

Symmetry == Permutations(Workers) \cup Permutations(Slots)

(* A request beyond the limit is drawn when the limit is reached, and the  *)
(* client then sends nothing else but the credit it owes, and stays.       *)
Drawn(seen) == Cardinality({id \in Requests : seen[id] # "unused"})
DrawnInOrder == \A id \in Requests : client'.seen[id] # "unused" => id <= Drawn(client'.seen)
BeyondTheLimit ==
  Drawn(client'.seen) > MaxRequests =>
    /\ Drawn(client.seen) = MaxRequests => Cardinality(active) = MaxRequests
    /\ client'.cancels = 0 /\ client'.fed = {} /\ ~client'.gone /\ ~client'.asked

(* One backup is there already, of the file Pi begins with.                *)
RemoteTargetInit ==
  /\ part \in {"lifecycle", "helper", "agent"}
  /\ LifecycleInit /\ ServerInit /\ AgentInit
  /\ part # "lifecycle" => ~catalog.target
  /\ LET p == CHOOSE p \in Paths : TRUE
     IN sessionFiles[p] # Missing /\ Len(backups[p]) = 1

RemoteTargetNext ==
  /\ UNCHANGED part
  /\ \/ part = "lifecycle" /\ LifecycleNext /\ UNCHANGED <<serverVars, agentVars>>
     \/ part = "helper" /\ ServerNext /\ DrawnInOrder /\ BeyondTheLimit
          /\ UNCHANGED <<lifecycleVars, agentVars>>
     \/ part = "agent" /\ AgentNext /\ UNCHANGED <<lifecycleVars, serverVars>>

RemoteTargetSpec == RemoteTargetInit /\ [][RemoteTargetNext]_remoteTargetVars
=============================================================================
