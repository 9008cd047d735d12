--------------------------- MODULE MCTaskServices ---------------------------
(***************************************************************************)
(* Instances for TLC of what a task works with: the supervisor of the      *)
(* runtime on its remote target, its session and its broker there, its     *)
(* terminals, and its prompts in the store.  They share no state; one run  *)
(* explores them side by side, and a behaviour exercises one of them and   *)
(* leaves the others in one initial state.  The run checks no liveness.    *)
(* The invocations of one kind are interchangeable, and so are the owners  *)
(* of the leases; launches, numbers here, begin in their order, as do      *)
(* connections.                                                            *)
(***************************************************************************)
EXTENDS RuntimeLease, RemoteTask, RemoteBroker, Terminals, PromptQueue, TLC

VARIABLE part   \* the part this behaviour exercises

taskServicesVars == <<part, vars, remoteTaskVars, brokerVars, terminalVars, promptVars>>

Symmetry == Permutations(Connects) \cup Permutations(Calls)
              \cup Permutations(Teardowns) \cup Permutations(Owners)

LaunchesBeginInOrder ==
  \A s \in Launches : act'[s].at # "idle" => \A o \in 1..s-1 : act'[o].at # "idle"
DialsBeginInOrder ==
  \A d \in Dials : dial'[d].at # "none" => \A o \in 1..d-1 : dial'[o].at # "none"

TaskServicesInit ==
  /\ part \in {"runtime", "task", "broker", "terminals", "prompts"}
  /\ Init /\ RemoteTaskInit /\ BrokerInit /\ TerminalInit /\ PromptInit
  /\ part # "runtime" => \A c \in Calls : owner[c] = CHOOSE o \in Owners : TRUE
  /\ part # "terminals" => service.kind = "local"
  /\ part # "prompts" => summary.file

TaskServicesNext ==
  /\ UNCHANGED part
  /\ \/ part = "runtime" /\ Next /\ UNCHANGED <<remoteTaskVars, brokerVars, terminalVars, promptVars>>
     \/ part = "task" /\ RemoteTaskNext /\ LaunchesBeginInOrder
          /\ UNCHANGED <<vars, brokerVars, terminalVars, promptVars>>
     \/ part = "broker" /\ BrokerNext /\ DialsBeginInOrder
          /\ UNCHANGED <<vars, remoteTaskVars, terminalVars, promptVars>>
     \/ part = "terminals" /\ TerminalNext /\ UNCHANGED <<vars, remoteTaskVars, brokerVars, promptVars>>
     \/ part = "prompts" /\ PromptNext /\ UNCHANGED <<vars, remoteTaskVars, brokerVars, terminalVars>>

TaskServicesSpec == TaskServicesInit /\ [][TaskServicesNext]_taskServicesVars
=============================================================================
