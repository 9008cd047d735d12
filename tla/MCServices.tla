----------------------------- MODULE MCServices -----------------------------
(***************************************************************************)
(* Instances for TLC of the services of Pi Desk that share no state with   *)
(* each other.  One run explores them side by side: a behaviour exercises  *)
(* one part and leaves the others in their first state, where no action    *)
(* that is treated fairly is enabled.  No symmetry: the run checks         *)
(* liveness; installs, numbers here, begin in their order, the first two   *)
(* in one process.                                                         *)
(***************************************************************************)
EXTENDS SshConnection, WorkspaceCatalog, SessionTree, ConfigDocuments,
        AgentFiles, HelperInstall

(* A bound on the revokes of the connection.                               *)
MaxAttempts == Cardinality(Connects) + Cardinality(Revokes)

InstallsBeginInOrder ==
  \A i \in Installs : step'[i].at # "idle" => \A o \in 1..i-1 : step'[o].at # "idle"

VARIABLE part   \* the part this behaviour exercises

serviceRunVars == <<part, connectionVars, catalogVars, treeVars, documentVars, filesVars,
                    installVars>>

ServicesInit ==
  /\ part \in {"connection", "catalog", "tree", "documents", "files", "install"}
  /\ Init /\ CatalogInit /\ TreeInit /\ ConfigInit /\ FilesInit /\ InstallInit
  /\ part # "catalog" => disk.version = "none"
  /\ part # "documents" => document = "models"
  /\ part # "files" => directory = "skills"
  /\ desk[1] = 1 /\ desk[2] = 1
  /\ part # "install" => cache = "none" /\ \A i \in Installs : desk[i] = 1

ServicesNext ==
  \/ /\ part = "connection" /\ Next /\ attempt' <= MaxAttempts
     /\ UNCHANGED <<part, catalogVars, treeVars, documentVars, filesVars, installVars>>
  \/ /\ part = "catalog" /\ CatalogNext
     /\ UNCHANGED <<part, connectionVars, treeVars, documentVars, filesVars, installVars>>
  \/ /\ part = "tree" /\ TreeNext
     /\ UNCHANGED <<part, connectionVars, catalogVars, documentVars, filesVars, installVars>>
  \/ /\ part = "documents" /\ ConfigNext
     /\ UNCHANGED <<part, connectionVars, catalogVars, treeVars, filesVars, installVars>>
  \/ /\ part = "files" /\ FilesNext
     /\ UNCHANGED <<part, connectionVars, catalogVars, treeVars, documentVars, installVars>>
  \/ /\ part = "install" /\ InstallNext /\ InstallsBeginInOrder
     /\ UNCHANGED <<part, connectionVars, catalogVars, treeVars, documentVars, filesVars>>

ServicesSpec == ServicesInit /\ [][ServicesNext]_serviceRunVars /\ Fairness
=============================================================================
