-------------------------- MODULE WorkspaceCatalog --------------------------
(***************************************************************************)
(* The workspace catalog (src/internal/workspace) with the services that   *)
(* write it (appservice/catalog.go, orphansession.go), the Pi session      *)
(* files they relate it to and the local anchors of SSH workspaces.        *)
(*                                                                         *)
(* The catalog keeps its state in memory and rewrites state.json at every  *)
(* change, under one mutex: each method is one action.  Methods of the     *)
(* services that leave the mutex between two steps are two actions.        *)
(* Names, times, preferences and titles are left out.                      *)
(***************************************************************************)
EXTENDS Naturals, Sequences, FiniteSets

CONSTANTS
  Dirs,          \* local directories
  Aliases,       \* SSH host aliases; a target is known by its alias
  Roots,         \* canonical roots on a target
  Platforms,     \* of the remote host
  Bindings,      \* host key and configuration fingerprint of a target
  Ids,           \* workspace identities (random in the code): a bound
  Threads,
  SessionPaths,  \* Pi's session files: a bound
  Nothing

VARIABLES
  disk,      \* state.json: its version and its content
  memory,    \* Catalog: loaded, and its content
  torn,      \* a write failed after it had replaced the file
  files,     \* the session files, with the directory or anchor they name
  anchors,   \* the local anchor directory of each SSH workspace identity
  saving,    \* the checked request of SaveDesktopState, before SaveDesktop
  deleting,  \* the session DeleteSession has moved away, before ForgetSession
  restoring  \* RestoreOrphanSession's checked request, before the rebind

catalogVars == <<disk, memory, torn, files, anchors, saving, deleting, restoring>>

Local(d) == <<d>>
Remote(a, r) == <<a, r>>
NoPath == <<>>

(* An anchor directory holds one marker, the remote root, or none yet.     *)
NoAnchor == <<>>
Unmarked == <<Nothing>>

IsLocal(w) == Len(w.place) = 1

Empty == [targets |-> [a \in Aliases |-> Nothing], workspaces |-> {},
          threads |-> [t \in Threads |-> Nothing], tasks |-> {},
          active |-> Nothing]

Unloaded == [loaded |-> FALSE, content |-> Empty]

ById(s, i) == {w \in s.workspaces : w.id = i}
AtPlace(s, p) == {w \in s.workspaces : w.place = p}

(* An identity drawn at random is one that nothing refers to.              *)
Named(s) == {w.id : w \in s.workspaces} \cup s.tasks
              \cup {s.threads[t].workspace : t \in {u \in Threads : s.threads[u] # Nothing}}
Used == Named(disk.content) \cup Named(memory.content)
          \cup {i \in Ids : anchors[i] # NoAnchor} \cup {files[p].anchor : p \in SessionPaths}
          \cup (IF saving = Nothing THEN {} ELSE Named(saving))
          \cup (IF restoring = Nothing THEN {} ELSE {restoring.id})

newIdentity == Ids \ Used

-----------------------------------------------------------------------------
(* Loading and saving                                                      *)

(* loadLocked's checks.  A file of a version before 6 knows local          *)
(* workspaces only, by their path.                                         *)
Acceptable(s) ==
  /\ \A v, w \in s.workspaces : v # w => v.id # w.id /\ (IsLocal(v) => v.place # w.place)
  /\ \A w \in s.workspaces : ~IsLocal(w) =>
       /\ s.targets[w.place[1]] # Nothing
       /\ s.targets[w.place[1]] = w.binding

workspaceIDForLocalPath(s, p) ==
  IF AtPlace(s, p) = {} THEN Nothing ELSE (CHOOSE w \in AtPlace(s, p) : TRUE).id

(* The migration mints an identity for every workspace and attaches the    *)
(* threads of its directory.                                               *)
Migrations(s) ==
  {[s EXCEPT !.workspaces = {[w EXCEPT !.id = name[w]] : w \in s.workspaces},
             !.threads = [t \in Threads |->
                LET thread == s.threads[t]
                IN IF thread = Nothing THEN Nothing
                   ELSE [thread EXCEPT !.workspace =
                     IF AtPlace(s, thread.place) = {} THEN Nothing
                     ELSE name[CHOOSE w \in AtPlace(s, thread.place) : TRUE]]]] :
     name \in {f \in [s.workspaces -> Ids] :
                 \A v, w \in s.workspaces : v # w => f[v] # f[w]}}

Wrote(s) == disk' = [version |-> "current", content |-> s]

(* saveStateLocked, and the caller's assignment after it: the write fails  *)
(* and nothing changed, or the file is replaced and its mode cannot be     *)
(* set, which the caller reports as a failure too.                         *)
Saved(s) == Wrote(s) /\ torn' = FALSE /\ memory' = [loaded |-> TRUE, content |-> s]
WriteFails == UNCHANGED <<disk, memory, torn>>
ChmodFails(s) == Wrote(s) /\ torn' = TRUE /\ UNCHANGED memory

(* Mutant: the memory is changed before the file is written.               *)
SaveAssignsFirst(s) ==
  \/ Saved(s)
  \/ memory' = [memory EXCEPT !.content = s] /\ UNCHANGED <<disk, torn>>
  \/ ChmodFails(s)

saveStateLocked(s) == Saved(s) \/ WriteFails \/ ChmodFails(s)

(* Every method loads first; the action stands for the method that finds   *)
(* the catalog unloaded, up to the rest of its body.                       *)
loadLocked ==
  /\ ~memory.loaded
  /\ \/ /\ disk.version = "none"
        /\ memory' = [loaded |-> TRUE, content |-> Empty]
        /\ UNCHANGED <<disk, torn>>
     \/ /\ disk.version = "current"
        /\ memory' = IF Acceptable(disk.content)
                       THEN [loaded |-> TRUE, content |-> disk.content] ELSE memory
        /\ UNCHANGED <<disk, torn>>
     \/ /\ disk.version = "legacy"
        /\ \E s \in Migrations(disk.content) : saveStateLocked(s)
  /\ UNCHANGED <<files, anchors, saving, deleting, restoring>>

-----------------------------------------------------------------------------
(* Workspaces and targets                                                  *)

serviceVars == <<files, anchors, saving, deleting, restoring>>

kept == memory.content

Add(d, trust) ==
  /\ memory.loaded
  /\ \/ \E w \in AtPlace(kept, Local(d)) :
          saveStateLocked([kept EXCEPT !.workspaces =
            (@ \ {w}) \cup {[w EXCEPT !.trust = trust]}])
     \/ /\ AtPlace(kept, Local(d)) = {} /\ newIdentity # {}
        /\ LET w == [id |-> CHOOSE i \in newIdentity : TRUE, place |-> Local(d),
                     trust |-> trust, binding |-> Nothing, platform |-> Nothing]
           IN saveStateLocked([kept EXCEPT !.workspaces = @ \cup {w}])
  /\ UNCHANGED serviceVars

(* A new name, or the window's place (SaveWindow), changes nothing kept    *)
(* here; the file is written all the same.                                 *)
Rename(w) ==
  /\ memory.loaded /\ w \in kept.workspaces
  /\ saveStateLocked(kept)
  /\ UNCHANGED serviceVars

StillActive(s) ==
  [s EXCEPT !.active = IF @ # Nothing /\ s.threads[@] = Nothing THEN Nothing ELSE @]

ThreadRecords(s) == {s.threads[t] : t \in Threads} \ {Nothing}

Without(s, gone) ==
  StillActive([s EXCEPT !.threads = [t \in Threads |->
    IF @[t] \in gone THEN Nothing ELSE @[t]]])

(* Mutant: removal leaves the threads of the workspace.                    *)
RemovedKeepsThreads(s, w) == [s EXCEPT !.workspaces = @ \ {w}, !.tasks = @ \ {w.id}]

(* RemoveAfter, its callback having revoked the workspace's capabilities   *)
(* (its failure returns before anything changed).                          *)
RemovedFrom(s, w) ==
  LET gone == {x \in ThreadRecords(s) :
                 \/ x.workspace = w.id
                 \/ IsLocal(w) /\ x.workspace = Nothing /\ x.place = w.place}
  IN [Without(s, gone) EXCEPT !.workspaces = @ \ {w}, !.tasks = @ \ {w.id}]

RemoveAfter(w) ==
  /\ memory.loaded /\ w \in kept.workspaces
  /\ saveStateLocked(RemovedFrom(kept, w))
  /\ UNCHANGED serviceVars

(* RegisterTarget adopts what the host presents now.                       *)
RegisterTarget(a, b) ==
  /\ memory.loaded
  /\ saveStateLocked([kept EXCEPT !.targets[a] = b])
  /\ UNCHANGED serviceVars

(* AddSSHWorkspaceAfter: a root already known keeps its identity and takes *)
(* the target's binding of now; a changed platform is refused.             *)
AddSSHWorkspaceAfter(a, r, platform, trust) ==
  /\ memory.loaded /\ kept.targets[a] # Nothing
  /\ \/ \E w \in AtPlace(kept, Remote(a, r)) :
          /\ w.platform = platform
          /\ saveStateLocked([kept EXCEPT !.workspaces = (@ \ {w}) \cup
               {[w EXCEPT !.trust = trust, !.binding = kept.targets[a]]}])
     \/ /\ AtPlace(kept, Remote(a, r)) = {} /\ newIdentity # {}
        /\ LET w == [id |-> CHOOSE i \in newIdentity : TRUE, place |-> Remote(a, r),
                     trust |-> trust, binding |-> kept.targets[a], platform |-> platform]
           IN saveStateLocked([kept EXCEPT !.workspaces = @ \cup {w}])
  /\ UNCHANGED serviceVars

RemoveTargetAfter(a) ==
  /\ memory.loaded /\ kept.targets[a] # Nothing
  /\ \A w \in kept.workspaces : IsLocal(w) \/ w.place[1] # a
  /\ saveStateLocked([kept EXCEPT !.targets[a] = Nothing])
  /\ UNCHANGED serviceVars

-----------------------------------------------------------------------------
(* The desktop's state: SaveDesktopState resolves every thread of the      *)
(* request, one call into the catalog and one look at the session file     *)
(* each, and then calls SaveDesktop, which checks again what it can.       *)

NewThread(i, p, session) == [workspace |-> i, place |-> p, session |-> session]

(* Header: the session file is there and its anchor, if any, can be read.  *)
Readable(p) ==
  /\ files[p].at = "present"
  /\ files[p].anchor # Nothing => anchors[files[p].anchor] \notin {NoAnchor, Unmarked}

sessionMatches(thread, w) ==
  thread.session # Nothing =>
    /\ Readable(thread.session)
    /\ IF w # {} /\ \A v \in w : ~IsLocal(v)
         THEN \E v \in w : files[thread.session].anchor = v.id
         ELSE /\ files[thread.session].anchor = Nothing
              /\ files[thread.session].home = thread.place

(* The threads SaveDesktopState lets through, with their identity filled.  *)
Resolved(thread) ==
  LET w == IF thread.workspace # Nothing THEN ById(kept, thread.workspace)
           ELSE IF thread.place = NoPath THEN {} ELSE AtPlace(kept, thread.place)
  IN IF /\ thread.workspace # Nothing => w # {}
        /\ \A v \in w : thread.place = IF IsLocal(v) THEN v.place ELSE NoPath
        /\ sessionMatches(thread, w)
       THEN {NewThread(IF w = {} THEN Nothing ELSE (CHOOSE v \in w : TRUE).id,
                       thread.place, thread.session)}
       ELSE {}

AnyThread == [workspace : Ids \cup {Nothing}, place : {NoPath} \cup {Local(d) : d \in Dirs},
              session : SessionPaths \cup {Nothing}]

(* An absent value is told from every value.                               *)
ASSUME NothingIsNothing ==
  Nothing \notin Ids \cup Threads \cup SessionPaths \cup Bindings \cup AnyThread

SaveDesktopState ==
  /\ saving = Nothing /\ memory.loaded
  /\ \E threads \in [Threads -> (UNION {Resolved(x) : x \in AnyThread}) \cup {Nothing}],
        tasks \in SUBSET {w.id : w \in kept.workspaces}, active \in Threads \cup {Nothing} :
       saving' = [Empty EXCEPT !.threads = threads, !.tasks = tasks, !.active = active]
  /\ UNCHANGED <<disk, memory, torn, files, anchors, deleting, restoring>>

(* SaveDesktop's checks under the mutex.                                   *)
Consistent(s) ==
  /\ \A t \in {u \in Threads : s.threads[u] # Nothing} :
       LET thread == s.threads[t]
           w == ById(kept, thread.workspace)
       IN /\ thread.workspace # Nothing => w # {}
          /\ \A v \in w : thread.place = IF IsLocal(v) THEN v.place ELSE NoPath
          /\ \/ thread.workspace # Nothing \/ thread.session # Nothing
             \/ workspaceIDForLocalPath(kept, thread.place) # Nothing
  /\ \A i \in s.tasks : \E w \in ById(kept, i) : IsLocal(w) /\ w.trust = "approve"
  /\ s.active # Nothing => s.threads[s.active] # Nothing

SaveDesktop ==
  /\ saving # Nothing /\ memory.loaded
  /\ LET attached == [t \in Threads |->
            IF saving.threads[t] # Nothing /\ saving.threads[t].workspace = Nothing
              THEN [saving.threads[t] EXCEPT !.workspace =
                      workspaceIDForLocalPath(kept, saving.threads[t].place)]
              ELSE saving.threads[t]]
     IN \/ ~Consistent(saving) /\ UNCHANGED <<disk, memory, torn>>
        \/ Consistent(saving) /\ saveStateLocked([saving EXCEPT
              !.threads = attached, !.targets = kept.targets, !.workspaces = kept.workspaces])
  /\ saving' = Nothing
  /\ UNCHANGED <<files, anchors, deleting, restoring>>

-----------------------------------------------------------------------------
(* Session files and anchors                                               *)

(* EnsureSSHAnchorWithMetadata: the directory, then its marker, which is   *)
(* never rewritten; it fails between the two or on a foreign marker.       *)
EnsureSSHAnchor(i, p) ==
  \/ anchors[i] = NoAnchor /\ anchors' = [anchors EXCEPT ![i] = Unmarked]
  \/ anchors[i] = Unmarked /\ anchors' = [anchors EXCEPT ![i] = p]
  \/ anchors[i] = p /\ UNCHANGED anchors

Anchored(i, p) == anchors'[i] = p

(* External: Pi writes a session file for a thread of the workspace; its   *)
(* working directory is the anchor when the workspace is remote.           *)
NewSession(p, w) ==
  /\ memory.loaded /\ w \in kept.workspaces /\ w.trust = "approve"
  /\ files[p].at = "none"
  /\ IF IsLocal(w)
       THEN /\ files' = [files EXCEPT ![p] = [at |-> "present", home |-> w.place, anchor |-> Nothing]]
            /\ UNCHANGED anchors
       ELSE /\ EnsureSSHAnchor(w.id, w.place)
            /\ files' = IF Anchored(w.id, w.place)
                 THEN [files EXCEPT ![p] = [at |-> "present", home |-> w.place, anchor |-> w.id]]
                 ELSE files
  /\ UNCHANGED <<disk, memory, torn, saving, deleting, restoring>>

Orphan(p) == files[p].anchor # Nothing /\ ById(kept, files[p].anchor) = {}

(* DeleteSession and DeleteOrphanSession (the one takes what the other     *)
(* refuses): the file is moved to a recovery name, and then the catalog    *)
(* forgets it; if it cannot, the file is moved back.                       *)
DeleteSession(p) ==
  /\ deleting = Nothing /\ memory.loaded /\ Readable(p)
  /\ files' = [files EXCEPT ![p].at = "recoverable"]
  /\ deleting' = p
  /\ UNCHANGED <<disk, memory, torn, anchors, saving, restoring>>

ForgottenIn(s, p) ==
  Without(s, {x \in ThreadRecords(s) : x.session = p})

ForgetSession ==
  /\ deleting # Nothing /\ memory.loaded
  /\ LET s == ForgottenIn(kept, deleting)
     IN \/ Saved(s) /\ UNCHANGED files
        \/ /\ WriteFails \/ ChmodFails(s)
           /\ \/ files' = [files EXCEPT ![deleting].at = "present"]
              \/ UNCHANGED files
  /\ deleting' = Nothing
  /\ UNCHANGED <<anchors, saving, restoring>>

(* All the sessions of a workspace are listed, and removed one by one      *)
(* until one cannot be.                                                    *)
DeleteWorkspaceSessions(i, p) ==
  /\ memory.loaded
  /\ LET w == ById(kept, i)
         of(x) == /\ files[x].at = "present"
                  /\ IF w # {} /\ \A v \in w : ~IsLocal(v) THEN files[x].anchor = i
                     ELSE files[x].anchor = Nothing /\ files[x].home = p
     IN /\ \A v \in w : p = v.place
        /\ w = {} => Len(p) = 1
        /\ \E gone \in SUBSET {x \in SessionPaths : of(x)} :
             files' = [x \in SessionPaths |->
               IF x \in gone THEN [files[x] EXCEPT !.at = "gone"] ELSE files[x]]
  /\ UNCHANGED <<disk, memory, torn, anchors, saving, deleting, restoring>>

(* RestoreOrphanSession: the orphan and the new workspace are of the same  *)
(* root; RebindSSHAnchor then rewrites the first line of the file.         *)
MayRestore(p, w) ==
  /\ Readable(p) /\ Orphan(p) /\ ~IsLocal(w) /\ w.trust = "approve"
  /\ anchors[files[p].anchor] = w.place

RestoreOrphanSession(p, w) ==
  /\ restoring = Nothing /\ memory.loaded /\ w \in kept.workspaces
  /\ MayRestore(p, w)
  /\ restoring' = [path |-> p, id |-> w.id, place |-> w.place]
  /\ UNCHANGED <<disk, memory, torn, files, anchors, saving, deleting>>

RebindSSHAnchor ==
  /\ restoring # Nothing
  /\ LET p == restoring.path
     IN IF ~Readable(p) THEN UNCHANGED <<files, anchors>>
        ELSE /\ EnsureSSHAnchor(restoring.id, restoring.place)
             /\ files' = IF Anchored(restoring.id, restoring.place)
                           THEN [files EXCEPT ![p].anchor = restoring.id] ELSE files
  /\ restoring' = Nothing
  /\ UNCHANGED <<disk, memory, torn, saving, deleting>>

(* The application stops; what was under way is lost.                      *)
Quit ==
  /\ memory.loaded \/ torn
  /\ memory' = Unloaded /\ torn' = FALSE
  /\ saving' = Nothing /\ deleting' = Nothing /\ restoring' = Nothing
  /\ UNCHANGED <<disk, files, anchors>>

-----------------------------------------------------------------------------
LegacyRecord(d) == [id |-> Nothing, place |-> Local(d), trust |-> "approve",
                    binding |-> Nothing, platform |-> Nothing]

CatalogInit ==
  /\ \/ disk = [version |-> "none", content |-> Empty]
     \/ \E ds \in SUBSET Dirs, ts \in SUBSET Threads, d \in Dirs :
          disk = [version |-> "legacy", content |->
            [Empty EXCEPT !.workspaces = {LegacyRecord(x) : x \in ds},
               !.threads = [t \in Threads |->
                 IF t \in ts THEN NewThread(Nothing, Local(d), Nothing) ELSE Nothing]]]
  /\ memory = Unloaded /\ torn = FALSE
  /\ files = [p \in SessionPaths |-> [at |-> "none", home |-> NoPath, anchor |-> Nothing]]
  /\ anchors = [i \in Ids |-> NoAnchor]
  /\ saving = Nothing /\ deleting = Nothing /\ restoring = Nothing

(* A bound: after a torn write only the restart is explored.  Until then   *)
(* memory is what it was, and a write that succeeds leaves the same state  *)
(* whether or not the one before it was torn.                              *)
CatalogNext ==
  \/ Quit
  \/ /\ ~torn
     /\ \/ loadLocked \/ SaveDesktopState \/ SaveDesktop
        \/ ForgetSession \/ RebindSSHAnchor
        \/ \E d \in Dirs, trust \in {"approve", "deny"} : Add(d, trust)
        \/ \E w \in kept.workspaces : Rename(w) \/ RemoveAfter(w)
        \/ \E a \in Aliases, b \in Bindings : RegisterTarget(a, b)
        \/ \E a \in Aliases, r \in Roots, x \in Platforms, trust \in {"approve", "deny"} :
             AddSSHWorkspaceAfter(a, r, x, trust)
        \/ \E a \in Aliases : RemoveTargetAfter(a)
        \/ \E p \in SessionPaths, w \in kept.workspaces :
             NewSession(p, w) \/ RestoreOrphanSession(p, w)
        \/ \E p \in SessionPaths : DeleteSession(p)
        \/ \E i \in Ids, p \in {Local(d) : d \in Dirs}
                               \cup {Remote(a, r) : a \in Aliases, r \in Roots} :
             DeleteWorkspaceSessions(i, p)

CatalogSpec == CatalogInit /\ [][CatalogNext]_catalogVars

-----------------------------------------------------------------------------
(* Properties                                                              *)

WorkspaceRecord == [id : Ids, place : {Local(d) : d \in Dirs}
                                 \cup {Remote(a, r) : a \in Aliases, r \in Roots},
                    trust : {"approve", "deny"}, binding : Bindings \cup {Nothing},
                    platform : Platforms \cup {Nothing}]

CatalogTypeOK ==
  /\ disk.version \in {"none", "legacy", "current"}
  /\ memory.loaded \in BOOLEAN /\ torn \in BOOLEAN
  /\ kept.workspaces \subseteq WorkspaceRecord
  /\ \A a \in Aliases : kept.targets[a] \in Bindings \cup {Nothing}
  /\ \A p \in SessionPaths : files[p].at \in {"none", "present", "recoverable", "gone"}
  /\ deleting \in SessionPaths \cup {Nothing}

(* Threads, scheduled tasks, the active thread and remote workspaces refer *)
(* to what the catalog has.                                                *)
ReferencesResolve ==
  /\ \A t \in {u \in Threads : kept.threads[u] # Nothing} :
       LET thread == kept.threads[t]
       IN thread.workspace # Nothing =>
            \E w \in kept.workspaces : w.id = thread.workspace
              /\ thread.place = IF IsLocal(w) THEN w.place ELSE NoPath
  /\ \A i \in kept.tasks : \E w \in kept.workspaces : w.id = i /\ IsLocal(w)
  /\ kept.active # Nothing => kept.threads[kept.active] # Nothing
  /\ \A w \in kept.workspaces : ~IsLocal(w) => kept.targets[w.place[1]] # Nothing

(* A thread's transcript is one of the thread's own workspace, and one     *)
(* bound to an anchor is of the remote root the anchor names.              *)
TranscriptsBelong ==
  /\ \A t \in {u \in Threads : kept.threads[u] # Nothing} :
       LET thread == kept.threads[t]
           p == thread.session
       IN p # Nothing =>
            IF thread.place = NoPath THEN files[p].anchor = thread.workspace
            ELSE files[p].anchor = Nothing /\ files[p].home = thread.place
  /\ \A p \in SessionPaths : files[p].anchor # Nothing =>
       anchors[files[p].anchor] = files[p].home

(* Whatever calls return, fail or race, the state the catalog serves has   *)
(* no dangling reference and relates no thread to a foreign transcript.    *)
CatalogConsistent == CatalogTypeOK /\ ReferencesResolve /\ TranscriptsBelong

(* What the catalog serves is what a restart would serve, but after a      *)
(* write that replaced the file and then failed.                           *)
ServedStateIsSaved ==
  memory.loaded /\ ~torn =>
    /\ kept = disk.content
    /\ disk.version = "current" \/ kept = Empty

(* The catalog serves a state that holds together, and that a restart will *)
(* find again.                                                             *)
CatalogIsSound == CatalogConsistent /\ ServedStateIsSaved

(* Violated.  "A changed config fingerprint or host key is adopted as the  *)
(* new persisted binding instead of rejecting the connection"              *)
(* (RegisterTarget): the file it writes can be loaded again.               *)
SavedStateLoads == disk.version = "current" => Acceptable(disk.content)

=============================================================================
