-------------------------- MODULE TargetLifecycle --------------------------
(***************************************************************************)
(* The life cycle of one SSH target, of one workspace on it and of the task*)
(* of one thread: the operations of remoteworkspace.go under those of      *)
(* remoteworkspaceservice.go, the runtime registry and the coordinators of *)
(* backends and of the catalog (src/internal/appservice, remotessh).       *)
(*                                                                         *)
(* Workers are goroutines that run one operation after the other; an action*)
(* is what an operation does from one lock to the next.  session.mu is held*)
(* from Lock to the end of the operation, lifecycle.mu over two actions by *)
(* AcquireTask alone (life.owner), the catalog's lock while a removal or a *)
(* denial revokes (CatalogFree).  A connection is down, ready in its last  *)
(* generation, or closed for good.  Disconnect and Close of a runtime,     *)
(* which RuntimeLease details, are one action; a lease ends with the       *)
(* generation it was made in.  Other targets, workspaces and threads are   *)
(* left out, and so is the target a connect records after a removal.       *)
(***************************************************************************)
EXTENDS Naturals, Sequences, FiniteSets

CONSTANTS
  Workers,         \* goroutines of the service
  NoWorker,
  MaxSessions,     \* bounds: sessions of the target ever made, generations of
  MaxGenerations,  \*   each, runtimes, leases, and revocations by the user
  MaxRuntimes,
  MaxGranted,
  MaxEpoch,
  MaxOperations    \* operations ever begun

VARIABLES
  catalog,   \* the records: the target, the trust of the workspace
  life,      \* RemoteWorkspaceLifecycle
  sessions,  \* the remoteLifecycleTargets made, each with its connection and,
             \*   for the properties, who made its last generation (by, asked)
  registry,  \* RuntimeRegistry.targets: the runtime of the target, 0 for none
  runtimes,  \* the RuntimeLeaseSupervisors made
  granted,    \* the leases made
  bound,     \* RemoteBackendCoordinator: its lock, the workspace's backend, the
             \*   task; the generation RepositoryService last saw (remoteSeen)
  epochs,    \* RemoteWorkspaceService: targetEpoch, pendingTargets; the epoch of
             \*   the last disconnect, the candidate the user was handed
  op,        \* the operation of each worker, with its locals
  stray      \* history, for the properties: the sessions a removal did not see

lifecycleVars == <<catalog, life, sessions, registry, runtimes, granted, bound,
                   epochs, op, stray>>

NoOperation == [at |-> "idle", kind |-> "none", epoch |-> 0, session |-> 0,
                generation |-> 0, runtime |-> 0, lease |-> 0, flag |-> FALSE]
FreshSession == [lock |-> NoWorker, generation |-> 0, runtime |-> 0, root |-> 0,
               provisional |-> FALSE, conn |-> "down", last |-> 0, by |-> "none", asked |-> 0]
Unbound == [lock |-> NoWorker, generation |-> 0, runtime |-> 0, task |-> 0, seen |-> 0]

(* The target is unknown; or its workspace is approved, and its connection *)
(* is down, or the workspace is open.                                      *)
LifecycleInit ==
  \E known \in BOOLEAN, open \in BOOLEAN :
    LET one == IF open THEN 1 ELSE 0
    IN /\ open => known
       /\ catalog = [target |-> known, again |-> FALSE,
                     trust |-> IF known THEN "approve" ELSE "none"]
       /\ life = [closed |-> FALSE, owner |-> NoWorker, session |-> one, pending |-> 0,
                  task |-> 0, attempts |-> {}]
       /\ sessions = IF open THEN <<[FreshSession EXCEPT !.conn = "ready", !.last = 1,
                                      !.generation = 1, !.runtime = 1, !.root = 1]>>
                     ELSE <<>>
       /\ registry = one
       /\ runtimes = IF open THEN <<[session |-> 1, closed |-> FALSE]>> ELSE <<>>
       /\ granted = <<>>
       /\ bound = [Unbound EXCEPT !.generation = one, !.runtime = one, !.seen = one]
       /\ epochs = [now |-> 0, cut |-> 0, tracked |-> 0, handed |-> 0, begun |-> 0]
       /\ op = [o \in Workers |-> NoOperation]
       /\ stray = {}

-----------------------------------------------------------------------------
(* Building blocks.                                                        *)
At(o, l) == op[o].at = l
Kind(o, kinds) == op[o].kind \in kinds
Mine(o) == sessions[op[o].session]
Generation(o) == op[o].generation
LifeFree == life.owner = NoWorker
CatalogFree == \A o \in Workers : op[o].at \notin {"revoke for catalog", "persist"}
Valid(s, g) == g # 0 /\ sessions[s].conn = "ready" /\ sessions[s].last = g
MineIsValid(o) == Valid(op[o].session, Generation(o))
LeaseSession(l) == runtimes[granted[l].runtime].session
LeaseLives(l) == ~granted[l].released /\ Valid(LeaseSession(l), granted[l].generation)

(* A removal takes whatever session is in the table out of it, and closes  *)
(* the one it had found there.                                             *)
NotSeen(o) == stray \union ({life.session} \ {0, op[o].session})

Proceeds(o, l) == op' = [op EXCEPT ![o].at = l]
Ended(o) == op' = [op EXCEPT ![o] = NoOperation]
Starts(k, l) == [NoOperation EXCEPT !.kind = k, !.at = l]

Released(ls) == granted' = [l \in DOMAIN granted |->
  IF l \in ls THEN [granted[l] EXCEPT !.released = TRUE] ELSE granted[l]]
Down(held, s) == [held EXCEPT ![s].conn = IF @ = "closed" THEN @ ELSE "down"]
ClosedConnection(held, s) == [held EXCEPT ![s].conn = "closed"]
Cleared(s) ==
  [sessions EXCEPT ![s].generation = 0, ![s].runtime = 0, ![s].root = 0]
Rootless(s) == [sessions EXCEPT ![s].root = 0]

(* UnbindTarget and UnbindTask, under the lock of the coordinator.         *)
CoordinatorFree == bound.lock = NoWorker
UnbindTarget == CoordinatorFree /\ bound' = [Unbound EXCEPT !.seen = bound.seen]
TaskUnbound(l) ==
  CoordinatorFree /\ bound' = [bound EXCEPT !.task = IF @ = l THEN 0 ELSE @]

(* RuntimeLeaseSupervisor.Disconnect and Close.                            *)
Disconnected(r, closing) ==
  IF r = 0 \/ runtimes[r].closed THEN UNCHANGED <<runtimes, sessions>>
  ELSE /\ runtimes' = [runtimes EXCEPT ![r].closed = closing]
       /\ sessions' = IF closing THEN ClosedConnection(sessions, runtimes[r].session)
                                 ELSE Down(sessions, runtimes[r].session)

(* RevokeAndRemoveTarget and RemoveTarget of the registry: the runtime is  *)
(* taken out here, and revoked in the next step.                           *)
Unregister(o, l) ==
  /\ registry' = 0
  /\ op' = [op EXCEPT ![o].at = l, ![o].runtime = registry]

(* What an operation does when it fails, and when it is done.              *)
AfterFailure(o) ==
  IF Kind(o, {"reopen"}) /\ ~op[o].flag THEN Starts("disconnect", "detach")
  ELSE NoOperation
AfterSuccess(o) ==
  IF \/ Kind(o, {"connect", "new", "resume", "open", "reopen"})
     \/ Kind(o, {"approve"}) /\ op[o].flag
  THEN [op[o] EXCEPT !.at = "finish"] ELSE NoOperation

(* The end of an operation that holds session.mu: what it releases, how it *)
(* leaves the sessions, and what its worker does next.                     *)
Unlocks(o, ls, held, next) ==
  /\ Released(ls)
  /\ sessions' = IF op[o].session = 0 THEN held
                 ELSE [held EXCEPT ![op[o].session].lock = NoWorker]
  /\ op' = [op EXCEPT ![o] = next]
Decided(o) == IF Kind(o, {"approve", "deny"}) THEN {op[o].lease} ELSE {}
Fails(o, held) == Unlocks(o, Decided(o), held, AfterFailure(o))
Succeeds(o, held) == Unlocks(o, Decided(o), held, AfterSuccess(o))

-----------------------------------------------------------------------------
(* The service, before it calls the life cycle and after it returned.      *)
OperationKinds == {"new", "connect", "resume", "open", "prepare", "acquire", "approve",
          "deny", "stop", "disconnect", "remove", "remove workspace", "close"}

MayBegin(k) ==
  CASE k = "new" -> ~catalog.target /\ ~catalog.again
    [] k \in {"connect", "prepare", "disconnect", "remove"} -> catalog.target
    [] k \in {"open", "resume", "acquire"} -> catalog.trust = "approve"
    [] k = "stop" -> life.task # 0
    [] k \in {"approve", "deny"} -> life.pending # 0 /\ epochs.handed = life.pending
    [] k = "remove workspace" -> catalog.trust \in {"approve", "deny"}
    [] k = "close" -> ~life.closed

FirstStep(k) ==
  CASE k = "new" -> "attempt"
    [] k \in {"connect", "resume", "open", "prepare", "acquire"} -> "find"
    [] k \in {"approve", "deny"} -> "take"
    [] k = "stop" -> "stop"
    [] k = "disconnect" -> "detach"
    [] k = "remove" -> "check"
    [] k = "remove workspace" -> "lookup"
    [] k = "close" -> "close"

(* takePendingTarget: a candidate that is not tracked has no target there. *)
Tracked(k) == k \in {"approve", "deny"} => epochs.tracked = life.pending

BeginOperation(o, k) ==
  /\ At(o, "idle") /\ CatalogFree /\ MayBegin(k)
  /\ op' = [op EXCEPT ![o] = [Starts(k, FirstStep(k)) EXCEPT !.epoch = epochs.now,
       !.lease = IF k \in {"approve", "deny"} THEN life.pending ELSE 0,
       !.flag = IF k = "resume" THEN life.session # 0 /\ sessions[life.session].conn = "ready"
                ELSE k = "approve" /\ Tracked(k)]]
  /\ epochs.begun < MaxOperations
  /\ \/ /\ k \in {"disconnect", "remove", "deny"} /\ Tracked(k) /\ epochs.now < MaxEpoch
        /\ epochs' = [epochs EXCEPT !.now = @ + 1, !.tracked = 0, !.begun = @ + 1,
                        !.cut = IF k = "disconnect" THEN epochs.now + 1 ELSE @]
     \/ /\ k \notin {"disconnect", "remove"} /\ ~(k = "deny" /\ Tracked(k))
        /\ epochs' = [epochs EXCEPT !.begun = @ + 1,
          !.tracked = IF k = "approve" /\ Tracked(k) THEN 0 ELSE @]
  /\ UNCHANGED <<catalog, life, sessions, registry, runtimes, granted, bound, stray>>

(* trackPendingTarget: the candidate is handed out.                        *)
Track(o) ==
  /\ At(o, "track") /\ Proceeds(o, "finish")
  /\ epochs' = [epochs EXCEPT !.tracked = op[o].lease]
  /\ UNCHANGED <<catalog, life, sessions, registry, runtimes, granted, bound, stray>>

(* Mutant: an operation that was revoked meanwhile is not undone.          *)
NeverRevoked(o) == FALSE

WasRevoked(o) == op[o].epoch # epochs.now

(* finishTargetOperation: what was revoked meanwhile is disconnected again.*)
(* ResumeRemoteWorkspace has connected, and opens.                         *)
FinishOperation(o) ==
  /\ At(o, "finish")
  /\ \/ /\ ~WasRevoked(o)
        /\ epochs' = [epochs EXCEPT !.handed = IF Kind(o, {"prepare"}) THEN op[o].lease ELSE @]
        /\ op' = [op EXCEPT ![o] = IF Kind(o, {"resume"})
             THEN [Starts("reopen", "find") EXCEPT !.epoch = op[o].epoch, !.flag = op[o].flag]
             ELSE NoOperation]
     \/ /\ WasRevoked(o) /\ (Kind(o, {"new"}) => epochs.now < MaxEpoch)
        /\ epochs' = [epochs EXCEPT !.tracked = 0,
                                    !.now = IF Kind(o, {"new"}) THEN @ + 1 ELSE @]
        /\ op' = [op EXCEPT ![o] = Starts("disconnect", "detach")]
  /\ UNCHANGED <<catalog, life, sessions, registry, runtimes, granted, bound, stray>>

-----------------------------------------------------------------------------
(* ConnectNewTarget.                                                       *)
NoAttempt(o) == [life EXCEPT !.attempts = @ \ {op[o].session}]

(* ListTargets finds the target, or a connection is made for it.           *)
BeginAttempt(o) ==
  /\ At(o, "attempt") /\ CatalogFree /\ LifeFree
  /\ \/ catalog.target /\ Proceeds(o, "find") /\ UNCHANGED <<life, sessions>>
     \/ ~catalog.target /\ life.closed /\ Ended(o) /\ UNCHANGED <<life, sessions>>
     \/ /\ ~catalog.target /\ ~life.closed /\ Len(sessions) < MaxSessions
        /\ sessions' = Append(sessions, FreshSession)
        /\ life' = [life EXCEPT !.attempts = @ \union {Len(sessions) + 1}]
        /\ op' = [op EXCEPT ![o].at = "dial", ![o].session = Len(sessions) + 1]
  /\ UNCHANGED <<catalog, registry, runtimes, granted, bound, epochs, stray>>

Connected(o) ==
  LET s == op[o].session
  IN [sessions EXCEPT ![s].conn = "ready", ![s].last = @ + 1,
                      ![s].by = op[o].kind, ![s].asked = op[o].epoch]

Dial(o) ==
  /\ At(o, "dial")
  /\ \/ /\ Mine(o).conn = "down" /\ Proceeds(o, "register new")
        /\ sessions' = Connected(o)
        /\ UNCHANGED life
     \/ /\ LifeFree /\ Ended(o)
        /\ sessions' = ClosedConnection(sessions, op[o].session)
        /\ life' = NoAttempt(o)
  /\ UNCHANGED <<catalog, registry, runtimes, granted, bound, epochs, stray>>

RegisterNewTarget(o) ==
  /\ At(o, "register new") /\ CatalogFree /\ LifeFree /\ ~catalog.again
  /\ \/ /\ ~life.closed /\ Proceeds(o, "publish session")
        /\ catalog' = [catalog EXCEPT !.target = TRUE]
        /\ sessions' = [sessions EXCEPT ![op[o].session].generation = Mine(o).last]
        /\ UNCHANGED life
     \/ /\ Ended(o) /\ sessions' = ClosedConnection(sessions, op[o].session)
        /\ life' = NoAttempt(o) /\ UNCHANGED catalog
  /\ UNCHANGED <<registry, runtimes, granted, bound, epochs, stray>>

(* Nobody else may have published a session of the target meanwhile.       *)
PublishSession(o) ==
  /\ At(o, "publish session") /\ LifeFree /\ CatalogFree
  /\ \/ /\ life.closed /\ Ended(o) /\ life' = NoAttempt(o)
        /\ sessions' = ClosedConnection(sessions, op[o].session)
        /\ catalog' = [catalog EXCEPT !.target = @ /\ catalog.trust \in {"approve", "deny"}]
     \/ /\ ~life.closed /\ life.session # 0 /\ Proceeds(o, "find")
        /\ life' = NoAttempt(o) /\ sessions' = ClosedConnection(sessions, op[o].session)
        /\ UNCHANGED catalog
     \/ /\ ~life.closed /\ life.session = 0 /\ Proceeds(o, "finish")
        /\ life' = [NoAttempt(o) EXCEPT !.session = op[o].session]
        /\ sessions' = [sessions EXCEPT ![op[o].session].provisional = TRUE]
        /\ UNCHANGED catalog
  /\ UNCHANGED <<registry, runtimes, granted, bound, epochs, stray>>

-----------------------------------------------------------------------------
(* What ConnectTarget, PrepareRootTrust, OpenWorkspace and AcquireTask     *)
(* share.                                                                  *)

(* ResolveTarget or approvedWorkspace, then target().                      *)
Find(o) ==
  LET known == catalog.target
               /\ (Kind(o, {"open", "reopen", "acquire"}) => catalog.trust = "approve")
  IN /\ At(o, "find") /\ CatalogFree /\ LifeFree
     /\ \/ /\ life.closed \/ ~known
           /\ op' = [op EXCEPT ![o] = AfterFailure(o)] /\ UNCHANGED <<life, sessions>>
        \/ /\ ~life.closed /\ known /\ life.session # 0
           /\ op' = [op EXCEPT ![o].at = "lock", ![o].session = life.session]
           /\ UNCHANGED <<life, sessions>>
        \/ /\ ~life.closed /\ known /\ life.session = 0 /\ Len(sessions) < MaxSessions
           /\ sessions' = Append(sessions, FreshSession)
           /\ life' = [life EXCEPT !.session = Len(sessions) + 1]
           /\ op' = [op EXCEPT ![o].at = "lock", ![o].session = Len(sessions) + 1]
     /\ UNCHANGED <<catalog, registry, runtimes, granted, bound, epochs, stray>>

AfterLock(k) ==
  CASE k \in {"connect", "new", "resume", "prepare"} -> "clean"
    [] k \in {"open", "reopen"} -> "snapshot"
    [] k \in {"approve", "deny"} -> "validate"
    [] k = "acquire" -> "acquire"
    [] k = "disconnect" -> "clear"
    [] k = "remove" -> "remove"

(* session.mu, and requireOpen; a decision that finds the life cycle       *)
(* closed returns before it has taken charge of its lease.                 *)
Lock(o) ==
  /\ At(o, "lock") /\ Mine(o).lock = NoWorker /\ LifeFree
  /\ \/ /\ life.closed /\ ~Kind(o, {"acquire", "disconnect", "remove"})
        /\ op' = [op EXCEPT ![o] = AfterFailure(o)] /\ UNCHANGED sessions
     \/ /\ ~life.closed \/ Kind(o, {"acquire", "disconnect", "remove"})
        /\ sessions' = [sessions EXCEPT ![op[o].session].lock = o]
        /\ Proceeds(o, AfterLock(op[o].kind))
  /\ UNCHANGED <<catalog, life, registry, runtimes, granted, bound, epochs, stray>>

Lost(o) ==
  /\ Mine(o).conn # "ready"
  /\ IF Kind(o, {"prepare"}) THEN Mine(o).runtime # 0 ELSE Mine(o).generation # 0

(* A connection that was lost takes the runtime with it.                   *)
Clean(o) ==
  /\ At(o, "clean")
  /\ IF Lost(o) THEN Unregister(o, "clean revoke") ELSE Proceeds(o, "connect") /\ UNCHANGED registry
  /\ UNCHANGED <<catalog, life, sessions, runtimes, granted, bound, epochs, stray>>

(* Disconnect and Close without the lock of the catalog.                   *)
RevokeNext(l) ==
  CASE l = "clean revoke" -> "clean fields"
    [] l = "regen revoke" -> "regen fields"
    [] l = "abandon" -> "give up"
    [] l = "revoke" -> "cut"
    [] l = "close revoke" -> "close connection"
    [] l = "quit revoke" -> "idle"

RevokeRuntime(o) ==
  /\ op[o].at \in {"clean revoke", "regen revoke", "abandon", "revoke", "close revoke",
                   "quit revoke"}
  /\ Disconnected(op[o].runtime, op[o].at \in {"abandon", "close revoke", "quit revoke"})
  /\ IF At(o, "quit revoke") THEN Ended(o)
     ELSE op' = [op EXCEPT ![o].at = RevokeNext(op[o].at), ![o].runtime = 0]
  /\ UNCHANGED <<catalog, life, registry, granted, bound, epochs, stray>>

(* ConnectTarget drops everything, PrepareRootTrust the runtime alone.     *)
CleanFields(o) ==
  /\ At(o, "clean fields") /\ Proceeds(o, "connect")
  /\ \/ /\ Kind(o, {"prepare"})
        /\ sessions' = [sessions EXCEPT ![op[o].session].runtime = 0]
        /\ UNCHANGED <<life, granted, bound>>
     \/ /\ ~Kind(o, {"prepare"}) /\ LifeFree
        /\ sessions' = [Rootless(op[o].session) EXCEPT ![op[o].session].runtime = 0]
        /\ life' = [life EXCEPT !.pending = 0] /\ Released({life.pending}) /\ UnbindTarget
  /\ UNCHANGED <<catalog, registry, runtimes, epochs, stray>>

Connect(o) ==
  LET next == IF Kind(o, {"prepare"}) THEN "regenerate" ELSE "register"
  IN /\ At(o, "connect")
     /\ \/ /\ Mine(o).conn = "ready"
           /\ op' = [op EXCEPT ![o].at = next, ![o].generation = Mine(o).last]
           /\ UNCHANGED <<sessions, granted>>
        \/ /\ Mine(o).conn = "down" /\ Mine(o).last < MaxGenerations
           /\ sessions' = Connected(o)
           /\ op' = [op EXCEPT ![o].at = next, ![o].generation = Mine(o).last + 1]
           /\ UNCHANGED granted
        \/ Mine(o).conn # "ready" /\ Fails(o, sessions)
     /\ UNCHANGED <<catalog, life, registry, runtimes, bound, epochs, stray>>

(* The end of ConnectTarget: RegisterTarget, which may fail, or make a     *)
(* record under another identity when the target was removed.              *)
RecordTarget(o) ==
  /\ At(o, "register") /\ CatalogFree /\ LifeFree
  /\ \/ life.closed /\ Fails(o, sessions) /\ UNCHANGED catalog
     \/ ~life.closed /\ Fails(o, Down(sessions, op[o].session)) /\ UNCHANGED catalog
     \/ /\ ~life.closed /\ Proceeds(o, "publish generation")
        /\ catalog' = [catalog EXCEPT !.again = @ \/ ~catalog.target]
        /\ UNCHANGED <<sessions, granted>>
  /\ UNCHANGED <<life, registry, runtimes, bound, epochs, stray>>

PublishGeneration(o) ==
  /\ At(o, "publish generation") /\ LifeFree
  /\ \/ life.closed /\ Fails(o, Down(sessions, op[o].session))
     \/ /\ ~life.closed
        /\ Succeeds(o, [sessions EXCEPT ![op[o].session].generation = Generation(o)])
  /\ UNCHANGED <<catalog, life, registry, runtimes, bound, epochs, stray>>

-----------------------------------------------------------------------------
(* The rest of PrepareRootTrust.                                           *)

(* A runtime of an earlier generation, and what belongs to it, is dropped. *)
Regenerate(o) ==
  /\ At(o, "regenerate")
  /\ IF Mine(o).generation \notin {0, Generation(o)}
     THEN Unregister(o, "regen revoke") /\ UNCHANGED sessions
     ELSE /\ Proceeds(o, "probe") /\ UNCHANGED registry
          /\ sessions' = [sessions EXCEPT ![op[o].session].generation = Generation(o)]
  /\ UNCHANGED <<catalog, life, runtimes, granted, bound, epochs, stray>>

RegenerateFields(o) ==
  /\ At(o, "regen fields") /\ Proceeds(o, "probe") /\ UnbindTarget
  /\ sessions' = [Cleared(op[o].session) EXCEPT ![op[o].session].generation = Generation(o)]
  /\ UNCHANGED <<catalog, life, registry, runtimes, granted, epochs, stray>>

(* ProbePlatform; a connection lost meanwhile is made once more.           *)
Probe(o) ==
  LET s == op[o].session
  IN /\ At(o, "probe")
     /\ \/ /\ Mine(o).runtime # 0 \/ MineIsValid(o)
           /\ Proceeds(o, "candidate") /\ UNCHANGED <<sessions, granted, bound>>
        \/ /\ Mine(o).runtime = 0 /\ Mine(o).conn = "down" /\ Mine(o).last < MaxGenerations
           /\ sessions' = [Connected(o) EXCEPT ![s].generation = Mine(o).last + 1]
           /\ op' = [op EXCEPT ![o].generation = Mine(o).last + 1]
           /\ UNCHANGED <<granted, bound>>
        \/ /\ Mine(o).runtime = 0 /\ UnbindTarget
           /\ Fails(o, Down(Cleared(s), s))
     /\ UNCHANGED <<catalog, life, registry, runtimes, epochs, stray>>

(* One candidate per generation; that of an earlier one is dropped.        *)
DropCandidate(o) ==
  /\ At(o, "candidate") /\ LifeFree
  /\ IF life.pending # 0 /\ granted[life.pending].generation = Generation(o)
     THEN Fails(o, sessions) /\ UNCHANGED life
     ELSE /\ life' = [life EXCEPT !.pending = 0] /\ Released({life.pending})
          /\ Proceeds(o, "install") /\ UNCHANGED sessions
  /\ UNCHANGED <<catalog, registry, runtimes, bound, epochs, stray>>

Leased(r, g, owner) ==
  granted' = Append(granted, [runtime |-> r, generation |-> g, owner |-> owner,
                            released |-> FALSE, watch |-> "none"])

(* RuntimeLeaseSupervisor.AcquireTask: one lease per owner.                *)
MayLease(r, g, owner) ==
  /\ Len(granted) < MaxGranted /\ ~runtimes[r].closed /\ Valid(runtimes[r].session, g)
  /\ owner = "task" =>
       \A l \in DOMAIN granted : granted[l].owner = "task" /\ granted[l].runtime = r => ~LeaseLives(l)

LeaseCandidate(o) ==
  /\ At(o, "lease")
  /\ \/ /\ MayLease(Mine(o).runtime, Generation(o), "candidate")
        /\ Leased(Mine(o).runtime, Generation(o), "candidate") /\ UNCHANGED sessions
        /\ op' = [op EXCEPT ![o].at = "offer", ![o].lease = Len(granted) + 1]
     \/ Fails(o, sessions)
  /\ UNCHANGED <<catalog, life, registry, runtimes, bound, epochs, stray>>

OfferCandidate(o) ==
  /\ At(o, "offer") /\ LifeFree
  /\ IF life.closed THEN Unlocks(o, {op[o].lease}, sessions, AfterFailure(o)) /\ UNCHANGED life
     ELSE /\ life' = [life EXCEPT !.pending = op[o].lease]
          /\ Unlocks(o, {}, sessions, [op[o] EXCEPT !.at = "track"])
  /\ UNCHANGED <<catalog, registry, runtimes, bound, epochs, stray>>

-----------------------------------------------------------------------------
(* OpenWorkspace, and what it shares with the above: ensureRuntimeLocked,  *)
(* OpenRoot, BindWorkspace.                                                *)
GivesUp(o) == Fails(o, Rootless(op[o].session)) /\ UnbindTarget

Snapshot(o) ==
  /\ At(o, "snapshot")
  /\ IF Mine(o).conn = "ready"
     THEN /\ op' = [op EXCEPT ![o].at = "install", ![o].generation = Mine(o).last]
          /\ UNCHANGED <<sessions, granted>>
     ELSE Fails(o, sessions)
  /\ UNCHANGED <<catalog, life, registry, runtimes, bound, epochs, stray>>

Install(o) ==
  /\ At(o, "install") /\ LifeFree
  /\ \/ GivesUp(o)
     \/ /\ MineIsValid(o) /\ (life.closed => Mine(o).runtime # 0)
        /\ Proceeds(o, IF Mine(o).runtime # 0 THEN "open root" ELSE "register runtime")
        /\ UNCHANGED <<sessions, granted, bound>>
  /\ UNCHANGED <<catalog, life, registry, runtimes, epochs, stray>>

RegisterRuntime(o) ==
  /\ At(o, "register runtime")
  /\ \/ registry # 0 /\ GivesUp(o) /\ UNCHANGED <<registry, runtimes>>
     \/ /\ registry = 0 /\ Len(runtimes) < MaxRuntimes
        /\ runtimes' = Append(runtimes, [session |-> op[o].session, closed |-> FALSE])
        /\ registry' = Len(runtimes) + 1
        /\ op' = [op EXCEPT ![o].at = "adopt", ![o].runtime = Len(runtimes) + 1]
        /\ UNCHANGED <<sessions, granted, bound>>
  /\ UNCHANGED <<catalog, life, epochs, stray>>

AdoptRuntime(o) ==
  /\ At(o, "adopt") /\ LifeFree
  /\ IF life.closed THEN Unregister(o, "abandon") /\ UNCHANGED sessions
     ELSE /\ sessions' = [sessions EXCEPT ![op[o].session].runtime = op[o].runtime]
          /\ Proceeds(o, "open root") /\ UNCHANGED registry
  /\ UNCHANGED <<catalog, life, runtimes, granted, bound, epochs, stray>>

AbandonRuntime(o) ==
  /\ At(o, "give up") /\ GivesUp(o)
  /\ UNCHANGED <<catalog, life, registry, runtimes, epochs, stray>>

(* The helper refuses, or fails and the runtime is revoked.                *)
OpenRoot(o) ==
  /\ At(o, "open root")
  /\ \/ /\ MineIsValid(o) /\ ~runtimes[Mine(o).runtime].closed
        /\ Proceeds(o, IF Kind(o, {"prepare"}) THEN "lease" ELSE "bind")
        /\ UNCHANGED <<sessions, granted, bound>>
     \/ Mine(o).conn = "ready" /\ Fails(o, sessions) /\ UNCHANGED bound
     \/ Mine(o).conn # "ready" /\ GivesUp(o)
     \/ MineIsValid(o) /\ ~Kind(o, {"prepare"})
        /\ Fails(o, Down(Rootless(op[o].session), op[o].session)) /\ UnbindTarget
  /\ UNCHANGED <<catalog, life, registry, runtimes, epochs, stray>>

(* ErrHelperRootBindingChanged: the workspace is denied.  denyDrifted-     *)
(* Workspace takes the catalog; without the target nothing is denied.      *)
DenyDrifted(o) ==
  /\ At(o, "open root") /\ MineIsValid(o) /\ Kind(o, {"open", "reopen"}) /\ CatalogFree
  /\ sessions' = Down(Rootless(op[o].session), op[o].session) /\ UnbindTarget
  /\ op' = [op EXCEPT ![o].at = "revoke for catalog", ![o].runtime = registry]
  /\ UNCHANGED <<catalog, life, registry, runtimes, granted, epochs, stray>>

(* BindWorkspace checks the record and the binding, then takes its lock.   *)
CheckBinding(o) ==
  /\ At(o, "bind") /\ CatalogFree /\ LifeFree
  /\ IF ~life.closed /\ catalog.trust = "approve" /\ MineIsValid(o)
     THEN Proceeds(o, "attach") /\ UNCHANGED <<sessions, granted>>
     ELSE Fails(o, sessions)
  /\ UNCHANGED <<catalog, life, registry, runtimes, bound, epochs, stray>>

BindWorkspace(o) ==
  LET same == bound.generation = Generation(o) /\ bound.runtime = Mine(o).runtime
  IN /\ At(o, "attach") /\ CoordinatorFree
     /\ \/ same /\ Proceeds(o, "keep") /\ UNCHANGED <<sessions, granted, bound>>
        \/ /\ bound.generation < Generation(o) /\ Proceeds(o, "bind repository")
           /\ bound' = [Unbound EXCEPT !.lock = o, !.seen = bound.seen]
           /\ UNCHANGED <<sessions, granted>>
        \/ /\ ~same /\ bound.generation >= Generation(o)
           /\ Fails(o, sessions) /\ UNCHANGED bound
     /\ UNCHANGED <<catalog, life, registry, runtimes, epochs, stray>>

RepositoryBinds(o) ==
  catalog.trust = "approve" /\ MineIsValid(o) /\ Generation(o) > bound.seen

(* RepositoryService.bindRemoteWorkspace, under the coordinator's lock: it *)
(* looks the workspace up again, and takes a generation once.              *)
BindRepository(o) ==
  /\ At(o, "bind repository") /\ CatalogFree
  /\ IF RepositoryBinds(o)
     THEN /\ bound' = [Unbound EXCEPT !.generation = Generation(o), !.seen = Generation(o),
                                      !.runtime = Mine(o).runtime]
          /\ Proceeds(o, "keep") /\ UNCHANGED <<sessions, granted>>
     ELSE bound' = [bound EXCEPT !.lock = NoWorker] /\ Fails(o, sessions)
  /\ UNCHANGED <<catalog, life, registry, runtimes, epochs, stray>>

KeepRoot(o) ==
  /\ At(o, "keep") /\ LifeFree
  /\ IF life.closed THEN Fails(o, sessions) /\ UnbindTarget
     ELSE /\ Succeeds(o, [sessions EXCEPT ![op[o].session].root = Generation(o)])
          /\ UNCHANGED bound
  /\ UNCHANGED <<catalog, life, registry, runtimes, epochs, stray>>

-----------------------------------------------------------------------------
(* DecideRootTrust.                                                        *)
TakeCandidate(o) ==
  /\ At(o, "take") /\ LifeFree
  /\ IF life.pending = op[o].lease
     THEN /\ life' = [life EXCEPT !.pending = 0]
          /\ op' = [op EXCEPT ![o].at = "lock", ![o].session = LeaseSession(op[o].lease)]
     ELSE Ended(o) /\ UNCHANGED life
  /\ UNCHANGED <<catalog, sessions, registry, runtimes, granted, bound, epochs, stray>>

StillGood(o) ==
  /\ Mine(o).runtime # 0
  /\ Valid(op[o].session, granted[op[o].lease].generation)

ValidateCandidate(o) ==
  /\ At(o, "validate")
  /\ IF StillGood(o)
     THEN /\ op' = [op EXCEPT ![o].at = op[o].kind,
                              ![o].generation = granted[op[o].lease].generation]
          /\ UNCHANGED <<sessions, granted>>
     ELSE Fails(o, sessions)
  /\ UNCHANGED <<catalog, life, registry, runtimes, bound, epochs, stray>>

Approve(o) ==
  /\ At(o, "approve") /\ CatalogFree
  /\ \/ Fails(o, sessions) /\ UNCHANGED catalog
     \/ /\ catalog.target /\ Proceeds(o, "bind")
        /\ catalog' = [catalog EXCEPT !.trust = "approve"]
        /\ sessions' = [sessions EXCEPT ![op[o].session].provisional = FALSE]
        /\ UNCHANGED granted
  /\ UNCHANGED <<life, registry, runtimes, bound, epochs, stray>>

Deny(o) ==
  /\ At(o, "deny") /\ CatalogFree
  /\ IF catalog.target
     THEN /\ op' = [op EXCEPT ![o].at = "revoke for catalog", ![o].runtime = registry]
          /\ UNCHANGED <<sessions, granted>>
     ELSE Fails(o, sessions)
  /\ UNCHANGED <<catalog, life, registry, runtimes, bound, epochs, stray>>

-----------------------------------------------------------------------------
(* RemoteCatalogCoordinator: revoked, unbound, then recorded, all under    *)
(* the lock of the catalog.                                                *)
BeginRemoveWorkspace(o) ==
  /\ At(o, "lookup") /\ CatalogFree
  /\ IF catalog.trust \in {"approve", "deny"}
     THEN op' = [op EXCEPT ![o].at = "revoke for catalog", ![o].runtime = registry]
     ELSE Ended(o)
  /\ UNCHANGED <<catalog, life, sessions, registry, runtimes, granted, bound, epochs, stray>>

(* Mutant: the runtime outlives what is recorded.                          *)
RevokeNothing(r, closing) == UNCHANGED <<runtimes, sessions>>

RevokeForCatalog(r, closing) == Disconnected(r, closing)

RevokeBeforeRecord(o) ==
  /\ At(o, "revoke for catalog") /\ Proceeds(o, "persist")
  /\ RevokeForCatalog(op[o].runtime, Kind(o, {"remove"}))
  /\ UNCHANGED <<catalog, life, registry, granted, bound, epochs, stray>>

Record(o) ==
  /\ At(o, "persist") /\ UnbindTarget
  /\ \/ /\ Kind(o, {"deny"}) /\ catalog' = [catalog EXCEPT !.trust = "deny"]
        /\ Succeeds(o, [Rootless(op[o].session) EXCEPT
             ![op[o].session].generation = 0, ![op[o].session].provisional = FALSE])
     \/ /\ Kind(o, {"open", "reopen"}) /\ Fails(o, sessions)
        /\ catalog' = [catalog EXCEPT !.trust = "deny"]
     \/ /\ Kind(o, {"remove workspace"}) /\ Succeeds(o, sessions)
        /\ catalog' = [catalog EXCEPT !.trust = "none"]
     \/ /\ Kind(o, {"remove"}) /\ Proceeds(o, "drop") /\ UNCHANGED <<sessions, granted>>
        /\ catalog' = [catalog EXCEPT !.target = FALSE]
     \/ Fails(o, sessions) /\ UNCHANGED catalog     \* the file is not written
  /\ UNCHANGED <<life, registry, runtimes, epochs, stray>>

-----------------------------------------------------------------------------
(* RemoveTarget.                                                           *)
BeginRemove(o) ==
  /\ At(o, "check") /\ CatalogFree /\ LifeFree
  /\ IF life.closed \/ ~catalog.target THEN Ended(o)
     ELSE op' = [op EXCEPT ![o].at = IF life.session # 0 THEN "lock" ELSE "remove",
                           ![o].session = life.session]
  /\ UNCHANGED <<catalog, life, sessions, registry, runtimes, granted, bound, epochs, stray>>

RemoveTarget(o) ==
  /\ At(o, "remove") /\ CatalogFree
  /\ \/ /\ catalog.target /\ catalog.trust \in {"approve", "deny"}
        /\ Fails(o, sessions) /\ UNCHANGED registry
     \/ ~catalog.target /\ Proceeds(o, "drop") /\ UNCHANGED <<sessions, granted, registry>>
     \/ /\ catalog.target /\ catalog.trust \notin {"approve", "deny"}
        /\ Unregister(o, "revoke for catalog") /\ UNCHANGED <<sessions, granted>>
  /\ UNCHANGED <<catalog, life, runtimes, bound, epochs, stray>>

DropTarget(o) ==
  LET s == op[o].session
  IN /\ At(o, "drop") /\ LifeFree
     /\ life' = [life EXCEPT !.pending = 0, !.session = 0]
     /\ Succeeds(o, IF s = 0 THEN sessions ELSE ClosedConnection(Cleared(s), s))
     /\ stray' = NotSeen(o)
     /\ UNCHANGED <<catalog, registry, runtimes, bound, epochs>>

-----------------------------------------------------------------------------
(* DisconnectTarget.                                                       *)
DetachTarget(o) ==
  /\ At(o, "detach") /\ LifeFree
  /\ op' = [op EXCEPT ![o].at = "unregister", ![o].session = life.session]
  /\ life' = [life EXCEPT !.pending = 0] /\ Released({life.pending})
  /\ UNCHANGED <<catalog, sessions, registry, runtimes, bound, epochs, stray>>

UnregisterRuntime(o) ==
  /\ At(o, "unregister") /\ Unregister(o, "revoke")
  /\ UNCHANGED <<catalog, life, sessions, runtimes, granted, bound, epochs, stray>>

Cut(o) ==
  /\ At(o, "cut")
  /\ IF op[o].session = 0 THEN Proceeds(o, "unbind") /\ UNCHANGED sessions
     ELSE Proceeds(o, "lock") /\ sessions' = Down(sessions, op[o].session)
  /\ UNCHANGED <<catalog, life, registry, runtimes, granted, bound, epochs, stray>>

ClearSession(o) ==
  /\ At(o, "clear")
  /\ op' = [op EXCEPT ![o].at = "unbind", ![o].flag = Mine(o).provisional]
  /\ sessions' = [Cleared(op[o].session) EXCEPT ![op[o].session].lock = NoWorker]
  /\ UNCHANGED <<catalog, life, registry, runtimes, granted, bound, epochs, stray>>

(* A target that never got a workspace is removed again.                   *)
UnbindDisconnected(o) ==
  /\ At(o, "unbind") /\ UnbindTarget
  /\ op' = [op EXCEPT ![o] = IF op[o].flag THEN Starts("remove", "check") ELSE NoOperation]
  /\ UNCHANGED <<catalog, life, sessions, registry, runtimes, granted, epochs, stray>>

-----------------------------------------------------------------------------
(* AcquireTask, StopTask, watchTask.                                       *)
AcquireTask(o) ==
  /\ At(o, "acquire") /\ LifeFree
  /\ \/ /\ Mine(o).runtime # 0 /\ ~life.closed /\ life.task = 0
        /\ Valid(op[o].session, Mine(o).root)
        /\ MayLease(Mine(o).runtime, Mine(o).root, "task")
        /\ Leased(Mine(o).runtime, Mine(o).root, "task") /\ UNCHANGED sessions
        /\ life' = [life EXCEPT !.owner = o]
        /\ op' = [op EXCEPT ![o].at = "bind task", ![o].lease = Len(granted) + 1]
     \/ Fails(o, sessions) /\ UNCHANGED life
  /\ UNCHANGED <<catalog, registry, runtimes, bound, epochs, stray>>

BindsTo(l) ==
  /\ catalog.trust = "approve" /\ bound.generation = granted[l].generation
  /\ bound.task \in {0, l}

BindTask(o) ==
  LET l == op[o].lease
  IN /\ At(o, "bind task") /\ CatalogFree
     /\ \/ /\ CoordinatorFree /\ BindsTo(l) /\ bound' = [bound EXCEPT !.task = l]
           /\ life' = [life EXCEPT !.owner = NoWorker, !.task = l]
           /\ granted' = [granted EXCEPT ![l].watch = "on"]
           /\ sessions' = [sessions EXCEPT ![op[o].session].lock = NoWorker] /\ Ended(o)
        \/ /\ life' = [life EXCEPT !.owner = NoWorker] /\ UNCHANGED bound
           /\ Unlocks(o, {l}, sessions, NoOperation)
     /\ UNCHANGED <<catalog, registry, runtimes, epochs, stray>>

StopTask(o) ==
  /\ At(o, "stop") /\ LifeFree
  /\ IF life.task = 0 THEN Ended(o) /\ UNCHANGED life
     ELSE /\ life' = [life EXCEPT !.task = 0]
          /\ op' = [op EXCEPT ![o].at = "unbind task", ![o].lease = life.task]
  /\ UNCHANGED <<catalog, sessions, registry, runtimes, granted, bound, epochs, stray>>

UnbindTask(o) ==
  /\ At(o, "unbind task") /\ TaskUnbound(op[o].lease) /\ Proceeds(o, "release")
  /\ UNCHANGED <<catalog, life, sessions, registry, runtimes, granted, epochs, stray>>

ReleaseTask(o) ==
  /\ At(o, "release") /\ Released({op[o].lease})
  /\ IF Kind(o, {"stop"}) THEN Ended(o) ELSE Proceeds(o, "close target")
  /\ UNCHANGED <<catalog, life, sessions, registry, runtimes, bound, epochs, stray>>

WatchTask(l) ==
  /\ granted[l].watch = "on" /\ ~LeaseLives(l) /\ LifeFree
  /\ granted' = [granted EXCEPT ![l].watch = IF life.task = l THEN "unbind" ELSE "off"]
  /\ life' = [life EXCEPT !.task = IF @ = l THEN 0 ELSE @]
  /\ UNCHANGED <<catalog, sessions, registry, runtimes, bound, epochs, op, stray>>

UnbindWatched(l) ==
  /\ granted[l].watch = "unbind" /\ TaskUnbound(l)
  /\ granted' = [granted EXCEPT ![l].watch = "off"]
  /\ UNCHANGED <<catalog, life, sessions, registry, runtimes, epochs, op, stray>>

-----------------------------------------------------------------------------
(* Close of the life cycle and then of the registry, as main.go quits.     *)
CloseLifecycle(o) ==
  /\ At(o, "close") /\ LifeFree
  /\ IF life.closed THEN Ended(o) /\ UNCHANGED life
     ELSE /\ op' = [op EXCEPT ![o].at = "close attempts", ![o].session = life.session,
                              ![o].lease = life.task]
          /\ life' = [life EXCEPT !.closed = TRUE, !.session = 0, !.pending = 0, !.task = 0]
  /\ UNCHANGED <<catalog, sessions, registry, runtimes, granted, bound, epochs, stray>>

CloseAttempts(o) ==
  /\ At(o, "close attempts") /\ Proceeds(o, "unbind task")
  /\ sessions' = [s \in DOMAIN sessions |->
       IF s \in life.attempts THEN [sessions[s] EXCEPT !.conn = "closed"] ELSE sessions[s]]
  /\ UNCHANGED <<catalog, life, registry, runtimes, granted, bound, epochs, stray>>

CloseTarget(o) ==
  /\ At(o, "close target")
  /\ IF op[o].session = 0 THEN Proceeds(o, "quit") /\ UNCHANGED registry
     ELSE Unregister(o, "close revoke")
  /\ UNCHANGED <<catalog, life, sessions, runtimes, granted, bound, epochs, stray>>

CloseConnection(o) ==
  /\ At(o, "close connection") /\ Proceeds(o, "quit") /\ UnbindTarget
  /\ sessions' = ClosedConnection(sessions, op[o].session)
  /\ UNCHANGED <<catalog, life, registry, runtimes, granted, epochs, stray>>

CloseRegistry(o) ==
  /\ At(o, "quit") /\ Unregister(o, "quit revoke")
  /\ UNCHANGED <<catalog, life, sessions, runtimes, granted, bound, epochs, stray>>

-----------------------------------------------------------------------------
(* A connection drops; a helper ends, and with it the leases on it.        *)
ConnectionDrops(s) ==
  /\ sessions[s].conn = "ready" /\ sessions' = Down(sessions, s)
  /\ UNCHANGED <<catalog, life, registry, runtimes, granted, bound, epochs, op, stray>>

HelperEnds(r) ==
  /\ \E l \in DOMAIN granted : granted[l].runtime = r /\ ~granted[l].released
  /\ Released({l \in DOMAIN granted : granted[l].runtime = r})
  /\ UNCHANGED <<catalog, life, sessions, registry, runtimes, bound, epochs, op, stray>>

-----------------------------------------------------------------------------
LifecycleNext ==
  \/ \E o \in Workers :
       \/ \E k \in OperationKinds : BeginOperation(o, k)
       \/ Track(o) \/ FinishOperation(o) \/ BeginAttempt(o) \/ Dial(o) \/ RegisterNewTarget(o)
       \/ PublishSession(o) \/ Find(o) \/ Lock(o) \/ Clean(o) \/ RevokeRuntime(o)
       \/ CleanFields(o) \/ Connect(o) \/ RecordTarget(o) \/ PublishGeneration(o)
       \/ Regenerate(o) \/ RegenerateFields(o) \/ Probe(o) \/ DropCandidate(o)
       \/ LeaseCandidate(o) \/ OfferCandidate(o) \/ Snapshot(o) \/ Install(o)
       \/ RegisterRuntime(o) \/ AdoptRuntime(o) \/ AbandonRuntime(o) \/ OpenRoot(o)
       \/ DenyDrifted(o) \/ CheckBinding(o) \/ BindWorkspace(o)
       \/ BindRepository(o) \/ KeepRoot(o)
       \/ TakeCandidate(o) \/ ValidateCandidate(o) \/ Approve(o) \/ Deny(o)
       \/ BeginRemoveWorkspace(o) \/ RevokeBeforeRecord(o) \/ Record(o)
       \/ BeginRemove(o) \/ RemoveTarget(o) \/ DropTarget(o) \/ DetachTarget(o)
       \/ UnregisterRuntime(o) \/ Cut(o) \/ ClearSession(o) \/ UnbindDisconnected(o)
       \/ AcquireTask(o) \/ BindTask(o) \/ StopTask(o) \/ UnbindTask(o)
       \/ ReleaseTask(o) \/ CloseLifecycle(o) \/ CloseAttempts(o) \/ CloseTarget(o)
       \/ CloseConnection(o) \/ CloseRegistry(o)
  \/ \E l \in DOMAIN granted : WatchTask(l) \/ UnbindWatched(l)
  \/ \E s \in DOMAIN sessions : ConnectionDrops(s)
  \/ \E r \in DOMAIN runtimes : HelperEnds(r)

LifecycleSpec == LifecycleInit /\ [][LifecycleNext]_lifecycleVars

-----------------------------------------------------------------------------
AllEnded == /\ \A o \in Workers : At(o, "idle")
         /\ \A l \in DOMAIN granted : granted[l].watch \notin {"on", "unbind"} \/ LeaseLives(l)
Held(s) == s \notin stray
Serves == /\ bound.generation # 0
          /\ Valid(runtimes[bound.runtime].session, bound.generation)
          /\ Held(runtimes[bound.runtime].session)

(* What was denied, removed, disconnected or closed serves no more: once   *)
(* the operations have ended, what is bound and can still be reached       *)
(* belongs to an approved workspace and to the session the life cycle      *)
(* holds, every live lease is that of the candidate or of the task, and    *)
(* a closed life cycle leaves no connection; and a task whose lease is live*)
(* and whose runtime is registered is not that of a workspace recorded as  *)
(* denied or removed.  (A disconnect takes the runtime out of the registry *)
(* before it revokes; what a Connect that overlaps it makes with that      *)
(* runtime, a removal does not find.)  A session made while the target is  *)
(* removed is not followed.                                                *)
RevocationIsFinal ==
  /\ AllEnded =>
       /\ Serves => /\ catalog.trust = "approve" /\ ~life.closed
                    /\ runtimes[bound.runtime].session = life.session
       /\ \A l \in DOMAIN granted :
            LeaseLives(l) /\ Held(LeaseSession(l)) => l \in {life.pending, life.task}
       /\ life.closed => \A s \in DOMAIN sessions : Held(s) => sessions[s].conn # "ready"
  /\ \A l \in {bound.task, life.task} \ {0} :
       LeaseLives(l) /\ granted[l].runtime = registry => catalog.trust = "approve"

(* A user's disconnect wins over what was running: once the operations have*)
(* ended, a target that is connected was connected by an operation begun   *)
(* after the last disconnect, PrepareRootTrust's own reconnect excepted.   *)
DisconnectWins ==
  AllEnded /\ life.session # 0 /\ sessions[life.session].conn = "ready" =>
    LET connected == sessions[life.session]
    IN connected.asked >= epochs.cut \/ connected.by = "prepare"

(* A validated mutation of the catalog goes through ("a bounded helper     *)
(* shutdown error cannot preserve bindings or roll back an already         *)
(* validated catalog mutation", remotetrust.go): no operation holds the    *)
(* coordinator and waits for the catalog while another holds the catalog   *)
(* and waits for the coordinator.                                          *)
ValidatedMutationsPass ==
  \A o, p \in Workers : ~(At(o, "bind repository") /\ At(p, "persist"))
=============================================================================
